---------------------------- MODULE Sha256Hasher ----------------------------
(***************************************************************************)
(* A program's SHA-256 hashers (crates/fastcrypto-core/src/sha256.rs) run  *)
(* through any sequence of the public calls: new, clone, update, finalize, *)
(* reset, zeroize, drop, and the crate-internal resume from a mid-stream   *)
(* state that HMAC uses.  The model keeps the memory of a dropped hasher   *)
(* and the stack buffer the last finalize left, to say what they hold.     *)
(***************************************************************************)
EXTENDS Sha256

CONSTANTS Handle,       \* the hashers of the program
          Chunks,       \* the inputs one update call may pass
          MaxLen        \* bound on the bytes one hasher absorbs

ASSUME InputAssumption == Chunks \subseteq Seq(Byte) /\ MaxLen \in Nat

VARIABLES hasher,       \* hasher[h]: the memory of hasher h
          status,       \* unused, live, wiped (live after zeroize), dropped
          returned,     \* what the last call returned
          scratch       \* the scratch buffer the last finalize left behind

vars == << hasher, status, returned, scratch >>

Alive == {h \in Handle : status[h] \in {"live", "wiped"}}

Nothing == [by |-> {}, digest |-> ZERO_STATE]

Init == /\ hasher = [h \in Handle |-> Drop(New)]
        /\ status = [h \in Handle |-> "unused"]
        /\ returned = Nothing
        /\ scratch = Zeros(2 * BLOCK_LEN)

\* Hasher h becomes value v; the call returns nothing.
Becomes(h, v, s) == /\ hasher' = [hasher EXCEPT ![h] = v]
                    /\ status' = [status EXCEPT ![h] = s]
                    /\ returned' = Nothing
                    /\ UNCHANGED scratch

DoNew(h) == h \notin Alive /\ Becomes(h, New, "live")

\* derive(Clone): every field is copied, the whole block included.
DoClone(h, g) == /\ h \notin Alive
                 /\ g \in Alive
                 /\ Becomes(h, hasher[g], "live")

\* from_state(g.state(), consumed) on a block boundary of g.
DoResume(h, g) == /\ h \notin Alive
                  /\ g \in Alive
                  /\ hasher[g].block_len = 0
                  /\ Becomes(h, FromState(hasher[g].state, hasher[g].len), "live")

DoUpdate(h, data) == /\ h \in Alive
                     /\ Len(Contents(hasher[h])) + Len(data) <= MaxLen
                     /\ Becomes(h, Update(hasher[h], data), "live")

DoFinalize(h) == /\ h \in Alive
                 /\ returned' = [by |-> {h}, digest |-> Finalize(hasher[h])]
                 /\ scratch' = ScratchLeft(hasher[h])
                 /\ UNCHANGED << hasher, status >>

DoReset(h)   == h \in Alive /\ Becomes(h, Reset(hasher[h]), "live")

DoZeroize(h) == h \in Alive /\ Becomes(h, Zeroize(hasher[h]), "wiped")

DoDrop(h)    == h \in Alive /\ Becomes(h, Drop(hasher[h]), "dropped")

Next == \E h \in Handle :
          \/ DoNew(h)
          \/ \E g \in Handle : DoClone(h, g)
          \/ \E g \in Handle : DoResume(h, g)
          \/ \E data \in Chunks : DoUpdate(h, data)
          \/ DoFinalize(h)
          \/ DoReset(h)
          \/ DoZeroize(h)
          \/ DoDrop(h)

Spec == Init /\ [][Next]_vars

(***************************************************************************)
(* Properties.                                                             *)
(***************************************************************************)
\* Every field of every hasher has its type, block_len short of a block.
TypeOK ==
  /\ hasher \in [Handle -> Hasher]
  /\ status \in [Handle -> {"unused", "live", "wiped", "dropped"}]
  /\ returned \in [by : SUBSET Handle, digest : Chain]
  /\ scratch \in [1 .. 2 * BLOCK_LEN -> Byte]

\* The two counters describe the bytes actually held, whatever the calls
\* that brought them and even after the 64-bit counter wrapped: len is the
\* message length modulo LEN_MOD, block_len its remainder, and len alone still
\* tells the remainder, which is what from_state asserts of `consumed`.
CountersTrackMessage ==
  \A h \in Alive :
    LET n == Len(Contents(hasher[h]))
    IN  /\ hasher[h].len = n % LEN_MOD
        /\ hasher[h].block_len = n % BLOCK_LEN
        /\ hasher[h].block_len = hasher[h].len % BLOCK_LEN

\* The doc of block_filled: positions above the high-water mark still hold
\* the zero of the creation, and nothing buffered lies above it.  Drop,
\* zeroize and reset rely on it when they wipe only block[..block_filled].
ResidueBelowMark ==
  \A h \in Handle :
    /\ hasher[h].block_len <= hasher[h].block_filled
    /\ \A i \in hasher[h].block_filled + 1 .. BLOCK_LEN : hasher[h].block[i] = ZERO

\* A hasher that was dropped or zeroized holds no byte of any message it
\* ever absorbed, earlier messages before a reset included.
WipedMemoryClean ==
  \A h \in Handle : status[h] \in {"dropped", "wiped"} =>
    /\ hasher[h].state = ZERO_STATE
    /\ hasher[h].block = Zeros(BLOCK_LEN)

\* The two regions finalize_into wipes cover everything it wrote into its
\* scratch buffer: tail, delimiter and length field, in one block or two.
ScratchCleared == scratch = Zeros(2 * BLOCK_LEN)

\* Against StreamingHash: the digest depends on the bytes alone and not on
\* how update calls cut them, finalize disturbs nothing, clones do not
\* share, and the padding written in place is that of FIPS 180-4.
MessageOf(v) == [iv |-> v.state.iv, bytes |-> Contents(v)]
Absent       == [iv |-> "zero", bytes |-> << >>]
Messages     == [h \in Handle |-> IF h \in Alive THEN MessageOf(hasher[h])
                                                 ELSE Absent]

Promise == INSTANCE StreamingHash WITH alive <- Alive, msg <- Messages
ImplementsStreamingHash == Promise!ASpec
=============================================================================
