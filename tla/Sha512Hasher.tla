---------------------------- MODULE Sha512Hasher ----------------------------
(***************************************************************************)
(* A program's SHA-512 and SHA-384 hashers and bare Sha512Core values      *)
(* (crates/fastcrypto-core/src/sha512.rs), through any sequence of calls.  *)
(* The newtypes have no zeroize; the bare core has, and HMAC resumes bare  *)
(* cores from a mid-stream state.  The memory of a dropped hasher and the  *)
(* stack buffer of the last finalize stay in the model.                    *)
(***************************************************************************)
EXTENDS Sha512

CONSTANTS Handle,       \* the hashers of the program
          Chunks,       \* the inputs one update call may pass
          MaxLen        \* bound on the bytes one hasher absorbs

\* No message is as long as the byte counter can tell.
ASSUME InputAssumption ==
  Chunks \subseteq Seq(Byte) /\ MaxLen \in 0 .. LEN_MOD - 1

VARIABLES core,         \* core[h]: the memory of hasher h
          type,         \* type[h]: which of the three types h is
          status,       \* unused, live, wiped (live after zeroize), dropped
          returned,     \* what the last call returned
          scratch       \* the scratch buffer the last finalize left behind

vars == << core, type, status, returned, scratch >>

Alive == {h \in Handle : status[h] \in {"live", "wiped"}}

Nothing == [by |-> {}, digest |-> ZERO_STATE]

Init == /\ core = [h \in Handle |-> CoreDrop(CoreNew("Sha512"))]
        /\ type = [h \in Handle |-> "Sha512"]
        /\ status = [h \in Handle |-> "unused"]
        /\ returned = Nothing
        /\ scratch = Zeros(2 * BLOCK_LEN)

\* Hasher h of type t becomes value v; the call returns nothing.
Becomes(h, t, v, s) == /\ core' = [core EXCEPT ![h] = v]
                       /\ type' = [type EXCEPT ![h] = t]
                       /\ status' = [status EXCEPT ![h] = s]
                       /\ returned' = Nothing
                       /\ UNCHANGED scratch

DoNew(h, t) == h \notin Alive /\ Becomes(h, t, CoreNew(t), "live")

DoClone(h, g) == /\ h \notin Alive
                 /\ g \in Alive
                 /\ Becomes(h, type[g], core[g], status[g])

\* from_state(g.state(), g.count()) on a block boundary of g.
DoResume(h, g) ==
  /\ h \notin Alive
  /\ g \in Alive
  /\ type[g] = "Sha512Core" /\ core[g].block_len = 0
  /\ Becomes(h, type[g], FromState(core[g].state, core[g].len), status[g])

DoUpdate(h, data) ==
  /\ h \in Alive
  /\ Len(Contents(core[h])) + Len(data) <= MaxLen
  /\ Becomes(h, type[h], CoreUpdate(core[h], data), "live")

DoFinalize(h) == /\ h \in Alive
                 /\ returned' = [by |-> {h}, digest |-> CoreFinalize(core[h])]
                 /\ scratch' = CoreScratchLeft(core[h])
                 /\ UNCHANGED << core, type, status >>

\* Slip checked by a mutant run: Sha384 resets to the vector of SHA-512.
DoReset_SharedIv(h) ==
  /\ h \in Alive
  /\ Becomes(h, type[h], CoreReset(core[h], CoreIv("Sha512")), "live")

DoReset(h) ==
  /\ h \in Alive
  /\ Becomes(h, type[h], CoreReset(core[h], CoreIv(type[h])), "live")

DoZeroize(h) == /\ h \in Alive
                /\ type[h] = "Sha512Core"
                /\ Becomes(h, type[h], CoreZeroize(core[h]), "wiped")

DoDrop(h) == /\ h \in Alive
             /\ Becomes(h, type[h], CoreDrop(core[h]), "dropped")

Next == \E h \in Handle :
          \/ \E t \in HashType : DoNew(h, t)
          \/ \E g \in Handle : DoClone(h, g) \/ DoResume(h, g)
          \/ \E data \in Chunks : DoUpdate(h, data)
          \/ DoFinalize(h)
          \/ DoReset(h)
          \/ DoZeroize(h)
          \/ DoDrop(h)

Spec == Init /\ [][Next]_vars

(***************************************************************************)
(* Properties.                                                             *)
(***************************************************************************)
\* Every field keeps its type, and a newtype never runs on a vector that is
\* not its own.
TypeOK ==
  /\ type \in [Handle -> HashType]
  /\ status \in [Handle -> {"unused", "live", "wiped", "dropped"}]
  /\ \A h \in Handle :
       /\ core[h].state.iv \in {OwnIv[type[h]], "zero"}
       /\ core[h].block \in [1 .. BLOCK_LEN -> Byte]
       /\ core[h].block_len \in 0 .. BLOCK_LEN - 1
       /\ core[h].block_filled \in 0 .. BLOCK_LEN
       /\ core[h].len \in 0 .. LEN_MOD - 1
  /\ scratch \in [1 .. 2 * BLOCK_LEN -> Byte]

\* A dropped or zeroized hasher holds no byte it ever absorbed, whether its
\* block was cleared whole (zeroize) or to the mark (drop, reset before it).
WipedMemoryClean ==
  \A h \in Handle : status[h] \in {"dropped", "wiped"} =>
    /\ core[h].state = ZERO_STATE
    /\ core[h].block = Zeros(BLOCK_LEN)

\* The two wiped regions of finalize_state cover the tail, the delimiter and
\* all sixteen bytes of the length field.
ScratchCleared == scratch = Zeros(2 * BLOCK_LEN)

\* The comment on the field len: "u64 bytes cannot overflow it, so the high
\* half is always zero", said of the 128-bit length field.
HighHalfZero ==
  \A h \in Alive :
    LET field == Wide!ToBeBytes(Wide!BitLen(core[h].len))
    IN  SubSeq(field, 1, LEN_FIELD) = Zeros(LEN_FIELD)

\* Against StreamingHash, whose padding has the wide length field: digests
\* are those of FIPS 180-4 for the vector of the hasher's own type, however
\* the message was cut and whatever reset, clone or resume came before.
Own(h, state) == [state EXCEPT !.iv = IF @ = OwnIv[type[h]] THEN "H0" ELSE @]

Messages == [h \in Handle |->
  IF h \in Alive THEN [iv    |-> Own(h, core[h].state).iv,
                       bytes |-> Contents(core[h])]
                 ELSE [iv |-> "zero", bytes |-> << >>]]

Digests == [returned EXCEPT !.digest =
              IF returned.by = {} THEN @
              ELSE Own(CHOOSE h \in returned.by : TRUE, @)]

Promise == INSTANCE StreamingHash WITH
  LEN_FIELD <- LENGTH_LEN, alive <- Alive, msg <- Messages, returned <- Digests
ImplementsStreamingHash == Promise!ASpec
=============================================================================
