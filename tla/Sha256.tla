------------------------------- MODULE Sha256 -------------------------------
(***************************************************************************)
(* The incremental SHA-256 hasher of crates/fastcrypto-core/src/sha256.rs  *)
(* as operators on the value of the struct: one operator per method.       *)
(* Sha256Hasher runs them as a state machine, HmacSha256 embeds them.      *)
(*                                                                         *)
(* Data abstraction.                                                       *)
(*  - A byte the program writes as a number is the one-tuple Lit(n); other *)
(*    modules add bytes that are longer tuples (digest bytes, keyed pads), *)
(*    so bytes of different origin are never equal.                        *)
(*  - The eight-word chaining state is what the compression function makes *)
(*    it depend on: the initial vector and every byte compressed since.    *)
(*    Two chaining states are equal iff both agree, i.e. the compression   *)
(*    function is taken to be collision free.                              *)
(*  - Slices are sequences; buf[..n] of the source is positions 1..n.      *)
(*  - A byte has BITS bits, the length field LEN_FIELD bytes, the byte     *)
(*    counter wraps at LEN_MOD (the source: 8, 8 and 2^64).                *)
(***************************************************************************)
EXTENDS Integers, Sequences

CONSTANTS BLOCK_LEN,    \* bytes of a block (64 in the source)
          LEN_FIELD,    \* bytes of the length field (8)
          BITS          \* bits of a byte (8)

BASE    == 2 ^ BITS
LEN_MOD == BASE ^ LEN_FIELD

ASSUME BlockAssumption ==
  /\ BLOCK_LEN \in Nat \ {0}
  /\ LEN_FIELD \in Nat \ {0}
  /\ BITS \in Nat \ {0}
  /\ LEN_FIELD + 1 <= BLOCK_LEN

\* 64 divides 2^64: a wrapped byte count still tells the fill of the block.
ASSUME WidthAssumption ==
  /\ BASE \in Nat \ {0}
  /\ 2 ^ (BITS - 1) \in 0 .. BASE - 1
  /\ \A i \in 0 .. LEN_FIELD : BASE ^ i \in Nat \ {0}
  /\ LEN_MOD % BLOCK_LEN = 0

Lit(n) == << n >>
Byte   == {Lit(n) : n \in 0 .. BASE - 1}
ZERO   == Lit(0)
DELIM  == Lit(2 ^ (BITS - 1))           \* 0x80

Zeros(n) == [i \in 1 .. n |-> ZERO]

\* buf[at .. at + data.len()].copy_from_slice(data)
CopyFromSlice(buf, at, data) ==
  [i \in 1 .. Len(buf) |->
     IF i \in at + 1 .. at + Len(data) THEN data[i - at] ELSE buf[i]]

\* buf[from .. to].zeroize()
Wipe(buf, from, to) ==
  [i \in 1 .. Len(buf) |-> IF i \in from + 1 .. to THEN ZERO ELSE buf[i]]

AtLeast(a, b) == IF a >= b THEN a ELSE b
AtMost(a, b)  == IF a <= b THEN a ELSE b

\* n.to_be_bytes()
ToBeBytes(n) ==
  [i \in 1 .. LEN_FIELD |-> Lit((n \div BASE ^ (LEN_FIELD - i)) % BASE)]

(***************************************************************************)
(* The chaining state.                                                     *)
(***************************************************************************)
INITIAL_STATE == [iv |-> "H0", absorbed |-> << >>]
ZERO_STATE    == [iv |-> "zero", absorbed |-> << >>]

WholeLen(data) == Len(data) - (Len(data) % BLOCK_LEN)

\* Compressor::run: whole blocks only, a partial tail is left untouched.
Compress(state, blocks) ==
  [state EXCEPT !.absorbed = @ \o SubSeq(blocks, 1, WholeLen(blocks))]

(***************************************************************************)
(* The struct, over bytes B and initial vectors I.  Between two calls the  *)
(* block is never full.                                                    *)
(***************************************************************************)
ChainOver(I, B)  == [iv : I, absorbed : Seq(B)]
HasherOver(I, B) == [state        : ChainOver(I, B),
                     block        : [1 .. BLOCK_LEN -> B],
                     block_len    : 0 .. BLOCK_LEN - 1,
                     len          : 0 .. LEN_MOD - 1,
                     block_filled : 0 .. BLOCK_LEN]

Ivs         == {"H0", "zero"}
ChainOf(B)  == ChainOver(Ivs, B)
HasherOf(B) == HasherOver(Ivs, B)

\* A hasher of messages the program writes as literal bytes.
Chain  == ChainOf(Byte)
Hasher == HasherOf(Byte)

\* The bytes a hasher stands for: those compressed, then those buffered.
Contents(h) == h.state.absorbed \o SubSeq(h.block, 1, h.block_len)

FromState(state, consumed) ==
  [state        |-> state,
   block        |-> Zeros(BLOCK_LEN),
   block_len    |-> 0,
   len          |-> consumed,
   block_filled |-> 0]

New == FromState(INITIAL_STATE, 0)

\* Slip checked by a mutant run: the mark follows the fill down again.
Buffer_MarkFollowsFill(h, at, data) ==
  [h EXCEPT !.block        = CopyFromSlice(@, at, data),
            !.block_len    = at + Len(data),
            !.block_filled = at + Len(data)]

\* Copy bytes behind the first `at` of the block and raise the mark.
Buffer(h, at, data) ==
  [h EXCEPT !.block        = CopyFromSlice(@, at, data),
            !.block_len    = at + Len(data),
            !.block_filled = AtLeast(@, at + Len(data))]

\* Slip checked by a mutant run: the fill survives the compression.
Flush_KeepsFill(h) == [h EXCEPT !.state = Compress(@, h.block)]

\* The completed partial block goes through the compressor.
Flush(h) == [h EXCEPT !.state = Compress(@, h.block), !.block_len = 0]

\* Whole blocks straight from the caller's slice, the tail into the block.
Absorb(h, data) ==
  LET whole == WholeLen(data)
      run   == [h EXCEPT !.state = Compress(@, SubSeq(data, 1, whole))]
      tail  == SubSeq(data, whole + 1, Len(data))
  IN  IF tail = << >> THEN run ELSE Buffer(run, 0, tail)

\* Slip checked by a mutant run: the counter saturates where it must wrap.
Counted_Saturating(h, data) ==
  [h EXCEPT !.len = AtMost(@ + Len(data), LEN_MOD - 1)]

Counted(h, data) == [h EXCEPT !.len = (@ + Len(data)) % LEN_MOD]

Update(h, data) ==
  LET take   == AtMost(BLOCK_LEN - h.block_len, Len(data))
      joined == Buffer(Counted(h, data), h.block_len, SubSeq(data, 1, take))
  IN  CASE h.block_len = 0             -> Absorb(Counted(h, data), data)
        [] h.block_len > 0 /\ joined.block_len < BLOCK_LEN -> joined
        [] OTHER -> Absorb(Flush(joined), SubSeq(data, take + 1, Len(data)))

(***************************************************************************)
(* finalize_into works in a two-block scratch buffer on its stack.         *)
(***************************************************************************)
BitLen(len) == (len * BITS) % LEN_MOD

\* Slip checked by a mutant run: the delimiter is not counted.
UsedLen_NoDelimiter(h) ==
  ((h.block_len + LEN_FIELD + BLOCK_LEN - 1) \div BLOCK_LEN) * BLOCK_LEN

\* Tail, delimiter and length field, rounded up to whole blocks.
UsedLen(h) ==
  ((h.block_len + 1 + LEN_FIELD + BLOCK_LEN - 1) \div BLOCK_LEN) * BLOCK_LEN
LenAt(h) == UsedLen(h) - LEN_FIELD

Scratch(h) ==
  LET tail  == CopyFromSlice(Zeros(2 * BLOCK_LEN), 0,
                             SubSeq(h.block, 1, h.block_len))
      delim == CopyFromSlice(tail, h.block_len, << DELIM >>)
  IN  CopyFromSlice(delim, LenAt(h), ToBeBytes(BitLen(h.len)))

\* The chaining state whose words are the digest.
Finalize(h) == Compress(h.state, SubSeq(Scratch(h), 1, UsedLen(h)))

\* Slip checked by a mutant run: the length is wiped where a one-block
\* message has it.
ScratchLeft_OneBlock(h) ==
  Wipe(Wipe(Scratch(h), 0, h.block_len + 1), BLOCK_LEN - LEN_FIELD, BLOCK_LEN)

\* The scratch buffer as finalize_into leaves it: two wiped regions.
ScratchLeft(h) ==
  Wipe(Wipe(Scratch(h), 0, h.block_len + 1), LenAt(h), LenAt(h) + LEN_FIELD)

\* Slip checked by a mutant run: only the current tail is wiped.
WipeBlock_TailOnly(h) == [h EXCEPT !.block = Wipe(@, 0, h.block_len)]

WipeBlock(h) == [h EXCEPT !.block = Wipe(@, 0, h.block_filled)]

Reset(h) ==
  [WipeBlock(h) EXCEPT !.state = INITIAL_STATE,
     !.block_len = 0, !.block_filled = 0, !.len = 0]

\* Zeroize::zeroize leaves a usable hasher on the all-zero chaining state.
Zeroize(h) ==
  [WipeBlock(h) EXCEPT !.state = ZERO_STATE,
     !.block_len = 0, !.block_filled = 0, !.len = 0]

\* Drop wipes the secret memory and nothing else.
Drop(h) == [WipeBlock(h) EXCEPT !.state = ZERO_STATE]
=============================================================================
