------------------------------- MODULE Sha512 -------------------------------
(***************************************************************************)
(* Sha512Core of crates/fastcrypto-core/src/sha512.rs and its two public   *)
(* newtypes, as operators on the value of the struct.  The source keeps    *)
(* the digest modules structurally identical, so the buffer protocol is    *)
(* Sha256's (here BLOCK_LEN is 128); what differs is defined here: initial *)
(* vectors per type, a length field of 128 bits over a byte counter of 64, *)
(* and a zeroize that clears the whole block.                              *)
(***************************************************************************)
EXTENDS Sha256

\* LEN_FIELD is the width of the byte counter; the length in bits is twice
\* as wide (u128 over u64 in the source).
LENGTH_LEN == 2 * LEN_FIELD

ASSUME WideAssumption == LENGTH_LEN + 1 <= BLOCK_LEN

\* 128 divides 2^128, which is no less than 2^64.
ASSUME WideWidthAssumption ==
  /\ \A i \in 0 .. LENGTH_LEN : BASE ^ i \in Nat \ {0}
  /\ BASE ^ LENGTH_LEN % BLOCK_LEN = 0
  /\ LEN_MOD <= BASE ^ LENGTH_LEN

\* The padding code with its wider length field: Wide!BitLen is the product
\* in u128, Wide!ToBeBytes is u128::to_be_bytes, Wide!UsedLen rounds
\* block_len + 17 up.
Wide == INSTANCE Sha256 WITH LEN_FIELD <- LENGTH_LEN

HashType == {"Sha512", "Sha384", "Sha512Core"}

\* IV_512, IV_384, and the state a caller of with_state brings along.
OwnIv == [Sha512 |-> "IV_512", Sha384 |-> "IV_384", Sha512Core |-> "caller"]

CoreIv(type) == [iv |-> OwnIv[type], absorbed |-> << >>]

CoreWithState(state) == FromState(state, 0)

\* Sha512::new, Sha384::new
CoreNew(type) == CoreWithState(CoreIv(type))

CoreUpdate(h, data) == Update(h, data)

\* Slip checked by a mutant run: the length field of SHA-256.
CoreFinalize_NarrowLength(h) == Finalize(h)

\* finalize_state
CoreFinalize(h) == Wide!Finalize(h)

\* Slip checked by a mutant run: only eight of the sixteen length bytes.
CoreScratchLeft_NarrowLength(h) ==
  Wipe(Wipe(Wide!Scratch(h), 0, h.block_len + 1),
       Wide!UsedLen(h) - LEN_FIELD, Wide!UsedLen(h))

CoreScratchLeft(h) == Wide!ScratchLeft(h)

\* Slip checked by a mutant run: the mark is lowered before it is used.
CoreReset_MarkFirst(h, state) ==
  [h EXCEPT !.state = state, !.block_len = 0, !.block_filled = 0, !.len = 0]

CoreReset(h, state) ==
  [WipeBlock(h) EXCEPT !.state = state,
     !.block_len = 0, !.block_filled = 0, !.len = 0]

\* Unlike Drop, zeroize does not rely on the mark.
CoreZeroize(h) ==
  [h EXCEPT !.state = ZERO_STATE, !.block = Zeros(BLOCK_LEN),
     !.block_len = 0, !.block_filled = 0, !.len = 0]

CoreDrop(h) == Drop(h)

\* The first n bytes of a digest: all of it, or its truncation.
DigestPrefix(chain, n) == [j \in 1 .. n |-> << "digest", chain, j >>]
=============================================================================
