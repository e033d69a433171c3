--------------------------- MODULE MCSha256Hasher ---------------------------
(***************************************************************************)
(* Small instances of Sha256Hasher.  Chunk lengths straddle the block:     *)
(* empty, one byte, one short of, and more than a block; no chunk is all   *)
(* zeros, so a byte left behind is seen.                                   *)
(***************************************************************************)
EXTENDS Sha256Hasher, TLC

\* One chunk of each given length, its last byte telling the length.
ChunkOf(n) == [i \in 1 .. n |-> Lit(IF i = n THEN 1 ELSE 2 + (n % 2))]

\* Blocks of four bytes.
MCChunksShort == {ChunkOf(n) : n \in {0, 1, 3, 6}}

\* Blocks of eight bytes, a two-byte length field.
MCChunksLong == {ChunkOf(n) : n \in {1, 5, 8, 11}}

MCSymmetry == Permutations(Handle)
=============================================================================
