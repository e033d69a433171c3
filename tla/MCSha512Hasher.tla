--------------------------- MODULE MCSha512Hasher ---------------------------
(***************************************************************************)
(* Small instances of Sha512Hasher: a byte counter of one digit, a length  *)
(* field of two, so four message bytes already reach its high half.        *)
(***************************************************************************)
EXTENDS Sha512Hasher, TLC

ChunkOf(n) == [i \in 1 .. n |-> Lit(IF i = n THEN 1 ELSE 3)]

\* Inside a block, one short of it, and over two boundaries.
MCChunks == {ChunkOf(n) : n \in {1, 3, 6}}

MCSymmetry == Permutations(Handle)
=============================================================================
