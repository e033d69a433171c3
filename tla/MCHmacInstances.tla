-------------------------- MODULE MCHmacInstances --------------------------
(***************************************************************************)
(* Small instances of HmacInstances: blocks of four bytes, digests of two. *)
(* Keys of every kind: shorter than a block, a block, and longer, which    *)
(* is hashed first.                                                        *)
(***************************************************************************)
EXTENDS HmacInstances, TLC

KeyOf(n)   == [i \in 1 .. n |-> Lit(1 + (i % 2))]
ChunkOf(n) == [i \in 1 .. n |-> Lit(IF i = n THEN 1 ELSE 3)]

MCKeys   == {KeyOf(n) : n \in {1, BLOCK_LEN, BLOCK_LEN + 1}}
MCChunks == {ChunkOf(n) : n \in {2, 3}}

MCSymmetry == Permutations(Handle)
=============================================================================
