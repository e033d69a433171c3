-------------------------- MODULE MCKeySchedule384 --------------------------
(***************************************************************************)
(* A small instance of KeySchedule384: blocks of eight bytes, digests of   *)
(* three truncated to two, an output counter that numbers three blocks.    *)
(* One key of a block, one longer; a chained output block, label and       *)
(* counter end on a block boundary; lengths of none, a cut second block,   *)
(* and one over the limit.                                                 *)
(***************************************************************************)
EXTENDS KeySchedule384, TLC

Bytes(n) == [i \in 1 .. n |-> Lit(1 + (i % 2))]

MCKeys    == {Bytes(n) : n \in {BLOCK_LEN, BLOCK_LEN + 1}}
MCChunks  == {Bytes(6)}
MCSalts   == {<< >>}
MCIkms    == {Bytes(3)}
MCPrks    == {Bytes(SHA384_DIGEST_LEN)}
MCInfos   == {Bytes(5)}
MCLengths == {0, PRK_LEN + 1, MAX_OUTPUT_LEN + 1}

MCSymmetry == Permutations(Handle)
=============================================================================
