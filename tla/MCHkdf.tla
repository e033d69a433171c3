------------------------------- MODULE MCHkdf -------------------------------
(***************************************************************************)
(* A small instance of Hkdf: the counter has two bits, so three blocks are *)
(* the most an expansion may have.  Lengths are zero, inside the first     *)
(* block, over its end, the most allowed, and one more.                    *)
(***************************************************************************)
EXTENDS Hkdf

Bytes(n) == [i \in 1 .. n |-> Lit(1 + (i % 2))]

MCSalts   == {<< >>, Bytes(BLOCK_LEN + 1)}
MCIkms    == {Bytes(3)}
MCPrks    == {Bytes(DIGEST_LEN)}
MCInfos   == {<< >>, Bytes(1), Bytes(4)}
MCLengths == {0, 1, DIGEST_LEN + 1, 3 * DIGEST_LEN, 3 * DIGEST_LEN + 1}
=============================================================================
