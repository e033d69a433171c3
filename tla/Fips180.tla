------------------------------ MODULE Fips180 ------------------------------
(***************************************************************************)
(* The hash function itself, as FIPS 180-4 defines it on a whole message:  *)
(* what the incremental hasher and the constructions over it are compared  *)
(* with.  Nothing here mentions a buffer, a counter or a call boundary.    *)
(***************************************************************************)
EXTENDS Sha256

\* A message absorbed from initial vector iv.
Message(iv, bytes) == [iv |-> iv, bytes |-> bytes]

\* Section 5.1.1: delimiter, fewest zeros, length in bits.
Padding(n) == << DELIM >> \o Zeros((-(n + 1 + LEN_FIELD)) % BLOCK_LEN)
                          \o ToBeBytes((n * BITS) % LEN_MOD)

Digest(m) == [iv |-> m.iv, absorbed |-> m.bytes \o Padding(Len(m.bytes))]
=============================================================================
