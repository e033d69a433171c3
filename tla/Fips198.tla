------------------------------ MODULE Fips198 ------------------------------
(***************************************************************************)
(* HMAC of a whole message, as RFC 2104 and FIPS 198-1 define it.          *)
(***************************************************************************)
EXTENDS Hmac, Fips180

CONSTANT H0     \* the initial vector of the hash function

Hash(bytes) == Digest(Message(H0, bytes))

\* Section 4, steps 1 to 3: the key made one block long.
K0(key) ==
  LET short == IF Len(key) > BLOCK_LEN THEN DigestBytes(Hash(key)) ELSE key
  IN  short \o Zeros(BLOCK_LEN - Len(short))

\* Steps 4 to 10, for the key block k0.
Tag(k0, msg) ==
  Hash(XorInto("opad", k0)
         \o DigestBytes(Hash(XorInto("ipad", k0) \o msg)))
=============================================================================
