------------------------------ MODULE Rfc5869 ------------------------------
(***************************************************************************)
(* HKDF over HMAC-SHA256 as RFC 5869 defines it on whole inputs, and what  *)
(* the derivation objects of crates/fastcrypto-core/src/hkdf.rs promise in *)
(* its terms: every expansion is the OKM of the PRK, the label and the     *)
(* length alone, whatever was derived before, and an oversized request is  *)
(* refused without effect.                                                 *)
(***************************************************************************)
EXTENDS Fips198

CONSTANTS Expander,     \* the prepared expanders of the program
          Salts, Ikms,  \* the inputs of extract
          Prks,         \* pseudorandom keys supplied ready-made
          Infos,        \* labels
          Lengths       \* requested output lengths

VARIABLES key,          \* the PRK of the HkdfSha256 object, or NoKey
          keyed,        \* keyed[e]: the key block of expander e, or NoKey
          answer        \* what the last expansion answered

avars == << key, keyed, answer >>

NoKey    == << >>
MaxBytes == (BASE - 1) * DIGEST_LEN
NoAnswer == [ok |-> TRUE, okm |-> << >>]
Refused(n) == [ok |-> FALSE, okm |-> Zeros(n)]

\* Section 2.2.
Prk(salt, ikm) == DigestBytes(Tag(K0(salt), ikm))

\* Section 2.3, for the key block k0 of the PRK: T(0), T(1), ...
Okm(k0, info, n) ==
  LET T[i \in 0 .. (n + DIGEST_LEN - 1) \div DIGEST_LEN] ==
        IF i = 0 THEN << >>
        ELSE DigestBytes(Tag(k0, T[i - 1] \o info \o << Lit(i) >>))
  IN  [j \in 1 .. n |-> T[((j - 1) \div DIGEST_LEN) + 1]
                         [((j - 1) % DIGEST_LEN) + 1]]

Answer(k0, info, n) ==
  IF n > MaxBytes THEN Refused(n) ELSE [ok |-> TRUE, okm |-> Okm(k0, info, n)]

AInit == /\ key = NoKey
         /\ keyed = [e \in Expander |-> NoKey]
         /\ answer = NoAnswer

ASetKey(k) == key' = k /\ answer' = NoAnswer /\ UNCHANGED keyed

APrepare(e, k0) == /\ keyed' = [keyed EXCEPT ![e] = k0]
                   /\ answer' = NoAnswer
                   /\ UNCHANGED key

AExpand(k0, info, n) == /\ answer' = Answer(k0, info, n)
                        /\ UNCHANGED << key, keyed >>

ANext ==
  \/ \E salt \in Salts, ikm \in Ikms : key = NoKey /\ ASetKey(Prk(salt, ikm))
  \/ \E prk \in Prks : key = NoKey /\ ASetKey(prk)
  \/ key # NoKey /\ ASetKey(Zeros(DIGEST_LEN))
  \/ key # NoKey /\ ASetKey(NoKey)
  \/ \E e \in Expander :
       \/ key # NoKey /\ keyed[e] = NoKey /\ APrepare(e, K0(key))
       \/ keyed[e] # NoKey /\ APrepare(e, NoKey)
  \/ \E info \in Infos, n \in Lengths :
       \/ key # NoKey /\ AExpand(K0(key), info, n)
       \/ \E e \in Expander : keyed[e] # NoKey /\ AExpand(keyed[e], info, n)

ASpec == AInit /\ [][ANext]_avars
=============================================================================
