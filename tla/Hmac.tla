-------------------------------- MODULE Hmac --------------------------------
(***************************************************************************)
(* HmacSha256 of crates/fastcrypto-core/src/hmac.rs as operators on the    *)
(* value of the struct, built on the operators of Sha256.                  *)
(*                                                                         *)
(* A digest byte is << "digest", chain, j >>, byte j of the digest that    *)
(* chaining state chain stands for; the pad byte that xor_into makes of    *)
(* key byte b is << "ipad", b >> or << "opad", b >>.  A tag is named by    *)
(* the chaining state whose words are its bytes.                           *)
(***************************************************************************)
EXTENDS Sha256

CONSTANT DIGEST_LEN     \* bytes of a digest (32 in the source)

ASSUME DigestAssumption == DIGEST_LEN \in 1 .. BLOCK_LEN

\* Bytes already absorbed when a key block has been mixed in.
PREFIX_LEN == BLOCK_LEN

ASSUME PrefixAssumption == PREFIX_LEN < LEN_MOD

DigestBytes(chain) == [j \in 1 .. DIGEST_LEN |-> << "digest", chain, j >>]

\* Slip checked by a mutant run: the key overwrites the pad.
XorInto_Overwrites(pad, k) == [i \in 1 .. BLOCK_LEN |-> k[i]]

XorInto(pad, k) == [i \in 1 .. BLOCK_LEN |-> << pad, k[i] >>]

\* Slip checked by a mutant run: a key of exactly one block is hashed, too.
KeyBlock_HashesFullBlock(key) ==
  CopyFromSlice(Zeros(BLOCK_LEN), 0,
    IF Len(key) >= BLOCK_LEN THEN DigestBytes(Finalize(Update(New, key))) ELSE key)

\* The zero-padded key block; only a key longer than a block is hashed.
KeyBlock(key) ==
  CopyFromSlice(Zeros(BLOCK_LEN), 0,
    IF Len(key) > BLOCK_LEN THEN DigestBytes(Finalize(Update(New, key))) ELSE key)

\* HmacSha256::with_compressor
WithKey(key) ==
  LET inner == Update(New, XorInto("ipad", KeyBlock(key)))
      outer == Update(New, XorInto("opad", KeyBlock(key)))
  IN  [inner       |-> inner,
       inner_state |-> inner.state,
       outer_state |-> outer.state]

MacUpdate(m, data) == [m EXCEPT !.inner = Update(@, data)]

\* finalize_into leaves the instance as it was.
MacFinalize(m) ==
  Finalize(Update(FromState(m.outer_state, PREFIX_LEN),
                  DigestBytes(Finalize(m.inner))))

\* ct_eq: the differences of all bytes accumulate.
CtEq(a, b) ==
  Len(a) = Len(b) /\ {i \in 1 .. Len(a) : a[i] # b[i]} = {}

Verify(m, tag) == CtEq(DigestBytes(MacFinalize(m)), DigestBytes(tag))

\* Slip checked by a mutant run: the key block is not counted.
MacReset_NoPrefix(m) == [m EXCEPT !.inner = FromState(m.inner_state, 0)]

MacReset(m) == [m EXCEPT !.inner = FromState(m.inner_state, PREFIX_LEN)]

\* Slip checked by a mutant run: only the live hasher is cleared.
MacZeroize_InnerOnly(m) == [m EXCEPT !.inner = Zeroize(@)]

MacZeroize(m) == [inner       |-> Zeroize(m.inner),
                  inner_state |-> ZERO_STATE,
                  outer_state |-> ZERO_STATE]

\* HmacSha256's own Drop, then the drop of its field inner.
MacDrop(m) == [inner       |-> Drop(m.inner),
               inner_state |-> ZERO_STATE,
               outer_state |-> ZERO_STATE]

\* count() as a release build computes it: the subtraction wraps.
Count(m) == (m.inner.len - PREFIX_LEN) % LEN_MOD
=============================================================================
