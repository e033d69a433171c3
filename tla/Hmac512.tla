------------------------------- MODULE Hmac512 -------------------------------
(***************************************************************************)
(* HmacSha512 and HmacSha384 of crates/fastcrypto-core/src/hmac512.rs: one *)
(* Core over Sha512Core, given the initial vector and the tag length of    *)
(* its type.  Key pads, digest bytes and ct_eq are those of Hmac; here     *)
(* DIGEST_LEN is SHA512_DIGEST_LEN.                                        *)
(***************************************************************************)
EXTENDS Hmac, Sha512

CONSTANT SHA384_DIGEST_LEN      \* 48 of the 64 bytes

ASSUME TruncationAssumption == SHA384_DIGEST_LEN \in 1 .. DIGEST_LEN

MacType == {"HmacSha512", "HmacSha384"}

TAG_LEN == [HmacSha512 |-> DIGEST_LEN, HmacSha384 |-> SHA384_DIGEST_LEN]

\* The hash function behind each type.
HashOf == [HmacSha512 |-> "Sha512", HmacSha384 |-> "Sha384"]

\* The hash_key closure, on the zeroed 64-byte digest buffer.
HashKey(t, key) ==
  LET digest == CoreFinalize(CoreUpdate(CoreNew(HashOf[t]), key))
  IN  CopyFromSlice(Zeros(DIGEST_LEN), 0, DigestPrefix(digest, TAG_LEN[t]))

\* Slip checked by a mutant run: a key of exactly one block is hashed, too.
CoreKeyBlock_HashesFullBlock(t, key) ==
  CopyFromSlice(Zeros(BLOCK_LEN), 0,
                IF Len(key) >= BLOCK_LEN THEN HashKey(t, key) ELSE key)

CoreKeyBlock(t, key) ==
  CopyFromSlice(Zeros(BLOCK_LEN), 0,
                IF Len(key) > BLOCK_LEN THEN HashKey(t, key) ELSE key)

\* Core::new; the live hasher is rebuilt from the state behind the key block.
CoreKeyed(t, key) ==
  LET after(pad) ==
        CoreUpdate(CoreNew(HashOf[t]), XorInto(pad, CoreKeyBlock(t, key))).state
  IN  [inner       |-> FromState(after("ipad"), PREFIX_LEN),
       inner_state |-> after("ipad"),
       outer_state |-> after("opad")]

CoreMacUpdate(m, data) == [m EXCEPT !.inner = CoreUpdate(@, data)]

\* Slip checked by a mutant run: the inner digest enters the outer pass
\* whole, so that HMAC-SHA384 is a truncated MAC.
CoreMacFinalize_Untruncated(t, m) ==
  CoreFinalize(CoreUpdate(FromState(m.outer_state, PREFIX_LEN),
                          DigestPrefix(CoreFinalize(m.inner), DIGEST_LEN)))

\* The inner digest is cut to the tag length before the outer pass.
CoreMacFinalize(t, m) ==
  CoreFinalize(CoreUpdate(FromState(m.outer_state, PREFIX_LEN),
                          DigestPrefix(CoreFinalize(m.inner), TAG_LEN[t])))

\* finalize_into: the tag's bytes.
TagBytes(t, m) == DigestPrefix(CoreMacFinalize(t, m), TAG_LEN[t])

CoreVerify(t, m, tag) == CtEq(TagBytes(t, m), tag)

\* Slip checked by a mutant run: the key block is not counted.
CoreMacReset_NoPrefix(m) == [m EXCEPT !.inner = FromState(m.inner_state, 0)]

CoreMacReset(m) == [m EXCEPT !.inner = FromState(m.inner_state, PREFIX_LEN)]

\* Slip checked by a mutant run: the state behind the opad block is left.
CoreMacDrop_InnerOnly(m) ==
  [m EXCEPT !.inner = CoreDrop(@), !.inner_state = ZERO_STATE]

\* Core's own Drop, then that of its field inner.
CoreMacDrop(m) == [inner       |-> CoreDrop(m.inner),
                   inner_state |-> ZERO_STATE,
                   outer_state |-> ZERO_STATE]

\* No zeroize here: the live hasher has always absorbed its prefix.
CoreMacCount(m) == (m.inner.len - PREFIX_LEN) % LEN_MOD

\* hmac_sha512, hmac_sha384
OneShotMac(t, key, message) == TagBytes(t, CoreMacUpdate(CoreKeyed(t, key), message))
=============================================================================
