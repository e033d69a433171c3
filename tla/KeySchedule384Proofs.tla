------------------------ MODULE KeySchedule384Proofs ------------------------
(***************************************************************************)
(* Theorems about KeySchedule384: its invariants hold and it implements    *)
(* StreamingMac over SHA-512 and over SHA-384, and Rfc5869 over SHA-384,   *)
(* for every block and digest length, truncation, width and input.         *)
(***************************************************************************)
EXTENDS KeySchedule384, HashLemmas

\* The lemmas about padding, for the wide length field.
W == INSTANCE HashLemmas WITH LEN_FIELD <- LENGTH_LEN

\* The vectors of the three types besides those of Sha256's operators.
CoreIvs == Ivs \cup {"IV_512", "IV_384", "caller"}

\* The vector an HMAC of type t hashes from, and the type an object of any
\* of the three kinds is keyed as.
IvOf(t)    == OwnIv[HashOf[t]]
KeyType(t) == IF t = Expander THEN "HmacSha384" ELSE t

\* A whole message in the hash of type t, its digest in the length of that
\* type, and the key block and the tag of RFC 2104 over them.
PadTo(n) == << W!DELIM >> \o Zeros((-(n + 1 + LENGTH_LEN)) % BLOCK_LEN)
                          \o W!ToBeBytes((n * BITS) % W!LEN_MOD)

HashOn(t, bytes)   == [iv |-> IvOf(t), absorbed |-> bytes \o PadTo(Len(bytes))]
DigestOn(t, bytes) == DigestPrefix(HashOn(t, bytes), TAG_LEN[t])

K0On(t, key) ==
  LET short == IF Len(key) > BLOCK_LEN THEN DigestOn(t, key) ELSE key
  IN  short \o Zeros(BLOCK_LEN - Len(short))

TagOn(t, k0, msg) ==
  HashOn(t, XorInto("opad", k0) \o DigestOn(t, XorInto("ipad", k0) \o msg))

\* A message that the byte counter can tell, behind a key block.
Room(msg) == PREFIX_LEN + Len(msg) < LEN_MOD

\* An object of type t that holds key block k0 and has absorbed msg.
Holds(t, m, k0, msg) == Keyed(CoreIvs, IvOf(t), m, k0, msg) /\ Room(msg)

-----------------------------------------------------------------------------
(***************************************************************************)
(* The wide length field.                                                  *)
(***************************************************************************)
\* Sizes that every proof below needs.
LEMMA CoreSizes ==
  /\ IvSet(CoreIvs) /\ ByteSet(Byte) /\ BLOCK_LEN \in Nat \ {0}
  /\ LEN_MOD \in Nat \ {0} /\ LENGTH_LEN \in Nat \ {0}
  /\ PREFIX_LEN = BLOCK_LEN /\ PREFIX_LEN \in Nat
  /\ DIGEST_LEN \in Nat \ {0} /\ DIGEST_LEN <= BLOCK_LEN
  /\ PRK_LEN \in Nat \ {0} /\ PRK_LEN <= DIGEST_LEN /\ PRK_LEN = SHA384_DIGEST_LEN
  /\ \A t \in MacType : /\ TAG_LEN[t] \in Nat \ {0} /\ TAG_LEN[t] <= DIGEST_LEN
                        /\ IvOf(t) \in CoreIvs
  /\ TAG_LEN["HmacSha384"] = PRK_LEN /\ "HmacSha384" \in MacType
  /\ IvOf("HmacSha512") = "IV_512" /\ IvOf("HmacSha384") = "IV_384"
<1>1. /\ IvSet(CoreIvs) /\ ByteSet(Byte) /\ BLOCK_LEN \in Nat \ {0}
      /\ LENGTH_LEN \in Nat \ {0}
  BY BlockAssumption DEF IvSet, CoreIvs, ByteSet, LENGTH_LEN
<1>2. /\ DIGEST_LEN \in Nat \ {0} /\ DIGEST_LEN <= BLOCK_LEN
      /\ SHA384_DIGEST_LEN \in Nat \ {0} /\ SHA384_DIGEST_LEN <= DIGEST_LEN
  BY <1>1, DigestAssumption, TruncationAssumption
<1>3. IvOf("HmacSha512") = "IV_512" /\ IvOf("HmacSha384") = "IV_384"
  BY DEF IvOf, OwnIv, HashOf
<1>4. TAG_LEN["HmacSha512"] = DIGEST_LEN /\ TAG_LEN["HmacSha384"] = SHA384_DIGEST_LEN
  BY DEF TAG_LEN
<1> QED BY <1>1, <1>2, <1>3, <1>4, LenModType DEF MacType, CoreIvs, PREFIX_LEN, PRK_LEN

\* The assumptions on the constants hold of the wide length field, too.
LEMMA WideAssumptions ==
  /\ W!BlockAssumption /\ W!WidthAssumption
  /\ W!DigestAssumption /\ W!PrefixAssumption
  /\ LEN_MOD <= W!LEN_MOD /\ W!LEN_MOD \in Nat \ {0}
<1>1. W!BlockAssumption
  BY CoreSizes, BlockAssumption, WideAssumption DEF W!BlockAssumption
<1>2. W!BASE = BASE /\ W!LEN_MOD = BASE ^ LENGTH_LEN
  BY DEF W!BASE, BASE, W!LEN_MOD
<1>3. W!WidthAssumption
  BY <1>2, WidthAssumption, WideWidthAssumption DEF W!WidthAssumption
<1>4. LENGTH_LEN \in 0 .. LENGTH_LEN
  BY CoreSizes
<1>5. LEN_MOD <= W!LEN_MOD /\ W!LEN_MOD \in Nat \ {0}
  BY <1>2, <1>4, WideWidthAssumption
<1>6. W!PrefixAssumption
  <2>1. PREFIX_LEN = BLOCK_LEN /\ W!PREFIX_LEN = BLOCK_LEN
    BY DEF PREFIX_LEN, W!PREFIX_LEN
  <2> QED BY <1>5, <2>1, CoreSizes, PrefixAssumption DEF W!PrefixAssumption
<1>7. W!DigestAssumption
  BY DigestAssumption DEF W!DigestAssumption
<1> QED BY <1>1, <1>3, <1>5, <1>6, <1>7

\* What does not depend on the width is the same on both sides.
LEMMA SharedOperators ==
  /\ \A n : W!Zeros(n) = Zeros(n)
  /\ \A h : W!Contents(h) = Contents(h)
  /\ \A h : W!ChainAligned(h) <=> ChainAligned(h)
  /\ \A h : Wide!Finalize(h) = W!Finalize(h)
  /\ \A B : W!ByteSet(B) <=> ByteSet(B)
<1>1. \A n : W!Zeros(n) = Zeros(n) /\ Wide!Zeros(n) = W!Zeros(n)
  BY DEF W!Zeros, Wide!Zeros, Zeros, W!ZERO, Wide!ZERO, ZERO, W!Lit, Wide!Lit, Lit
<1>2. \A h : Wide!UsedLen(h) = W!UsedLen(h) /\ Wide!LenAt(h) = W!LenAt(h)
  BY DEF Wide!UsedLen, W!UsedLen, Wide!LenAt, W!LenAt
<1>3. \A n : Wide!ToBeBytes(n) = W!ToBeBytes(n)
  BY DEF Wide!ToBeBytes, W!ToBeBytes, Wide!BASE, W!BASE, Wide!Lit, W!Lit
<1>4. \A n : Wide!BitLen(n) = W!BitLen(n)
  BY DEF Wide!BitLen, W!BitLen, Wide!LEN_MOD, W!LEN_MOD, Wide!BASE, W!BASE
<1>5. Wide!DELIM = W!DELIM
  BY DEF Wide!DELIM, W!DELIM, Wide!Lit, W!Lit
<1>6. \A b, a, d : Wide!CopyFromSlice(b, a, d) = W!CopyFromSlice(b, a, d)
  BY DEF Wide!CopyFromSlice, W!CopyFromSlice
<1>7. \A h : Wide!Scratch(h) = W!Scratch(h)
  BY <1>1, <1>2, <1>3, <1>4, <1>5, <1>6 DEF Wide!Scratch, W!Scratch
<1>8. \A c, b : Wide!Compress(c, b) = W!Compress(c, b)
  BY DEF Wide!Compress, W!Compress, Wide!WholeLen, W!WholeLen
<1>9. \A h : Wide!Finalize(h) = W!Finalize(h)
  BY <1>2, <1>7, <1>8 DEF Wide!Finalize, W!Finalize
<1>10. W!Byte = Byte
  BY DEF W!Byte, Byte, W!BASE, BASE, W!Lit, Lit
<1> QED BY <1>1, <1>9, <1>10
        DEF W!Contents, Contents, W!ChainAligned, ChainAligned, W!ByteSet, ByteSet

\* A core is a hasher of the wide lemmas.
LEMMA WideCore ==
  ASSUME NEW B, NEW v \in HasherOver(CoreIvs, B)
  PROVE  v \in W!HasherOver(CoreIvs, B)
<1>1. LEN_MOD <= W!LEN_MOD /\ LEN_MOD \in Nat /\ W!LEN_MOD \in Nat
  BY WideAssumptions, CoreSizes
<1>2. v.len \in 0 .. W!LEN_MOD - 1
  BY <1>1 DEF HasherOver
<1> QED BY <1>1, <1>2 DEF HasherOver, ChainOver, W!HasherOver, W!ChainOver

\* A count below the bound of both counters wraps in neither.
LEMMA NoWrap ==
  ASSUME NEW n \in Nat, n < LEN_MOD
  PROVE  n % LEN_MOD = n /\ n % W!LEN_MOD = n
<1>1. /\ LEN_MOD \in Nat \ {0} /\ W!LEN_MOD \in Nat \ {0} /\ LEN_MOD <= W!LEN_MOD
  BY WideAssumptions, CoreSizes
<1>2. ASSUME NEW m \in Nat \ {0}, n < m PROVE n % m = n
  <2>1. n = m * 0 + n /\ 0 \in Int /\ n \in 0 .. m - 1
    BY <1>2
  <2> QED BY <2>1, RemainderUnique
<1> QED BY <1>1, <1>2

\* finalize_state is the hash of the contents, if they were counted without
\* wrapping: the 64-bit counter then stands for the 128-bit length.
LEMMA CoreFinalizeIsHash ==
  ASSUME NEW B, ByteSet(B), NEW v \in HasherOver(CoreIvs, B), Tracks(v),
         NEW t, v.state.iv = IvOf(t), Len(Contents(v)) < LEN_MOD
  PROVE  CoreFinalize(v) = HashOn(t, Contents(v))
<1> DEFINE n == Len(Contents(v))
<1>1. v \in W!HasherOver(CoreIvs, B) /\ W!ChainAligned(v) /\ W!ByteSet(B)
  BY WideCore, SharedOperators DEF Tracks
<1>2. n \in Nat
  BY ContentsType
<1>3. v.len = n % LEN_MOD
  BY DEF Tracks
<1>4. v.len = Len(W!Contents(v)) % W!LEN_MOD
  <2> HIDE DEF n
  <2>1. v.len = n % W!LEN_MOD
    BY <1>2, <1>3, NoWrap DEF n
  <2> QED BY <2>1, SharedOperators DEF n
<1>5. LET k   == Len(W!Contents(v))
          pad == << W!DELIM >> \o W!Zeros((-(k + 1 + LENGTH_LEN)) % BLOCK_LEN)
                               \o W!ToBeBytes((k * BITS) % W!LEN_MOD)
      IN  W!Finalize(v) = [iv |-> v.state.iv, absorbed |-> W!Contents(v) \o pad]
  BY <1>1, <1>4, WideAssumptions, W!FinalizePads
<1> QED BY <1>5, SharedOperators DEF CoreFinalize, HashOn, PadTo

-----------------------------------------------------------------------------
(***************************************************************************)
(* Digests, key blocks and tags.                                           *)
(***************************************************************************)
DigestSet(c, n) == {"digest"} \X {c} \X (1 .. n)

LEMMA DigestPrefixType ==
  ASSUME NEW c, NEW n \in Nat
  PROVE  /\ DigestPrefix(c, n) \in [1 .. n -> DigestSet(c, n)]
         /\ DigestPrefix(c, n) \in Seq(DigestSet(c, n)) /\ Len(DigestPrefix(c, n)) = n
<1>1. DigestPrefix(c, n) \in [1 .. n -> DigestSet(c, n)]
  BY DEF DigestPrefix, DigestSet
<1> QED BY <1>1, FunctionIsSequence

\* Two digests of which a byte is known are told apart by it.
LEMMA DigestPrefixInjective ==
  ASSUME NEW a, NEW b, NEW n \in Nat \ {0}, DigestPrefix(a, n) = DigestPrefix(b, n)
  PROVE  a = b
<1>1. 1 \in 1 .. n
  OBVIOUS
<1>2. DigestPrefix(a, n)[1] = << "digest", a, 1 >> /\ DigestPrefix(b, n)[1] = << "digest", b, 1 >>
  BY <1>1 DEF DigestPrefix
<1> QED BY <1>2

\* ct_eq of two tags, possibly of different lengths.
LEMMA CtEqOfTags ==
  ASSUME NEW a, NEW b, NEW n \in Nat \ {0}, NEW k \in Nat \ {0}
  PROVE  CtEq(DigestPrefix(a, n), DigestPrefix(b, k)) <=> (n = k /\ a = b)
<1>1. Len(DigestPrefix(a, n)) = n /\ Len(DigestPrefix(b, k)) = k
  BY DigestPrefixType
<1>2. ASSUME n = k, {i \in 1 .. n : DigestPrefix(a, n)[i] # DigestPrefix(b, k)[i]} = {}
      PROVE  a = b
  <2>1. DigestPrefix(a, n) = [i \in 1 .. n |-> DigestPrefix(a, n)[i]]
    BY DEF DigestPrefix
  <2>2. DigestPrefix(b, n) = [i \in 1 .. n |-> DigestPrefix(b, n)[i]]
    BY DEF DigestPrefix
  <2>3. \A i \in 1 .. n : DigestPrefix(a, n)[i] = DigestPrefix(b, n)[i]
    BY <1>2
  <2>4. DigestPrefix(a, n) = DigestPrefix(b, n)
    BY <2>1, <2>2, <2>3
  <2> QED BY <2>4, DigestPrefixInjective
<1> QED BY <1>1, <1>2 DEF CtEq

\* Hashing in one call.
LEMMA CoreHashOnce ==
  ASSUME NEW t \in MacType, NEW B, ByteSet(B), NEW data \in Seq(B), Len(data) < LEN_MOD
  PROVE  CoreFinalize(CoreUpdate(CoreNew(HashOf[t]), data)) = HashOn(t, data)
<1> DEFINE c == CoreIv(HashOf[t])   f == FromState(c, 0)   v == Update(f, data)
<1>1. c \in ChainOver(CoreIvs, B) /\ c.absorbed = << >> /\ c.iv = IvOf(t)
  BY CoreSizes DEF CoreIv, ChainOver, IvOf
<1>2. 0 \in 0 .. LEN_MOD - 1
  BY CoreSizes
<1>3. CoreUpdate(CoreNew(HashOf[t]), data) = v
  BY DEF CoreNew, CoreWithState, CoreUpdate
<1> HIDE DEF c
<1>4. f \in HasherOver(CoreIvs, B) /\ BufferSound(f) /\ f.state = c /\ f.len = 0 /\ f.block_len = 0
  BY <1>1, <1>2, FromStateSound
<1> HIDE DEF f
<1>5. Tracks(f) /\ Contents(f) = << >>
  BY <1>1, <1>4, AtStart
<1>6. /\ v \in HasherOver(CoreIvs, B) /\ Tracks(v) /\ v.state.iv = f.state.iv
      /\ Contents(v) = Contents(f) \o data
  <2>1. f \in HasherOver(CoreIvs, B) /\ BufferSound(f) /\ Tracks(f)
    BY <1>4, <1>5
  <2>2. /\ Update(f, data) \in HasherOver(CoreIvs, B) /\ Tracks(Update(f, data))
        /\ Update(f, data).state.iv = f.state.iv
        /\ Contents(Update(f, data)) = Contents(f) \o data
    BY <2>1, UpdateTracks
  <2> QED BY <2>2
<1>7. << >> \o data = data
  BY ConcatEmptySeq
<1> HIDE DEF v
<1>8. v.state.iv = IvOf(t) /\ Contents(v) = data
  BY <1>1, <1>4, <1>5, <1>6, <1>7
<1>9. CoreFinalize(v) = HashOn(t, Contents(v))
  BY <1>6, <1>8, CoreFinalizeIsHash
<1> QED BY <1>3, <1>8, <1>9

\* Zeros after zeros.
LEMMA ZerosJoin ==
  ASSUME NEW a \in Nat, NEW b \in Nat
  PROVE  Zeros(a) \o Zeros(b) = Zeros(a + b)
<1>1. ZERO \in {ZERO}
  OBVIOUS
<1>2. /\ Zeros(a) \in [1 .. a -> {ZERO}] /\ Zeros(b) \in [1 .. b -> {ZERO}]
      /\ Zeros(a + b) \in [1 .. a + b -> {ZERO}]
  BY DEF Zeros
<1>3. /\ Zeros(a) \in Seq({ZERO}) /\ Len(Zeros(a)) = a
      /\ Zeros(b) \in Seq({ZERO}) /\ Len(Zeros(b)) = b
      /\ Zeros(a + b) \in Seq({ZERO}) /\ Len(Zeros(a + b)) = a + b
  BY <1>2, FunctionIsSequence
<1> DEFINE z == Zeros(a) \o Zeros(b)
<1>4. z \in Seq({ZERO}) /\ Len(z) = a + b
  BY <1>3
<1> HIDE DEF z
<1>5. \A i \in 1 .. a + b : z[i] = ZERO /\ Zeros(a + b)[i] = ZERO
  BY <1>3, <1>4, ElementOfSeq
<1>6. z = Zeros(a + b)
  BY <1>3, <1>4, <1>5, SeqEqual
<1> QED BY <1>6 DEF z

-----------------------------------------------------------------------------
(***************************************************************************)
(* Keying.                                                                 *)
(***************************************************************************)
\* A short digest is padded twice, to a digest buffer and to a block.
LEMMA PaddedTwice ==
  ASSUME NEW B, ByteSet(B), NEW d \in Seq(B), Len(d) <= DIGEST_LEN
  PROVE  LET buf == CopyFromSlice(Zeros(DIGEST_LEN), 0, d)
         IN  /\ CopyFromSlice(Zeros(BLOCK_LEN), 0, buf) \in [1 .. BLOCK_LEN -> B]
             /\ CopyFromSlice(Zeros(BLOCK_LEN), 0, buf) = d \o Zeros(BLOCK_LEN - Len(d))
<1> DEFINE n   == Len(d)
           buf == CopyFromSlice(Zeros(DIGEST_LEN), 0, d)
           a   == DIGEST_LEN - n
           b   == BLOCK_LEN - DIGEST_LEN
<1>1. /\ DIGEST_LEN \in Nat \ {0} /\ BLOCK_LEN \in Nat \ {0} /\ DIGEST_LEN <= BLOCK_LEN
      /\ n \in Nat
  BY CoreSizes, LenProperties
<1>2. buf \in [1 .. DIGEST_LEN -> B] /\ buf = d \o Zeros(a)
  BY <1>1, ZeroPadded
<1> HIDE DEF buf
<1>3. buf \in Seq(B) /\ Len(buf) = DIGEST_LEN
  BY <1>1, <1>2, FunctionIsSequence
<1>4. /\ CopyFromSlice(Zeros(BLOCK_LEN), 0, buf) \in [1 .. BLOCK_LEN -> B]
      /\ CopyFromSlice(Zeros(BLOCK_LEN), 0, buf) = buf \o Zeros(b)
  BY <1>1, <1>3, ZeroPadded
<1>5. a \in Nat /\ b \in Nat /\ a + b = BLOCK_LEN - n
  BY <1>1
<1> HIDE DEF a, b, n
<1>6. Zeros(a) \in Seq(B) /\ Zeros(b) \in Seq(B)
  <2>1. Zeros(a) \in [1 .. a -> B] /\ Zeros(b) \in [1 .. b -> B]
    BY <1>5, ZerosType
  <2> QED BY <1>5, <2>1, FunctionIsSequence
<1>7. buf \o Zeros(b) = d \o (Zeros(a) \o Zeros(b))
  BY <1>2, <1>6, ConcatAssociative
<1>8. Zeros(a) \o Zeros(b) = Zeros(BLOCK_LEN - n)
  BY <1>5, ZerosJoin
<1> QED BY <1>4, <1>7, <1>8 DEF buf, n

\* The key block is that of RFC 2104: one block of key or digest bytes.
LEMMA CoreKeyBlockIsK0 ==
  ASSUME NEW t \in MacType, NEW B, ByteSet(B), NEW key \in Seq(B), Len(key) < LEN_MOD
  PROVE  /\ CoreKeyBlock(t, key) = K0On(t, key)
         /\ \E C : ByteSet(C) /\ K0On(t, key) \in [1 .. BLOCK_LEN -> C]
<1> DEFINE d == DigestOn(t, key)   n == TAG_LEN[t]   c == HashOn(t, key)
<1>1. /\ n \in Nat \ {0} /\ n <= DIGEST_LEN /\ BLOCK_LEN \in Nat /\ Len(key) \in Nat
  BY CoreSizes, LenProperties
<1>2. HashKey(t, key) = CopyFromSlice(Zeros(DIGEST_LEN), 0, d)
  BY CoreHashOnce DEF HashKey, DigestOn
<1>3. CASE Len(key) > BLOCK_LEN
  <2> DEFINE C == Byte \cup DigestSet(c, n)
  <2>1. ByteSet(C) /\ DigestSet(c, n) \subseteq C
    BY DEF ByteSet
  <2>2. d \in Seq(DigestSet(c, n)) /\ Len(d) = n
    BY <1>1, DigestPrefixType DEF DigestOn
  <2> HIDE DEF C, d
  <2>3. d \in Seq(C)
    BY <2>1, <2>2, SeqMonotone
  <2>4. /\ CopyFromSlice(Zeros(BLOCK_LEN), 0, HashKey(t, key)) \in [1 .. BLOCK_LEN -> C]
        /\ CopyFromSlice(Zeros(BLOCK_LEN), 0, HashKey(t, key))
             = d \o Zeros(BLOCK_LEN - Len(d))
    BY <1>1, <1>2, <2>1, <2>2, <2>3, PaddedTwice
  <2>5. K0On(t, key) = d \o Zeros(BLOCK_LEN - Len(d))
    BY <1>3 DEF K0On, d
  <2>6. CoreKeyBlock(t, key) = CopyFromSlice(Zeros(BLOCK_LEN), 0, HashKey(t, key))
    BY <1>3 DEF CoreKeyBlock
  <2> QED BY <2>1, <2>4, <2>5, <2>6
<1>4. CASE ~(Len(key) > BLOCK_LEN)
  <2>1. Len(key) <= BLOCK_LEN
    BY <1>1, <1>4
  <2>2. /\ CopyFromSlice(Zeros(BLOCK_LEN), 0, key) \in [1 .. BLOCK_LEN -> B]
        /\ CopyFromSlice(Zeros(BLOCK_LEN), 0, key) = key \o Zeros(BLOCK_LEN - Len(key))
    BY <1>1, <2>1, ZeroPadded
  <2>3. K0On(t, key) = key \o Zeros(BLOCK_LEN - Len(key))
    BY <1>4 DEF K0On
  <2>4. CoreKeyBlock(t, key) = CopyFromSlice(Zeros(BLOCK_LEN), 0, key)
    BY <1>4 DEF CoreKeyBlock
  <2> QED BY <2>2, <2>3, <2>4
<1> QED BY <1>3, <1>4

\* Core::new leaves an HMAC on the states behind its two key pads.
LEMMA CoreKeyedIs ==
  ASSUME NEW t \in MacType, NEW key, NEW B,
         CoreKeyBlock(t, key) \in [1 .. BLOCK_LEN -> B]
  PROVE  CoreKeyed(t, key) = KeyedWith(IvOf(t), CoreKeyBlock(t, key))
<1> DEFINE k0 == CoreKeyBlock(t, key)   v == IvOf(t)
           new == FromState([iv |-> v, absorbed |-> << >>], 0)
<1>1. ASSUME NEW p \in Pads
      PROVE  Update(new, XorInto(p, k0)).state = PadState(v, p, k0)
  <2>1. XorInto(p, k0) \in Seq(PadOf(B)) /\ Len(XorInto(p, k0)) = BLOCK_LEN
    BY XorIntoType
  <2> DEFINE x == XorInto(p, k0)
  <2> HIDE DEF x, v
  <2>2. Update(new, x) = FromState([iv |-> v, absorbed |-> x], PREFIX_LEN)
    BY <2>1, UpdateOneBlock DEF x
  <2>3. Update(new, x).state = [iv |-> v, absorbed |-> x]
    BY <2>2 DEF FromState
  <2> QED BY <2>3 DEF PadState, x
<1>2. "ipad" \in Pads /\ "opad" \in Pads
  BY DEF Pads
<1>3. CoreNew(HashOf[t]) = new
  BY DEF CoreNew, CoreWithState, CoreIv, IvOf
<1> HIDE DEF new, k0, v
<1>4. /\ CoreUpdate(CoreNew(HashOf[t]), XorInto("ipad", k0)).state = PadState(v, "ipad", k0)
      /\ CoreUpdate(CoreNew(HashOf[t]), XorInto("opad", k0)).state = PadState(v, "opad", k0)
  BY <1>1, <1>2, <1>3 DEF CoreUpdate
<1> QED BY <1>4 DEF CoreKeyed, KeyedWith, k0, v

\* So it holds its key block and the empty message.
LEMMA CoreKeyedHolds ==
  ASSUME NEW t \in MacType, NEW B, ByteSet(B), NEW key \in Seq(B), Len(key) < LEN_MOD
  PROVE  Holds(t, CoreKeyed(t, key), K0On(t, key), << >>)
<1> DEFINE k0 == K0On(t, key)   v == IvOf(t)
<1>1. CoreKeyBlock(t, key) = k0
  BY CoreKeyBlockIsK0
<1>2. PICK C : ByteSet(C) /\ k0 \in [1 .. BLOCK_LEN -> C]
  BY CoreKeyBlockIsK0
<1> HIDE DEF k0
<1>3. CoreKeyed(t, key) = KeyedWith(v, k0)
  BY <1>1, <1>2, CoreKeyedIs
<1>4. v \in CoreIvs
  BY CoreSizes
<1> HIDE DEF v
<1>5. Keyed(CoreIvs, v, KeyedWith(v, k0), k0, << >>)
  BY <1>2, <1>4, KeyedWithHolds
<1>6. Room(<< >>)
  BY CoreSizes, PrefixAssumption DEF Room
<1> QED BY <1>3, <1>5, <1>6 DEF Holds, k0, v

-----------------------------------------------------------------------------
(***************************************************************************)
(* The calls on an object that holds a key.                                *)
(***************************************************************************)
LEMMA HoldsUpdate ==
  ASSUME NEW t, NEW m, NEW k0, NEW msg, Holds(t, m, k0, msg),
         NEW data, Bytes(data), Room(msg \o data)
  PROVE  Holds(t, CoreMacUpdate(m, data), k0, msg \o data)
<1> DEFINE v == IvOf(t)
<1>1. Keyed(CoreIvs, v, m, k0, msg)
  BY DEF Holds
<1>2. CoreMacUpdate(m, data) = MacUpdate(m, data)
  BY DEF CoreMacUpdate, MacUpdate, CoreUpdate
<1> HIDE DEF v
<1>3. Keyed(CoreIvs, v, MacUpdate(m, data), k0, msg \o data)
  BY <1>1, KeyedUpdate
<1> QED BY <1>2, <1>3 DEF Holds, v

LEMMA HoldsReset ==
  ASSUME NEW t \in MacType, NEW m, NEW k0, NEW msg, Holds(t, m, k0, msg)
  PROVE  Holds(t, CoreMacReset(m), k0, << >>)
<1> DEFINE v == IvOf(t)
<1>1. Keyed(CoreIvs, v, m, k0, msg) /\ v \in CoreIvs
  BY CoreSizes DEF Holds
<1>2. CoreMacReset(m) = MacReset(m)
  BY DEF CoreMacReset, MacReset
<1> HIDE DEF v
<1>3. Keyed(CoreIvs, v, MacReset(m), k0, << >>)
  BY <1>1, KeyedReset
<1>4. Room(<< >>)
  BY CoreSizes, PrefixAssumption DEF Room
<1> QED BY <1>2, <1>3, <1>4 DEF Holds, v

\* The hasher of the outer pass.
LEMMA OuterHasher ==
  ASSUME NEW t \in MacType, NEW B, NEW k0 \in [1 .. BLOCK_LEN -> B],
         NEW C, ByteSet(C), PadOf(B) \subseteq C
  PROVE  LET h == FromState(PadState(IvOf(t), "opad", k0), PREFIX_LEN)
         IN  /\ h \in HasherOver(CoreIvs, C) /\ BufferSound(h) /\ Tracks(h)
             /\ h.state.iv = IvOf(t) /\ Contents(h) = XorInto("opad", k0)
<1> DEFINE v == IvOf(t)
<1>1. v \in CoreIvs /\ "opad" \in Pads
  BY CoreSizes DEF Pads
<1> HIDE DEF v
<1> DEFINE h == FromState(PadState(v, "opad", k0), PREFIX_LEN)
<1>2. /\ h \in HasherOver(CoreIvs, C) /\ BufferSound(h) /\ Tracks(h)
      /\ Contents(h) = XorInto("opad", k0)
  BY <1>1, PadStateSound
<1>3. h.state.iv = v
  BY DEF FromState, PadState
<1> HIDE DEF h
<1> QED BY <1>2, <1>3 DEF h, v

\* Two short pieces make a message that both counters can tell.
LEMMA BehindPad ==
  ASSUME NEW p \in Pads, NEW B, NEW k0 \in [1 .. BLOCK_LEN -> B], NEW x \in Seq(B)
  PROVE  /\ Len(XorInto(p, k0) \o x) = PREFIX_LEN + Len(x)
         /\ SubSeq(XorInto(p, k0) \o x, PREFIX_LEN + 1, Len(XorInto(p, k0) \o x)) = x
<1> DEFINE y == XorInto(p, k0)
<1>1. y \in Seq(PadOf(B)) /\ Len(y) = PREFIX_LEN
  BY XorIntoType, CoreSizes
<1> HIDE DEF y
<1> DEFINE D == PadOf(B) \cup B
<1>2. PadOf(B) \subseteq D /\ B \subseteq D
  OBVIOUS
<1> HIDE DEF D
<1>3. y \in Seq(D) /\ x \in Seq(D)
  BY <1>1, <1>2, SeqMonotone
<1>4. Len(y \o x) = Len(y) + Len(x)
  BY <1>3, ConcatProperties
<1>5. SubSeq(y \o x, Len(y) + 1, Len(y \o x)) = x
  BY <1>3, <1>4, ConcatSimplifications, SubSeqOfConcat2
<1> QED BY <1>1, <1>4, <1>5 DEF y

\* What the inner hasher has absorbed fits its counter.
LEMMA InnerContents ==
  ASSUME NEW t, NEW m, NEW k0, NEW msg, Holds(t, m, k0, msg)
  PROVE  /\ Len(Contents(m.inner)) = PREFIX_LEN + Len(msg)
         /\ Len(Contents(m.inner)) < LEN_MOD /\ Len(msg) \in Nat
         /\ MessageOf(m) = msg
<1>1. PICK B : KeyedOver(CoreIvs, IvOf(t), B, m, k0, msg)
  BY DEF Holds, Keyed
<1>2. /\ k0 \in [1 .. BLOCK_LEN -> B] /\ msg \in Seq(B) /\ "ipad" \in Pads
      /\ Contents(m.inner) = XorInto("ipad", k0) \o msg
  BY <1>1 DEF KeyedOver, Pads
<1>3. /\ Len(XorInto("ipad", k0) \o msg) = PREFIX_LEN + Len(msg)
      /\ SubSeq(XorInto("ipad", k0) \o msg, PREFIX_LEN + 1,
                Len(XorInto("ipad", k0) \o msg)) = msg
  BY <1>2, BehindPad
<1>4. PREFIX_LEN + Len(msg) < LEN_MOD
  BY DEF Holds, Room
<1> QED BY <1>2, <1>3, <1>4, LenProperties DEF MessageOf

\* The outer pass hashes the digest behind the outer pad.
LEMMA OuterPass ==
  ASSUME NEW t \in MacType, NEW B, NEW k0 \in [1 .. BLOCK_LEN -> B],
         NEW D, NEW d \in Seq(D), Len(d) <= DIGEST_LEN
  PROVE  LET h == FromState(PadState(IvOf(t), "opad", k0), PREFIX_LEN)
         IN  CoreFinalize(CoreUpdate(h, d)) = HashOn(t, XorInto("opad", k0) \o d)
<1> DEFINE C == Byte \cup PadOf(B) \cup D \cup B
           h == FromState(PadState(IvOf(t), "opad", k0), PREFIX_LEN)
           w == Update(h, d)
           x == XorInto("opad", k0)
<1>1. ByteSet(C) /\ PadOf(B) \subseteq C /\ D \subseteq C /\ B \subseteq C
  BY DEF ByteSet
<1> HIDE DEF C
<1>2. d \in Seq(C)
  BY <1>1, SeqMonotone
<1>3. /\ h \in HasherOver(CoreIvs, C) /\ BufferSound(h) /\ Tracks(h)
      /\ h.state.iv = IvOf(t) /\ Contents(h) = x
  BY <1>1, OuterHasher
<1>4. Len(x \o d) = PREFIX_LEN + Len(d)
  <2>1. "opad" \in Pads
    BY DEF Pads
  <2>2. k0 \in [1 .. BLOCK_LEN -> C]
    BY <1>1
  <2> QED BY <1>2, <2>1, <2>2, BehindPad
<1> HIDE DEF h, x
<1>5. /\ w \in HasherOver(CoreIvs, C) /\ Tracks(w) /\ w.state.iv = h.state.iv
      /\ Contents(w) = Contents(h) \o d
  <2>1. h \in HasherOver(CoreIvs, C) /\ BufferSound(h) /\ Tracks(h)
    BY <1>3
  <2> QED BY <1>2, <2>1, UpdateTracks
<1> HIDE DEF w
<1>6. w.state.iv = IvOf(t) /\ Contents(w) = x \o d
  BY <1>3, <1>5
<1>7. Len(Contents(w)) < LEN_MOD
  <2>1. /\ PREFIX_LEN + DIGEST_LEN < LEN_MOD /\ Len(d) \in Nat
        /\ PREFIX_LEN \in Nat /\ DIGEST_LEN \in Nat /\ LEN_MOD \in Nat
    BY <1>2, LenProperties, CoreSizes, CountAssumption
  <2> QED BY <1>4, <1>6, <2>1
<1>8. CoreFinalize(w) = HashOn(t, Contents(w))
  BY <1>1, <1>5, <1>6, <1>7, CoreFinalizeIsHash
<1> QED BY <1>6, <1>8 DEF CoreUpdate, w, h, x

\* finalize returns the tag of the key block and the message.
LEMMA HoldsTag ==
  ASSUME NEW t \in MacType, NEW m, NEW k0, NEW msg, Holds(t, m, k0, msg)
  PROVE  CoreMacFinalize(t, m) = TagOn(t, k0, msg)
<1> DEFINE v == IvOf(t)   n == TAG_LEN[t]   inner == m.inner
           c == HashOn(t, XorInto("ipad", k0) \o msg)
           d == DigestPrefix(c, n)
<1>1. PICK B : KeyedOver(CoreIvs, v, B, m, k0, msg)
  BY DEF Holds, Keyed
<1>2. /\ ByteSet(B) /\ k0 \in [1 .. BLOCK_LEN -> B]
      /\ inner \in HasherOver(CoreIvs, B) /\ Tracks(inner) /\ inner.state.iv = v
      /\ Contents(inner) = XorInto("ipad", k0) \o msg
      /\ m.outer_state = PadState(v, "opad", k0)
  BY <1>1 DEF KeyedOver, MacOver
<1>3. Len(Contents(inner)) < LEN_MOD
  BY InnerContents
<1>4. CoreFinalize(inner) = c
  <2> HIDE DEF inner
  <2>1. CoreFinalize(inner) = HashOn(t, Contents(inner))
    BY <1>2, <1>3, CoreFinalizeIsHash
  <2> QED BY <1>2, <2>1
<1> HIDE DEF c
<1>5. n \in Nat \ {0} /\ n <= DIGEST_LEN
  BY CoreSizes
<1>6. d \in Seq(DigestSet(c, n)) /\ Len(d) <= DIGEST_LEN
  BY <1>5, DigestPrefixType
<1> HIDE DEF d
<1>7. CoreFinalize(CoreUpdate(FromState(PadState(v, "opad", k0), PREFIX_LEN), d))
        = HashOn(t, XorInto("opad", k0) \o d)
  <2>1. k0 \in [1 .. BLOCK_LEN -> B]
    BY <1>2
  <2> QED BY <1>6, <2>1, OuterPass
<1>8. CoreMacFinalize(t, m)
        = CoreFinalize(CoreUpdate(FromState(PadState(v, "opad", k0), PREFIX_LEN), d))
  BY <1>2, <1>4 DEF CoreMacFinalize, d
<1>9. TagOn(t, k0, msg) = HashOn(t, XorInto("opad", k0) \o d)
  BY DEF TagOn, DigestOn, d, c
<1> QED BY <1>7, <1>8, <1>9

\* What count and the refinement see of an object that holds a key.
LEMMA HoldsView ==
  ASSUME NEW t, NEW m, NEW k0, NEW msg, Holds(t, m, k0, msg)
  PROVE  /\ KeyBlockOf(m) = k0 /\ k0 # << >> /\ SomeMac(CoreIvs, m)
         /\ MessageOf(m) = msg /\ CoreMacCount(m) = Len(msg)
<1> DEFINE inner == m.inner
<1>1. KeyBlockOf(m) = k0 /\ k0 # << >> /\ SomeMac(CoreIvs, m)
  <2> DEFINE v == IvOf(t)
  <2>1. Keyed(CoreIvs, v, m, k0, msg)
    BY DEF Holds
  <2> HIDE DEF v
  <2> QED BY <2>1, KeyedView DEF KeyBlockOf
<1>2. /\ Len(Contents(inner)) = PREFIX_LEN + Len(msg) /\ Len(Contents(inner)) < LEN_MOD
      /\ Len(msg) \in Nat /\ MessageOf(m) = msg
  BY InnerContents
<1>3. Tracks(inner)
  BY DEF Holds, Keyed, KeyedOver
<1>4. PREFIX_LEN \in Nat /\ LEN_MOD \in Nat
  BY CoreSizes
<1>5. inner.len = PREFIX_LEN + Len(msg)
  <2> DEFINE n == PREFIX_LEN + Len(msg)
  <2>1. inner.len = n % LEN_MOD /\ n \in Nat /\ n < LEN_MOD
    BY <1>2, <1>3, <1>4 DEF Tracks
  <2> HIDE DEF n
  <2> QED BY <2>1, NoWrap DEF n
<1>6. CoreMacCount(m) = Len(msg) % LEN_MOD
  BY <1>2, <1>4, <1>5 DEF CoreMacCount
<1>7. Len(msg) % LEN_MOD = Len(msg)
  <2> DEFINE n == Len(msg)
  <2>1. n \in Nat /\ n < LEN_MOD
    BY <1>2, <1>4
  <2> HIDE DEF n
  <2> QED BY <2>1, NoWrap DEF n
<1> QED BY <1>1, <1>2, <1>6, <1>7

-----------------------------------------------------------------------------
\* A dropped object is clean, whatever it was doing.
Erased(m) == /\ m.inner_state = ZERO_STATE /\ m.outer_state = ZERO_STATE
             /\ Clean(m.inner)

LEMMA DroppedIsErased ==
  ASSUME NEW m, SomeMac(CoreIvs, m)
  PROVE  SomeMac(CoreIvs, CoreMacDrop(m)) /\ Erased(CoreMacDrop(m))
<1>1. CoreMacDrop(m) = MacDrop(m)
  BY DEF CoreMacDrop, MacDrop, CoreDrop
<1>2. IvSet(CoreIvs)
  BY CoreSizes
<1>3. /\ SomeMac(CoreIvs, MacDrop(m)) /\ Clean(MacDrop(m).inner)
      /\ MacDrop(m).inner_state = ZERO_STATE /\ MacDrop(m).outer_state = ZERO_STATE
  BY <1>2, DropErases
<1> QED BY <1>1, <1>3 DEF Erased

-----------------------------------------------------------------------------
(***************************************************************************)
(* The two tables an expansion is defined by: each exists.                 *)
(***************************************************************************)
\* An output block, as the HMAC of all expanders gives it.
Block(k0, msg) == DigestPrefix(TagOn("HmacSha384", k0, msg), PRK_LEN)

\* T(0) to T(k) of RFC 5869.
NextT(k0, info, t, i) == Block(k0, t \o info \o << Lit(i) >>)

IsT(f, k0, info, k) ==
  f = [i \in 0 .. k |-> IF i = 0 THEN << >> ELSE NextT(k0, info, f[i - 1], i)]

\* The local variables of expand_into after each of k passes.
Start(m, n) == [mac |-> m, block |-> Zeros(PRK_LEN), okm |-> Zeros(n), ok |-> TRUE]

NextPass(s, info, i) ==
  IF s.ok /\ i < BASE THEN Round(s, i, info) ELSE [s EXCEPT !.ok = FALSE]

IsLoop(f, m, info, n, k) ==
  f = [i \in 0 .. k |-> IF i = 0 THEN Start(m, n) ELSE NextPass(f[i - 1], info, i)]

LEMMA TExists ==
  ASSUME NEW k0, NEW info, NEW n \in Nat
  PROVE  \E f : IsT(f, k0, info, n)
<1> DEFINE Q(k) == \E f : IsT(f, k0, info, k)
           S    == {k \in 0 .. n : Q(k)}
<1>1. 0 \in S
  <2> DEFINE f == [i \in 0 .. 0 |-> << >>]
  <2>1. IsT(f, k0, info, 0)
    BY DEF IsT
  <2> QED BY <2>1
<1>2. ASSUME NEW k \in 1 .. n, k - 1 \in S PROVE k \in S
  <2>1. PICK f : IsT(f, k0, info, k - 1)
    BY <1>2
  <2> DEFINE h == [i \in 0 .. k |-> IF i = k THEN NextT(k0, info, f[k - 1], k) ELSE f[i]]
  <2>2. IsT(h, k0, info, k)
    <3>1. ASSUME NEW i \in 0 .. k
          PROVE  h[i] = IF i = 0 THEN << >> ELSE NextT(k0, info, h[i - 1], i)
      <4>1. CASE i = k
        <5>1. k - 1 \in 0 .. k /\ k - 1 # k /\ k # 0
          OBVIOUS
        <5>2. h[k] = NextT(k0, info, f[k - 1], k) /\ h[k - 1] = f[k - 1]
          BY <5>1
        <5> HIDE DEF h
        <5> QED BY <4>1, <5>1, <5>2
      <4>2. CASE i # k
        <5>1. i \in 0 .. k - 1 /\ (i # 0 => i - 1 \in 0 .. k - 1)
          BY <4>2
        <5>2. h[i] = f[i] /\ (i # 0 => h[i - 1] = f[i - 1])
          BY <4>2, <5>1
        <5>3. f[i] = IF i = 0 THEN << >> ELSE NextT(k0, info, f[i - 1], i)
          BY <2>1, <5>1 DEF IsT
        <5> HIDE DEF h
        <5> QED BY <5>2, <5>3
      <4> QED BY <4>1, <4>2
    <3>2. h = [i \in 0 .. k |-> h[i]]
      OBVIOUS
    <3> HIDE DEF h
    <3> QED BY <3>1, <3>2 DEF IsT
  <2> HIDE DEF h
  <2> QED BY <2>2
<1>3. n \in S
  <2> HIDE DEF S
  <2> QED BY <1>1, <1>2, InductionUpTo
<1> QED BY <1>3

LEMMA LoopExists ==
  ASSUME NEW m, NEW info, NEW n, NEW p \in Nat
  PROVE  \E f : IsLoop(f, m, info, n, p)
<1> DEFINE Q(k) == \E f : IsLoop(f, m, info, n, k)
           S    == {k \in 0 .. p : Q(k)}
<1>1. 0 \in S
  <2> DEFINE f == [i \in 0 .. 0 |-> Start(m, n)]
  <2>1. IsLoop(f, m, info, n, 0)
    BY DEF IsLoop
  <2> QED BY <2>1
<1>2. ASSUME NEW k \in 1 .. p, k - 1 \in S PROVE k \in S
  <2>1. PICK f : IsLoop(f, m, info, n, k - 1)
    BY <1>2
  <2> DEFINE h == [i \in 0 .. k |-> IF i = k THEN NextPass(f[k - 1], info, k) ELSE f[i]]
  <2>2. IsLoop(h, m, info, n, k)
    <3>1. ASSUME NEW i \in 0 .. k
          PROVE  h[i] = IF i = 0 THEN Start(m, n) ELSE NextPass(h[i - 1], info, i)
      <4>1. CASE i = k
        <5>1. k - 1 \in 0 .. k /\ k - 1 # k /\ k # 0
          OBVIOUS
        <5>2. h[k] = NextPass(f[k - 1], info, k) /\ h[k - 1] = f[k - 1]
          BY <5>1
        <5> HIDE DEF h
        <5> QED BY <4>1, <5>1, <5>2
      <4>2. CASE i # k
        <5>1. i \in 0 .. k - 1 /\ (i # 0 => i - 1 \in 0 .. k - 1)
          BY <4>2
        <5>2. h[i] = f[i] /\ (i # 0 => h[i - 1] = f[i - 1])
          BY <4>2, <5>1
        <5>3. f[i] = IF i = 0 THEN Start(m, n) ELSE NextPass(f[i - 1], info, i)
          BY <2>1, <5>1 DEF IsLoop
        <5> HIDE DEF h
        <5> QED BY <5>2, <5>3
      <4> QED BY <4>1, <4>2
    <3>2. h = [i \in 0 .. k |-> h[i]]
      OBVIOUS
    <3> HIDE DEF h
    <3> QED BY <3>1, <3>2 DEF IsLoop
  <2> HIDE DEF h
  <2> QED BY <2>2
<1>3. p \in S
  <2> HIDE DEF S
  <2> QED BY <1>1, <1>2, InductionUpTo
<1> QED BY <1>3

-----------------------------------------------------------------------------
(***************************************************************************)
(* One pass, and the whole loop.                                           *)
(***************************************************************************)
\* A label leaves room for a fed back block and the number behind it.
Label(info) == Bytes(info) /\ PREFIX_LEN + PRK_LEN + Len(info) + 1 < LEN_MOD

LEMMA RoomForLabel ==
  ASSUME NEW u, Bytes(u), Len(u) <= PRK_LEN, NEW info, Label(info), NEW b, Bytes(<< b >>)
  PROVE  /\ Room(u) /\ Room(u \o info) /\ Room((u \o info) \o << b >>)
         /\ Bytes(info)
<1>1. PICK U : u \in Seq(U)
  BY DEF Bytes
<1>2. PICK V : info \in Seq(V)
  BY DEF Label, Bytes
<1> DEFINE C == U \cup V \cup {b}
<1>3. U \subseteq C /\ V \subseteq C /\ b \in C
  OBVIOUS
<1> HIDE DEF C
<1>4. u \in Seq(C) /\ info \in Seq(C) /\ << b >> \in Seq(C) /\ Len(<< b >>) = 1
  BY <1>1, <1>2, <1>3, SeqMonotone
<1> DEFINE x == u \o info   y == x \o << b >>
<1>5. x \in Seq(C) /\ Len(x) = Len(u) + Len(info)
  BY <1>4, ConcatProperties
<1> HIDE DEF x
<1>6. Len(y) = Len(x) + 1
  BY <1>4, <1>5, ConcatProperties
<1> HIDE DEF y
<1>7. Len(u) \in Nat /\ Len(info) \in Nat
  BY <1>4, LenProperties
<1>8. /\ PREFIX_LEN \in Nat /\ PRK_LEN \in Nat /\ LEN_MOD \in Nat
      /\ PREFIX_LEN + PRK_LEN + Len(info) + 1 < LEN_MOD
  BY CoreSizes DEF Label
<1>9. /\ PREFIX_LEN + Len(u) < LEN_MOD
      /\ PREFIX_LEN + Len(x) < LEN_MOD /\ PREFIX_LEN + Len(y) < LEN_MOD
  BY <1>5, <1>6, <1>7, <1>8
<1> QED BY <1>9 DEF Room, Label, x, y

\* The local variables after i passes.
PassSound(s, i, k0, n, t) ==
  /\ s = [mac |-> s.mac, block |-> s.block, okm |-> s.okm, ok |-> TRUE]
  /\ \E msg : Holds("HmacSha384", s.mac, k0, msg)
  /\ i = 0 => Holds("HmacSha384", s.mac, k0, << >>)
  /\ i > 0 => s.block = t[i] /\ Bytes(s.block)
  /\ s.okm = Written(PRK_LEN, t, n, i)

\* The bytes an expander's tag is cut to.
LEMMA TagIsBlock ==
  ASSUME NEW m, NEW k0, NEW msg, Holds("HmacSha384", m, k0, msg)
  PROVE  TagBytes("HmacSha384", m) = Block(k0, msg)
<1>1. "HmacSha384" \in MacType /\ TAG_LEN["HmacSha384"] = PRK_LEN
  BY CoreSizes
<1>2. CoreMacFinalize("HmacSha384", m) = TagOn("HmacSha384", k0, msg)
  BY <1>1, HoldsTag
<1> QED BY <1>1, <1>2 DEF TagBytes, Block

LEMMA BlockType ==
  ASSUME NEW k0, NEW msg
  PROVE  /\ Bytes(Block(k0, msg)) /\ Len(Block(k0, msg)) = PRK_LEN
         /\ \E B : ByteSet(B) /\ Block(k0, msg) \in [1 .. PRK_LEN -> B]
<1> DEFINE c == TagOn("HmacSha384", k0, msg)   B == Byte \cup DigestSet(c, PRK_LEN)
<1>1. PRK_LEN \in Nat
  BY CoreSizes
<1> HIDE DEF c
<1>2. /\ DigestPrefix(c, PRK_LEN) \in [1 .. PRK_LEN -> DigestSet(c, PRK_LEN)]
      /\ DigestPrefix(c, PRK_LEN) \in Seq(DigestSet(c, PRK_LEN))
      /\ Len(DigestPrefix(c, PRK_LEN)) = PRK_LEN
  BY <1>1, DigestPrefixType
<1>3. ByteSet(B) /\ DigestPrefix(c, PRK_LEN) \in [1 .. PRK_LEN -> B]
  BY <1>2 DEF ByteSet
<1> HIDE DEF B
<1> QED BY <1>2, <1>3 DEF Block, Bytes, c

\* What pass i feeds the HMAC and takes from it.
LEMMA PassFeeds ==
  ASSUME NEW k0, NEW info, Label(info), NEW n \in Nat, NEW t,
         NEW N \in Nat, IsT(t, k0, info, N),
         NEW i \in 1 .. N, i < BASE, NEW s, PassSound(s, i - 1, k0, n, t)
  PROVE  LET start == IF i > 1 THEN CoreMacUpdate(CoreMacReset(s.mac), s.block) ELSE s.mac
             fed   == CoreMacUpdate(CoreMacUpdate(start, info), << Lit(i) >>)
         IN  /\ \E msg : Holds("HmacSha384", fed, k0, msg)
             /\ TagBytes("HmacSha384", fed) = t[i]
<1> DEFINE start == IF i > 1 THEN CoreMacUpdate(CoreMacReset(s.mac), s.block) ELSE s.mac
           fed   == CoreMacUpdate(CoreMacUpdate(start, info), << Lit(i) >>)
           u     == t[i - 1]
<1>1. /\ t[0] = << >> /\ i - 1 \in 0 .. N
      /\ t[i] = Block(k0, (u \o info) \o << Lit(i) >>)
      /\ i > 1 => t[i - 1] = Block(k0, (t[i - 2] \o info) \o << Lit(i - 1) >>)
  BY DEF IsT, NextT
<1>2. Bytes(u) /\ Len(u) <= PRK_LEN
  <2>1. CASE i > 1
    <3>1. Bytes(u) /\ Len(u) = PRK_LEN
      BY <1>1, <2>1, BlockType
    <3> QED BY <3>1, CoreSizes
  <2>2. CASE ~(i > 1)
    <3>1. u = << >>
      BY <1>1, <2>2
    <3>2. << >> \in Seq({}) /\ Len(<< >>) = 0
      OBVIOUS
    <3> QED BY <3>1, <3>2, CoreSizes DEF Bytes
  <2> QED BY <2>1, <2>2
<1>3. Bytes(<< Lit(i) >>)
  <2>1. i \in 0 .. BASE - 1
    BY WidthAssumption
  <2>2. << Lit(i) >> \in Seq(Byte)
    BY <2>1 DEF Byte
  <2> QED BY <2>2 DEF Bytes
<1>4. Holds("HmacSha384", start, k0, u)
  <2>1. CASE i > 1
    <3>1. PICK msg : Holds("HmacSha384", s.mac, k0, msg)
      BY DEF PassSound
    <3>2. Holds("HmacSha384", CoreMacReset(s.mac), k0, << >>)
      BY <3>1, HoldsReset, CoreSizes
    <3>3. s.block = u /\ Bytes(s.block)
      BY <2>1 DEF PassSound
    <3>4. << >> \o s.block = s.block
      BY <3>3, ConcatEmptySeq DEF Bytes
    <3> HIDE DEF u
    <3>5. Room(<< >> \o s.block)
      BY <1>2, <1>3, <3>3, <3>4, RoomForLabel
    <3>6. Holds("HmacSha384", CoreMacUpdate(CoreMacReset(s.mac), s.block), k0, << >> \o s.block)
      BY <3>2, <3>3, <3>5, HoldsUpdate
    <3> QED BY <2>1, <3>3, <3>4, <3>6
  <2>2. CASE ~(i > 1)
    <3>1. i = 1 /\ u = << >>
      BY <1>1, <2>2
    <3>2. Holds("HmacSha384", s.mac, k0, << >>)
      BY <3>1 DEF PassSound
    <3> QED BY <2>2, <3>1, <3>2
  <2> QED BY <2>1, <2>2
<1> HIDE DEF start, u
<1>5. /\ Bytes(info) /\ Room(u \o info) /\ Room((u \o info) \o << Lit(i) >>)
  BY <1>2, <1>3, RoomForLabel
<1>6. Holds("HmacSha384", CoreMacUpdate(start, info), k0, u \o info)
  BY <1>4, <1>5, HoldsUpdate
<1>7. Holds("HmacSha384", fed, k0, (u \o info) \o << Lit(i) >>)
  BY <1>3, <1>5, <1>6, HoldsUpdate
<1> HIDE DEF fed
<1>8. TagBytes("HmacSha384", fed) = Block(k0, (u \o info) \o << Lit(i) >>)
  BY <1>7, TagIsBlock
<1>9. TagBytes("HmacSha384", fed) = t[i]
  BY <1>1, <1>8
<1> QED BY <1>7, <1>9 DEF fed, start

\* What pass i writes.
LEMMA PassKeepsSound ==
  ASSUME NEW k0, NEW info, Label(info), NEW n \in Nat, NEW t,
         IsT(t, k0, info, PassCount(PRK_LEN, n)),
         NEW i \in 1 .. PassCount(PRK_LEN, n), i < BASE, NEW s, PassSound(s, i - 1, k0, n, t)
  PROVE  PassSound(NextPass(s, info, i), i, k0, n, t)
<1> DEFINE start == IF i > 1 THEN CoreMacUpdate(CoreMacReset(s.mac), s.block) ELSE s.mac
           fed == CoreMacUpdate(CoreMacUpdate(start, info), << Lit(i) >>)
           block == TagBytes("HmacSha384", fed)
           at  == (i - 1) * PRK_LEN
           okm == CopyFromSlice(s.okm, at,
                    SubSeq(block, 1, AtMost(PRK_LEN, Len(s.okm) - at)))
<1>1. PassCount(PRK_LEN, n) \in Nat /\ PRK_LEN \in Nat \ {0}
  BY CoreSizes, PassCounts
<1>2. /\ \E msg : Holds("HmacSha384", fed, k0, msg)
      /\ block = t[i]
  BY <1>1, PassFeeds
<1>3. Round(s, i, info) = [s EXCEPT !.mac = fed, !.block = block, !.okm = okm]
  BY DEF Round
<1> HIDE DEF fed, block
<1>4. PICK B : t[i] \in [1 .. PRK_LEN -> B]
  <2> DEFINE u == t[i - 1]
  <2>1. i \in 0 .. PassCount(PRK_LEN, n) /\ i # 0
    BY <1>1
  <2>2. t[i] = Block(k0, (u \o info) \o << Lit(i) >>)
    BY <2>1 DEF IsT, NextT
  <2> HIDE DEF u
  <2>3. \E B : t[i] \in [1 .. PRK_LEN -> B]
    BY <2>2, BlockType
  <2> QED BY <2>3
<1>5. /\ s = [mac |-> s.mac, block |-> s.block, okm |-> s.okm, ok |-> TRUE]
      /\ s.okm = Written(PRK_LEN, t, n, i - 1)
  BY DEF PassSound
<1>6. okm = Written(PRK_LEN, t, n, i)
  <2> DEFINE o == s.okm
  <2>1. o = Written(PRK_LEN, t, n, i - 1)
    BY <1>5
  <2> HIDE DEF o
  <2>2. CopyFromSlice(o, at, SubSeq(t[i], 1, AtMost(PRK_LEN, Len(o) - at)))
          = Written(PRK_LEN, t, n, i)
    BY <1>1, <1>4, <2>1, PassWrites
  <2> QED BY <1>2, <2>2 DEF o
<1>7. Bytes(t[i])
  <2>1. t[i] \in Seq(B)
    BY <1>4, CoreSizes, FunctionIsSequence
  <2> QED BY <2>1 DEF Bytes
<1> HIDE DEF okm
<1> DEFINE new == NextPass(s, info, i)
<1>8. new = [mac |-> fed, block |-> block, okm |-> okm, ok |-> TRUE]
  <2>1. s.ok = TRUE
    BY <1>5
  <2>2. new = [s EXCEPT !.mac = fed, !.block = block, !.okm = okm]
    BY <1>3, <2>1 DEF NextPass
  <2> DEFINE a == s.mac   b == s.block   c == s.okm
  <2>3. s = [mac |-> a, block |-> b, okm |-> c, ok |-> TRUE]
    BY <1>5
  <2> HIDE DEF new, a, b, c
  <2> QED BY <2>2, <2>3, PassSets
<1> HIDE DEF new
<1>9. new.mac = fed /\ new.block = block /\ new.okm = okm /\ i > 0 /\ i # 0
  BY <1>8
<1>10. PassSound(new, i, k0, n, t)
  BY <1>2, <1>6, <1>7, <1>8, <1>9 DEF PassSound
<1> QED BY <1>10 DEF new

-----------------------------------------------------------------------------
(***************************************************************************)
(* Rfc5869 over SHA-384 in the terms of the lemmas.                        *)
(***************************************************************************)
LEMMA SameHkdf ==
  /\ \A k : PromiseHkdf!K0(k) = K0On("HmacSha384", k)
  /\ \A k0, msg : PromiseHkdf!Tag(k0, msg) = TagOn("HmacSha384", k0, msg)
  /\ \A c : PromiseHkdf!DigestBytes(c) = DigestPrefix(c, PRK_LEN)
  /\ \A n : PromiseHkdf!Zeros(n) = Zeros(n) /\ PromiseHkdf!Lit(n) = Lit(n)
  /\ PromiseHkdf!NoKey = << >> /\ PromiseHkdf!MaxBytes = MAX_OUTPUT_LEN
  /\ PromiseHkdf!NoAnswer = NoAnswer
  /\ \A salt, ikm : PromiseHkdf!Prk(salt, ikm) = Block(K0On("HmacSha384", salt), ikm)
<1>1. /\ PromiseHkdf!DELIM = W!DELIM /\ PromiseHkdf!LEN_MOD = W!LEN_MOD
      /\ \A n : PromiseHkdf!Zeros(n) = Zeros(n)
      /\ \A n : PromiseHkdf!ToBeBytes(n) = W!ToBeBytes(n)
      /\ \A n : PromiseHkdf!Lit(n) = Lit(n)
  BY DEF PromiseHkdf!DELIM, W!DELIM, PromiseHkdf!LEN_MOD, W!LEN_MOD, PromiseHkdf!BASE,
         W!BASE, PromiseHkdf!Zeros, Zeros, PromiseHkdf!ZERO, ZERO, PromiseHkdf!Lit, W!Lit,
         Lit, PromiseHkdf!ToBeBytes, W!ToBeBytes
<1>2. IvOf("HmacSha384") = "IV_384" /\ TAG_LEN["HmacSha384"] = SHA384_DIGEST_LEN
  BY CoreSizes DEF PRK_LEN
<1>3. \A bytes : PromiseHkdf!Hash(bytes) = HashOn("HmacSha384", bytes)
  BY <1>1, <1>2 DEF PromiseHkdf!Hash, PromiseHkdf!Digest, PromiseHkdf!Message,
                    PromiseHkdf!Padding, HashOn, PadTo
<1>4. /\ \A p, k : PromiseHkdf!XorInto(p, k) = XorInto(p, k)
      /\ \A c : PromiseHkdf!DigestBytes(c) = DigestPrefix(c, PRK_LEN)
  BY DEF PromiseHkdf!XorInto, XorInto, PromiseHkdf!DigestBytes, DigestPrefix, PRK_LEN
<1>5. \A bytes : PromiseHkdf!DigestBytes(PromiseHkdf!Hash(bytes)) = DigestOn("HmacSha384", bytes)
  BY <1>2, <1>3, <1>4 DEF DigestOn, PRK_LEN
<1>6. \A k : PromiseHkdf!K0(k) = K0On("HmacSha384", k)
  BY <1>1, <1>5 DEF PromiseHkdf!K0, K0On
<1>7. \A k0, msg : PromiseHkdf!Tag(k0, msg) = TagOn("HmacSha384", k0, msg)
  BY <1>3, <1>4, <1>5 DEF PromiseHkdf!Tag, TagOn
<1>8. PromiseHkdf!NoKey = << >> /\ PromiseHkdf!MaxBytes = MAX_OUTPUT_LEN
      /\ PromiseHkdf!NoAnswer = NoAnswer
  BY DEF PromiseHkdf!NoKey, PromiseHkdf!MaxBytes, MAX_OUTPUT_LEN, PRK_LEN,
         PromiseHkdf!BASE, BASE, PromiseHkdf!NoAnswer, NoAnswer
<1> QED BY <1>1, <1>4, <1>6, <1>7, <1>8 DEF PromiseHkdf!Prk, Block

\* The table by which Rfc5869 defines the OKM.
PromisedT(f, k0, info, k) ==
  f = [i \in 0 .. k |->
         IF i = 0 THEN << >>
         ELSE PromiseHkdf!DigestBytes(
                PromiseHkdf!Tag(k0, f[i - 1] \o info \o << PromiseHkdf!Lit(i) >>))]

LEMMA OkmIs ==
  ASSUME NEW k0, NEW info, NEW n \in Nat
  PROVE  LET N == PassCount(PRK_LEN, n)
         IN  \E t : /\ IsT(t, k0, info, N)
                   /\ PromiseHkdf!Okm(k0, info, n) = Written(PRK_LEN, t, n, N)
<1> DEFINE N == PassCount(PRK_LEN, n)
           t == CHOOSE f : PromisedT(f, k0, info, N)
<1>1. N \in Nat /\ n <= PRK_LEN * N
  BY CoreSizes, PassCounts
<1>2. PromiseHkdf!Okm(k0, info, n)
        = [j \in 1 .. n |-> t[BlockOf(PRK_LEN, j)][PlaceOf(PRK_LEN, j)]]
  BY DEF PromiseHkdf!Okm, PromisedT, PassCount, BlockOf, PlaceOf, PRK_LEN
<1> HIDE DEF N
<1>3. \A f : PromisedT(f, k0, info, N) <=> IsT(f, k0, info, N)
  BY SameHkdf DEF PromisedT, IsT, NextT, Block
<1>4. \E f : PromisedT(f, k0, info, N)
  BY <1>1, <1>3, TExists
<1>5. IsT(t, k0, info, N)
  BY <1>3, <1>4
<1> HIDE DEF t
<1>6. Written(PRK_LEN, t, n, N)
        = [j \in 1 .. n |-> t[BlockOf(PRK_LEN, j)][PlaceOf(PRK_LEN, j)]]
  <2> DEFINE p == PRK_LEN * N
  <2>1. \A j \in 1 .. n : j <= p
    <3>1. p \in Int
      BY <1>1, CoreSizes
    <3> HIDE DEF p
    <3>2. n <= p
      BY <1>1 DEF p
    <3> QED BY <3>1, <3>2
  <2> HIDE DEF p
  <2> QED BY <2>1 DEF Written, p
<1> QED BY <1>2, <1>5, <1>6 DEF N

\* Both loops compute the OKM, never fail on an allowed length, and leave an
\* HMAC on the same key.
LEMMA LoopComputes ==
  ASSUME NEW k0, NEW m, Holds("HmacSha384", m, k0, << >>), NEW info, Label(info),
         NEW n \in Nat, n <= MAX_OUTPUT_LEN
  PROVE  /\ Loop(m, info, n).ok = TRUE
         /\ Loop(m, info, n).okm = PromiseHkdf!Okm(k0, info, n)
         /\ \E msg : Holds("HmacSha384", Loop(m, info, n).mac, k0, msg)
<1> DEFINE N == PassCount(PRK_LEN, n)
           f == CHOOSE g : IsLoop(g, m, info, n, N)
<1>1. N \in Nat /\ N < BASE /\ BASE \in Nat
  BY CoreSizes, PassCounts, WidthAssumption DEF MAX_OUTPUT_LEN
<1>2. PICK t : /\ IsT(t, k0, info, N)
               /\ PromiseHkdf!Okm(k0, info, n) = Written(PRK_LEN, t, n, N)
  BY OkmIs
<1>3. Loop(m, info, n) = f[N]
  BY DEF Loop, IsLoop, Start, NextPass, PassCount
<1>4. IsLoop(f, m, info, n, N)
  <2>1. \E g : IsLoop(g, m, info, n, N)
    <3> HIDE DEF N
    <3> QED BY <1>1, LoopExists
  <2> QED BY <2>1
<1> HIDE DEF f
<1> DEFINE S == {i \in 0 .. N : PassSound(f[i], i, k0, n, t)}
<1>5. 0 \in S
  <2>1. f[0] = Start(m, n)
    <3> HIDE DEF N
    <3> QED BY <1>1, <1>4 DEF IsLoop
  <2>2. Zeros(n) = Written(PRK_LEN, t, n, 0)
    <3>1. PRK_LEN * 0 = 0
      BY CoreSizes
    <3>2. \A j \in 1 .. n : ~(j <= PRK_LEN * 0)
      BY <3>1
    <3> QED BY <3>2 DEF Zeros, Written
  <2>3. PassSound(Start(m, n), 0, k0, n, t)
    BY <2>2 DEF PassSound, Start
  <2> QED BY <1>1, <2>1, <2>3
<1>6. ASSUME NEW i \in 1 .. N, i - 1 \in S PROVE i \in S
  <2>1. f[i] = NextPass(f[i - 1], info, i)
    <3> HIDE DEF N
    <3> QED BY <1>1, <1>4 DEF IsLoop
  <2> DEFINE s == f[i - 1]
  <2>2. PassSound(s, i - 1, k0, n, t) /\ i < BASE
    BY <1>1, <1>6
  <2> HIDE DEF s
  <2>3. PassSound(NextPass(s, info, i), i, k0, n, t)
    BY <1>2, <2>2, PassKeepsSound
  <2> QED BY <2>1, <2>3 DEF s
<1>7. N \in S
  <2> HIDE DEF S, N
  <2> QED BY <1>1, <1>5, <1>6, InductionUpTo
<1> DEFINE s == f[N]
<1>8. PassSound(s, N, k0, n, t)
  BY <1>7
<1> HIDE DEF s, N
<1>9. /\ s.ok = TRUE /\ s.okm = Written(PRK_LEN, t, n, N)
      /\ \E msg : Holds("HmacSha384", s.mac, k0, msg)
  BY <1>8 DEF PassSound
<1> QED BY <1>2, <1>3, <1>9 DEF s

-----------------------------------------------------------------------------
(***************************************************************************)
(* Extraction and expansion.                                               *)
(***************************************************************************)
LEMMA InputsHold ==
  /\ \A s \in Keys \cup Salts \cup Ikms \cup Infos : s \in Seq(Byte) /\ Bytes(s) /\ Label(s)
  /\ \A s \in Chunks : s \in Seq(Byte) /\ Bytes(s)
  /\ Prks \subseteq [1 .. PRK_LEN -> Byte] /\ Lengths \subseteq Nat
  /\ MaxLen \in Nat /\ PREFIX_LEN + MaxLen < LEN_MOD
<1>1. /\ \A s \in Keys \cup Salts \cup Ikms \cup Infos \cup Chunks : s \in Seq(Byte)
      /\ Prks \subseteq [1 .. PRK_LEN -> Byte] /\ Lengths \subseteq Nat
  BY InputAssumption DEF PRK_LEN
<1>2. \A s \in Keys \cup Salts \cup Ikms \cup Infos :
        PREFIX_LEN + PRK_LEN + Len(s) + 1 < LEN_MOD
  BY CountAssumption DEF PRK_LEN
<1>3. MaxLen \in Nat /\ PREFIX_LEN + MaxLen < LEN_MOD
  BY InputAssumption, CoreSizes
<1> QED BY <1>1, <1>2, <1>3 DEF Bytes, Label

\* What has room with a label's surroundings has room alone.
LEMMA LabelIsShort ==
  ASSUME NEW s, Label(s)
  PROVE  Len(s) \in Nat /\ Len(s) < LEN_MOD /\ Room(s)
<1>1. Len(s) \in Nat /\ PREFIX_LEN + PRK_LEN + Len(s) + 1 < LEN_MOD
  BY LenProperties DEF Label, Bytes
<1>2. PREFIX_LEN \in Nat /\ PRK_LEN \in Nat /\ LEN_MOD \in Nat
  BY CoreSizes
<1> QED BY <1>1, <1>2 DEF Room

\* Pseudorandom keys: digest bytes, bytes from outside, or zeros.
IsPrk(bytes) == \E B : ByteSet(B) /\ bytes \in [1 .. PRK_LEN -> B]

LEMMA ZerosArePrk == IsPrk(Zeros(PRK_LEN))
<1>1. ByteSet(Byte) /\ Zeros(PRK_LEN) \in [1 .. PRK_LEN -> Byte]
  BY CoreSizes, ZerosType
<1> QED BY <1>1 DEF IsPrk

\* No PRK is empty, and each keys an HMAC.
LEMMA PrkKeys ==
  ASSUME NEW bytes, IsPrk(bytes)
  PROVE  /\ bytes # << >> /\ Len(bytes) = PRK_LEN
         /\ Holds("HmacSha384", CoreKeyed("HmacSha384", bytes),
                  K0On("HmacSha384", bytes), << >>)
<1>1. PICK B : ByteSet(B) /\ bytes \in [1 .. PRK_LEN -> B]
  BY DEF IsPrk
<1>2. PRK_LEN \in Nat \ {0} /\ "HmacSha384" \in MacType
  BY CoreSizes
<1>3. bytes \in Seq(B) /\ Len(bytes) = PRK_LEN
  BY <1>1, <1>2, FunctionIsSequence
<1>4. bytes # << >>
  <2>1. Len(<< >>) = 0
    OBVIOUS
  <2> QED BY <1>2, <1>3, <2>1
<1>5. Len(bytes) < LEN_MOD
  <2>1. /\ PRK_LEN <= BLOCK_LEN /\ BLOCK_LEN < LEN_MOD /\ PRK_LEN \in Nat
        /\ BLOCK_LEN \in Nat /\ LEN_MOD \in Nat
    BY CoreSizes, PrefixAssumption
  <2> QED BY <1>3, <2>1
<1> QED BY <1>1, <1>2, <1>3, <1>4, <1>5, CoreKeyedHolds

\* A salt of zeros and an absent one make the same key block.
LEMMA AbsentSalt == K0On("HmacSha384", Zeros(PRK_LEN)) = K0On("HmacSha384", << >>)
<1>1. /\ PRK_LEN \in Nat /\ BLOCK_LEN \in Nat /\ PRK_LEN <= BLOCK_LEN
  BY CoreSizes
<1>2. Len(Zeros(PRK_LEN)) = PRK_LEN /\ Len(<< >>) = 0
  BY <1>1 DEF Zeros
<1>3. K0On("HmacSha384", Zeros(PRK_LEN)) = Zeros(PRK_LEN) \o Zeros(BLOCK_LEN - PRK_LEN)
  <2> DEFINE z == Zeros(PRK_LEN)
  <2>1. Len(z) = PRK_LEN /\ ~(Len(z) > BLOCK_LEN)
    BY <1>1, <1>2
  <2> HIDE DEF z
  <2>2. K0On("HmacSha384", z) = z \o Zeros(BLOCK_LEN - PRK_LEN)
    BY <2>1 DEF K0On
  <2> QED BY <2>2 DEF z
<1>4. K0On("HmacSha384", << >>) = << >> \o Zeros(BLOCK_LEN)
  <2>1. ~(Len(<< >>) > BLOCK_LEN) /\ BLOCK_LEN - Len(<< >>) = BLOCK_LEN
    BY <1>1, <1>2
  <2> QED BY <2>1 DEF K0On
<1>5. Zeros(PRK_LEN) \o Zeros(BLOCK_LEN - PRK_LEN) = Zeros(BLOCK_LEN)
  <2> DEFINE b == BLOCK_LEN - PRK_LEN
  <2>1. b \in Nat /\ PRK_LEN + b = BLOCK_LEN
    BY <1>1
  <2> HIDE DEF b
  <2>2. Zeros(PRK_LEN) \o Zeros(b) = Zeros(PRK_LEN + b)
    BY <1>1, <2>1, ZerosJoin
  <2> QED BY <2>1, <2>2 DEF b
<1>6. << >> \o Zeros(BLOCK_LEN) = Zeros(BLOCK_LEN)
  <2>1. Zeros(BLOCK_LEN) \in [1 .. BLOCK_LEN -> Byte]
    BY <1>1, CoreSizes, ZerosType
  <2>2. Zeros(BLOCK_LEN) \in Seq(Byte)
    BY <1>1, <2>1, FunctionIsSequence
  <2> QED BY <2>2, ConcatEmptySeq
<1> QED BY <1>3, <1>4, <1>5, <1>6

\* extract returns the PRK of RFC 5869, a sequence of digest bytes.
LEMMA ExtractedIsPrk ==
  ASSUME NEW salt \in Salts, NEW ikm \in Ikms
  PROVE  /\ Extracted(salt, ikm) = PromiseHkdf!Prk(salt, ikm)
         /\ IsPrk(Extracted(salt, ikm))
<1> DEFINE key == IF salt = << >> THEN Zeros(PRK_LEN) ELSE salt
           k0  == K0On("HmacSha384", key)
           m   == CoreKeyed("HmacSha384", key)
<1>1. /\ salt \in Seq(Byte) /\ Label(salt) /\ Bytes(ikm) /\ Room(ikm)
  BY InputsHold, LabelIsShort
<1>2. Holds("HmacSha384", m, k0, << >>)
  <2>1. CASE salt = << >>
    BY <2>1, ZerosArePrk, PrkKeys
  <2>2. CASE salt # << >>
    <3>1. key = salt /\ ByteSet(Byte) /\ "HmacSha384" \in MacType /\ Len(salt) < LEN_MOD
      BY <1>1, <2>2, CoreSizes, LabelIsShort
    <3> HIDE DEF key
    <3>2. Holds("HmacSha384", CoreKeyed("HmacSha384", salt), K0On("HmacSha384", salt), << >>)
      BY <1>1, <3>1, CoreKeyedHolds
    <3> QED BY <3>1, <3>2
  <2> QED BY <2>1, <2>2
<1>3. k0 = K0On("HmacSha384", salt)
  BY AbsentSalt
<1>4. Extracted(salt, ikm) = TagBytes("HmacSha384", CoreMacUpdate(m, ikm))
  BY DEF Extracted, OneShotMac
<1> HIDE DEF k0, m
<1>5. << >> \o ikm = ikm
  BY <1>1, ConcatEmptySeq DEF Bytes
<1>6. Holds("HmacSha384", CoreMacUpdate(m, ikm), k0, << >> \o ikm)
  BY <1>1, <1>2, <1>5, HoldsUpdate
<1>7. Extracted(salt, ikm) = Block(k0, ikm)
  BY <1>4, <1>5, <1>6, TagIsBlock
<1>8. IsPrk(Block(k0, ikm))
  BY BlockType DEF IsPrk
<1> QED BY <1>3, <1>7, <1>8, SameHkdf

\* An expansion answers as promised, whatever the object absorbed before, and
\* leaves it on the same key.
LEMMA ExpandAnswers ==
  ASSUME NEW m, NEW k0, NEW msg, Holds("HmacSha384", m, k0, msg),
         NEW info \in Infos, NEW n \in Lengths
  PROVE  /\ [ok |-> ExpandInto(m, info, n).ok, okm |-> ExpandInto(m, info, n).okm]
               = PromiseHkdf!Answer(k0, info, n)
         /\ ExpandInto(m, info, n).ok \in BOOLEAN
         /\ \E new : Holds("HmacSha384", ExpandInto(m, info, n).mac, k0, new)
<1> DEFINE r == CoreMacReset(m)   end == Loop(r, info, n)
<1>1. n \in Nat /\ Label(info)
  BY InputsHold
<1>2. Holds("HmacSha384", r, k0, << >>)
  BY HoldsReset, CoreSizes
<1>3. ExpandInto(m, info, n) =
        IF n > MAX_OUTPUT_LEN THEN [mac |-> m, okm |-> Zeros(n), ok |-> FALSE] ELSE end
  BY DEF ExpandInto, Rejected
<1>4. PromiseHkdf!Answer(k0, info, n) =
        IF n > MAX_OUTPUT_LEN THEN [ok |-> FALSE, okm |-> Zeros(n)]
        ELSE [ok |-> TRUE, okm |-> PromiseHkdf!Okm(k0, info, n)]
  BY SameHkdf DEF PromiseHkdf!Answer, PromiseHkdf!Refused
<1>5. MAX_OUTPUT_LEN \in Int
  BY WidthAssumption, CoreSizes DEF MAX_OUTPUT_LEN
<1> HIDE DEF r
<1>6. CASE n > MAX_OUTPUT_LEN
  <2>1. /\ ExpandInto(m, info, n).ok = FALSE /\ ExpandInto(m, info, n).okm = Zeros(n)
        /\ ExpandInto(m, info, n).mac = m
    BY <1>3, <1>6
  <2> QED BY <1>4, <1>6, <2>1
<1>7. CASE ~(n > MAX_OUTPUT_LEN)
  <2>1. n <= MAX_OUTPUT_LEN
    BY <1>1, <1>5, <1>7
  <2>2. /\ end.ok = TRUE /\ end.okm = PromiseHkdf!Okm(k0, info, n)
        /\ \E new : Holds("HmacSha384", end.mac, k0, new)
    BY <1>1, <1>2, <2>1, LoopComputes
  <2> HIDE DEF end
  <2>3. ExpandInto(m, info, n) = end
    BY <1>3, <1>7
  <2> QED BY <1>4, <1>7, <2>2, <2>3
<1> QED BY <1>6, <1>7

-----------------------------------------------------------------------------
(***************************************************************************)
(* The inductive invariant.                                                *)
(***************************************************************************)
\* The memory of a slot: that of some object, keyed as long as it is live and
\* clean once it is not.
SlotSound(t, m, alive) ==
  /\ SomeMac(CoreIvs, m)
  /\ alive => \E k0, msg : Holds(KeyType(t), m, k0, msg)
  /\ ~alive => Erased(m)

SlotsOK == /\ mac = [h \in Handle |-> mac[h]]
           /\ type \in [Handle -> MacType \cup {Expander}]
           /\ live \subseteq Handle
           /\ \A h \in Handle : SlotSound(type[h], mac[h], h \in live)

KeyOK == /\ IsPrk(prk) /\ prkStatus \in {"unused", "live", "dropped"}
         /\ prkStatus # "live" => prk = Zeros(PRK_LEN)
         /\ answer.ok \in BOOLEAN

IInv == SlotsOK /\ KeyOK /\ returned = [t \in MacType |-> returned[t]]

LEMMA UnusedIsErased == SomeMac(CoreIvs, Unused) /\ Erased(Unused)
<1> DEFINE c == CoreIv("Sha384")   f == FromState(c, 0)
           x == [inner |-> f, inner_state |-> ZERO_STATE, outer_state |-> ZERO_STATE]
<1>1. ByteSet(Byte) /\ 0 \in 0 .. LEN_MOD - 1 /\ IvSet(CoreIvs)
  BY CoreSizes
<1>2. c \in ChainOver(CoreIvs, Byte) /\ ZERO_STATE \in ChainOver(CoreIvs, Byte)
  BY <1>1, InitialStates DEF CoreIv, OwnIv, ChainOver, CoreIvs
<1>3. Unused = CoreMacDrop(x)
  BY DEF Unused, CoreMacDrop, CoreNew, CoreWithState
<1> HIDE DEF c
<1>4. f \in HasherOver(CoreIvs, Byte) /\ BufferSound(f)
  BY <1>1, <1>2, FromStateSound
<1> HIDE DEF f
<1>5. x \in MacOver(CoreIvs, Byte) /\ x.inner = f
  BY <1>2, <1>4 DEF MacOver
<1> HIDE DEF x
<1>6. SomeMac(CoreIvs, x)
  BY <1>1, <1>4, <1>5 DEF SomeMac
<1> QED BY <1>3, <1>6, DroppedIsErased

LEMMA InitIInv == Init => IInv
<1> SUFFICES ASSUME Init PROVE IInv
  OBVIOUS
<1>1. SlotsOK
  <2>1. SlotSound("HmacSha384", Unused, FALSE)
    BY UnusedIsErased DEF SlotSound
  <2>2. /\ mac = [h \in Handle |-> Unused] /\ live = {}
        /\ type = [h \in Handle |-> "HmacSha384"]
    BY DEF Init
  <2>3. ASSUME NEW h \in Handle PROVE SlotSound(type[h], mac[h], h \in live)
    <3>1. type[h] = "HmacSha384" /\ mac[h] = Unused /\ (h \in live) = FALSE
      BY <2>2
    <3> QED BY <2>1, <3>1
  <2> QED BY <2>2, <2>3, CoreSizes DEF SlotsOK
<1>2. KeyOK
  BY ZerosArePrk DEF Init, KeyOK, NoAnswer
<1>3. returned = [t \in MacType |-> returned[t]]
  BY DEF Init
<1> QED BY <1>1, <1>2, <1>3 DEF IInv

\* A call that changes one slot.
LEMMA SlotStep ==
  ASSUME SlotsOK, NEW h \in Handle, NEW m, NEW t \in MacType \cup {Expander},
         NEW alive \in BOOLEAN, SlotSound(t, m, alive),
         mac' = [mac EXCEPT ![h] = m], type' = [type EXCEPT ![h] = t],
         live' = IF alive THEN live \cup {h} ELSE live \ {h}
  PROVE  SlotsOK'
<1>1. /\ mac' = [g \in Handle |-> mac'[g]] /\ live' \subseteq Handle
      /\ type' \in [Handle -> MacType \cup {Expander}]
  BY DEF SlotsOK
<1>2. ASSUME NEW g \in Handle
      PROVE  SlotSound(type'[g], mac'[g], g \in live')
  <2>1. CASE g = h
    <3>1. type'[g] = t /\ mac'[g] = m /\ (g \in live' <=> alive)
      BY <2>1 DEF SlotsOK
    <3> QED BY <3>1 DEF SlotSound
  <2>2. CASE g # h
    <3>1. type'[g] = type[g] /\ mac'[g] = mac[g] /\ (g \in live' <=> g \in live)
      BY <2>2 DEF SlotsOK
    <3>2. SlotSound(type[g], mac[g], g \in live)
      BY DEF SlotsOK
    <3> QED BY <3>1, <3>2 DEF SlotSound
  <2> QED BY <2>1, <2>2
<1> QED BY <1>1, <1>2 DEF SlotsOK

LEMMA SlotsUnchanged ==
  ASSUME SlotsOK, UNCHANGED << mac, type, live >>
  PROVE  SlotsOK'
  BY DEF SlotsOK

LEMMA KeyUnchanged ==
  ASSUME KeyOK, UNCHANGED hkdfVars
  PROVE  KeyOK'
  BY DEF KeyOK, hkdfVars

\* What an HMAC call returns.
LEMMA ReturnsStep ==
  ASSUME IInv, NEW t \in MacType, NEW value, Returns(t, value)
  PROVE  /\ returned' = [u \in MacType |-> returned'[u]] /\ KeyOK'
         /\ \A u \in MacType : returned'[u] = IF u = t THEN value ELSE returned[u]
<1>1. returned' = [returned EXCEPT ![t] = value] /\ UNCHANGED hkdfVars
  BY DEF Returns
<1>2. KeyOK'
  BY <1>1, KeyUnchanged DEF IInv
<1> QED BY <1>1, <1>2 DEF IInv

-----------------------------------------------------------------------------
(***************************************************************************)
(* The calls on HMAC objects.                                              *)
(***************************************************************************)
\* An object that comes to be keyed, or stays so.
LEMMA KeyedSlot ==
  ASSUME NEW t \in MacType \cup {Expander}, NEW m, NEW k0, NEW msg, Holds(KeyType(t), m, k0, msg)
  PROVE  SlotSound(t, m, TRUE)
<1> DEFINE u == KeyType(t)
<1>1. Holds(u, m, k0, msg)
  OBVIOUS
<1> HIDE DEF u
<1>2. SomeMac(CoreIvs, m)
  BY <1>1, HoldsView
<1> QED BY <1>2 DEF SlotSound

\* A live HMAC holds a key in the hash of its own type.
LEMMA LiveMac ==
  ASSUME IInv, NEW h \in Handle, IsMac(h)
  PROVE  /\ type[h] \in MacType /\ h \in live /\ KeyType(type[h]) = type[h]
         /\ \E k0, msg : Holds(type[h], mac[h], k0, msg)
<1>1. type[h] \in MacType /\ h \in live /\ KeyType(type[h]) = type[h]
  BY DEF IInv, SlotsOK, IsMac, KeyType
<1>2. SlotSound(type[h], mac[h], TRUE)
  BY <1>1 DEF IInv, SlotsOK
<1> QED BY <1>1, <1>2 DEF SlotSound

\* A slot comes to hold an HMAC.
LEMMA StartsIInv ==
  ASSUME IInv, NEW h \in Handle, NEW t \in MacType, NEW v, NEW k0, NEW msg,
         Holds(t, v, k0, msg), Starts(h, t, v)
  PROVE  IInv'
<1>1. /\ mac' = [mac EXCEPT ![h] = v] /\ type' = [type EXCEPT ![h] = t]
      /\ live' = live \cup {h} /\ Returns(t, Nothing)
  BY DEF Starts
<1>2. KeyType(t) = t
  BY DEF KeyType, MacType, Expander
<1>3. SlotSound(t, v, TRUE)
  BY <1>2, KeyedSlot
<1>4. SlotsOK'
  BY <1>1, <1>3, SlotStep DEF IInv
<1> QED BY <1>1, <1>4, ReturnsStep DEF IInv

\* A live HMAC takes another message under its key.
LEMMA BecomesIInv ==
  ASSUME IInv, NEW h \in Handle, IsMac(h), NEW v, NEW k0, NEW msg,
         Holds(type[h], v, k0, msg), Becomes(h, v)
  PROVE  IInv'
<1> DEFINE t == type[h]
<1>1. t \in MacType /\ h \in live /\ KeyType(t) = t
  BY LiveMac
<1>2. /\ mac' = [mac EXCEPT ![h] = v] /\ Returns(t, Nothing) /\ type' = type /\ live' = live
  BY DEF Becomes
<1>3. type' = [type EXCEPT ![h] = t] /\ live' = live \cup {h}
  BY <1>1, <1>2 DEF IInv, SlotsOK
<1>4. Holds(t, v, k0, msg)
  OBVIOUS
<1> HIDE DEF t
<1>5. SlotSound(t, v, TRUE)
  BY <1>1, <1>4, KeyedSlot
<1>6. SlotsOK'
  BY <1>1, <1>2, <1>3, <1>5, SlotStep DEF IInv
<1> QED BY <1>1, <1>2, <1>6, ReturnsStep DEF IInv

\* Room for an update that the bound on messages admits.
LEMMA RoomForUpdate ==
  ASSUME NEW t, NEW m, NEW k0, NEW msg, Holds(t, m, k0, msg),
         NEW data \in Chunks, Len(MessageOf(m)) + Len(data) <= MaxLen
  PROVE  Room(msg \o data) /\ Bytes(data) /\ Len(msg \o data) = Len(msg) + Len(data)
<1>1. MessageOf(m) = msg
  BY HoldsView
<1>2. data \in Seq(Byte) /\ Bytes(data) /\ MaxLen \in Nat /\ PREFIX_LEN + MaxLen < LEN_MOD
  BY InputsHold
<1>3. PICK B : msg \in Seq(B)
  BY DEF Holds, Keyed, KeyedOver
<1> DEFINE C == B \cup Byte
<1>4. msg \in Seq(C) /\ data \in Seq(C)
  BY <1>2, <1>3, SeqMonotone
<1> HIDE DEF C
<1>5. /\ Len(msg \o data) = Len(msg) + Len(data) /\ Len(msg) \in Nat /\ Len(data) \in Nat
  BY <1>4, LenProperties, ConcatProperties
<1>6. PREFIX_LEN \in Nat /\ LEN_MOD \in Nat
  BY CoreSizes
<1> QED BY <1>1, <1>2, <1>5, <1>6 DEF Room

\* Updates and resets of an object that holds a key.
LEMMA UpdateHolds ==
  ASSUME NEW t, NEW m, NEW k0, NEW msg, Holds(t, m, k0, msg),
         NEW data \in Chunks, Len(MessageOf(m)) + Len(data) <= MaxLen
  PROVE  Holds(t, CoreMacUpdate(m, data), k0, msg \o data)
<1>1. Room(msg \o data) /\ Bytes(data)
  BY RoomForUpdate
<1> QED BY <1>1, HoldsUpdate

LEMMA NewIInv ==
  ASSUME IInv, NEW h \in Handle, NEW t \in MacType, NEW key \in Keys, DoNew(h, t, key)
  PROVE  IInv'
<1>1. key \in Seq(Byte) /\ Len(key) < LEN_MOD /\ ByteSet(Byte)
  BY InputsHold, LabelIsShort, CoreSizes
<1>2. Holds(t, CoreKeyed(t, key), K0On(t, key), << >>)
  BY <1>1, CoreKeyedHolds
<1> QED BY <1>2, StartsIInv DEF DoNew

LEMMA CloneIInv ==
  ASSUME IInv, NEW h \in Handle, NEW g \in Handle, DoClone(h, g)
  PROVE  IInv'
<1>1. IsMac(g) /\ Starts(h, type[g], mac[g])
  BY DEF DoClone
<1>2. type[g] \in MacType
  BY <1>1, LiveMac
<1>3. PICK k0, msg : Holds(type[g], mac[g], k0, msg)
  BY <1>1, LiveMac
<1> QED BY <1>1, <1>2, <1>3, StartsIInv

LEMMA UpdateIInv ==
  ASSUME IInv, NEW h \in Handle, NEW data \in Chunks, DoUpdate(h, data)
  PROVE  IInv'
<1> DEFINE m == mac[h]   t == type[h]   v == CoreMacUpdate(m, data)
<1>1. IsMac(h) /\ Len(MessageOf(m)) + Len(data) <= MaxLen /\ Becomes(h, v)
  BY DEF DoUpdate
<1>2. PICK k0, msg : Holds(t, m, k0, msg)
  BY <1>1, LiveMac
<1> HIDE DEF m, t
<1>3. Holds(t, v, k0, msg \o data)
  BY <1>1, <1>2, UpdateHolds
<1> QED BY <1>1, <1>3, BecomesIInv DEF t

LEMMA ResetIInv ==
  ASSUME IInv, NEW h \in Handle, DoReset(h)
  PROVE  IInv'
<1> DEFINE m == mac[h]   t == type[h]   v == CoreMacReset(m)
<1>1. IsMac(h) /\ Becomes(h, v)
  BY DEF DoReset
<1>2. t \in MacType
  BY <1>1, LiveMac
<1>3. PICK k0, msg : Holds(t, m, k0, msg)
  BY <1>1, LiveMac
<1> HIDE DEF m, t
<1>4. Holds(t, v, k0, << >>)
  BY <1>2, <1>3, HoldsReset
<1> QED BY <1>1, <1>4, BecomesIInv DEF t

LEMMA ReadIInv ==
  ASSUME IInv, NEW h \in Handle, IsMac(h), NEW value, Returns(type[h], value),
         UNCHANGED << mac, type, live >>
  PROVE  IInv'
<1>1. type[h] \in MacType
  BY LiveMac
<1>2. SlotsOK'
  BY SlotsUnchanged DEF IInv
<1> QED BY <1>1, <1>2, ReturnsStep DEF IInv

LEMMA DropIInv ==
  ASSUME IInv, NEW h \in Handle, DoDrop(h)
  PROVE  IInv'
<1> DEFINE m == CoreMacDrop(mac[h])   t == type[h]
<1>1. /\ mac' = [mac EXCEPT ![h] = m] /\ live' = live \ {h} /\ type' = type
      /\ prk' = prk /\ prkStatus' = prkStatus
  BY DEF DoDrop
<1>2. SlotSound(t, mac[h], h \in live) /\ t \in MacType \cup {Expander}
  BY DEF IInv, SlotsOK
<1>3. SomeMac(CoreIvs, m) /\ Erased(m)
  BY <1>2, DroppedIsErased DEF SlotSound
<1> HIDE DEF m
<1>4. SlotSound(t, m, FALSE)
  BY <1>3 DEF SlotSound
<1>5. type' = [type EXCEPT ![h] = t]
  BY <1>1 DEF IInv, SlotsOK
<1>6. SlotsOK'
  BY <1>1, <1>2, <1>4, <1>5, SlotStep DEF IInv
<1>7. KeyOK'
  <2>1. answer' = NoAnswer \/ answer' = answer
    BY DEF DoDrop
  <2>2. NoAnswer.ok \in BOOLEAN /\ answer.ok \in BOOLEAN
    BY DEF NoAnswer, IInv, KeyOK
  <2>3. answer'.ok \in BOOLEAN
    <3>1. CASE answer' = NoAnswer
      BY <2>2, <3>1
    <3>2. CASE answer' = answer
      BY <2>2, <3>2
    <3> QED BY <2>1, <3>1, <3>2
  <2> QED BY <1>1, <2>3 DEF IInv, KeyOK
<1>8. returned' = [u \in MacType |-> returned'[u]]
  BY DEF DoDrop, IInv
<1> QED BY <1>6, <1>7, <1>8 DEF IInv

-----------------------------------------------------------------------------
(***************************************************************************)
(* The calls on HKDF objects.                                              *)
(***************************************************************************)
\* A call that changes the PRK and clears the answer.
LEMMA PrkStep ==
  ASSUME IInv, NEW bytes, IsPrk(bytes), NEW s \in {"unused", "live", "dropped"},
         s # "live" => bytes = Zeros(PRK_LEN),
         prk' = bytes, prkStatus' = s, Answers(NoAnswer), mac' = mac
  PROVE  IInv'
<1>1. answer' = NoAnswer /\ type' = type /\ live' = live /\ returned' = returned
  BY DEF Answers
<1>2. SlotsOK'
  BY <1>1, SlotsUnchanged DEF IInv
<1>3. KeyOK'
  BY <1>1 DEF KeyOK, NoAnswer
<1> QED BY <1>1, <1>2, <1>3 DEF IInv

\* A live expander holds a key in SHA-384.
LEMMA LiveExpander ==
  ASSUME IInv, NEW h \in Handle, h \in live, type[h] = Expander
  PROVE  \E k0, msg : Holds("HmacSha384", mac[h], k0, msg)
<1>1. SlotSound(type[h], mac[h], TRUE)
  BY DEF IInv, SlotsOK
<1> QED BY <1>1 DEF SlotSound, KeyType

\* The call on an expander: what it answers and what it leaves.
LEMMA ExpandStep ==
  ASSUME IInv, NEW h \in Handle, NEW info \in Infos, NEW n \in Lengths, DoExpand(h, info, n)
  PROVE  \E k0, old, new, m :
           /\ Holds("HmacSha384", mac[h], k0, old) /\ Holds("HmacSha384", m, k0, new)
           /\ answer' = PromiseHkdf!Answer(k0, info, n) /\ answer'.ok \in BOOLEAN
           /\ mac' = [mac EXCEPT ![h] = m]
<1> DEFINE end == ExpandInto(mac[h], info, n)
<1>1. /\ h \in live /\ type[h] = Expander /\ answer' = [ok |-> end.ok, okm |-> end.okm]
      /\ mac' = [mac EXCEPT ![h] = end.mac]
  BY DEF DoExpand, Answers
<1>2. PICK k0, old : Holds("HmacSha384", mac[h], k0, old)
  BY <1>1, LiveExpander
<1>3. /\ [ok |-> end.ok, okm |-> end.okm] = PromiseHkdf!Answer(k0, info, n)
      /\ end.ok \in BOOLEAN
      /\ \E new : Holds("HmacSha384", end.mac, k0, new)
  <2>1. PICK v : v = mac[h]
    OBVIOUS
  <2>2. Holds("HmacSha384", v, k0, old)
    BY <1>2, <2>1
  <2>3. /\ [ok |-> ExpandInto(v, info, n).ok, okm |-> ExpandInto(v, info, n).okm]
             = PromiseHkdf!Answer(k0, info, n)
        /\ ExpandInto(v, info, n).ok \in BOOLEAN
        /\ \E new : Holds("HmacSha384", ExpandInto(v, info, n).mac, k0, new)
    BY <2>2, ExpandAnswers
  <2> QED BY <2>1, <2>3
<1> HIDE DEF end
<1>4. answer'.ok = end.ok
  BY <1>1
<1> QED BY <1>1, <1>2, <1>3, <1>4

\* Expansion in one call.
LEMMA OneShotStep ==
  ASSUME IInv, NEW info \in Infos, NEW n \in Lengths, DoOneShot(info, n)
  PROVE  /\ answer' = PromiseHkdf!Answer(K0On("HmacSha384", prk), info, n)
         /\ answer'.ok \in BOOLEAN
<1> DEFINE k0 == K0On("HmacSha384", prk)   m == CoreKeyed("HmacSha384", prk)
           end == ExpandInto(m, info, n)
<1>1. answer' = [ok |-> end.ok, okm |-> end.okm]
  BY DEF DoOneShot, Answers
<1>2. Holds("HmacSha384", m, k0, << >>)
  BY PrkKeys DEF IInv, KeyOK
<1>3. PICK v, k : v = m /\ k = k0
  OBVIOUS
<1> HIDE DEF m, k0
<1>4. Holds("HmacSha384", v, k, << >>)
  BY <1>2, <1>3
<1>5. /\ [ok |-> ExpandInto(v, info, n).ok, okm |-> ExpandInto(v, info, n).okm]
           = PromiseHkdf!Answer(k, info, n)
      /\ ExpandInto(v, info, n).ok \in BOOLEAN
  BY <1>4, ExpandAnswers
<1>6. answer'.ok = end.ok /\ end = ExpandInto(v, info, n)
  BY <1>1, <1>3
<1> HIDE DEF end
<1>7. answer' = PromiseHkdf!Answer(k, info, n) /\ answer'.ok \in BOOLEAN
  BY <1>1, <1>5, <1>6
<1> QED BY <1>3, <1>7 DEF k0

LEMMA ExpanderIInv ==
  ASSUME IInv, NEW h \in Handle, DoExpander(h)
  PROVE  IInv'
<1> DEFINE m == CoreKeyed("HmacSha384", prk)
<1>1. /\ mac' = [mac EXCEPT ![h] = m] /\ type' = [type EXCEPT ![h] = Expander]
      /\ live' = live \cup {h} /\ answer' = NoAnswer
      /\ returned' = returned /\ prk' = prk /\ prkStatus' = prkStatus
  BY DEF DoExpander
<1>2. Holds("HmacSha384", m, K0On("HmacSha384", prk), << >>)
  BY PrkKeys DEF IInv, KeyOK
<1> HIDE DEF m
<1>3. SlotSound(Expander, m, TRUE)
  <2>1. KeyType(Expander) = "HmacSha384"
    BY DEF KeyType
  <2>2. PICK k0 : k0 = K0On("HmacSha384", prk)
    OBVIOUS
  <2>3. Holds(KeyType(Expander), m, k0, << >>)
    BY <1>2, <2>1, <2>2
  <2> QED BY <2>3, KeyedSlot
<1>4. SlotsOK'
  BY <1>1, <1>3, SlotStep DEF IInv
<1>5. KeyOK'
  BY <1>1 DEF IInv, KeyOK, NoAnswer
<1> QED BY <1>1, <1>4, <1>5 DEF IInv

LEMMA ExpandIInv ==
  ASSUME IInv, NEW h \in Handle, NEW info \in Infos, NEW n \in Lengths, DoExpand(h, info, n)
  PROVE  IInv'
<1>1. /\ h \in live /\ type[h] = Expander /\ type' = type /\ live' = live
      /\ returned' = returned /\ prk' = prk /\ prkStatus' = prkStatus
  BY DEF DoExpand, Answers
<1>2. PICK k0, old, new, m :
        /\ Holds("HmacSha384", m, k0, new) /\ answer'.ok \in BOOLEAN
        /\ mac' = [mac EXCEPT ![h] = m]
  BY ExpandStep
<1>3. type' = [type EXCEPT ![h] = Expander] /\ live' = live \cup {h}
  BY <1>1 DEF IInv, SlotsOK
<1>4. SlotSound(Expander, m, TRUE)
  <2>1. Holds(KeyType(Expander), m, k0, new)
    BY <1>2 DEF KeyType
  <2> QED BY <2>1, KeyedSlot
<1>5. SlotsOK'
  BY <1>2, <1>3, <1>4, SlotStep DEF IInv
<1>6. KeyOK'
  BY <1>1, <1>2 DEF IInv, KeyOK
<1> QED BY <1>1, <1>5, <1>6 DEF IInv

LEMMA HkdfIInv ==
  ASSUME IInv, HkdfNext
  PROVE  IInv'
<1>1. ASSUME NEW salt \in Salts, NEW ikm \in Ikms, DoExtract(salt, ikm) PROVE IInv'
  <2>1. IsPrk(Extracted(salt, ikm))
    BY ExtractedIsPrk
  <2> QED BY <1>1, <2>1, PrkStep DEF DoExtract, SetPrk
<1>2. ASSUME NEW bytes \in Prks, DoFromPrk(bytes) PROVE IInv'
  <2>1. IsPrk(bytes)
    BY InputsHold, CoreSizes DEF IsPrk
  <2> QED BY <1>2, <2>1, PrkStep DEF DoFromPrk, SetPrk
<1>3. ASSUME NEW s \in {"live", "dropped"}, WipePrk(s) PROVE IInv'
  BY <1>3, ZerosArePrk, PrkStep DEF WipePrk
<1>4. ASSUME NEW info \in Infos, NEW n \in Lengths, DoOneShot(info, n) PROVE IInv'
  <2>1. answer'.ok \in BOOLEAN
    BY <1>4, OneShotStep
  <2>2. /\ UNCHANGED << mac, type, live, returned >> /\ prk' = prk /\ prkStatus' = prkStatus
    BY <1>4 DEF DoOneShot, Answers
  <2>3. SlotsOK'
    BY <2>2, SlotsUnchanged DEF IInv
  <2> QED BY <2>1, <2>2, <2>3 DEF IInv, KeyOK
<1> QED BY <1>1, <1>2, <1>3, <1>4, ExpandIInv, ExpanderIInv DEF HkdfNext

LEMMA MacIInv ==
  ASSUME IInv, NEW h \in Handle, MacNext(h)
  PROVE  IInv'
<1>1. ASSUME NEW g \in Handle, DoVerify(h, g) PROVE IInv'
  BY <1>1, ReadIInv DEF DoVerify
<1>2. ASSUME DoFinalize(h) PROVE IInv'
  BY <1>2, ReadIInv DEF DoFinalize
<1> QED BY <1>1, <1>2, NewIInv, CloneIInv, UpdateIInv, ResetIInv, DropIInv DEF MacNext

LEMMA NextIInv == IInv /\ [Next]_vars => IInv'
<1> SUFFICES ASSUME IInv, [Next]_vars PROVE IInv'
  OBVIOUS
<1>1. CASE UNCHANGED vars
  <2>1. UNCHANGED << mac, type, live >> /\ UNCHANGED hkdfVars /\ returned' = returned
    BY <1>1 DEF vars, macVars
  <2> QED BY <2>1, SlotsUnchanged, KeyUnchanged DEF IInv
<1> QED BY <1>1, HkdfIInv, MacIInv DEF Next

LEMMA Inductive == Spec => []IInv
  BY InitIInv, NextIInv, PTL DEF Spec

-----------------------------------------------------------------------------
(***************************************************************************)
(* The theorems about the objects' memory.                                 *)
(***************************************************************************)

\* The sizes and ranges of every object's memory and of the PRK, live or not.
THEOREM TypeCorrect == Spec => []TypeOK
<1>1. IInv => TypeOK
  <2> SUFFICES ASSUME IInv PROVE TypeOK
    OBVIOUS
  <2>1. Len(prk) = PRK_LEN
    BY PrkKeys DEF IInv, KeyOK
  <2>2. ASSUME NEW h \in Handle
        PROVE  /\ DOMAIN mac[h].inner.block = 1 .. BLOCK_LEN
               /\ mac[h].inner.block_len \in 0 .. BLOCK_LEN - 1
               /\ mac[h].inner.block_filled \in mac[h].inner.block_len .. BLOCK_LEN
               /\ mac[h].inner.len \in 0 .. LEN_MOD - 1
    <3> DEFINE i == mac[h].inner
    <3>1. PICK B : mac[h] \in MacOver(CoreIvs, B) /\ BufferSound(i)
      BY DEF IInv, SlotsOK, SlotSound, SomeMac
    <3>2. i \in HasherOver(CoreIvs, B)
      BY <3>1 DEF MacOver
    <3> HIDE DEF i
    <3>3. /\ DOMAIN i.block = 1 .. BLOCK_LEN /\ i.block_len \in 0 .. BLOCK_LEN - 1
          /\ i.block_filled \in i.block_len .. BLOCK_LEN /\ i.len \in 0 .. LEN_MOD - 1
      BY <3>1, <3>2, CoreSizes DEF HasherOver, BufferSound
    <3> QED BY <3>3 DEF i
  <2> QED BY <2>1, <2>2 DEF IInv, SlotsOK, KeyOK, TypeOK
<1> QED BY <1>1, Inductive, PTL

\* A dropped object holds no state made from a key and no byte of a message,
\* label or output block; a dropped or zeroized PRK is all zeros.
THEOREM SecretsAreErased == Spec => []SecretsErased
<1>1. IInv => SecretsErased
  <2> SUFFICES ASSUME IInv PROVE SecretsErased
    OBVIOUS
  <2>1. ASSUME NEW h \in Handle \ live
        PROVE  /\ mac[h].inner.block = Zeros(BLOCK_LEN)
               /\ mac[h].inner.state = ZERO_STATE
               /\ mac[h].inner_state = ZERO_STATE
               /\ mac[h].outer_state = ZERO_STATE
    <3>1. Erased(mac[h])
      BY DEF IInv, SlotsOK, SlotSound
    <3> QED BY <3>1 DEF Erased, Clean
  <2>2. prkStatus # "live" => prk = Zeros(PRK_LEN)
    BY DEF IInv, KeyOK
  <2> QED BY <2>1, <2>2 DEF SecretsErased
<1> QED BY <1>1, Inductive, PTL

\* count() is the number of message bytes since the last reset, for HMACs and
\* expanders, however they came to be.
THEOREM CountsMessage == Spec => []CountIsMessageLength
<1>1. IInv => CountIsMessageLength
  <2> SUFFICES ASSUME IInv, NEW h \in live
               PROVE  CoreMacCount(mac[h]) = Len(MessageOf(mac[h]))
    BY DEF CountIsMessageLength
  <2>1. h \in Handle /\ SlotSound(type[h], mac[h], TRUE)
    BY DEF IInv, SlotsOK
  <2>2. PICK t, m, k0, msg : m = mac[h] /\ Holds(t, m, k0, msg)
    BY <2>1 DEF SlotSound
  <2>3. CoreMacCount(m) = Len(msg) /\ MessageOf(m) = msg
    BY <2>2, HoldsView
  <2> QED BY <2>2, <2>3
<1> QED BY <1>1, Inductive, PTL

-----------------------------------------------------------------------------
(***************************************************************************)
(* Refinement: the HKDF objects implement Rfc5869.                         *)
(***************************************************************************)
\* What the promise sees of the PRK and of the slots.
KeyView     == IF prkStatus = "live" THEN prk ELSE << >>
KeyedBlocks == [h \in Handle |-> IF h \in Live(Expander) THEN KeyBlockOf(mac[h])
                                 ELSE << >>]

ExpanderView(m, t, alive) == IF alive /\ t = Expander THEN KeyBlockOf(m) ELSE << >>

LEMMA SlotView ==
  ASSUME NEW h \in Handle
  PROVE  KeyedBlocks[h] = ExpanderView(mac[h], type[h], h \in live)
<1>1. h \in Live(Expander) <=> (h \in live /\ type[h] = Expander)
  BY DEF Live
<1> QED BY <1>1 DEF KeyedBlocks, ExpanderView

\* A call that changes one slot.
LEMMA SetsView ==
  ASSUME IInv, NEW h \in Handle, NEW m, NEW t, NEW alive \in BOOLEAN,
         mac' = [mac EXCEPT ![h] = m], type' = [type EXCEPT ![h] = t],
         live' = IF alive THEN live \cup {h} ELSE live \ {h}
  PROVE  /\ KeyedBlocks' = [KeyedBlocks EXCEPT ![h] = ExpanderView(m, t, alive)]
         /\ \A g \in Handle \ {h} : /\ mac'[g] = mac[g] /\ type'[g] = type[g]
                                    /\ (g \in live' <=> g \in live)
         /\ mac'[h] = m /\ type'[h] = t /\ (h \in live' <=> alive)
<1>1. /\ mac'[h] = m /\ type'[h] = t /\ (h \in live' <=> alive)
      /\ \A g \in Handle \ {h} : /\ mac'[g] = mac[g] /\ type'[g] = type[g]
                                 /\ (g \in live' <=> g \in live)
  BY DEF IInv, SlotsOK
<1>2. PICK old, new : old = KeyedBlocks /\ new = KeyedBlocks'
  OBVIOUS
<1>3. new = [g \in Handle |-> new[g]] /\ old = [g \in Handle |-> old[g]]
  BY <1>2 DEF KeyedBlocks
<1>4. ASSUME NEW g \in Handle
      PROVE  new[g] = ExpanderView(mac'[g], type'[g], g \in live')
  <2>1. g \in Live(Expander)' <=> (g \in live' /\ type'[g] = Expander)
    BY DEF Live
  <2>2. new[g] = IF g \in Live(Expander)' THEN KeyBlockOf(mac'[g]) ELSE << >>
    BY <1>2 DEF KeyedBlocks, KeyBlockOf
  <2> QED BY <2>1, <2>2 DEF ExpanderView
<1>5. new[h] = ExpanderView(m, t, alive)
  BY <1>1, <1>4 DEF ExpanderView
<1>6. ASSUME NEW g \in Handle \ {h} PROVE new[g] = old[g]
  BY <1>1, <1>2, <1>4, SlotView DEF ExpanderView
<1>7. new = [old EXCEPT ![h] = ExpanderView(m, t, alive)]
  BY <1>3, <1>5, <1>6
<1> QED BY <1>1, <1>2, <1>7

LEMMA InitImplementsHkdf == Init => PromiseHkdf!AInit
<1> SUFFICES ASSUME Init PROVE PromiseHkdf!AInit
  OBVIOUS
<1>1. prkStatus = "unused" /\ Live(Expander) = {} /\ answer = NoAnswer
  BY DEF Init, Live
<1> QED BY <1>1 DEF PromiseHkdf!AInit, PromiseHkdf!NoKey, PromiseHkdf!NoAnswer, NoAnswer

\* No PRK and no key block is empty.
LEMMA LiveKey ==
  ASSUME IInv, prkStatus = "live"
  PROVE  KeyView = prk /\ KeyView # << >>
  BY PrkKeys DEF IInv, KeyOK, KeyView

LEMMA LiveSlot ==
  ASSUME NEW h \in Handle, h \in live, type[h] = Expander,
         NEW k0, NEW msg, Holds("HmacSha384", mac[h], k0, msg)
  PROVE  KeyedBlocks[h] = k0 /\ k0 # << >>
<1>1. PICK m : m = mac[h]
  OBVIOUS
<1>2. KeyBlockOf(m) = k0 /\ k0 # << >>
  BY <1>1, HoldsView
<1> QED BY <1>1, <1>2, SlotView DEF ExpanderView

\* A call that sets or clears the PRK.
LEMMA SetsKey ==
  ASSUME NEW bytes, prk' = bytes, Answers(NoAnswer), mac' = mac
  PROVE  /\ prkStatus' = "live" => PromiseHkdf!ASetKey(bytes)
         /\ prkStatus' # "live" => PromiseHkdf!ASetKey(PromiseHkdf!NoKey)
<1>1. KeyView' = IF prkStatus' = "live" THEN bytes ELSE << >>
  BY DEF KeyView
<1>2. KeyedBlocks' = KeyedBlocks
  BY DEF KeyedBlocks, KeyBlockOf, Live, Answers
<1>3. answer' = PromiseHkdf!NoAnswer /\ PromiseHkdf!NoKey = << >>
  BY SameHkdf DEF Answers
<1> QED BY <1>1, <1>2, <1>3 DEF PromiseHkdf!ASetKey, KeyView, KeyedBlocks

\* The HMAC calls do not show in the HKDF objects, except that an expander is
\* dropped like an HMAC.
LEMMA MacCallsAreSilent ==
  ASSUME IInv, NEW h \in Handle, NEW m, NEW t \in MacType, UNCHANGED hkdfVars,
         mac' = [mac EXCEPT ![h] = m], type' = [type EXCEPT ![h] = t],
         NEW alive \in BOOLEAN, live' = IF alive THEN live \cup {h} ELSE live \ {h},
         h \in live => type[h] # Expander
  PROVE  UNCHANGED << KeyView, KeyedBlocks, answer >>
<1>1. KeyedBlocks' = [KeyedBlocks EXCEPT ![h] = ExpanderView(m, t, alive)]
  <2>1. CASE alive = TRUE
    <3>1. live' = IF TRUE THEN live \cup {h} ELSE live \ {h}
      BY <2>1
    <3>2. KeyedBlocks' = [KeyedBlocks EXCEPT ![h] = ExpanderView(m, t, TRUE)]
      BY <3>1, SetsView
    <3> QED BY <2>1, <3>2
  <2>2. CASE alive = FALSE
    <3>1. live' = IF FALSE THEN live \cup {h} ELSE live \ {h}
      BY <2>2
    <3>2. KeyedBlocks' = [KeyedBlocks EXCEPT ![h] = ExpanderView(m, t, FALSE)]
      BY <3>1, SetsView
    <3> QED BY <2>2, <3>2
  <2> QED BY <2>1, <2>2
<1>2. t # Expander
  BY DEF MacType, Expander
<1>3. ExpanderView(m, t, alive) = << >> /\ KeyedBlocks[h] = << >>
  BY <1>2, SlotView DEF ExpanderView
<1>4. KeyedBlocks' = KeyedBlocks
  <2>1. PICK old : old = KeyedBlocks /\ old = [g \in Handle |-> old[g]]
    BY DEF KeyedBlocks
  <2>2. [old EXCEPT ![h] = << >>] = old
    BY <1>3, <2>1
  <2> QED BY <1>1, <1>3, <2>1, <2>2
<1> QED BY <1>4 DEF KeyView, hkdfVars

LEMMA MacImplementsHkdf ==
  ASSUME IInv, NEW h \in Handle, MacNext(h)
  PROVE  [PromiseHkdf!ANext]_(PromiseHkdf!avars)
<1> DEFINE silent == UNCHANGED << KeyView, KeyedBlocks, answer >>
<1>0. silent => [PromiseHkdf!ANext]_(PromiseHkdf!avars)
  BY DEF PromiseHkdf!avars, KeyView, KeyedBlocks
<1>1. ASSUME NEW t \in MacType, NEW v, Starts(h, t, v) PROVE silent
  <2>1. /\ h \notin live /\ UNCHANGED hkdfVars /\ mac' = [mac EXCEPT ![h] = v]
        /\ type' = [type EXCEPT ![h] = t] /\ live' = live \cup {h}
    BY <1>1 DEF Starts, Returns
  <2> QED BY <2>1, MacCallsAreSilent
<1>2. ASSUME NEW v, IsMac(h), Becomes(h, v) PROVE silent
  <2>1. /\ h \in live /\ type[h] \in MacType /\ type[h] # Expander
        /\ UNCHANGED hkdfVars /\ mac' = [mac EXCEPT ![h] = v]
        /\ type' = type /\ live' = live
    BY <1>2, LiveMac DEF Becomes, Returns, IsMac
  <2>2. type' = [type EXCEPT ![h] = type[h]] /\ live' = live \cup {h}
    BY <2>1 DEF IInv, SlotsOK
  <2> QED BY <2>1, <2>2, MacCallsAreSilent
<1>3. ASSUME UNCHANGED << mac, type, live >>, UNCHANGED hkdfVars PROVE silent
  BY <1>3 DEF KeyView, KeyedBlocks, KeyBlockOf, Live, hkdfVars
<1>4. ASSUME DoDrop(h) PROVE [PromiseHkdf!ANext]_(PromiseHkdf!avars)
  <2> DEFINE m == CoreMacDrop(mac[h])
  <2>1. /\ h \in live /\ mac' = [mac EXCEPT ![h] = m] /\ live' = live \ {h}
        /\ type' = type /\ prk' = prk /\ prkStatus' = prkStatus
    BY <1>4 DEF DoDrop
  <2> HIDE DEF m
  <2>2. type' = [type EXCEPT ![h] = type[h]] /\ type[h] \in MacType \cup {Expander}
    BY <2>1 DEF IInv, SlotsOK
  <2>3. CASE type[h] = Expander
    <3>1. answer' = NoAnswer
      BY <1>4, <2>3 DEF DoDrop
    <3>2. KeyedBlocks' = [KeyedBlocks EXCEPT ![h] = << >>]
      <4>1. KeyedBlocks' = [KeyedBlocks EXCEPT ![h] = ExpanderView(m, type[h], FALSE)]
        BY <2>1, <2>2, SetsView
      <4> QED BY <4>1 DEF ExpanderView
    <3>3. KeyedBlocks[h] # << >>
      <4>1. PICK k0, msg : Holds("HmacSha384", mac[h], k0, msg)
        BY <2>1, <2>3, LiveExpander
      <4> QED BY <2>1, <2>3, <4>1, LiveSlot
    <3>4. KeyView' = KeyView
      BY <2>1 DEF KeyView
    <3>5. PromiseHkdf!APrepare(h, PromiseHkdf!NoKey) /\ KeyedBlocks[h] # PromiseHkdf!NoKey
      BY <3>1, <3>2, <3>3, <3>4, SameHkdf
      DEF PromiseHkdf!APrepare, KeyView, KeyedBlocks
    <3> QED BY <3>5 DEF PromiseHkdf!ANext, KeyedBlocks
  <2>4. CASE type[h] # Expander
    <3>1. UNCHANGED hkdfVars /\ type[h] \in MacType
      BY <1>4, <2>1, <2>2, <2>4 DEF DoDrop, hkdfVars
    <3>2. silent
      BY <2>1, <2>2, <2>4, <3>1, MacCallsAreSilent
    <3> QED BY <1>0, <3>2
  <2> QED BY <2>3, <2>4
<1> HIDE DEF silent
<1>5. ASSUME NEW t \in MacType, NEW key \in Keys, DoNew(h, t, key) PROVE silent
  BY <1>1, <1>5 DEF DoNew
<1>6. ASSUME NEW g \in Handle, DoClone(h, g) PROVE silent
  <2>1. type[g] \in MacType
    BY <1>6, LiveMac DEF DoClone
  <2> QED BY <1>1, <1>6, <2>1 DEF DoClone
<1>7. ASSUME NEW g \in Handle, DoVerify(h, g) PROVE silent
  BY <1>3, <1>7 DEF DoVerify, Returns
<1>8. ASSUME DoFinalize(h) PROVE silent
  BY <1>3, <1>8 DEF DoFinalize, Returns
<1>9. ASSUME NEW data \in Chunks, DoUpdate(h, data) PROVE silent
  BY <1>2, <1>9 DEF DoUpdate
<1>10. ASSUME DoReset(h) PROVE silent
  BY <1>2, <1>10 DEF DoReset
<1> QED BY <1>0, <1>4, <1>5, <1>6, <1>7, <1>8, <1>9, <1>10 DEF MacNext

LEMMA HkdfImplementsHkdf ==
  ASSUME IInv, HkdfNext
  PROVE  PromiseHkdf!ANext
<1> USE DEF PromiseHkdf!ANext
<1>0. PromiseHkdf!NoAnswer = NoAnswer /\ PromiseHkdf!NoKey = << >>
  BY SameHkdf
<1>1. ASSUME NEW salt \in Salts, NEW ikm \in Ikms, DoExtract(salt, ikm)
      PROVE  PromiseHkdf!ANext
  <2>1. KeyView = PromiseHkdf!NoKey /\ PromiseHkdf!ASetKey(Extracted(salt, ikm))
    BY <1>0, <1>1, SetsKey DEF DoExtract, SetPrk, KeyView
  <2>2. Extracted(salt, ikm) = PromiseHkdf!Prk(salt, ikm)
    BY ExtractedIsPrk
  <2>3. PromiseHkdf!ASetKey(PromiseHkdf!Prk(salt, ikm))
    BY <2>1, <2>2
  <2> QED BY <2>1, <2>3 DEF KeyView
<1>2. ASSUME NEW bytes \in Prks, DoFromPrk(bytes) PROVE PromiseHkdf!ANext
  <2>1. KeyView = PromiseHkdf!NoKey /\ PromiseHkdf!ASetKey(bytes)
    BY <1>0, <1>2, SetsKey DEF DoFromPrk, SetPrk, KeyView
  <2> QED BY <2>1 DEF KeyView
<1>3. ASSUME NEW s \in {"live", "dropped"}, WipePrk(s) PROVE PromiseHkdf!ANext
  <2>1. KeyView # PromiseHkdf!NoKey
    BY <1>0, <1>3, LiveKey DEF WipePrk
  <2>2. CASE s = "live"
    <3>1. PromiseHkdf!ASetKey(Zeros(PRK_LEN))
      BY <1>3, <2>2, SetsKey DEF WipePrk
    <3>2. PromiseHkdf!ASetKey(PromiseHkdf!Zeros(SHA384_DIGEST_LEN))
      BY <3>1, SameHkdf DEF PRK_LEN
    <3> QED BY <2>1, <3>2 DEF KeyView
  <2>3. CASE s # "live"
    <3>1. PromiseHkdf!ASetKey(PromiseHkdf!NoKey)
      BY <1>3, <2>3, SetsKey DEF WipePrk
    <3> QED BY <2>1, <3>1 DEF KeyView
  <2> QED BY <2>2, <2>3
<1>4. ASSUME NEW info \in Infos, NEW n \in Lengths, DoOneShot(info, n)
      PROVE  PromiseHkdf!ANext
  <2>1. KeyView = prk /\ KeyView # PromiseHkdf!NoKey
    BY <1>0, <1>4, LiveKey DEF DoOneShot
  <2>2. answer' = PromiseHkdf!Answer(K0On("HmacSha384", prk), info, n)
    BY <1>4, OneShotStep
  <2>3. answer' = PromiseHkdf!Answer(PromiseHkdf!K0(KeyView), info, n)
    <3>1. PromiseHkdf!K0(KeyView) = K0On("HmacSha384", prk)
      BY <2>1, SameHkdf
    <3> QED BY <2>2, <3>1
  <2>4. KeyView' = KeyView /\ KeyedBlocks' = KeyedBlocks
    BY <1>4 DEF DoOneShot, Answers, KeyView, KeyedBlocks, KeyBlockOf, Live
  <2>5. PromiseHkdf!AExpand(PromiseHkdf!K0(KeyView), info, n)
    BY <2>3, <2>4 DEF PromiseHkdf!AExpand, KeyView, KeyedBlocks
  <2> QED BY <2>1, <2>5 DEF KeyView
<1>5. ASSUME NEW h \in Handle, DoExpander(h) PROVE PromiseHkdf!ANext
  <2> DEFINE m == CoreKeyed("HmacSha384", prk)
  <2>1. /\ prkStatus = "live" /\ h \notin live
        /\ mac' = [mac EXCEPT ![h] = m] /\ type' = [type EXCEPT ![h] = Expander]
        /\ live' = live \cup {h} /\ answer' = NoAnswer
        /\ prk' = prk /\ prkStatus' = prkStatus
    BY <1>5 DEF DoExpander
  <2>2. KeyBlockOf(m) = K0On("HmacSha384", prk)
    <3>1. Holds("HmacSha384", m, K0On("HmacSha384", prk), << >>)
      BY PrkKeys DEF IInv, KeyOK
    <3>2. PICK v, k : v = m /\ k = K0On("HmacSha384", prk)
      OBVIOUS
    <3> HIDE DEF m
    <3>3. Holds("HmacSha384", v, k, << >>)
      BY <3>1, <3>2
    <3>4. KeyBlockOf(v) = k
      BY <3>3, HoldsView
    <3> QED BY <3>2, <3>4
  <2> HIDE DEF m
  <2>3. KeyView = prk /\ KeyView # PromiseHkdf!NoKey
    BY <1>0, <2>1, LiveKey
  <2>4. KeyedBlocks[h] = PromiseHkdf!NoKey
    BY <1>0, <2>1, SlotView DEF ExpanderView
  <2>5. KeyedBlocks' = [KeyedBlocks EXCEPT ![h] = ExpanderView(m, Expander, TRUE)]
    BY <2>1, SetsView
  <2>6. ExpanderView(m, Expander, TRUE) = PromiseHkdf!K0(KeyView)
    BY <2>2, <2>3, SameHkdf DEF ExpanderView
  <2>7. /\ KeyedBlocks' = [KeyedBlocks EXCEPT ![h] = PromiseHkdf!K0(KeyView)]
        /\ answer' = PromiseHkdf!NoAnswer /\ KeyView' = KeyView
    BY <1>0, <2>1, <2>5, <2>6 DEF KeyView
  <2>8. PromiseHkdf!APrepare(h, PromiseHkdf!K0(KeyView))
    BY <2>7 DEF PromiseHkdf!APrepare, KeyView, KeyedBlocks
  <2> QED BY <2>3, <2>4, <2>8 DEF KeyView, KeyedBlocks
<1>6. ASSUME NEW h \in Handle, NEW info \in Infos, NEW n \in Lengths, DoExpand(h, info, n)
      PROVE  PromiseHkdf!ANext
  <2>1. /\ h \in live /\ type[h] = Expander /\ type' = type /\ live' = live
        /\ prk' = prk /\ prkStatus' = prkStatus
    BY <1>6 DEF DoExpand, Answers
  <2>2. PICK k0, old, new, m :
          /\ Holds("HmacSha384", mac[h], k0, old) /\ Holds("HmacSha384", m, k0, new)
          /\ answer' = PromiseHkdf!Answer(k0, info, n)
          /\ mac' = [mac EXCEPT ![h] = m]
    BY <1>6, ExpandStep
  <2>3. type' = [type EXCEPT ![h] = Expander] /\ live' = live \cup {h}
    BY <2>1 DEF IInv, SlotsOK
  <2>4. KeyedBlocks[h] = k0 /\ k0 # << >>
    BY <2>1, <2>2, LiveSlot
  <2>5. KeyBlockOf(m) = k0
    BY <2>2, HoldsView
  <2>6. KeyedBlocks' = [KeyedBlocks EXCEPT ![h] = ExpanderView(m, Expander, TRUE)]
    BY <2>2, <2>3, SetsView
  <2>7. KeyedBlocks' = [KeyedBlocks EXCEPT ![h] = k0]
    BY <2>5, <2>6 DEF ExpanderView
  <2>8. KeyedBlocks' = KeyedBlocks
    <3>1. PICK o : o = KeyedBlocks /\ o = [g \in Handle |-> o[g]]
      BY DEF KeyedBlocks
    <3>2. [o EXCEPT ![h] = k0] = o
      BY <2>4, <3>1
    <3> QED BY <2>7, <3>1, <3>2
  <2>9. KeyView' = KeyView
    BY <2>1 DEF KeyView
  <2>10. PromiseHkdf!AExpand(KeyedBlocks[h], info, n)
    BY <2>2, <2>4, <2>8, <2>9 DEF PromiseHkdf!AExpand, KeyView, KeyedBlocks
  <2>11. KeyedBlocks[h] # PromiseHkdf!NoKey
    BY <1>0, <2>4
  <2> QED BY <2>10, <2>11 DEF KeyedBlocks
<1> QED BY <1>1, <1>2, <1>3, <1>4, <1>5, <1>6 DEF HkdfNext

LEMMA NextImplementsHkdf ==
  IInv /\ [Next]_vars => [PromiseHkdf!ANext]_(PromiseHkdf!avars)
<1> SUFFICES ASSUME IInv, [Next]_vars PROVE [PromiseHkdf!ANext]_(PromiseHkdf!avars)
  OBVIOUS
<1>1. CASE UNCHANGED vars
  <2>1. KeyView' = KeyView /\ KeyedBlocks' = KeyedBlocks /\ answer' = answer
    BY <1>1 DEF vars, macVars, hkdfVars, KeyView, KeyedBlocks, KeyBlockOf, Live
  <2> QED BY <2>1 DEF PromiseHkdf!avars, KeyView, KeyedBlocks
<1> QED BY <1>1, HkdfImplementsHkdf, MacImplementsHkdf DEF Next

\* HKDF-SHA384 keeps the promise of RFC 5869: extraction and both ways of
\* expansion give the OKM of PRK, label and length, whatever label, length or
\* refusal came before and whatever HMACs share the program's memory.
THEOREM HkdfImplementsPromise == Spec => ImplementsRfc5869
<1>1. Init => PromiseHkdf!AInit
  BY InitImplementsHkdf
<1>2. IInv /\ [Next]_vars => [PromiseHkdf!ANext]_(PromiseHkdf!avars)
  BY NextImplementsHkdf
<1> QED BY <1>1, <1>2, Inductive, PTL DEF Spec, ImplementsRfc5869, PromiseHkdf!ASpec

-----------------------------------------------------------------------------
(***************************************************************************)
(* Refinement: the HMAC objects of each type implement StreamingMac.       *)
(***************************************************************************)
\* A slot as the promise about type u sees it, and the two kinds of change.
NoView == [k0 |-> << >>, bytes |-> << >>]

MacView(u, m, t, alive) ==
  IF alive /\ t = u THEN [k0 |-> KeyBlockOf(m), bytes |-> MessageOf(m)] ELSE NoView

Silent(u) == /\ Macs(u)' = Macs(u) /\ Live(u)' = Live(u)
             /\ returned'[u] = returned[u]

StartStep(u, h, v) == /\ h \notin Live(u) /\ Live(u)' = Live(u) \cup {h}
                      /\ Macs(u)' = [Macs(u) EXCEPT ![h] = v]
                      /\ returned'[u] = Nothing

\* The live instance h of type u comes to hold v.
ChangeStep(u, h, v) == /\ h \in Live(u) /\ Live(u)' = Live(u)
                       /\ Macs(u)' = [Macs(u) EXCEPT ![h] = v]
                       /\ returned'[u] = Nothing

\* A call on instance h that returns a tag or judges one.
ReadStep(u, h) ==
  /\ h \in Live(u) /\ Live(u)' = Live(u) /\ Macs(u)' = Macs(u)
  /\ returned'[u].by = {h} /\ Macs(u)[h].k0 # << >>
  /\ LET own == TagOn(u, Macs(u)[h].k0, Macs(u)[h].bytes)
     IN  \/ returned'[u].accepted = {} /\ returned'[u].tag = own
         \/ returned'[u].accepted = {returned'[u].tag = own}

DropStep(u, h) == /\ h \in Live(u) /\ Live(u)' = Live(u) \ {h}
                  /\ Macs(u)' = [Macs(u) EXCEPT ![h] = NoView]
                  /\ returned'[u] = Nothing

\* What the promise allows, for either type.
Step(u) ==
  \E h \in Handle :
    \/ \E key \in Keys : StartStep(u, h, [k0 |-> K0On(u, key), bytes |-> << >>])
    \/ \E g \in Handle : g \in Live(u) /\ StartStep(u, h, Macs(u)[g])
    \/ \E data \in Chunks :
         /\ Len(Macs(u)[h].bytes) + Len(data) <= MaxLen
         /\ ChangeStep(u, h, [Macs(u)[h] EXCEPT !.bytes = @ \o data])
    \/ ChangeStep(u, h, [k0 |-> Macs(u)[h].k0, bytes |-> << >>])
    \/ ReadStep(u, h)
    \/ DropStep(u, h)

LEMMA MacSlotView ==
  ASSUME NEW u, NEW h \in Handle
  PROVE  /\ Macs(u)[h] = MacView(u, mac[h], type[h], h \in live)
         /\ h \in Live(u) <=> (h \in live /\ type[h] = u)
<1>1. h \in Live(u) <=> (h \in live /\ type[h] = u)
  BY DEF Live
<1> QED BY <1>1 DEF Macs, MacView, NoView

\* A call that changes one slot changes it in the view of either type.
LEMMA SetsMacView ==
  ASSUME IInv, NEW u, NEW h \in Handle, NEW m, NEW t, NEW alive \in BOOLEAN,
         mac' = [mac EXCEPT ![h] = m], type' = [type EXCEPT ![h] = t],
         live' = IF alive THEN live \cup {h} ELSE live \ {h}
  PROVE  /\ Macs(u)' = [Macs(u) EXCEPT ![h] = MacView(u, m, t, alive)]
         /\ Live(u)' = IF alive /\ t = u THEN Live(u) \cup {h} ELSE Live(u) \ {h}
<1>1. /\ mac'[h] = m /\ type'[h] = t /\ (h \in live' <=> alive)
      /\ \A g \in Handle \ {h} : /\ mac'[g] = mac[g] /\ type'[g] = type[g]
                                 /\ (g \in live' <=> g \in live)
  BY SetsView
<1>2. PICK old, new, before, after :
        old = Macs(u) /\ new = Macs(u)' /\ before = Live(u) /\ after = Live(u)'
  OBVIOUS
<1>3. new = [g \in Handle |-> new[g]] /\ old = [g \in Handle |-> old[g]]
  BY <1>2 DEF Macs
<1>4. ASSUME NEW g \in Handle
      PROVE  /\ new[g] = MacView(u, mac'[g], type'[g], g \in live')
             /\ g \in after <=> (g \in live' /\ type'[g] = u)
  <2>1. g \in after <=> (g \in live' /\ type'[g] = u)
    BY <1>2 DEF Live
  <2>2. new[g] = IF g \in after THEN [k0 |-> KeyBlockOf(mac'[g]), bytes |-> MessageOf(mac'[g])]
                 ELSE [k0 |-> << >>, bytes |-> << >>]
    BY <1>2 DEF Macs, Live, KeyBlockOf, MessageOf
  <2> QED BY <2>1, <2>2 DEF MacView, NoView
<1>5. new[h] = MacView(u, m, t, alive) /\ (h \in after <=> (alive /\ t = u))
  BY <1>1, <1>4 DEF MacView
<1>6. ASSUME NEW g \in Handle \ {h} PROVE new[g] = old[g] /\ (g \in after <=> g \in before)
  <2>1. mac'[g] = mac[g] /\ type'[g] = type[g] /\ (g \in live' <=> g \in live)
    BY <1>1
  <2>2. old[g] = MacView(u, mac[g], type[g], g \in live)
    BY <1>2, MacSlotView
  <2>3. g \in before <=> (g \in live /\ type[g] = u)
    BY <1>2, MacSlotView
  <2>4. new[g] = MacView(u, mac'[g], type'[g], g \in live')
    BY <1>4
  <2>5. g \in after <=> (g \in live' /\ type'[g] = u)
    BY <1>4
  <2>6. new[g] = old[g]
    BY <2>1, <2>2, <2>4 DEF MacView
  <2> QED BY <2>1, <2>3, <2>5, <2>6
<1>7. new = [old EXCEPT ![h] = MacView(u, m, t, alive)]
  BY <1>3, <1>5, <1>6
<1>8. before \subseteq Handle /\ after \subseteq Handle
  <2>1. live \subseteq Handle
    BY DEF IInv, SlotsOK
  <2>2. live' \subseteq Handle
    BY <2>1
  <2> QED BY <1>2, <2>1, <2>2 DEF Live
<1>9. after = IF alive /\ t = u THEN before \cup {h} ELSE before \ {h}
  BY <1>5, <1>6, <1>8
<1> QED BY <1>2, <1>7, <1>9

\* What the view shows of a live HMAC.
LEMMA LiveView ==
  ASSUME NEW h \in Handle, h \in live,
         NEW k0, NEW msg, Holds(type[h], mac[h], k0, msg)
  PROVE  /\ Macs(type[h])[h] = [k0 |-> k0, bytes |-> msg] /\ k0 # << >>
         /\ h \in Live(type[h])
<1>1. PICK m, t : m = mac[h] /\ t = type[h]
  OBVIOUS
<1>2. Holds(t, m, k0, msg)
  BY <1>1
<1>3. KeyBlockOf(m) = k0 /\ k0 # << >> /\ MessageOf(m) = msg
  BY <1>2, HoldsView
<1>4. Macs(t)[h] = MacView(t, m, t, TRUE) /\ h \in Live(t)
  BY <1>1, MacSlotView
<1> QED BY <1>1, <1>3, <1>4 DEF MacView

-----------------------------------------------------------------------------
(***************************************************************************)
(* Each call is a step of the promise about type u, or none that it sees.  *)
(***************************************************************************)
\* A slot that comes to hold, or holds, an HMAC of type t: nothing that the
\* promise about another type sees.
LEMMA OtherType ==
  ASSUME IInv, NEW u \in MacType, NEW h \in Handle, NEW m, NEW t, t # u,
         NEW alive \in BOOLEAN,
         mac' = [mac EXCEPT ![h] = m], type' = [type EXCEPT ![h] = t],
         live' = IF alive THEN live \cup {h} ELSE live \ {h},
         h \in live => type[h] # u
  PROVE  Macs(u)' = Macs(u) /\ Live(u)' = Live(u)
<1>1. /\ Macs(u)' = [Macs(u) EXCEPT ![h] = MacView(u, m, t, alive)]
      /\ Live(u)' = IF alive /\ t = u THEN Live(u) \cup {h} ELSE Live(u) \ {h}
  <2>1. CASE alive = TRUE
    <3>1. live' = IF TRUE THEN live \cup {h} ELSE live \ {h}
      BY <2>1
    <3>2. /\ Macs(u)' = [Macs(u) EXCEPT ![h] = MacView(u, m, t, TRUE)]
          /\ Live(u)' = IF TRUE /\ t = u THEN Live(u) \cup {h} ELSE Live(u) \ {h}
      BY <3>1, SetsMacView
    <3> QED BY <2>1, <3>2
  <2>2. CASE alive = FALSE
    <3>1. live' = IF FALSE THEN live \cup {h} ELSE live \ {h}
      BY <2>2
    <3>2. /\ Macs(u)' = [Macs(u) EXCEPT ![h] = MacView(u, m, t, FALSE)]
          /\ Live(u)' = IF FALSE /\ t = u THEN Live(u) \cup {h} ELSE Live(u) \ {h}
      BY <3>1, SetsMacView
    <3> QED BY <2>2, <3>2
  <2> QED BY <2>1, <2>2
<1>2. Macs(u)[h] = MacView(u, mac[h], type[h], h \in live) /\ h \notin Live(u)
  BY MacSlotView
<1>3. MacView(u, m, t, alive) = NoView /\ Macs(u)[h] = NoView
  BY <1>2 DEF MacView
<1>4. Macs(u)' = Macs(u)
  <2>1. PICK old : old = Macs(u) /\ old = [g \in Handle |-> old[g]]
    BY DEF Macs
  <2>2. [old EXCEPT ![h] = NoView] = old
    BY <1>3, <2>1
  <2> QED BY <1>1, <1>3, <2>1, <2>2
<1>5. Live(u)' = Live(u)
  BY <1>1, <1>2
<1> QED BY <1>4, <1>5

LEMMA StartsImplements ==
  ASSUME IInv, NEW u \in MacType, NEW h \in Handle, NEW t \in MacType, NEW v,
         NEW k0, NEW msg, Holds(t, v, k0, msg), Starts(h, t, v)
  PROVE  IF t = u THEN StartStep(u, h, [k0 |-> k0, bytes |-> msg]) ELSE Silent(u)
<1>1. /\ h \notin live /\ mac' = [mac EXCEPT ![h] = v] /\ type' = [type EXCEPT ![h] = t]
      /\ live' = live \cup {h} /\ Returns(t, Nothing)
  BY DEF Starts
<1>2. returned'[u] = IF u = t THEN Nothing ELSE returned[u]
  BY <1>1, ReturnsStep
<1>3. CASE t = u
  <2>1. live' = IF TRUE THEN live \cup {h} ELSE live \ {h}
    BY <1>1
  <2>2. /\ Macs(u)' = [Macs(u) EXCEPT ![h] = MacView(u, v, t, TRUE)]
        /\ Live(u)' = IF TRUE /\ t = u THEN Live(u) \cup {h} ELSE Live(u) \ {h}
    BY <1>1, <2>1, SetsMacView
  <2>3. MacView(u, v, t, TRUE) = [k0 |-> k0, bytes |-> msg]
    BY <1>3, HoldsView DEF MacView
  <2>4. h \notin Live(u)
    BY <1>1, MacSlotView
  <2> QED BY <1>2, <1>3, <2>2, <2>3, <2>4 DEF StartStep
<1>4. CASE t # u
  <2>1. live' = IF TRUE THEN live \cup {h} ELSE live \ {h}
    BY <1>1
  <2>2. Macs(u)' = Macs(u) /\ Live(u)' = Live(u)
    BY <1>1, <1>4, <2>1, OtherType
  <2> QED BY <1>2, <1>4, <2>2 DEF Silent
<1> QED BY <1>3, <1>4

LEMMA BecomesImplements ==
  ASSUME IInv, NEW u \in MacType, NEW h \in Handle, IsMac(h), NEW v,
         NEW k0, NEW msg, Holds(type[h], v, k0, msg), Becomes(h, v)
  PROVE  IF type[h] = u THEN ChangeStep(u, h, [k0 |-> k0, bytes |-> msg]) ELSE Silent(u)
<1> DEFINE t == type[h]
<1>1. t \in MacType /\ h \in live
  BY LiveMac
<1>2. /\ mac' = [mac EXCEPT ![h] = v] /\ Returns(t, Nothing) /\ type' = type /\ live' = live
  BY DEF Becomes
<1>3. type' = [type EXCEPT ![h] = t] /\ live' = IF TRUE THEN live \cup {h} ELSE live \ {h}
  BY <1>1, <1>2 DEF IInv, SlotsOK
<1>4. Holds(t, v, k0, msg)
  OBVIOUS
<1>5. h \in Live(u) <=> t = u
  BY <1>1, MacSlotView
<1> HIDE DEF t
<1>6. returned'[u] = IF u = t THEN Nothing ELSE returned[u]
  BY <1>1, <1>2, ReturnsStep
<1>7. CASE t = u
  <2>1. /\ Macs(u)' = [Macs(u) EXCEPT ![h] = MacView(u, v, t, TRUE)]
        /\ Live(u)' = IF TRUE /\ t = u THEN Live(u) \cup {h} ELSE Live(u) \ {h}
    BY <1>2, <1>3, SetsMacView
  <2>2. MacView(u, v, t, TRUE) = [k0 |-> k0, bytes |-> msg]
    BY <1>4, <1>7, HoldsView DEF MacView
  <2>3. h \in Live(u) /\ Live(u)' = Live(u)
    BY <1>5, <1>7, <2>1
  <2>4. ChangeStep(u, h, [k0 |-> k0, bytes |-> msg])
    BY <1>6, <1>7, <2>1, <2>2, <2>3 DEF ChangeStep
  <2> QED BY <1>7, <2>4 DEF t
<1>8. CASE t # u
  <2>1. type[h] # u
    BY <1>8 DEF t
  <2>2. Macs(u)' = Macs(u) /\ Live(u)' = Live(u)
    BY <1>2, <1>3, <1>8, <2>1, OtherType
  <2> QED BY <1>6, <1>8, <2>1, <2>2 DEF Silent
<1> QED BY <1>7, <1>8

LEMMA NewImplements ==
  ASSUME IInv, NEW u \in MacType, NEW h \in Handle, NEW t \in MacType, NEW key \in Keys,
         DoNew(h, t, key)
  PROVE  Step(u) \/ Silent(u)
<1> DEFINE v == CoreKeyed(t, key)   k0 == K0On(t, key)
<1>1. key \in Seq(Byte) /\ Len(key) < LEN_MOD /\ ByteSet(Byte)
  BY InputsHold, LabelIsShort, CoreSizes
<1>2. Holds(t, v, k0, << >>) /\ Starts(h, t, v)
  BY <1>1, CoreKeyedHolds DEF DoNew
<1> HIDE DEF v, k0
<1>3. IF t = u THEN StartStep(u, h, [k0 |-> k0, bytes |-> << >>]) ELSE Silent(u)
  BY <1>2, StartsImplements
<1>4. t = u => StartStep(u, h, [k0 |-> K0On(u, key), bytes |-> << >>])
  BY <1>3 DEF k0
<1> QED BY <1>3, <1>4 DEF Step

LEMMA CloneImplements ==
  ASSUME IInv, NEW u \in MacType, NEW h \in Handle, NEW g \in Handle, DoClone(h, g)
  PROVE  Step(u) \/ Silent(u)
<1> DEFINE t == type[g]   v == mac[g]
<1>1. IsMac(g) /\ Starts(h, t, v)
  BY DEF DoClone
<1>2. t \in MacType /\ g \in live
  BY <1>1, LiveMac
<1>3. PICK k0, msg : Holds(t, v, k0, msg)
  BY <1>1, LiveMac
<1>4. Macs(t)[g] = [k0 |-> k0, bytes |-> msg] /\ g \in Live(t)
  BY <1>2, <1>3, LiveView
<1> HIDE DEF t, v
<1>5. IF t = u THEN StartStep(u, h, [k0 |-> k0, bytes |-> msg]) ELSE Silent(u)
  BY <1>1, <1>2, <1>3, StartsImplements
<1>6. CASE t = u
  <2>1. g \in Live(u) /\ StartStep(u, h, Macs(u)[g])
    BY <1>4, <1>5, <1>6
  <2> QED BY <2>1 DEF Step
<1>7. CASE t # u
  BY <1>5, <1>7
<1> QED BY <1>6, <1>7

LEMMA UpdateImplements ==
  ASSUME IInv, NEW u \in MacType, NEW h \in Handle, NEW data \in Chunks, DoUpdate(h, data)
  PROVE  Step(u) \/ Silent(u)
<1> DEFINE t == type[h]   m == mac[h]   v == CoreMacUpdate(m, data)
<1>1. IsMac(h) /\ Len(MessageOf(m)) + Len(data) <= MaxLen /\ Becomes(h, v)
  BY DEF DoUpdate
<1>2. h \in live
  BY <1>1, LiveMac
<1>3. PICK k0, msg : Holds(t, m, k0, msg)
  BY <1>1, LiveMac
<1>4. Macs(t)[h] = [k0 |-> k0, bytes |-> msg]
  BY <1>2, <1>3, LiveView
<1>5. Holds(t, v, k0, msg \o data)
  <2> HIDE DEF t, m
  <2> QED BY <1>1, <1>3, UpdateHolds
<1>6. Len(msg) + Len(data) <= MaxLen
  <2> HIDE DEF t, m
  <2>1. MessageOf(m) = msg
    BY <1>3, HoldsView
  <2> QED BY <1>1, <2>1
<1> HIDE DEF v
<1>7. IF t = u THEN ChangeStep(u, h, [k0 |-> k0, bytes |-> msg \o data]) ELSE Silent(u)
  BY <1>1, <1>5, BecomesImplements
<1> HIDE DEF t, m
<1>8. CASE t = u
  <2>2. PICK w : w = Macs(u)[h]
    OBVIOUS
  <2>3. w = [k0 |-> k0, bytes |-> msg]
    BY <1>4, <1>8, <2>2
  <2>4. [w EXCEPT !.bytes = @ \o data] = [k0 |-> k0, bytes |-> msg \o data]
    <3>1. PICK e : e = msg \o data
      OBVIOUS
    <3>2. e = w.bytes \o data
      BY <2>3, <3>1
    <3>3. [w EXCEPT !.bytes = e] = [k0 |-> k0, bytes |-> e]
      BY <2>3
    <3> QED BY <3>1, <3>2, <3>3
  <2>5. ChangeStep(u, h, [w EXCEPT !.bytes = @ \o data])
    BY <1>7, <1>8, <2>4
  <2>6. Len(w.bytes) + Len(data) <= MaxLen
    BY <1>6, <2>3
  <2>7. /\ Len(Macs(u)[h].bytes) + Len(data) <= MaxLen
        /\ ChangeStep(u, h, [Macs(u)[h] EXCEPT !.bytes = @ \o data])
    BY <2>2, <2>5, <2>6
  <2> QED BY <2>7 DEF Step
<1>9. CASE t # u
  BY <1>7, <1>9
<1> QED BY <1>8, <1>9

LEMMA ResetImplements ==
  ASSUME IInv, NEW u \in MacType, NEW h \in Handle, DoReset(h)
  PROVE  Step(u) \/ Silent(u)
<1> DEFINE t == type[h]   m == mac[h]   v == CoreMacReset(m)
<1>1. IsMac(h) /\ Becomes(h, v)
  BY DEF DoReset
<1>2. h \in live /\ t \in MacType
  BY <1>1, LiveMac
<1>3. PICK k0, msg : Holds(t, m, k0, msg)
  BY <1>1, LiveMac
<1>4. Macs(t)[h] = [k0 |-> k0, bytes |-> msg]
  BY <1>2, <1>3, LiveView
<1>5. Holds(t, v, k0, << >>)
  <2> HIDE DEF t, m
  <2> QED BY <1>2, <1>3, HoldsReset
<1> HIDE DEF v
<1>6. IF t = u THEN ChangeStep(u, h, [k0 |-> k0, bytes |-> << >>]) ELSE Silent(u)
  BY <1>1, <1>5, BecomesImplements
<1> HIDE DEF t, m
<1>7. CASE t = u
  <2>1. Macs(u)[h].k0 = k0
    BY <1>4, <1>7
  <2>2. ChangeStep(u, h, [k0 |-> Macs(u)[h].k0, bytes |-> << >>])
    BY <1>6, <1>7, <2>1
  <2> QED BY <2>2 DEF Step
<1>8. CASE t # u
  BY <1>6, <1>8
<1> QED BY <1>7, <1>8

\* A call that changes no object.
LEMMA ReadImplements ==
  ASSUME IInv, NEW u \in MacType, NEW h \in Handle, IsMac(h), NEW value,
         Returns(type[h], value), UNCHANGED << mac, type, live >>,
         value.by = {h}, NEW k0, NEW msg, Holds(type[h], mac[h], k0, msg),
         \/ value.accepted = {} /\ value.tag = TagOn(type[h], k0, msg)
         \/ value.accepted = {value.tag = TagOn(type[h], k0, msg)}
  PROVE  Step(u) \/ Silent(u)
<1> DEFINE t == type[h]
<1>1. t \in MacType /\ h \in live
  BY LiveMac
<1>2. Macs(t)[h] = [k0 |-> k0, bytes |-> msg] /\ k0 # << >> /\ h \in Live(t)
  BY <1>1, LiveView
<1>3. Macs(u)' = Macs(u) /\ Live(u)' = Live(u)
  BY DEF Macs, Live, KeyBlockOf, MessageOf
<1>4. /\ Returns(t, value)
      /\ \/ value.accepted = {} /\ value.tag = TagOn(t, k0, msg)
         \/ value.accepted = {value.tag = TagOn(t, k0, msg)}
  OBVIOUS
<1> HIDE DEF t
<1>5. returned'[u] = IF u = t THEN value ELSE returned[u]
  BY <1>1, <1>4, ReturnsStep
<1>6. CASE t = u
  <2>1. PICK w : w = Macs(u)[h]
    OBVIOUS
  <2>2. w.k0 = k0 /\ w.bytes = msg
    BY <1>2, <1>6, <2>1
  <2>3. PICK own : own = TagOn(u, k0, msg)
    OBVIOUS
  <2>4. TagOn(u, Macs(u)[h].k0, Macs(u)[h].bytes) = own
    BY <2>1, <2>2, <2>3
  <2>5. \/ value.accepted = {} /\ value.tag = own
        \/ value.accepted = {value.tag = own}
    BY <1>4, <1>6, <2>3
  <2>6. returned'[u] = value
    BY <1>5, <1>6
  <2>7. h \in Live(u) /\ Macs(u)[h].k0 # << >>
    BY <1>2, <1>6, <2>1, <2>2
  <2>8. ReadStep(u, h)
    BY <1>3, <2>4, <2>5, <2>6, <2>7 DEF ReadStep
  <2> QED BY <2>8 DEF Step
<1>7. CASE t # u
  BY <1>3, <1>5, <1>7 DEF Silent
<1> QED BY <1>6, <1>7

LEMMA FinalizeImplements ==
  ASSUME IInv, NEW u \in MacType, NEW h \in Handle, DoFinalize(h)
  PROVE  Step(u) \/ Silent(u)
<1> DEFINE t == type[h]   m == mac[h]   c == CoreMacFinalize(t, m)
           value == [by |-> {h}, tag |-> c, accepted |-> {}]
<1>1. IsMac(h) /\ Returns(t, value) /\ UNCHANGED << mac, type, live >>
  BY DEF DoFinalize
<1>2. t \in MacType
  BY <1>1, LiveMac
<1>3. PICK k0, msg : Holds(t, m, k0, msg)
  BY <1>1, LiveMac
<1>4. c = TagOn(t, k0, msg)
  <2> HIDE DEF t, m
  <2> QED BY <1>2, <1>3, HoldsTag
<1>5. value.by = {h} /\ value.accepted = {} /\ value.tag = TagOn(t, k0, msg)
  BY <1>4
<1> HIDE DEF value
<1> QED BY <1>1, <1>3, <1>5, ReadImplements

\* verify accepts the tag of another object exactly if it is its own.
LEMMA VerifyJudges ==
  ASSUME NEW t \in MacType, NEW m, NEW k0, NEW msg, Holds(t, m, k0, msg),
         NEW s \in MacType, NEW w, NEW k1, NEW other, Holds(s, w, k1, other)
  PROVE  CoreVerify(t, m, TagBytes(s, w)) <=> CoreMacFinalize(s, w) = TagOn(t, k0, msg)
<1> DEFINE a == TagOn(t, k0, msg)   b == TagOn(s, k1, other)
<1>1. CoreMacFinalize(t, m) = a /\ CoreMacFinalize(s, w) = b
  BY HoldsTag
<1>2. a.iv = IvOf(t) /\ b.iv = IvOf(s)
  BY DEF TagOn, HashOn
<1>3. b = a => s = t
  <2>1. IvOf("HmacSha512") # IvOf("HmacSha384")
    BY CoreSizes
  <2> QED BY <1>2, <2>1 DEF MacType
<1> HIDE DEF a, b
<1>4. CoreVerify(t, m, TagBytes(s, w))
        <=> CtEq(DigestPrefix(a, TAG_LEN[t]), DigestPrefix(b, TAG_LEN[s]))
  BY <1>1 DEF CoreVerify, TagBytes
<1>5. TAG_LEN[t] \in Nat \ {0} /\ TAG_LEN[s] \in Nat \ {0}
  BY CoreSizes
<1>6. CtEq(DigestPrefix(a, TAG_LEN[t]), DigestPrefix(b, TAG_LEN[s]))
        <=> (TAG_LEN[t] = TAG_LEN[s] /\ a = b)
  BY <1>5, CtEqOfTags
<1>7. a = b => TAG_LEN[t] = TAG_LEN[s]
  BY <1>3
<1>8. CoreVerify(t, m, TagBytes(s, w)) <=> b = a
  BY <1>4, <1>6, <1>7
<1> QED BY <1>1, <1>8 DEF a

LEMMA VerifyImplements ==
  ASSUME IInv, NEW u \in MacType, NEW h \in Handle, NEW g \in Handle, DoVerify(h, g)
  PROVE  Step(u) \/ Silent(u)
<1> DEFINE t == type[h]   m == mac[h]   s == type[g]   w == mac[g]
           c == CoreMacFinalize(s, w)   judged == CoreVerify(t, m, TagBytes(s, w))
           value == [by |-> {h}, tag |-> c, accepted |-> {judged}]
<1>1. IsMac(h) /\ IsMac(g) /\ Returns(t, value) /\ UNCHANGED << mac, type, live >>
  BY DEF DoVerify
<1>2. t \in MacType /\ s \in MacType
  BY <1>1, LiveMac
<1>3. PICK k0, msg : Holds(t, m, k0, msg)
  BY <1>1, LiveMac
<1>4. PICK k1, other : Holds(s, w, k1, other)
  BY <1>1, LiveMac
<1>5. judged <=> c = TagOn(t, k0, msg)
  <2> HIDE DEF t, m, s, w
  <2> QED BY <1>2, <1>3, <1>4, VerifyJudges
<1>6. judged = (c = TagOn(t, k0, msg))
  BY <1>5 DEF CoreVerify, CtEq
<1> HIDE DEF judged, c
<1>7. value.by = {h} /\ value.accepted = {judged} /\ value.tag = c
  OBVIOUS
<1> HIDE DEF value
<1>8. value.accepted = {value.tag = TagOn(t, k0, msg)}
  BY <1>6, <1>7
<1> QED BY <1>1, <1>3, <1>7, <1>8, ReadImplements

LEMMA DropImplements ==
  ASSUME IInv, NEW u \in MacType, NEW h \in Handle, DoDrop(h)
  PROVE  Step(u) \/ Silent(u)
<1> DEFINE m == CoreMacDrop(mac[h])   t == type[h]
<1>1. /\ h \in live /\ mac' = [mac EXCEPT ![h] = m] /\ live' = live \ {h} /\ type' = type
  BY DEF DoDrop
<1>2. type' = [type EXCEPT ![h] = t] /\ t \in MacType \cup {Expander}
  BY <1>1 DEF IInv, SlotsOK
<1>3. returned' = IF t = Expander THEN returned ELSE [returned EXCEPT ![t] = Nothing]
  BY DEF DoDrop
<1>4. returned'[u] = IF t = u THEN Nothing ELSE returned[u]
  <2>1. u # Expander
    BY DEF MacType, Expander
  <2>2. returned = [v \in MacType |-> returned[v]]
    BY DEF IInv
  <2> HIDE DEF t
  <2> QED BY <1>2, <1>3, <2>1, <2>2
<1>5. live' = IF FALSE THEN live \cup {h} ELSE live \ {h}
  BY <1>1
<1>6. h \in Live(u) <=> t = u
  BY <1>1, MacSlotView
<1> HIDE DEF m, t
<1>7. CASE t = u
  <2>1. /\ Macs(u)' = [Macs(u) EXCEPT ![h] = MacView(u, m, t, FALSE)]
        /\ Live(u)' = IF FALSE /\ t = u THEN Live(u) \cup {h} ELSE Live(u) \ {h}
    BY <1>1, <1>2, <1>5, SetsMacView
  <2>2. MacView(u, m, t, FALSE) = NoView
    BY DEF MacView
  <2>3. DropStep(u, h)
    BY <1>4, <1>6, <1>7, <2>1, <2>2 DEF DropStep
  <2> QED BY <2>3 DEF Step
<1>8. CASE t # u
  <2>1. type[h] # u
    BY <1>8 DEF t
  <2>2. Macs(u)' = Macs(u) /\ Live(u)' = Live(u)
    BY <1>1, <1>2, <1>5, <1>8, <2>1, OtherType
  <2> QED BY <1>4, <1>8, <2>2 DEF Silent
<1> QED BY <1>7, <1>8

\* The calls on HKDF objects: HMACs do not see them.
LEMMA HkdfIsSilent ==
  ASSUME IInv, NEW u \in MacType, HkdfNext
  PROVE  Silent(u)
<1>1. ASSUME UNCHANGED << mac, type, live, returned >> PROVE Silent(u)
  BY <1>1 DEF Silent, Macs, Live, KeyBlockOf, MessageOf
<1>2. ASSUME NEW h \in Handle, NEW m, mac' = [mac EXCEPT ![h] = m],
             type' = [type EXCEPT ![h] = Expander], live' = live \cup {h},
             h \in live => type[h] = Expander, returned' = returned
      PROVE  Silent(u)
  <2>1. Expander # u
    BY DEF MacType, Expander
  <2>2. live' = IF TRUE THEN live \cup {h} ELSE live \ {h}
    BY <1>2
  <2>3. h \in live => type[h] # u
    BY <1>2, <2>1
  <2>4. Macs(u)' = Macs(u) /\ Live(u)' = Live(u)
    BY <1>2, <2>1, <2>2, <2>3, OtherType
  <2> QED BY <1>2, <2>4 DEF Silent
<1>3. ASSUME NEW salt \in Salts, NEW ikm \in Ikms, DoExtract(salt, ikm) PROVE Silent(u)
  BY <1>1, <1>3 DEF DoExtract, SetPrk, Answers
<1>4. ASSUME NEW bytes \in Prks, DoFromPrk(bytes) PROVE Silent(u)
  BY <1>1, <1>4 DEF DoFromPrk, SetPrk, Answers
<1>5. ASSUME NEW s \in {"live", "dropped"}, WipePrk(s) PROVE Silent(u)
  BY <1>1, <1>5 DEF WipePrk, Answers
<1>6. ASSUME NEW info \in Infos, NEW n \in Lengths, DoOneShot(info, n) PROVE Silent(u)
  BY <1>1, <1>6 DEF DoOneShot, Answers
<1>7. ASSUME NEW h \in Handle, DoExpander(h) PROVE Silent(u)
  BY <1>2, <1>7 DEF DoExpander
<1>8. ASSUME NEW h \in Handle, NEW info \in Infos, NEW n \in Lengths, DoExpand(h, info, n)
      PROVE  Silent(u)
  <2> DEFINE m == ExpandInto(mac[h], info, n).mac
  <2>1. /\ h \in live /\ type[h] = Expander /\ type' = type /\ live' = live
        /\ returned' = returned /\ mac' = [mac EXCEPT ![h] = m]
    BY <1>8 DEF DoExpand, Answers
  <2> HIDE DEF m
  <2>2. type' = [type EXCEPT ![h] = Expander] /\ live' = live \cup {h}
    BY <2>1 DEF IInv, SlotsOK
  <2> QED BY <1>2, <2>1, <2>2
<1> QED BY <1>3, <1>4, <1>5, <1>6, <1>7, <1>8 DEF HkdfNext

LEMMA NextSteps ==
  ASSUME IInv, NEW u \in MacType, [Next]_vars
  PROVE  Step(u) \/ Silent(u)
<1>1. CASE UNCHANGED vars
  <2>1. UNCHANGED << mac, type, live, returned >>
    BY <1>1 DEF vars, macVars
  <2> QED BY <2>1 DEF Silent, Macs, Live, KeyBlockOf, MessageOf
<1>2. ASSUME NEW h \in Handle, MacNext(h) PROVE Step(u) \/ Silent(u)
  BY <1>2, NewImplements, CloneImplements, UpdateImplements, ResetImplements,
     FinalizeImplements, VerifyImplements, DropImplements DEF MacNext
<1> QED BY <1>1, <1>2, HkdfIsSilent DEF Next

-----------------------------------------------------------------------------
(***************************************************************************)
(* The promise about HmacSha512.                                           *)
(***************************************************************************)
LEMMA Same512 ==
  /\ \A k : Promise512!K0(k) = K0On("HmacSha512", k)
  /\ \A k0, msg : Promise512!Tag(k0, msg) = TagOn("HmacSha512", k0, msg)
  /\ Promise512!NoKey = << >> /\ Promise512!Nothing = Nothing
<1>1. /\ Promise512!DELIM = W!DELIM /\ Promise512!LEN_MOD = W!LEN_MOD
      /\ \A n : Promise512!Zeros(n) = Zeros(n)
      /\ \A n : Promise512!ToBeBytes(n) = W!ToBeBytes(n)
  BY DEF Promise512!DELIM, W!DELIM, Promise512!LEN_MOD, W!LEN_MOD, Promise512!BASE,
         W!BASE, Promise512!Zeros, Zeros, Promise512!ZERO, ZERO, Promise512!Lit, W!Lit,
         Lit, Promise512!ToBeBytes, W!ToBeBytes
<1>2. IvOf("HmacSha512") = "IV_512" /\ TAG_LEN["HmacSha512"] = DIGEST_LEN
  BY CoreSizes DEF PRK_LEN, TAG_LEN
<1>3. \A bytes : Promise512!Hash(bytes) = HashOn("HmacSha512", bytes)
  BY <1>1, <1>2 DEF Promise512!Hash, Promise512!Digest, Promise512!Message,
                    Promise512!Padding, HashOn, PadTo
<1>4. /\ \A p, k : Promise512!XorInto(p, k) = XorInto(p, k)
      /\ \A c : Promise512!DigestBytes(c) = DigestPrefix(c, DIGEST_LEN)
  BY DEF Promise512!XorInto, XorInto, Promise512!DigestBytes, DigestPrefix
<1>5. \A bytes : Promise512!DigestBytes(Promise512!Hash(bytes)) = DigestOn("HmacSha512", bytes)
  BY <1>2, <1>3, <1>4 DEF DigestOn
<1>6. \A k : Promise512!K0(k) = K0On("HmacSha512", k)
  BY <1>1, <1>5 DEF Promise512!K0, K0On
<1>7. \A k0, msg : Promise512!Tag(k0, msg) = TagOn("HmacSha512", k0, msg)
  BY <1>3, <1>4, <1>5 DEF Promise512!Tag, TagOn
<1>8. Promise512!NoKey = << >> /\ Promise512!Nothing = Nothing
  BY DEF Promise512!NoKey, Promise512!Nothing, Nothing, Promise512!ZERO_STATE, ZERO_STATE
<1> QED BY <1>6, <1>7, <1>8

LEMMA InitImplements512 == Init => Promise512!AInit
<1> SUFFICES ASSUME Init PROVE Promise512!AInit
  OBVIOUS
<1>1. Live("HmacSha512") = {} /\ returned["HmacSha512"] = Nothing
  BY DEF Init, Live, MacType
<1>2. Macs("HmacSha512") = [h \in Handle |-> NoView]
  BY <1>1 DEF Macs, NoView
<1> QED BY <1>1, <1>2, Same512 DEF Promise512!AInit, Promise512!Keyed, NoView

LEMMA StepIs512 ==
  ASSUME Step("HmacSha512")
  PROVE  Promise512!ANext
<1> DEFINE u == "HmacSha512"
<1> USE DEF Promise512!ANext
<1>1. PICK h \in Handle :
    \/ \E key \in Keys : StartStep(u, h, [k0 |-> K0On(u, key), bytes |-> << >>])
    \/ \E g \in Handle : g \in Live(u) /\ StartStep(u, h, Macs(u)[g])
    \/ \E data \in Chunks :
         /\ Len(Macs(u)[h].bytes) + Len(data) <= MaxLen
         /\ ChangeStep(u, h, [Macs(u)[h] EXCEPT !.bytes = @ \o data])
    \/ ChangeStep(u, h, [k0 |-> Macs(u)[h].k0, bytes |-> << >>])
    \/ ReadStep(u, h)
    \/ DropStep(u, h)
  BY DEF Step
<1>2. ASSUME NEW v, StartStep(u, h, v) PROVE Promise512!AStart(h, v)
  BY <1>2, Same512 DEF StartStep, Promise512!AStart
<1>3. ASSUME NEW key \in Keys, StartStep(u, h, [k0 |-> K0On(u, key), bytes |-> << >>])
      PROVE  Promise512!ANext
  <2>1. StartStep(u, h, Promise512!Keyed(Promise512!K0(key), << >>))
    BY <1>3, Same512 DEF Promise512!Keyed
  <2> QED BY <1>2, <2>1
<1>4. ASSUME NEW g \in Handle, g \in Live(u), StartStep(u, h, Macs(u)[g])
      PROVE  Promise512!ANext
  <2>1. Promise512!AClone(h, g)
    BY <1>2, <1>4 DEF Promise512!AClone
  <2> QED BY <2>1
<1>5. ASSUME NEW data \in Chunks, Len(Macs(u)[h].bytes) + Len(data) <= MaxLen,
             ChangeStep(u, h, [Macs(u)[h] EXCEPT !.bytes = @ \o data])
      PROVE  Promise512!ANext
  <2>1. Promise512!AUpdate(h, data)
    BY <1>5, Same512 DEF ChangeStep, Promise512!AUpdate
  <2> QED BY <2>1
<1>6. ASSUME ChangeStep(u, h, [k0 |-> Macs(u)[h].k0, bytes |-> << >>])
      PROVE  Promise512!ANext
  <2>1. Promise512!ARestart(h, Macs(u)[h].k0)
    BY <1>6, Same512 DEF ChangeStep, Promise512!ARestart, Promise512!Keyed
  <2> QED BY <2>1
<1>7. ASSUME ReadStep(u, h) PROVE Promise512!ANext
  <2>1. TagOn(u, Macs(u)[h].k0, Macs(u)[h].bytes)
          = Promise512!Tag(Macs(u)[h].k0, Macs(u)[h].bytes)
    BY Same512
  <2>2. Promise512!AFinalize(h) \/ Promise512!AVerify(h)
    BY <1>7, <2>1, Same512
    DEF ReadStep, Promise512!AFinalize, Promise512!AVerify, Promise512!ATag
  <2> QED BY <2>2
<1>8. ASSUME DropStep(u, h) PROVE Promise512!ANext
  <2>1. Promise512!ADrop(h)
    BY <1>8, Same512 DEF DropStep, NoView, Promise512!ADrop, Promise512!Keyed
  <2> QED BY <2>1
<1> HIDE DEF u, Promise512!ANext
<1> QED BY <1>1, <1>3, <1>4, <1>5, <1>6, <1>7, <1>8

LEMMA NextImplements512 ==
  IInv /\ [Next]_vars => [Promise512!ANext]_(Promise512!avars)
<1> SUFFICES ASSUME IInv, [Next]_vars PROVE [Promise512!ANext]_(Promise512!avars)
  OBVIOUS
<1>1. "HmacSha512" \in MacType
  BY DEF MacType
<1>2. Step("HmacSha512") \/ Silent("HmacSha512")
  BY <1>1, NextSteps
<1>3. CASE Silent("HmacSha512")
  BY <1>3 DEF Silent, Promise512!avars
<1> QED BY <1>2, <1>3, StepIs512

\* HMAC-SHA512 keeps the promise of RFC 2104 over SHA-512: tags are those of
\* the key and the message since the last reset, verify accepts exactly the
\* object's own tag, and no other object or call interferes.
THEOREM HmacSha512Implements == Spec => ImplementsHmacSha512
<1>1. Init => Promise512!AInit
  BY InitImplements512
<1>2. IInv /\ [Next]_vars => [Promise512!ANext]_(Promise512!avars)
  BY NextImplements512
<1> QED BY <1>1, <1>2, Inductive, PTL DEF Spec, ImplementsHmacSha512, Promise512!ASpec

-----------------------------------------------------------------------------
(***************************************************************************)
(* The promise about HmacSha384.                                           *)
(***************************************************************************)
LEMMA Same384 ==
  /\ \A k : Promise384!K0(k) = K0On("HmacSha384", k)
  /\ \A k0, msg : Promise384!Tag(k0, msg) = TagOn("HmacSha384", k0, msg)
  /\ Promise384!NoKey = << >> /\ Promise384!Nothing = Nothing
<1>1. /\ Promise384!DELIM = W!DELIM /\ Promise384!LEN_MOD = W!LEN_MOD
      /\ \A n : Promise384!Zeros(n) = Zeros(n)
      /\ \A n : Promise384!ToBeBytes(n) = W!ToBeBytes(n)
  BY DEF Promise384!DELIM, W!DELIM, Promise384!LEN_MOD, W!LEN_MOD, Promise384!BASE,
         W!BASE, Promise384!Zeros, Zeros, Promise384!ZERO, ZERO, Promise384!Lit, W!Lit,
         Lit, Promise384!ToBeBytes, W!ToBeBytes
<1>2. IvOf("HmacSha384") = "IV_384" /\ TAG_LEN["HmacSha384"] = SHA384_DIGEST_LEN
  BY CoreSizes DEF PRK_LEN, TAG_LEN
<1>3. \A bytes : Promise384!Hash(bytes) = HashOn("HmacSha384", bytes)
  BY <1>1, <1>2 DEF Promise384!Hash, Promise384!Digest, Promise384!Message,
                    Promise384!Padding, HashOn, PadTo
<1>4. /\ \A p, k : Promise384!XorInto(p, k) = XorInto(p, k)
      /\ \A c : Promise384!DigestBytes(c) = DigestPrefix(c, SHA384_DIGEST_LEN)
  BY DEF Promise384!XorInto, XorInto, Promise384!DigestBytes, DigestPrefix
<1>5. \A bytes : Promise384!DigestBytes(Promise384!Hash(bytes)) = DigestOn("HmacSha384", bytes)
  BY <1>2, <1>3, <1>4 DEF DigestOn
<1>6. \A k : Promise384!K0(k) = K0On("HmacSha384", k)
  BY <1>1, <1>5 DEF Promise384!K0, K0On
<1>7. \A k0, msg : Promise384!Tag(k0, msg) = TagOn("HmacSha384", k0, msg)
  BY <1>3, <1>4, <1>5 DEF Promise384!Tag, TagOn
<1>8. Promise384!NoKey = << >> /\ Promise384!Nothing = Nothing
  BY DEF Promise384!NoKey, Promise384!Nothing, Nothing, Promise384!ZERO_STATE, ZERO_STATE
<1> QED BY <1>6, <1>7, <1>8

LEMMA InitImplements384 == Init => Promise384!AInit
<1> SUFFICES ASSUME Init PROVE Promise384!AInit
  OBVIOUS
<1>1. Live("HmacSha384") = {} /\ returned["HmacSha384"] = Nothing
  BY DEF Init, Live, MacType
<1>2. Macs("HmacSha384") = [h \in Handle |-> NoView]
  BY <1>1 DEF Macs, NoView
<1> QED BY <1>1, <1>2, Same384 DEF Promise384!AInit, Promise384!Keyed, NoView

LEMMA StepIs384 ==
  ASSUME Step("HmacSha384")
  PROVE  Promise384!ANext
<1> DEFINE u == "HmacSha384"
<1> USE DEF Promise384!ANext
<1>1. PICK h \in Handle :
    \/ \E key \in Keys : StartStep(u, h, [k0 |-> K0On(u, key), bytes |-> << >>])
    \/ \E g \in Handle : g \in Live(u) /\ StartStep(u, h, Macs(u)[g])
    \/ \E data \in Chunks :
         /\ Len(Macs(u)[h].bytes) + Len(data) <= MaxLen
         /\ ChangeStep(u, h, [Macs(u)[h] EXCEPT !.bytes = @ \o data])
    \/ ChangeStep(u, h, [k0 |-> Macs(u)[h].k0, bytes |-> << >>])
    \/ ReadStep(u, h)
    \/ DropStep(u, h)
  BY DEF Step
<1>2. ASSUME NEW v, StartStep(u, h, v) PROVE Promise384!AStart(h, v)
  BY <1>2, Same384 DEF StartStep, Promise384!AStart
<1>3. ASSUME NEW key \in Keys, StartStep(u, h, [k0 |-> K0On(u, key), bytes |-> << >>])
      PROVE  Promise384!ANext
  <2>1. StartStep(u, h, Promise384!Keyed(Promise384!K0(key), << >>))
    BY <1>3, Same384 DEF Promise384!Keyed
  <2> QED BY <1>2, <2>1
<1>4. ASSUME NEW g \in Handle, g \in Live(u), StartStep(u, h, Macs(u)[g])
      PROVE  Promise384!ANext
  <2>1. Promise384!AClone(h, g)
    BY <1>2, <1>4 DEF Promise384!AClone
  <2> QED BY <2>1
<1>5. ASSUME NEW data \in Chunks, Len(Macs(u)[h].bytes) + Len(data) <= MaxLen,
             ChangeStep(u, h, [Macs(u)[h] EXCEPT !.bytes = @ \o data])
      PROVE  Promise384!ANext
  <2>1. Promise384!AUpdate(h, data)
    BY <1>5, Same384 DEF ChangeStep, Promise384!AUpdate
  <2> QED BY <2>1
<1>6. ASSUME ChangeStep(u, h, [k0 |-> Macs(u)[h].k0, bytes |-> << >>])
      PROVE  Promise384!ANext
  <2>1. Promise384!ARestart(h, Macs(u)[h].k0)
    BY <1>6, Same384 DEF ChangeStep, Promise384!ARestart, Promise384!Keyed
  <2> QED BY <2>1
<1>7. ASSUME ReadStep(u, h) PROVE Promise384!ANext
  <2>1. TagOn(u, Macs(u)[h].k0, Macs(u)[h].bytes)
          = Promise384!Tag(Macs(u)[h].k0, Macs(u)[h].bytes)
    BY Same384
  <2>2. Promise384!AFinalize(h) \/ Promise384!AVerify(h)
    BY <1>7, <2>1, Same384
    DEF ReadStep, Promise384!AFinalize, Promise384!AVerify, Promise384!ATag
  <2> QED BY <2>2
<1>8. ASSUME DropStep(u, h) PROVE Promise384!ANext
  <2>1. Promise384!ADrop(h)
    BY <1>8, Same384 DEF DropStep, NoView, Promise384!ADrop, Promise384!Keyed
  <2> QED BY <2>1
<1> HIDE DEF u, Promise384!ANext
<1> QED BY <1>1, <1>3, <1>4, <1>5, <1>6, <1>7, <1>8

LEMMA NextImplements384 ==
  IInv /\ [Next]_vars => [Promise384!ANext]_(Promise384!avars)
<1> SUFFICES ASSUME IInv, [Next]_vars PROVE [Promise384!ANext]_(Promise384!avars)
  OBVIOUS
<1>1. "HmacSha384" \in MacType
  BY DEF MacType
<1>2. Step("HmacSha384") \/ Silent("HmacSha384")
  BY <1>1, NextSteps
<1>3. CASE Silent("HmacSha384")
  BY <1>3 DEF Silent, Promise384!avars
<1> QED BY <1>2, <1>3, StepIs384

\* The same of HMAC-SHA384, over SHA-384 and with every digest truncated.
THEOREM HmacSha384Implements == Spec => ImplementsHmacSha384
<1>1. Init => Promise384!AInit
  BY InitImplements384
<1>2. IInv /\ [Next]_vars => [Promise384!ANext]_(Promise384!avars)
  BY NextImplements384
<1> QED BY <1>1, <1>2, Inductive, PTL DEF Spec, ImplementsHmacSha384, Promise384!ASpec
=============================================================================
