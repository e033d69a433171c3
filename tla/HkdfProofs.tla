----------------------------- MODULE HkdfProofs -----------------------------
(***************************************************************************)
(* Theorems about Hkdf: its invariants hold and it implements Rfc5869, for *)
(* every width, digest length, key, label and output length.               *)
(*                                                                         *)
(* Expansion feeds digests back as input, so no fixed set of bytes holds   *)
(* them all: the lemmas say "over some set of bytes" and enlarge it.       *)
(***************************************************************************)
EXTENDS Hkdf, HashLemmas

-----------------------------------------------------------------------------
(***************************************************************************)
(* HMAC over some set of bytes.                                            *)
(***************************************************************************)
LEMMA OwnVector == "H0" \in Ivs /\ IvSet(Ivs)
  BY DEF Ivs, IvSet

LEMMA KeyedByKey ==
  ASSUME NEW B, ByteSet(B), NEW key \in Seq(B)
  PROVE  Keyed(Ivs, "H0", WithKey(key), F!K0(key), << >>)
<1> DEFINE C == B \cup DigestOf(B)   k0 == F!K0(key)
<1>1. KeyBlock(key) \in [1 .. BLOCK_LEN -> C] /\ KeyBlock(key) = k0
  BY KeyBlockIsK0
<1>2. WithKey(key) = KeyedWith("H0", KeyBlock(key))
  BY WithKeyIs
<1>3. ByteSet(C)
  BY DEF ByteSet
<1> HIDE DEF C, k0
<1> QED BY <1>1, <1>2, <1>3, OwnVector, KeyedWithHolds DEF k0

\* finalize returns the tag of the key block and the message.
LEMMA KeyedTag ==
  ASSUME NEW m, NEW k0, NEW msg, Keyed(Ivs, "H0", m, k0, msg)
  PROVE  /\ MacFinalize(m) = F!Tag(k0, msg)
         /\ \E C : ByteSet(C) /\ MacFinalize(m) \in ChainOver(Ivs, C)
<1>1. PICK B : KeyedOver(Ivs, "H0", B, m, k0, msg)
  BY DEF Keyed
<1>2. /\ ByteSet(B) /\ k0 \in [1 .. BLOCK_LEN -> B]
      /\ m.inner \in HasherOver(Ivs, B) /\ Tracks(m.inner)
      /\ m.inner.state.iv = "H0"
      /\ Contents(m.inner) = XorInto("ipad", k0) \o msg
      /\ m.outer_state = PadState("H0", "opad", k0)
      /\ m.outer_state \in ChainOver(Ivs, B)
  BY <1>1 DEF KeyedOver, MacOver
<1>3. MacFinalize(m) = F!Tag(k0, msg)
  BY <1>2, MacFinalizeIsTag
<1> DEFINE C == B \cup DigestOf(B)
<1>4. ByteSet(C) /\ DigestOf(B) \subseteq C /\ B \subseteq C
  BY <1>2 DEF ByteSet
<1> HIDE DEF C
<1>5. m.outer_state \in ChainOver(Ivs, C)
  BY <1>2, <1>4, HasherMonotone
<1>6. Len(m.outer_state.absorbed) % BLOCK_LEN = 0
  <2>1. m.outer_state.absorbed = XorInto("opad", k0)
    BY <1>2 DEF PadState
  <2>2. Len(XorInto("opad", k0)) = BLOCK_LEN
    BY <1>2, XorIntoType DEF Pads
  <2>3. /\ BLOCK_LEN \in Nat \ {0} /\ 0 \in 0 .. BLOCK_LEN - 1 /\ BLOCK_LEN \in Int
        /\ BLOCK_LEN = BLOCK_LEN * 1 + 0
    BY Sizes
  <2>4. BLOCK_LEN % BLOCK_LEN = 0
    BY <2>3, RemainderUnique
  <2> QED BY <2>1, <2>2, <2>4
<1>7. ChainAligned(m.inner)
  BY <1>2 DEF Tracks
<1>8. MacFinalize(m) \in ChainOver(Ivs, C)
  BY <1>2, <1>4, <1>5, <1>6, <1>7, MacFinalizeType
<1> QED BY <1>3, <1>4, <1>8

\* The block behind a key tells one key state from another.
LEMMA KeyedBlock ==
  ASSUME NEW m, NEW k0, NEW msg, Keyed(Ivs, "H0", m, k0, msg)
  PROVE  KeyBlockOf(m) = k0 /\ k0 # << >> /\ SomeMac(Ivs, m)
  BY KeyedView DEF KeyBlockOf

-----------------------------------------------------------------------------
(***************************************************************************)
(* The two tables an expansion is defined by: each exists.                 *)
(***************************************************************************)
\* T(0) to T(k) of RFC 5869.
NextT(k0, info, t, i) == DigestBytes(F!Tag(k0, t \o info \o << Lit(i) >>))

IsT(f, k0, info, k) ==
  f = [i \in 0 .. k |-> IF i = 0 THEN << >> ELSE NextT(k0, info, f[i - 1], i)]

\* The local variables of expand_into after each of k passes.
Start(mac, n) == [mac |-> mac, block |-> Zeros(DIGEST_LEN),
                  okm |-> Zeros(n), ok |-> TRUE]

NextPass(s, info, i) ==
  IF s.ok /\ i < BASE THEN Round(s, i, info) ELSE [s EXCEPT !.ok = FALSE]

IsLoop(f, mac, info, n, k) ==
  f = [i \in 0 .. k |-> IF i = 0 THEN Start(mac, n) ELSE NextPass(f[i - 1], info, i)]

LEMMA TExists ==
  ASSUME NEW k0, NEW info, NEW n \in Nat
  PROVE  \E f : IsT(f, k0, info, n)
<1> DEFINE Q(k) == \E f : IsT(f, k0, info, k)
           S    == {k \in 0 .. n : Q(k)}
<1>1. 0 \in S
  <2> DEFINE f == [i \in 0 .. 0 |-> << >>]
  <2>1. IsT(f, k0, info, 0)
    BY DEF IsT
  <2> QED BY <2>1
<1>2. ASSUME NEW k \in 1 .. n, k - 1 \in S PROVE k \in S
  <2>1. PICK f : IsT(f, k0, info, k - 1)
    BY <1>2
  <2> DEFINE h == [i \in 0 .. k |-> IF i = k THEN NextT(k0, info, f[k - 1], k) ELSE f[i]]
  <2>2. IsT(h, k0, info, k)
    <3>1. ASSUME NEW i \in 0 .. k
          PROVE  h[i] = IF i = 0 THEN << >> ELSE NextT(k0, info, h[i - 1], i)
      <4>1. CASE i = k
        <5>1. k - 1 \in 0 .. k /\ k - 1 # k /\ k # 0
          OBVIOUS
        <5>2. h[k] = NextT(k0, info, f[k - 1], k) /\ h[k - 1] = f[k - 1]
          BY <5>1
        <5> HIDE DEF h
        <5> QED BY <4>1, <5>1, <5>2
      <4>2. CASE i # k
        <5>1. i \in 0 .. k - 1 /\ (i # 0 => i - 1 \in 0 .. k - 1)
          BY <4>2
        <5>2. h[i] = f[i] /\ (i # 0 => h[i - 1] = f[i - 1])
          BY <4>2, <5>1
        <5>3. f[i] = IF i = 0 THEN << >> ELSE NextT(k0, info, f[i - 1], i)
          BY <2>1, <5>1 DEF IsT
        <5> HIDE DEF h
        <5> QED BY <5>2, <5>3
      <4> QED BY <4>1, <4>2
    <3>2. h = [i \in 0 .. k |-> h[i]]
      OBVIOUS
    <3> HIDE DEF h
    <3> QED BY <3>1, <3>2 DEF IsT
  <2> HIDE DEF h
  <2> QED BY <2>2
<1>3. n \in S
  <2> HIDE DEF S
  <2> QED BY <1>1, <1>2, InductionUpTo
<1> QED BY <1>3

LEMMA LoopExists ==
  ASSUME NEW mac, NEW info, NEW n, NEW m \in Nat
  PROVE  \E f : IsLoop(f, mac, info, n, m)
<1> DEFINE Q(k) == \E f : IsLoop(f, mac, info, n, k)
           S    == {k \in 0 .. m : Q(k)}
<1>1. 0 \in S
  <2> DEFINE f == [i \in 0 .. 0 |-> Start(mac, n)]
  <2>1. IsLoop(f, mac, info, n, 0)
    BY DEF IsLoop
  <2> QED BY <2>1
<1>2. ASSUME NEW k \in 1 .. m, k - 1 \in S PROVE k \in S
  <2>1. PICK f : IsLoop(f, mac, info, n, k - 1)
    BY <1>2
  <2> DEFINE h == [i \in 0 .. k |-> IF i = k THEN NextPass(f[k - 1], info, k) ELSE f[i]]
  <2>2. IsLoop(h, mac, info, n, k)
    <3>1. ASSUME NEW i \in 0 .. k
          PROVE  h[i] = IF i = 0 THEN Start(mac, n) ELSE NextPass(h[i - 1], info, i)
      <4>1. CASE i = k
        <5>1. k - 1 \in 0 .. k /\ k - 1 # k /\ k # 0
          OBVIOUS
        <5>2. h[k] = NextPass(f[k - 1], info, k) /\ h[k - 1] = f[k - 1]
          BY <5>1
        <5> HIDE DEF h
        <5> QED BY <4>1, <5>1, <5>2
      <4>2. CASE i # k
        <5>1. i \in 0 .. k - 1 /\ (i # 0 => i - 1 \in 0 .. k - 1)
          BY <4>2
        <5>2. h[i] = f[i] /\ (i # 0 => h[i - 1] = f[i - 1])
          BY <4>2, <5>1
        <5>3. f[i] = IF i = 0 THEN Start(mac, n) ELSE NextPass(f[i - 1], info, i)
          BY <2>1, <5>1 DEF IsLoop
        <5> HIDE DEF h
        <5> QED BY <5>2, <5>3
      <4> QED BY <4>1, <4>2
    <3>2. h = [i \in 0 .. k |-> h[i]]
      OBVIOUS
    <3> HIDE DEF h
    <3> QED BY <3>1, <3>2 DEF IsLoop
  <2> HIDE DEF h
  <2> QED BY <2>2
<1>3. m \in S
  <2> HIDE DEF S
  <2> QED BY <1>1, <1>2, InductionUpTo
<1> QED BY <1>3

-----------------------------------------------------------------------------
(***************************************************************************)
(* One pass, and the whole loop.                                           *)
(***************************************************************************)
\* The local variables after i passes.
PassSound(s, i, k0, n, t) ==
  /\ s = [mac |-> s.mac, block |-> s.block, okm |-> s.okm, ok |-> TRUE]
  /\ \E msg : Keyed(Ivs, "H0", s.mac, k0, msg)
  /\ i = 0 => Keyed(Ivs, "H0", s.mac, k0, << >>)
  /\ i > 0 => s.block = t[i] /\ Bytes(s.block)
  /\ s.okm = Written(DIGEST_LEN, t, n, i)

\* What pass i feeds the HMAC and takes from it.
LEMMA PassFeeds ==
  ASSUME NEW k0, NEW info, Bytes(info), NEW n \in Nat, NEW t,
         NEW N \in Nat, IsT(t, k0, info, N),
         NEW i \in 1 .. N, i < BASE, NEW s, PassSound(s, i - 1, k0, n, t)
  PROVE  LET mac == IF i > 1 THEN MacUpdate(MacReset(s.mac), s.block) ELSE s.mac
             fed == MacUpdate(MacUpdate(mac, info), << Lit(i) >>)
         IN  /\ \E msg : Keyed(Ivs, "H0", fed, k0, msg)
             /\ DigestBytes(MacFinalize(fed)) = t[i]
             /\ \E B : t[i] \in [1 .. DIGEST_LEN -> B]
<1> DEFINE mac == IF i > 1 THEN MacUpdate(MacReset(s.mac), s.block) ELSE s.mac
           fed == MacUpdate(MacUpdate(mac, info), << Lit(i) >>)
           u   == t[i - 1]
<1>1. /\ t[0] = << >> /\ i - 1 \in 0 .. N
      /\ t[i] = DigestBytes(F!Tag(k0, (u \o info) \o << Lit(i) >>))
  BY DEF IsT, NextT
<1>2. Keyed(Ivs, "H0", mac, k0, u)
  <2>1. CASE i > 1
    <3>1. PICK msg : Keyed(Ivs, "H0", s.mac, k0, msg)
      BY DEF PassSound
    <3>2. Keyed(Ivs, "H0", MacReset(s.mac), k0, << >>)
      BY <3>1, KeyedReset, OwnVector
    <3>3. s.block = u /\ Bytes(s.block)
      BY <2>1 DEF PassSound
    <3>4. Keyed(Ivs, "H0", MacUpdate(MacReset(s.mac), s.block), k0, << >> \o s.block)
      BY <3>2, <3>3, KeyedUpdate
    <3>5. << >> \o s.block = s.block
      BY <3>3, ConcatEmptySeq DEF Bytes
    <3> HIDE DEF u
    <3> QED BY <2>1, <3>3, <3>4, <3>5
  <2>2. CASE ~(i > 1)
    <3>1. i = 1 /\ u = << >>
      BY <1>1, <2>2
    <3>2. Keyed(Ivs, "H0", s.mac, k0, << >>)
      BY <3>1 DEF PassSound
    <3> QED BY <2>2, <3>1, <3>2
  <2> QED BY <2>1, <2>2
<1> HIDE DEF mac, u
<1>3. Bytes(<< Lit(i) >>)
  <2>1. i \in 0 .. BASE - 1
    BY WidthAssumption
  <2>2. << Lit(i) >> \in Seq(Byte)
    BY <2>1 DEF Byte
  <2> QED BY <2>2 DEF Bytes
<1>4. Keyed(Ivs, "H0", MacUpdate(mac, info), k0, u \o info)
  BY <1>2, KeyedUpdate
<1>5. Keyed(Ivs, "H0", fed, k0, (u \o info) \o << Lit(i) >>)
  BY <1>3, <1>4, KeyedUpdate
<1> HIDE DEF fed
<1>6. /\ MacFinalize(fed) = F!Tag(k0, (u \o info) \o << Lit(i) >>)
      /\ \E C : ByteSet(C) /\ MacFinalize(fed) \in ChainOver(Ivs, C)
  BY <1>5, KeyedTag
<1>7. DigestBytes(MacFinalize(fed)) = t[i]
  BY <1>1, <1>6
<1>8. \E B : t[i] \in [1 .. DIGEST_LEN -> B]
  <2> DEFINE d == MacFinalize(fed)
  <2>1. PICK C : d \in ChainOver(Ivs, C)
    BY <1>6
  <2> HIDE DEF d
  <2>2. DigestBytes(d) \in [1 .. DIGEST_LEN -> DigestOf(C)]
    BY <2>1, DigestBytesType
  <2> QED BY <1>7, <2>2 DEF d
<1> QED BY <1>5, <1>7, <1>8 DEF fed, mac

\* What pass i writes.
LEMMA PassKeepsSound ==
  ASSUME NEW k0, NEW info, Bytes(info), NEW n \in Nat, NEW t,
         IsT(t, k0, info, PassCount(DIGEST_LEN, n)),
         NEW i \in 1 .. PassCount(DIGEST_LEN, n), i < BASE, NEW s, PassSound(s, i - 1, k0, n, t)
  PROVE  PassSound(NextPass(s, info, i), i, k0, n, t)
<1> DEFINE mac == IF i > 1 THEN MacUpdate(MacReset(s.mac), s.block) ELSE s.mac
           fed == MacUpdate(MacUpdate(mac, info), << Lit(i) >>)
           block == DigestBytes(MacFinalize(fed))
           at  == (i - 1) * DIGEST_LEN
           okm == CopyFromSlice(s.okm, at,
                    SubSeq(block, 1, AtMost(DIGEST_LEN, Len(s.okm) - at)))
<1>1. PassCount(DIGEST_LEN, n) \in Nat /\ DIGEST_LEN \in Nat \ {0}
  BY Sizes, PassCounts
<1>2. /\ \E msg : Keyed(Ivs, "H0", fed, k0, msg)
      /\ block = t[i]
      /\ \E B : t[i] \in [1 .. DIGEST_LEN -> B]
  BY <1>1, PassFeeds
<1>3. Round(s, i, info) = [s EXCEPT !.mac = fed, !.block = block, !.okm = okm]
  BY DEF Round
<1> HIDE DEF fed, block
<1>4. PICK B : t[i] \in [1 .. DIGEST_LEN -> B]
  BY <1>2
<1>5. /\ s = [mac |-> s.mac, block |-> s.block, okm |-> s.okm, ok |-> TRUE]
      /\ s.okm = Written(DIGEST_LEN, t, n, i - 1)
  BY DEF PassSound
<1>6. okm = Written(DIGEST_LEN, t, n, i)
  <2> DEFINE o == s.okm
  <2>1. o = Written(DIGEST_LEN, t, n, i - 1)
    BY <1>5
  <2> HIDE DEF o
  <2>2. CopyFromSlice(o, at, SubSeq(t[i], 1, AtMost(DIGEST_LEN, Len(o) - at)))
          = Written(DIGEST_LEN, t, n, i)
    BY <1>1, <1>4, <2>1, PassWrites
  <2> QED BY <1>2, <2>2 DEF o
<1>7. Bytes(t[i])
  <2>1. t[i] \in Seq(B)
    BY <1>4, Sizes, FunctionIsSequence
  <2> QED BY <2>1 DEF Bytes
<1> HIDE DEF okm
<1> DEFINE new == NextPass(s, info, i)
<1>8. new = [mac |-> fed, block |-> block, okm |-> okm, ok |-> TRUE]
  <2>1. s.ok = TRUE
    BY <1>5
  <2>2. new = [s EXCEPT !.mac = fed, !.block = block, !.okm = okm]
    BY <1>3, <2>1 DEF NextPass
  <2> DEFINE a == s.mac   b == s.block   c == s.okm
  <2>3. s = [mac |-> a, block |-> b, okm |-> c, ok |-> TRUE]
    BY <1>5
  <2> HIDE DEF new, a, b, c
  <2> QED BY <2>2, <2>3, PassSets
<1> HIDE DEF new
<1>9. new.mac = fed /\ new.block = block /\ new.okm = okm /\ i > 0 /\ i # 0
  BY <1>8
<1>10. PassSound(new, i, k0, n, t)
  BY <1>2, <1>6, <1>7, <1>8, <1>9 DEF PassSound
<1> QED BY <1>10 DEF new

-----------------------------------------------------------------------------
(***************************************************************************)
(* Rfc5869 in the terms of the lemmas.                                     *)
(***************************************************************************)
LEMMA SameTag ==
  /\ \A k : Promise!K0(k) = F!K0(k)
  /\ \A k0, msg : Promise!Tag(k0, msg) = F!Tag(k0, msg)
  /\ \A c : Promise!DigestBytes(c) = DigestBytes(c)
  /\ \A n : Promise!Zeros(n) = Zeros(n) /\ Promise!Lit(n) = Lit(n)
  /\ Promise!NoKey = << >> /\ Promise!MaxBytes = MAX_OUTPUT_LEN
  /\ \A salt, ikm : Promise!Prk(salt, ikm) = DigestBytes(F!Tag(F!K0(salt), ikm))
<1>1. /\ Promise!DELIM = DELIM /\ F!DELIM = DELIM
      /\ Promise!LEN_MOD = LEN_MOD /\ F!LEN_MOD = LEN_MOD
      /\ \A n : Promise!Zeros(n) = Zeros(n) /\ F!Zeros(n) = Zeros(n)
      /\ \A n : Promise!ToBeBytes(n) = ToBeBytes(n) /\ F!ToBeBytes(n) = ToBeBytes(n)
      /\ \A n : Promise!Lit(n) = Lit(n)
  BY DEF F!DELIM, Promise!DELIM, DELIM, F!LEN_MOD, Promise!LEN_MOD, LEN_MOD,
         F!BASE, Promise!BASE, BASE, F!Zeros, Promise!Zeros, Zeros,
         F!ZERO, Promise!ZERO, ZERO, F!Lit, Promise!Lit, Lit,
         F!ToBeBytes, Promise!ToBeBytes, ToBeBytes
<1>2. \A bytes : Promise!Hash(bytes) = F!Hash(bytes)
  BY <1>1 DEF F!Hash, F!Digest, F!Message, F!Padding,
              Promise!Hash, Promise!Digest, Promise!Message, Promise!Padding
<1>3. /\ \A p, k : Promise!XorInto(p, k) = F!XorInto(p, k)
      /\ \A c : Promise!DigestBytes(c) = F!DigestBytes(c)
      /\ \A c : Promise!DigestBytes(c) = DigestBytes(c)
  BY DEF F!XorInto, Promise!XorInto, F!DigestBytes, Promise!DigestBytes, DigestBytes
<1>4. \A k : Promise!K0(k) = F!K0(k)
  BY <1>1, <1>2, <1>3 DEF F!K0, Promise!K0
<1>5. \A k0, msg : Promise!Tag(k0, msg) = F!Tag(k0, msg)
  BY <1>2, <1>3 DEF F!Tag, Promise!Tag
<1>6. Promise!NoKey = << >> /\ Promise!MaxBytes = MAX_OUTPUT_LEN
  BY DEF Promise!NoKey, Promise!MaxBytes, MAX_OUTPUT_LEN, Promise!BASE, BASE
<1> QED BY <1>1, <1>3, <1>4, <1>5, <1>6 DEF Promise!Prk

\* The table by which Rfc5869 defines the OKM.
PromisedT(f, k0, info, k) ==
  f = [i \in 0 .. k |->
         IF i = 0 THEN << >>
         ELSE Promise!DigestBytes(
                Promise!Tag(k0, f[i - 1] \o info \o << Promise!Lit(i) >>))]

LEMMA OkmIs ==
  ASSUME NEW k0, NEW info, NEW n \in Nat
  PROVE  LET N == PassCount(DIGEST_LEN, n)
         IN  \E t : /\ IsT(t, k0, info, N)
                   /\ Promise!Okm(k0, info, n) = Written(DIGEST_LEN, t, n, N)
<1> DEFINE N == PassCount(DIGEST_LEN, n)
           t == CHOOSE f : PromisedT(f, k0, info, N)
<1>1. N \in Nat /\ n <= DIGEST_LEN * N
  BY Sizes, PassCounts
<1>2. Promise!Okm(k0, info, n)
        = [j \in 1 .. n |-> t[BlockOf(DIGEST_LEN, j)][PlaceOf(DIGEST_LEN, j)]]
  BY DEF Promise!Okm, PromisedT, PassCount, BlockOf, PlaceOf
<1> HIDE DEF N
<1>3. \A f : PromisedT(f, k0, info, N) <=> IsT(f, k0, info, N)
  BY SameTag DEF PromisedT, IsT, NextT
<1>4. \E f : PromisedT(f, k0, info, N)
  BY <1>1, <1>3, TExists
<1>5. IsT(t, k0, info, N)
  BY <1>3, <1>4
<1> HIDE DEF t
<1>6. Written(DIGEST_LEN, t, n, N)
        = [j \in 1 .. n |-> t[BlockOf(DIGEST_LEN, j)][PlaceOf(DIGEST_LEN, j)]]
  <2> DEFINE p == DIGEST_LEN * N
  <2>1. \A j \in 1 .. n : j <= p
    <3>1. p \in Int
      BY <1>1, Sizes
    <3> HIDE DEF p
    <3>2. n <= p
      BY <1>1 DEF p
    <3> QED BY <3>1, <3>2
  <2> HIDE DEF p
  <2> QED BY <2>1 DEF Written, p
<1> QED BY <1>2, <1>5, <1>6 DEF N

\* Both loops compute the OKM, never fail on an allowed length, and leave an
\* HMAC on the same key.
LEMMA LoopComputes ==
  ASSUME NEW k0, NEW mac, Keyed(Ivs, "H0", mac, k0, << >>), NEW info, Bytes(info),
         NEW n \in Nat, n <= MAX_OUTPUT_LEN
  PROVE  /\ Loop(mac, info, n).ok = TRUE
         /\ Loop(mac, info, n).okm = Promise!Okm(k0, info, n)
         /\ \E msg : Keyed(Ivs, "H0", Loop(mac, info, n).mac, k0, msg)
<1> DEFINE N == PassCount(DIGEST_LEN, n)
           f == CHOOSE g : IsLoop(g, mac, info, n, N)
<1>1. N \in Nat /\ N < BASE /\ BASE \in Nat
  BY Sizes, PassCounts, WidthAssumption DEF MAX_OUTPUT_LEN
<1>2. PICK t : /\ IsT(t, k0, info, N)
               /\ Promise!Okm(k0, info, n) = Written(DIGEST_LEN, t, n, N)
  BY OkmIs
<1>3. Loop(mac, info, n) = f[N]
  BY DEF Loop, IsLoop, Start, NextPass, PassCount
<1>4. IsLoop(f, mac, info, n, N)
  <2>1. \E g : IsLoop(g, mac, info, n, N)
    <3> HIDE DEF N
    <3> QED BY <1>1, LoopExists
  <2> QED BY <2>1
<1> HIDE DEF f
<1> DEFINE S == {i \in 0 .. N : PassSound(f[i], i, k0, n, t)}
<1>5. 0 \in S
  <2>1. f[0] = Start(mac, n)
    <3> HIDE DEF N
    <3> QED BY <1>1, <1>4 DEF IsLoop
  <2>2. Zeros(n) = Written(DIGEST_LEN, t, n, 0)
    <3>1. DIGEST_LEN * 0 = 0
      BY Sizes
    <3>2. \A j \in 1 .. n : ~(j <= DIGEST_LEN * 0)
      BY <3>1
    <3> QED BY <3>2 DEF Zeros, Written
  <2>3. PassSound(Start(mac, n), 0, k0, n, t)
    BY <2>2 DEF PassSound, Start
  <2> QED BY <1>1, <2>1, <2>3
<1>6. ASSUME NEW i \in 1 .. N, i - 1 \in S PROVE i \in S
  <2>1. f[i] = NextPass(f[i - 1], info, i)
    <3> HIDE DEF N
    <3> QED BY <1>1, <1>4 DEF IsLoop
  <2> DEFINE s == f[i - 1]
  <2>2. PassSound(s, i - 1, k0, n, t) /\ i < BASE
    BY <1>1, <1>6
  <2> HIDE DEF s
  <2>3. PassSound(NextPass(s, info, i), i, k0, n, t)
    BY <1>2, <2>2, PassKeepsSound
  <2> QED BY <2>1, <2>3 DEF s
<1>7. N \in S
  <2> HIDE DEF S, N
  <2> QED BY <1>1, <1>5, <1>6, InductionUpTo
<1> DEFINE s == f[N]
<1>8. PassSound(s, N, k0, n, t)
  BY <1>7
<1> HIDE DEF s, N
<1>9. /\ s.ok = TRUE /\ s.okm = Written(DIGEST_LEN, t, n, N)
      /\ \E msg : Keyed(Ivs, "H0", s.mac, k0, msg)
  BY <1>8 DEF PassSound
<1> QED BY <1>2, <1>3, <1>9 DEF s

-----------------------------------------------------------------------------
(***************************************************************************)
(* The two expand_into calls.                                              *)
(***************************************************************************)
Inputs == /\ \A info \in Infos : Bytes(info)
          /\ \A salt \in Salts : salt \in Seq(Byte)
          /\ \A ikm \in Ikms : ikm \in Seq(Byte)
          /\ Prks \subseteq [1 .. DIGEST_LEN -> Byte]
          /\ Lengths \subseteq Nat

LEMMA InputsHold == Inputs
  BY HkdfAssumption DEF Inputs, Bytes

\* An answer is refused with a zeroed buffer or has the length asked for.
LEMMA AnswerSound ==
  ASSUME NEW k0, NEW info, NEW n \in Nat
  PROVE  LET a == Promise!Answer(k0, info, n)
         IN  /\ a.ok \in BOOLEAN
             /\ Len(a.okm) = n
             /\ ~a.ok => a.okm = Zeros(n)
<1> DEFINE a == Promise!Answer(k0, info, n)   o == Promise!Okm(k0, info, n)
<1>1. Len(Zeros(n)) = n
  BY DEF Zeros
<1>2. Len(o) = n
  <2>1. PICK t : o = Written(DIGEST_LEN, t, n, PassCount(DIGEST_LEN, n))
    BY OkmIs
  <2> HIDE DEF o
  <2> QED BY <2>1 DEF Written
<1>4. a = IF n > MAX_OUTPUT_LEN THEN [ok |-> FALSE, okm |-> Zeros(n)]
          ELSE [ok |-> TRUE, okm |-> o]
  BY SameTag DEF Promise!Answer, Promise!Refused
<1> HIDE DEF a, o
<1>5. a.ok \in BOOLEAN /\ Len(a.okm) = n /\ (~a.ok => a.okm = Zeros(n))
  <2>1. CASE n > MAX_OUTPUT_LEN
    <3>1. a.ok = FALSE /\ a.okm = Zeros(n)
      BY <1>4, <2>1
    <3> QED BY <1>1, <3>1
  <2>2. CASE ~(n > MAX_OUTPUT_LEN)
    <3>1. a.ok = TRUE /\ a.okm = o
      BY <1>4, <2>2
    <3> QED BY <1>2, <3>1
  <2> QED BY <2>1, <2>2
<1> QED BY <1>5 DEF a

\* The one-shot expansion answers as promised.
LEMMA OneShotAnswers ==
  ASSUME NEW B, ByteSet(B), prk \in [1 .. DIGEST_LEN -> B],
         NEW info \in Infos, NEW n \in Lengths
  PROVE  [ok |-> OneShot(info, n).ok, okm |-> OneShot(info, n).okm]
           = Promise!Answer(F!K0(prk), info, n)
<1> DEFINE mac == WithKey(prk)   k0 == F!K0(prk)   end == Loop(mac, info, n)
<1>1. n \in Nat /\ Bytes(info)
  BY InputsHold DEF Inputs
<1>2. Keyed(Ivs, "H0", mac, k0, << >>)
  <2>1. prk \in Seq(B)
    BY Sizes, FunctionIsSequence
  <2> QED BY <2>1, KeyedByKey
<1>3. OneShot(info, n) =
        IF n > MAX_OUTPUT_LEN THEN [mac |-> << >>, okm |-> Zeros(n), ok |-> FALSE] ELSE end
  BY DEF OneShot, Rejected
<1>4. Promise!Answer(k0, info, n) =
        IF n > MAX_OUTPUT_LEN THEN [ok |-> FALSE, okm |-> Zeros(n)]
        ELSE [ok |-> TRUE, okm |-> Promise!Okm(k0, info, n)]
  BY SameTag DEF Promise!Answer, Promise!Refused
<1>5. MAX_OUTPUT_LEN \in Int
  BY WidthAssumption, Sizes DEF MAX_OUTPUT_LEN
<1> HIDE DEF mac, k0
<1>6. CASE n > MAX_OUTPUT_LEN
  <2>1. /\ OneShot(info, n).ok = FALSE /\ OneShot(info, n).okm = Zeros(n)
    BY <1>3, <1>6
  <2> QED BY <1>4, <1>6, <2>1 DEF k0
<1>7. CASE ~(n > MAX_OUTPUT_LEN)
  <2>1. n <= MAX_OUTPUT_LEN
    BY <1>1, <1>5, <1>7
  <2>2. end.ok = TRUE /\ end.okm = Promise!Okm(k0, info, n)
    BY <1>1, <1>2, <2>1, LoopComputes
  <2> HIDE DEF end
  <2>3. OneShot(info, n) = end
    BY <1>3, <1>7
  <2> QED BY <1>4, <1>7, <2>2, <2>3 DEF k0
<1> QED BY <1>6, <1>7

\* So does a prepared one, which keeps its key, and its state if it refuses.
LEMMA PreparedAnswers ==
  ASSUME NEW mac, NEW k0, NEW msg, Keyed(Ivs, "H0", mac, k0, msg),
         NEW info \in Infos, NEW n \in Lengths
  PROVE  /\ [ok |-> Prepared(mac, info, n).ok, okm |-> Prepared(mac, info, n).okm]
               = Promise!Answer(k0, info, n)
         /\ \E new : Keyed(Ivs, "H0", Prepared(mac, info, n).mac, k0, new)
         /\ ~Prepared(mac, info, n).ok => Prepared(mac, info, n).mac = mac
<1> DEFINE m == MacReset(mac)   end == Loop(m, info, n)
<1>1. n \in Nat /\ Bytes(info)
  BY InputsHold DEF Inputs
<1>2. Keyed(Ivs, "H0", m, k0, << >>)
  BY KeyedReset, OwnVector
<1>3. Prepared(mac, info, n) =
        IF n > MAX_OUTPUT_LEN THEN [mac |-> mac, okm |-> Zeros(n), ok |-> FALSE] ELSE end
  BY DEF Prepared, Rejected
<1>4. Promise!Answer(k0, info, n) =
        IF n > MAX_OUTPUT_LEN THEN [ok |-> FALSE, okm |-> Zeros(n)]
        ELSE [ok |-> TRUE, okm |-> Promise!Okm(k0, info, n)]
  BY SameTag DEF Promise!Answer, Promise!Refused
<1>5. MAX_OUTPUT_LEN \in Int
  BY WidthAssumption, Sizes DEF MAX_OUTPUT_LEN
<1> HIDE DEF m
<1>6. CASE n > MAX_OUTPUT_LEN
  <2>1. /\ Prepared(mac, info, n).ok = FALSE /\ Prepared(mac, info, n).okm = Zeros(n)
        /\ Prepared(mac, info, n).mac = mac
    BY <1>3, <1>6
  <2> QED BY <1>4, <1>6, <2>1
<1>7. CASE ~(n > MAX_OUTPUT_LEN)
  <2>1. n <= MAX_OUTPUT_LEN
    BY <1>1, <1>5, <1>7
  <2>2. /\ end.ok = TRUE /\ end.okm = Promise!Okm(k0, info, n)
        /\ \E new : Keyed(Ivs, "H0", end.mac, k0, new)
    BY <1>1, <1>2, <2>1, LoopComputes
  <2> HIDE DEF end
  <2>3. Prepared(mac, info, n) = end
    BY <1>3, <1>7
  <2> QED BY <1>4, <1>7, <2>2, <2>3
<1> QED BY <1>6, <1>7

\* extract returns the PRK of RFC 5869, a sequence of digest bytes.
LEMMA ExtractedIsPrk ==
  ASSUME NEW salt \in Salts, NEW ikm \in Ikms
  PROVE  /\ Extracted(salt, ikm) = Promise!Prk(salt, ikm)
         /\ \E B : ByteSet(B) /\ Extracted(salt, ikm) \in [1 .. DIGEST_LEN -> B]
<1> DEFINE m == MacUpdate(WithKey(salt), ikm)   k0 == F!K0(salt)
<1>1. salt \in Seq(Byte) /\ ikm \in Seq(Byte) /\ ByteSet(Byte)
  BY InputsHold DEF Inputs, ByteSet
<1>2. Keyed(Ivs, "H0", WithKey(salt), k0, << >>) /\ Bytes(ikm)
  BY <1>1, KeyedByKey DEF Bytes
<1> HIDE DEF k0
<1>3. Keyed(Ivs, "H0", m, k0, << >> \o ikm)
  BY <1>2, KeyedUpdate
<1>4. << >> \o ikm = ikm
  BY <1>1, ConcatEmptySeq
<1> HIDE DEF m
<1>5. /\ MacFinalize(m) = F!Tag(k0, ikm)
      /\ \E C : ByteSet(C) /\ MacFinalize(m) \in ChainOver(Ivs, C)
  BY <1>3, <1>4, KeyedTag
<1>6. Extracted(salt, ikm) = DigestBytes(MacFinalize(m))
  BY DEF Extracted, m
<1>7. Extracted(salt, ikm) = Promise!Prk(salt, ikm)
  BY <1>5, <1>6, SameTag DEF k0
<1>8. \E B : ByteSet(B) /\ Extracted(salt, ikm) \in [1 .. DIGEST_LEN -> B]
  <2> DEFINE d == MacFinalize(m)
  <2>1. PICK C : ByteSet(C) /\ d \in ChainOver(Ivs, C)
    BY <1>5
  <2> HIDE DEF d
  <2>2. DigestBytes(d) \in [1 .. DIGEST_LEN -> DigestOf(C)]
    BY <2>1, DigestBytesType
  <2> DEFINE B == Byte \cup DigestOf(C)
  <2>3. ByteSet(B) /\ DigestBytes(d) \in [1 .. DIGEST_LEN -> B]
    BY <2>2 DEF ByteSet
  <2> HIDE DEF B
  <2> QED BY <1>6, <2>3 DEF d
<1> QED BY <1>7, <1>8

-----------------------------------------------------------------------------
(***************************************************************************)
(* The inductive invariant.                                                *)
(***************************************************************************)
Statuses == {"unused", "live", "dropped"}

IsPrk(bytes) == \E B : ByteSet(B) /\ bytes \in [1 .. DIGEST_LEN -> B]

\* The memory of an expander that is gone, or was never there.
Erased(m) == /\ m.inner_state = ZERO_STATE /\ m.outer_state = ZERO_STATE
             /\ Clean(m.inner)

\* A live expander holds some key, whatever it has absorbed under it.
ExpanderSound(m, s) ==
  /\ SomeMac(Ivs, m)
  /\ s = "live" => \E k0, msg : Keyed(Ivs, "H0", m, k0, msg)
  /\ s # "live" => Erased(m)

AnswerOK == /\ answer.ok \in BOOLEAN
            /\ Len(answer.okm) \in Lengths \cup {0}
            /\ ~answer.ok => answer.okm = Zeros(Len(answer.okm))

IInv == /\ IsPrk(prk) /\ prkStatus \in Statuses
        /\ prkStatus # "live" => prk = Zeros(DIGEST_LEN)
        /\ expander = [e \in Expander |-> expander[e]]
        /\ status \in [Expander -> Statuses]
        /\ \A e \in Expander : ExpanderSound(expander[e], status[e])
        /\ AnswerOK

LEMMA ZerosArePrk == IsPrk(Zeros(DIGEST_LEN))
<1>1. ByteSet(Byte) /\ Zeros(DIGEST_LEN) \in [1 .. DIGEST_LEN -> Byte]
  BY Sizes, ZerosType DEF ByteSet
<1> QED BY <1>1 DEF IsPrk

LEMMA NoAnswerOK == answer' = NoAnswer => AnswerOK'
  BY DEF NoAnswer, AnswerOK

LEMMA InitIInv == Init => IInv
<1> SUFFICES ASSUME Init PROVE IInv
  OBVIOUS
<1> DEFINE m == WithKey(<< >>)   d == MacDrop(m)
<1>1. SomeMac(Ivs, m)
  <2>1. << >> \in Seq(Byte) /\ ByteSet(Byte)
    BY DEF ByteSet
  <2>2. Keyed(Ivs, "H0", m, F!K0(<< >>), << >>)
    BY <2>1, KeyedByKey
  <2> HIDE DEF m
  <2> QED BY <2>2, KeyedBlock
<1> HIDE DEF m
<1>2. SomeMac(Ivs, d) /\ Erased(d)
  BY <1>1, DropErases, OwnVector DEF Erased
<1> HIDE DEF d
<1>3. expander = [e \in Expander |-> d] /\ status = [e \in Expander |-> "unused"]
  BY DEF Init, d, m
<1>4. ExpanderSound(d, "unused")
  BY <1>2 DEF ExpanderSound
<1>5. AnswerOK
  BY DEF Init, NoAnswer, AnswerOK
<1>6. IsPrk(prk) /\ prk = Zeros(DIGEST_LEN) /\ prkStatus = "unused"
  BY ZerosArePrk DEF Init
<1> QED BY <1>3, <1>4, <1>5, <1>6 DEF IInv, Statuses

\* An action that changes the PRK and clears the answer.
LEMMA PrkStep ==
  ASSUME IInv, NEW bytes, IsPrk(bytes), NEW s \in Statuses,
         s # "live" => bytes = Zeros(DIGEST_LEN),
         prk' = bytes, prkStatus' = s, answer' = NoAnswer,
         UNCHANGED << expander, status >>
  PROVE  IInv'
<1>1. AnswerOK'
  BY NoAnswerOK
<1>2. /\ expander' = expander /\ status' = status
  OBVIOUS
<1> QED BY <1>1, <1>2 DEF IInv

\* An action that changes one expander.
LEMMA ExpanderStep ==
  ASSUME IInv, NEW e \in Expander, NEW m, NEW s \in Statuses, ExpanderSound(m, s),
         expander' = [expander EXCEPT ![e] = m],
         status' = [status EXCEPT ![e] = s],
         AnswerOK', UNCHANGED << prk, prkStatus >>
  PROVE  IInv'
<1>1. /\ prk' = prk /\ prkStatus' = prkStatus
      /\ status' \in [Expander -> Statuses]
      /\ expander' = [f \in Expander |-> expander'[f]]
  BY DEF IInv
<1>2. ASSUME NEW f \in Expander
      PROVE  ExpanderSound(expander'[f], status'[f])
  <2>1. CASE f = e
    <3>1. expander'[f] = m /\ status'[f] = s
      BY <2>1 DEF IInv
    <3> QED BY <3>1
  <2>2. CASE f # e
    <3>1. expander'[f] = expander[f] /\ status'[f] = status[f]
      BY <2>2 DEF IInv
    <3> QED BY <3>1 DEF IInv
  <2> QED BY <2>1, <2>2
<1> QED BY <1>1, <1>2 DEF IInv

\* The call on an expander: what it answers and what it leaves.
LEMMA PreparedStep ==
  ASSUME IInv, NEW e \in Expander, NEW info \in Infos, NEW n \in Lengths,
         DoPrepared(e, info, n)
  PROVE  \E k0, old, new :
           /\ Keyed(Ivs, "H0", expander[e], k0, old) /\ Keyed(Ivs, "H0", expander'[e], k0, new)
           /\ answer' = Promise!Answer(k0, info, n)
           /\ ~answer'.ok => expander'[e] = expander[e]
<1> DEFINE end == Prepared(expander[e], info, n)
<1>1. /\ status[e] = "live" /\ answer' = [ok |-> end.ok, okm |-> end.okm]
      /\ expander' = [expander EXCEPT ![e] = end.mac]
  BY DEF DoPrepared
<1>2. PICK k0, old : Keyed(Ivs, "H0", expander[e], k0, old)
  BY <1>1 DEF IInv, ExpanderSound
<1>3. /\ [ok |-> end.ok, okm |-> end.okm] = Promise!Answer(k0, info, n)
      /\ \E new : Keyed(Ivs, "H0", end.mac, k0, new)
      /\ ~end.ok => end.mac = expander[e]
  <2> DEFINE m == expander[e]
  <2>1. PICK v : v = m
    OBVIOUS
  <2>2. Keyed(Ivs, "H0", v, k0, old)
    BY <1>2, <2>1
  <2>3. /\ [ok |-> Prepared(v, info, n).ok, okm |-> Prepared(v, info, n).okm]
             = Promise!Answer(k0, info, n)
        /\ \E new : Keyed(Ivs, "H0", Prepared(v, info, n).mac, k0, new)
        /\ ~Prepared(v, info, n).ok => Prepared(v, info, n).mac = v
    BY <2>2, PreparedAnswers
  <2> QED BY <2>1, <2>3
<1> HIDE DEF end
<1>4. expander'[e] = end.mac
  BY <1>1 DEF IInv
<1>5. answer'.ok = end.ok
  BY <1>1
<1> QED BY <1>1, <1>2, <1>3, <1>4, <1>5

\* An answer as promised is sound.
LEMMA PromisedAnswerOK ==
  ASSUME NEW k0, NEW info \in Infos, NEW n \in Lengths,
         answer' = Promise!Answer(k0, info, n)
  PROVE  AnswerOK'
<1> DEFINE a == Promise!Answer(k0, info, n)
<1>1. n \in Nat
  BY InputsHold DEF Inputs
<1>2. a.ok \in BOOLEAN /\ Len(a.okm) = n /\ (~a.ok => a.okm = Zeros(n))
  BY <1>1, AnswerSound
<1>3. answer' = a
  OBVIOUS
<1> HIDE DEF a
<1> QED BY <1>2, <1>3 DEF AnswerOK

LEMMA NextIInv == IInv /\ [Next]_vars => IInv'
<1> SUFFICES ASSUME IInv, [Next]_vars PROVE IInv'
  OBVIOUS
<1>0. "live" \in Statuses /\ "dropped" \in Statuses
  BY DEF Statuses
<1>1. ASSUME NEW salt \in Salts, NEW ikm \in Ikms, DoExtract(salt, ikm) PROVE IInv'
  <2>1. IsPrk(Extracted(salt, ikm))
    BY ExtractedIsPrk DEF IsPrk
  <2> QED BY <1>0, <1>1, <2>1, PrkStep DEF DoExtract, SetPrk
<1>2. ASSUME NEW bytes \in Prks, DoFromPrk(bytes) PROVE IInv'
  <2>1. IsPrk(bytes)
    BY InputsHold DEF Inputs, IsPrk, ByteSet
  <2> QED BY <1>0, <1>2, <2>1, PrkStep DEF DoFromPrk, SetPrk
<1>3. ASSUME NEW s \in {"live", "dropped"}, WipePrk(s) PROVE IInv'
  BY <1>0, <1>3, ZerosArePrk, PrkStep DEF WipePrk
<1>4. ASSUME NEW info \in Infos, NEW n \in Lengths, DoOneShot(info, n) PROVE IInv'
  <2>1. PICK B : ByteSet(B) /\ prk \in [1 .. DIGEST_LEN -> B]
    BY DEF IInv, IsPrk
  <2>2. answer' = Promise!Answer(F!K0(prk), info, n)
    BY <1>4, <2>1, OneShotAnswers DEF DoOneShot
  <2>3. AnswerOK'
    BY <2>2, PromisedAnswerOK
  <2>4. /\ prk' = prk /\ prkStatus' = prkStatus
        /\ expander' = expander /\ status' = status
    BY <1>4 DEF DoOneShot
  <2> QED BY <2>3, <2>4 DEF IInv
<1>5. ASSUME NEW e \in Expander, DoExpander(e) PROVE IInv'
  <2> DEFINE m == WithKey(prk)
  <2>1. \E k0, msg : Keyed(Ivs, "H0", m, k0, msg)
    <3>1. PICK B : ByteSet(B) /\ prk \in [1 .. DIGEST_LEN -> B]
      BY DEF IInv, IsPrk
    <3>2. prk \in Seq(B)
      BY <3>1, Sizes, FunctionIsSequence
    <3> QED BY <3>1, <3>2, KeyedByKey
  <2>2. /\ expander' = [expander EXCEPT ![e] = m]
        /\ status' = [status EXCEPT ![e] = "live"]
        /\ answer' = NoAnswer /\ UNCHANGED << prk, prkStatus >>
    BY <1>5 DEF DoExpander
  <2> HIDE DEF m
  <2>3. ExpanderSound(m, "live")
    BY <2>1, KeyedBlock DEF ExpanderSound
  <2> QED BY <1>0, <2>2, <2>3, NoAnswerOK, ExpanderStep
<1>6. ASSUME NEW e \in Expander, NEW info \in Infos, NEW n \in Lengths,
             DoPrepared(e, info, n)
      PROVE  IInv'
  <2> DEFINE m == Prepared(expander[e], info, n).mac
  <2>1. /\ status[e] = "live" /\ expander' = [expander EXCEPT ![e] = m]
        /\ status' = status /\ UNCHANGED << prk, prkStatus >>
    BY <1>6 DEF DoPrepared
  <2> HIDE DEF m
  <2>2. status' = [status EXCEPT ![e] = "live"] /\ expander'[e] = m
    BY <2>1 DEF IInv
  <2>3. PICK k0, old, new :
           /\ Keyed(Ivs, "H0", expander[e], k0, old) /\ Keyed(Ivs, "H0", expander'[e], k0, new)
           /\ answer' = Promise!Answer(k0, info, n)
    BY <1>6, PreparedStep
  <2>4. Keyed(Ivs, "H0", m, k0, new)
    BY <2>2, <2>3
  <2>5. ExpanderSound(m, "live")
    BY <2>4, KeyedBlock DEF ExpanderSound
  <2>6. AnswerOK'
    BY <2>3, PromisedAnswerOK
  <2> QED BY <1>0, <2>1, <2>2, <2>5, <2>6, ExpanderStep
<1>7. ASSUME NEW e \in Expander, DoDropExpander(e) PROVE IInv'
  <2> DEFINE m == MacDrop(expander[e])
  <2>1. /\ expander' = [expander EXCEPT ![e] = m]
        /\ status' = [status EXCEPT ![e] = "dropped"]
        /\ answer' = NoAnswer /\ UNCHANGED << prk, prkStatus >>
    BY <1>7 DEF DoDropExpander
  <2>2. SomeMac(Ivs, expander[e])
    BY DEF IInv, ExpanderSound
  <2>3. SomeMac(Ivs, m) /\ Erased(m)
    BY <2>2, DropErases, OwnVector DEF Erased
  <2> HIDE DEF m
  <2>4. ExpanderSound(m, "dropped")
    BY <2>3 DEF ExpanderSound
  <2> QED BY <1>0, <2>1, <2>4, NoAnswerOK, ExpanderStep
<1>8. CASE UNCHANGED vars
  BY <1>8 DEF vars, IInv, AnswerOK
<1> QED BY <1>1, <1>2, <1>3, <1>4, <1>5, <1>6, <1>7, <1>8 DEF Next

LEMMA Inductive == Spec => []IInv
  BY InitIInv, NextIInv, PTL DEF Spec

-----------------------------------------------------------------------------
(***************************************************************************)
(* The theorems.                                                           *)
(***************************************************************************)

\* The buffers keep their sizes and the counters their ranges.
THEOREM TypeCorrect == Spec => []TypeOK
<1>1. IInv => TypeOK
  <2> SUFFICES ASSUME IInv PROVE TypeOK
    OBVIOUS
  <2>1. DOMAIN prk = 1 .. DIGEST_LEN
    BY DEF IInv, IsPrk
  <2>2. ASSUME NEW e \in Expander
        PROVE  /\ DOMAIN expander[e].inner.block = 1 .. BLOCK_LEN
               /\ expander[e].inner.block_len \in 0 .. BLOCK_LEN - 1
               /\ expander[e].inner.block_filled \in 0 .. BLOCK_LEN
               /\ expander[e].inner.len \in 0 .. LEN_MOD - 1
    <3>1. PICK B : expander[e] \in MacOver(Ivs, B)
      BY DEF IInv, ExpanderSound, SomeMac
    <3> QED BY <3>1 DEF MacOver, HasherOver
  <2> QED BY <2>1, <2>2 DEF IInv, Statuses, AnswerOK, TypeOK
<1> QED BY <1>1, Inductive, PTL

\* A refused request leaves the caller's buffer all zeros.
THEOREM RefusalsWriteNothing == Spec => []RefusalWritesNothing
<1>1. IInv => RefusalWritesNothing
  <2> SUFFICES ASSUME IInv, ~answer.ok, NEW j \in 1 .. Len(answer.okm)
               PROVE  answer.okm[j] = ZERO
    BY DEF RefusalWritesNothing
  <2> DEFINE n == Len(answer.okm)
  <2>1. answer.okm = Zeros(n)
    BY DEF IInv, AnswerOK
  <2>2. j \in 1 .. n
    OBVIOUS
  <2> HIDE DEF n
  <2>3. Zeros(n)[j] = ZERO
    BY <2>2 DEF Zeros
  <2> QED BY <2>1, <2>3
<1> QED BY <1>1, Inductive, PTL

\* An expander that refused a request is as it was before.
THEOREM RefusalsKeepExpander == Spec => RefusalKeepsExpander
<1>1. IInv /\ [Next]_vars => [~answer'.ok => UNCHANGED << prk, expander >>]_vars
  <2> SUFFICES ASSUME IInv, Next, ~answer'.ok PROVE UNCHANGED << prk, expander >>
    OBVIOUS
  <2>1. answer' # NoAnswer
    BY DEF NoAnswer
  <2>2. ASSUME NEW info \in Infos, NEW n \in Lengths, DoOneShot(info, n)
        PROVE  UNCHANGED << prk, expander >>
    BY <2>2 DEF DoOneShot
  <2>3. ASSUME NEW e \in Expander, NEW info \in Infos, NEW n \in Lengths,
               DoPrepared(e, info, n)
        PROVE  UNCHANGED << prk, expander >>
    <3> DEFINE m == Prepared(expander[e], info, n).mac
    <3>1. prk' = prk /\ expander' = [expander EXCEPT ![e] = m]
      BY <2>3 DEF DoPrepared
    <3> HIDE DEF m
    <3>2. expander'[e] = m
      BY <3>1 DEF IInv
    <3>3. expander'[e] = expander[e]
      BY <2>3, PreparedStep
    <3> QED BY <3>1, <3>2, <3>3 DEF IInv
  <2> QED BY <2>1, <2>2, <2>3
      DEF Next, DoExtract, DoFromPrk, SetPrk, WipePrk, DoExpander, DoDropExpander
<1> QED BY <1>1, Inductive, PTL DEF Spec, RefusalKeepsExpander

\* Dropped objects hold neither the PRK nor anything made from it.
THEOREM SecretsAreErased == Spec => []SecretsErased
<1>1. IInv => SecretsErased
  <2> SUFFICES ASSUME IInv, NEW e \in Expander, status[e] # "live"
               PROVE  /\ expander[e].inner.block = Zeros(BLOCK_LEN)
                      /\ expander[e].inner.state = ZERO_STATE
                      /\ expander[e].inner_state = ZERO_STATE
                      /\ expander[e].outer_state = ZERO_STATE
    BY DEF SecretsErased, IInv
  <2>1. Erased(expander[e])
    BY DEF IInv, ExpanderSound
  <2> QED BY <2>1 DEF Erased, Clean
<1> QED BY <1>1, Inductive, PTL

-----------------------------------------------------------------------------
(***************************************************************************)
(* Refinement: Hkdf implements Rfc5869.                                    *)
(***************************************************************************)
\* What the promise sees of the PRK and of the expanders.
KeyView   == IF prkStatus = "live" THEN prk ELSE << >>
ExpanderView(m, s) == IF s = "live" THEN KeyBlockOf(m) ELSE << >>
KeyedBlocks == [e \in Expander |-> ExpanderView(expander[e], status[e])]

\* No PRK is empty.
LEMMA PrkIsSome ==
  ASSUME NEW bytes, IsPrk(bytes)
  PROVE  bytes # << >>
<1>1. PICK B : bytes \in [1 .. DIGEST_LEN -> B]
  BY DEF IsPrk
<1>2. Len(bytes) = DIGEST_LEN /\ DIGEST_LEN # 0
  BY <1>1, Sizes, FunctionIsSequence
<1>3. Len(<< >>) = 0
  OBVIOUS
<1> QED BY <1>2, <1>3

LEMMA InitImplements == Init => Promise!AInit
<1> SUFFICES ASSUME Init PROVE Promise!AInit
  OBVIOUS
<1>1. /\ prkStatus = "unused" /\ status = [e \in Expander |-> "unused"]
      /\ answer = NoAnswer
  BY DEF Init
<1> QED BY <1>1 DEF Promise!AInit, Promise!NoKey, Promise!NoAnswer, NoAnswer

\* A call that sets or clears the PRK.
LEMMA SetsKey ==
  ASSUME NEW bytes, prk' = bytes, answer' = NoAnswer, UNCHANGED << expander, status >>
  PROVE  /\ prkStatus' = "live" => Promise!ASetKey(bytes)
         /\ prkStatus' # "live" => Promise!ASetKey(Promise!NoKey)
<1>1. KeyView' = IF prkStatus' = "live" THEN bytes ELSE << >>
  BY DEF KeyView
<1>2. KeyedBlocks' = KeyedBlocks
  BY DEF KeyedBlocks, ExpanderView, KeyBlockOf
<1>3. answer' = Promise!NoAnswer /\ Promise!NoKey = << >>
  BY DEF Promise!NoAnswer, NoAnswer, Promise!NoKey
<1> QED BY <1>1, <1>2, <1>3 DEF Promise!ASetKey, KeyView, KeyedBlocks, ExpanderView

\* A call that changes one expander.
LEMMA SetsExpander ==
  ASSUME IInv, NEW e \in Expander, NEW m, NEW s,
         expander' = [expander EXCEPT ![e] = m],
         status' = [status EXCEPT ![e] = s], UNCHANGED << prk, prkStatus >>
  PROVE  /\ KeyView' = KeyView
         /\ KeyedBlocks' = [KeyedBlocks EXCEPT ![e] = ExpanderView(m, s)]
<1>1. /\ expander'[e] = m /\ status'[e] = s
      /\ \A f \in Expander \ {e} : expander'[f] = expander[f] /\ status'[f] = status[f]
  BY DEF IInv
<1>2. KeyedBlocks' = [f \in Expander |-> ExpanderView(expander'[f], status'[f])]
  BY DEF KeyedBlocks, ExpanderView, KeyBlockOf
<1>3. KeyedBlocks' = [KeyedBlocks EXCEPT ![e] = ExpanderView(m, s)]
  <2>1. PICK old, new : /\ old = KeyedBlocks /\ new = KeyedBlocks'
    OBVIOUS
  <2>2. \A f \in Expander : new[f] = IF f = e THEN ExpanderView(m, s) ELSE old[f]
    <3>1. new[e] = ExpanderView(m, s)
      BY <1>1, <1>2, <2>1
    <3>2. ASSUME NEW f \in Expander \ {e} PROVE new[f] = old[f]
      <4>1. expander'[f] = expander[f] /\ status'[f] = status[f]
        BY <1>1
      <4>2. new[f] = ExpanderView(expander'[f], status'[f])
        BY <1>2, <2>1
      <4>3. old[f] = ExpanderView(expander[f], status[f])
        BY <2>1 DEF KeyedBlocks
      <4> QED BY <4>1, <4>2, <4>3
    <3> QED BY <3>1, <3>2
  <2>3. new = [f \in Expander |-> new[f]] /\ old = [f \in Expander |-> old[f]]
    BY <1>2, <2>1 DEF KeyedBlocks
  <2>4. new = [old EXCEPT ![e] = ExpanderView(m, s)]
    BY <2>2, <2>3
  <2> QED BY <2>1, <2>4
<1> QED BY <1>3 DEF KeyView

LEMMA NextImplements ==
  IInv /\ [Next]_vars => [Promise!ANext]_(Promise!avars)
<1> SUFFICES ASSUME IInv, [Next]_vars PROVE [Promise!ANext]_(Promise!avars)
  OBVIOUS
<1> USE DEF Promise!ANext
<1>0. Promise!NoAnswer = NoAnswer /\ Promise!NoKey = << >>
  BY DEF Promise!NoAnswer, NoAnswer, Promise!NoKey
<1>1. ASSUME NEW salt \in Salts, NEW ikm \in Ikms, DoExtract(salt, ikm)
      PROVE  Promise!ANext
  <2>1. KeyView = Promise!NoKey /\ Promise!ASetKey(Extracted(salt, ikm))
    BY <1>0, <1>1, SetsKey DEF DoExtract, SetPrk, KeyView
  <2>2. Extracted(salt, ikm) = Promise!Prk(salt, ikm)
    BY ExtractedIsPrk
  <2>3. Promise!ASetKey(Promise!Prk(salt, ikm))
    BY <2>1, <2>2
  <2> QED BY <2>1, <2>3 DEF KeyView
<1>2. ASSUME NEW bytes \in Prks, DoFromPrk(bytes) PROVE Promise!ANext
  <2>1. KeyView = Promise!NoKey /\ Promise!ASetKey(bytes)
    BY <1>0, <1>2, SetsKey DEF DoFromPrk, SetPrk, KeyView
  <2> QED BY <2>1 DEF KeyView
<1>3. ASSUME NEW s \in {"live", "dropped"}, WipePrk(s) PROVE Promise!ANext
  <2>1. KeyView # Promise!NoKey
    BY <1>0, <1>3, PrkIsSome DEF WipePrk, KeyView, IInv
  <2>2. CASE s = "live"
    <3>1. Promise!ASetKey(Zeros(DIGEST_LEN))
      BY <1>3, <2>2, SetsKey DEF WipePrk
    <3>2. Promise!ASetKey(Promise!Zeros(DIGEST_LEN))
      BY <3>1, SameTag
    <3> QED BY <2>1, <3>2 DEF KeyView
  <2>3. CASE s # "live"
    <3>1. Promise!ASetKey(Promise!NoKey)
      BY <1>3, <2>3, SetsKey DEF WipePrk
    <3> QED BY <2>1, <3>1 DEF KeyView
  <2> QED BY <2>2, <2>3
<1>4. ASSUME NEW info \in Infos, NEW n \in Lengths, DoOneShot(info, n)
      PROVE  Promise!ANext
  <2>1. PICK B : ByteSet(B) /\ prk \in [1 .. DIGEST_LEN -> B]
    BY DEF IInv, IsPrk
  <2>2. KeyView = prk /\ KeyView # Promise!NoKey
    BY <1>0, <1>4, PrkIsSome DEF DoOneShot, KeyView, IInv
  <2>3. answer' = Promise!Answer(F!K0(prk), info, n)
    BY <1>4, <2>1, OneShotAnswers DEF DoOneShot
  <2>4. answer' = Promise!Answer(Promise!K0(KeyView), info, n)
    <3>1. Promise!K0(KeyView) = F!K0(prk)
      BY <2>2, SameTag
    <3> QED BY <2>3, <3>1
  <2>5. KeyView' = KeyView /\ KeyedBlocks' = KeyedBlocks
    BY <1>4 DEF DoOneShot, KeyView, KeyedBlocks, ExpanderView, KeyBlockOf
  <2>6. Promise!AExpand(Promise!K0(KeyView), info, n)
    BY <2>4, <2>5 DEF Promise!AExpand, KeyView, KeyedBlocks, ExpanderView
  <2> QED BY <2>2, <2>6 DEF KeyView
<1>5. ASSUME NEW e \in Expander, DoExpander(e) PROVE Promise!ANext
  <2> DEFINE m == WithKey(prk)
  <2>1. /\ prkStatus = "live" /\ status[e] # "live"
        /\ expander' = [expander EXCEPT ![e] = m]
        /\ status' = [status EXCEPT ![e] = "live"]
        /\ answer' = NoAnswer /\ UNCHANGED << prk, prkStatus >>
    BY <1>5 DEF DoExpander
  <2>2. KeyBlockOf(m) = F!K0(prk)
    <3>1. PICK B : ByteSet(B) /\ prk \in [1 .. DIGEST_LEN -> B]
      BY DEF IInv, IsPrk
    <3>2. prk \in Seq(B)
      BY <3>1, Sizes, FunctionIsSequence
    <3>3. Keyed(Ivs, "H0", m, F!K0(prk), << >>)
      BY <3>1, <3>2, KeyedByKey
    <3> HIDE DEF m
    <3> QED BY <3>3, KeyedBlock
  <2> HIDE DEF m
  <2>3. KeyView = prk /\ KeyView # Promise!NoKey
    BY <1>0, <2>1, PrkIsSome DEF KeyView, IInv
  <2>4. KeyedBlocks[e] = Promise!NoKey
    BY <1>0, <2>1 DEF KeyedBlocks, ExpanderView
  <2>5. /\ KeyView' = KeyView
        /\ KeyedBlocks' = [KeyedBlocks EXCEPT ![e] = ExpanderView(m, "live")]
    BY <2>1, SetsExpander
  <2>6. ExpanderView(m, "live") = Promise!K0(KeyView)
    BY <2>2, <2>3, SameTag DEF ExpanderView
  <2>7. /\ KeyedBlocks' = [KeyedBlocks EXCEPT ![e] = Promise!K0(KeyView)]
        /\ answer' = Promise!NoAnswer
    BY <1>0, <2>1, <2>5, <2>6
  <2>8. Promise!APrepare(e, Promise!K0(KeyView))
    BY <2>5, <2>7 DEF Promise!APrepare, KeyView, KeyedBlocks, ExpanderView
  <2> QED BY <2>3, <2>4, <2>8 DEF KeyView, KeyedBlocks, ExpanderView
<1>6. ASSUME NEW e \in Expander, NEW info \in Infos, NEW n \in Lengths,
             DoPrepared(e, info, n)
      PROVE  Promise!ANext
  <2> DEFINE m == Prepared(expander[e], info, n).mac
  <2>1. /\ status[e] = "live" /\ expander' = [expander EXCEPT ![e] = m]
        /\ status' = status /\ UNCHANGED << prk, prkStatus >>
    BY <1>6 DEF DoPrepared
  <2> HIDE DEF m
  <2>2. status' = [status EXCEPT ![e] = "live"] /\ expander'[e] = m
    BY <2>1 DEF IInv
  <2>3. PICK k0, old, new :
           /\ Keyed(Ivs, "H0", expander[e], k0, old) /\ Keyed(Ivs, "H0", expander'[e], k0, new)
           /\ answer' = Promise!Answer(k0, info, n)
    BY <1>6, PreparedStep
  <2>4. KeyBlockOf(m) = k0 /\ k0 # << >>
    <3>1. Keyed(Ivs, "H0", m, k0, new)
      BY <2>2, <2>3
    <3> QED BY <3>1, KeyedBlock
  <2>5. KeyBlockOf(expander[e]) = k0
    <3>1. PICK v : v = expander[e]
      OBVIOUS
    <3>2. Keyed(Ivs, "H0", v, k0, old)
      BY <2>3, <3>1
    <3>3. KeyBlockOf(v) = k0
      BY <3>2, KeyedBlock
    <3> QED BY <3>1, <3>3
  <2>6. KeyedBlocks[e] = k0 /\ ExpanderView(m, "live") = k0
    BY <2>1, <2>4, <2>5 DEF KeyedBlocks, ExpanderView
  <2>7. /\ KeyView' = KeyView
        /\ KeyedBlocks' = [KeyedBlocks EXCEPT ![e] = ExpanderView(m, "live")]
    <3>1. /\ expander' = [expander EXCEPT ![e] = m]
          /\ status' = [status EXCEPT ![e] = "live"] /\ UNCHANGED << prk, prkStatus >>
      BY <2>1, <2>2
    <3> QED BY <3>1, SetsExpander
  <2>8. KeyedBlocks' = KeyedBlocks
    BY <2>6, <2>7 DEF KeyedBlocks
  <2>9. Promise!AExpand(KeyedBlocks[e], info, n)
    BY <2>3, <2>6, <2>7, <2>8 DEF Promise!AExpand, KeyView, KeyedBlocks, ExpanderView
  <2>10. KeyedBlocks[e] # Promise!NoKey
    BY <1>0, <2>4, <2>6
  <2> QED BY <2>9, <2>10 DEF KeyedBlocks, ExpanderView
<1>7. ASSUME NEW e \in Expander, DoDropExpander(e) PROVE Promise!ANext
  <2> DEFINE m == MacDrop(expander[e])
  <2>1. /\ status[e] = "live" /\ expander' = [expander EXCEPT ![e] = m]
        /\ status' = [status EXCEPT ![e] = "dropped"]
        /\ answer' = NoAnswer /\ UNCHANGED << prk, prkStatus >>
    BY <1>7 DEF DoDropExpander
  <2> HIDE DEF m
  <2>2. PICK k0, old : Keyed(Ivs, "H0", expander[e], k0, old)
    BY <2>1 DEF IInv, ExpanderSound
  <2>3. KeyBlockOf(expander[e]) = k0 /\ k0 # << >>
    <3>1. PICK v : v = expander[e]
      OBVIOUS
    <3>2. Keyed(Ivs, "H0", v, k0, old)
      BY <2>2, <3>1
    <3>3. KeyBlockOf(v) = k0 /\ k0 # << >>
      BY <3>2, KeyedBlock
    <3> QED BY <3>1, <3>3
  <2>4. KeyedBlocks[e] # Promise!NoKey
    BY <1>0, <2>1, <2>3 DEF KeyedBlocks, ExpanderView
  <2>5. /\ KeyView' = KeyView
        /\ KeyedBlocks' = [KeyedBlocks EXCEPT ![e] = ExpanderView(m, "dropped")]
    BY <2>1, SetsExpander
  <2>6. /\ KeyedBlocks' = [KeyedBlocks EXCEPT ![e] = Promise!NoKey]
        /\ answer' = Promise!NoAnswer
    BY <1>0, <2>1, <2>5 DEF ExpanderView
  <2>7. Promise!APrepare(e, Promise!NoKey)
    BY <2>5, <2>6 DEF Promise!APrepare, KeyView, KeyedBlocks, ExpanderView
  <2> QED BY <2>4, <2>7 DEF KeyedBlocks, ExpanderView
<1>8. CASE UNCHANGED vars
  <2>1. KeyView' = KeyView /\ KeyedBlocks' = KeyedBlocks /\ answer' = answer
    BY <1>8 DEF vars, KeyView, KeyedBlocks, ExpanderView, KeyBlockOf
  <2> QED BY <2>1 DEF Promise!avars, KeyView, KeyedBlocks, ExpanderView
<1> QED BY <1>1, <1>2, <1>3, <1>4, <1>5, <1>6, <1>7, <1>8 DEF Next

\* The derivation objects of hkdf.rs keep the promise of RFC 5869: whatever
\* labels, lengths and refusals came before, one-shot and prepared expansion
\* answer with the OKM of the PRK, the label and the length.
THEOREM ImplementsPromise == Spec => ImplementsRfc5869
<1>1. Init => Promise!AInit
  BY InitImplements
<1>2. IInv /\ [Next]_vars => [Promise!ANext]_(Promise!avars)
  BY NextImplements
<1> QED BY <1>1, <1>2, Inductive, PTL DEF Spec, ImplementsRfc5869, Promise!ASpec
=============================================================================
