--------------------------- MODULE CompressionProofs ---------------------------
(***************************************************************************)
(* Theorems about Compression: for every message, whichever code           *)
(* compresses which of its blocks and however many in one call, the        *)
(* variables, the schedule and the chaining state of the code are those of *)
(* FIPS 180-4.                                                             *)
(***************************************************************************)
EXTENDS Compression, WellFoundedInduction, TLAPS

(***************************************************************************)
(* Addition modulo 2^w.  The code, the instructions and the standard add   *)
(* the words of a round in three orders; that these are one sum rests on   *)
(* the addition of bit sets being commutative and associative.             *)
(***************************************************************************)
\* What holds at 0 and passes from each number to the next holds up to n.
LEMMA InductionUpTo ==
  ASSUME NEW n \in Nat, NEW T, 0 \in T, \A i \in 1 .. n : i - 1 \in T => i \in T
  PROVE  n \in T
<1> DEFINE bad == (0 .. n) \ T
<1> SUFFICES ASSUME bad # {} PROVE FALSE
  OBVIOUS
<1>0. IsWellFoundedOn(OpToRel(<, Nat), Nat)
  BY NatLessThanWellFounded
<1>1. bad \in SUBSET Nat
  OBVIOUS
<1>2. PICK x \in bad : \A y \in bad : ~ (<< y, x >> \in OpToRel(<, Nat))
  BY <1>0, <1>1, WFMin
<1>3. \A u, v \in Nat : u < v => << u, v >> \in OpToRel(<, Nat)
  BY DEF OpToRel
<1>4. x \in 1 .. n /\ x - 1 \in 0 .. n /\ x - 1 < x
  OBVIOUS
<1>5. x - 1 \in T
  <2> SUFFICES ASSUME x - 1 \in bad PROVE FALSE
    BY <1>4
  <2>1. << x - 1, x >> \in OpToRel(<, Nat)
    BY <1>1, <1>3, <1>4
  <2> QED BY <1>2, <2>1
<1> QED BY <1>4, <1>5

\* What Carries is defined to be.
IsCarries(c, w, x, y) ==
  c = [i \in 0 .. w |->
         IF i = 0 THEN FALSE
         ELSE IF (i - 1 \in x) = (i - 1 \in y) THEN i - 1 \in x
         ELSE c[i - 1]]

\* A carry into bit i was made at some bit j and passed on since.
Made(x, y, i) ==
  \E j \in 0 .. i - 1 : /\ j \in x /\ j \in y
                        /\ \A k \in j + 1 .. i - 1 : (k \in x) # (k \in y)

\* How a carry arises bit by bit.
LEMMA MadeStep ==
  ASSUME NEW x, NEW y, NEW i \in Nat \ {0}
  PROVE  /\ (i - 1 \in x) = (i - 1 \in y) => (Made(x, y, i) <=> i - 1 \in x)
         /\ (i - 1 \in x) # (i - 1 \in y) => (Made(x, y, i) <=> Made(x, y, i - 1))
<1>1. ASSUME i - 1 \in x /\ i - 1 \in y PROVE Made(x, y, i)
  BY <1>1 DEF Made
<1>2. ASSUME (i - 1 \in x) # (i - 1 \in y), Made(x, y, i - 1) PROVE Made(x, y, i)
  <2>1. PICK j \in 0 .. i - 1 - 1 :
          /\ j \in x /\ j \in y
          /\ \A k \in j + 1 .. i - 1 - 1 : (k \in x) # (k \in y)
    BY <1>2 DEF Made
  <2>2. \A k \in j + 1 .. i - 1 : k = i - 1 \/ k \in j + 1 .. i - 1 - 1
    BY <2>1
  <2>3. j \in 0 .. i - 1
    BY <2>1
  <2> QED BY <1>2, <2>1, <2>2, <2>3 DEF Made
<1>3. ASSUME Made(x, y, i), ~(i - 1 \in x /\ i - 1 \in y)
      PROVE  ((i - 1 \in x) # (i - 1 \in y)) /\ Made(x, y, i - 1)
  <2>1. PICK j \in 0 .. i - 1 :
          /\ j \in x /\ j \in y
          /\ \A k \in j + 1 .. i - 1 : (k \in x) # (k \in y)
    BY <1>3 DEF Made
  <2>2. j # i - 1
    BY <1>3, <2>1
  <2>3. j \in 0 .. i - 1 - 1 /\ i - 1 \in j + 1 .. i - 1
        /\ \A k \in j + 1 .. i - 1 - 1 : k \in j + 1 .. i - 1
    BY <2>1, <2>2
  <2> QED BY <2>1, <2>3 DEF Made
<1> QED BY <1>1, <1>2, <1>3

\* The recursion that defines Carries has a solution: the carries made.
LEMMA CarriesExist ==
  ASSUME NEW w \in Nat, NEW x, NEW y
  PROVE  IsCarries(Carries(w, x, y), w, x, y)
<1> DEFINE f == [i \in 0 .. w |-> Made(x, y, i)]
<1>1. ASSUME NEW i \in 0 .. w
      PROVE  Made(x, y, i) = IF i = 0 THEN FALSE
                    ELSE IF (i - 1 \in x) = (i - 1 \in y) THEN i - 1 \in x
                    ELSE f[i - 1]
  <2>0. Made(x, y, i) \in BOOLEAN
    BY DEF Made
  <2>1. CASE i = 0
    <3>1. Made(x, y, i) = FALSE
      BY <2>1 DEF Made
    <3> QED BY <2>1, <3>1
  <2>2. CASE i # 0
    <3>1. i \in Nat \ {0} /\ i - 1 \in 0 .. w
      BY <2>2
    <3>2. f[i - 1] = Made(x, y, i - 1)
      BY <3>1
    <3>0. Made(x, y, i - 1) \in BOOLEAN
      BY DEF Made
    <3> HIDE DEF f
    <3>4. CASE (i - 1 \in x) = (i - 1 \in y)
      <4>1. Made(x, y, i) = (i - 1 \in x)
        BY <3>1, <3>4, MadeStep, <2>0
      <4> QED BY <2>2, <3>4, <4>1
    <3>5. CASE (i - 1 \in x) # (i - 1 \in y)
      <4>1. Made(x, y, i) = Made(x, y, i - 1)
        BY <3>0, <3>1, <3>5, MadeStep, <2>0
      <4> QED BY <2>2, <3>2, <3>5, <4>1
    <3> QED BY <3>4, <3>5
  <2> QED BY <2>1, <2>2
<1>2. IsCarries(f, w, x, y)
  BY <1>1 DEF IsCarries
<1>3. Carries(w, x, y) = CHOOSE c : IsCarries(c, w, x, y)
  BY DEF Carries, IsCarries
<1> QED BY <1>2, <1>3

\* Made is a truth value.
LEMMA MadeIsBoolean ==
  ASSUME NEW x, NEW y, NEW i
  PROVE  Made(x, y, i) \in BOOLEAN
  BY DEF Made

\* Every carry of Carries was made below its bit and passed on since.
LEMMA CarriesAreMade ==
  ASSUME NEW w \in Nat, NEW x, NEW y, NEW i \in 0 .. w
  PROVE  Carries(w, x, y)[i] = Made(x, y, i)
<1> DEFINE c == Carries(w, x, y)
           S == {j \in 0 .. w : c[j] = Made(x, y, j)}
<1>1. IsCarries(c, w, x, y)
  BY CarriesExist
<1> HIDE DEF c
<1>2. 0 \in S
  <2>1. c[0] = FALSE
    BY <1>1 DEF IsCarries
  <2>2. Made(x, y, 0) = FALSE
    BY DEF Made
  <2>3. c[0] = Made(x, y, 0)
    BY <2>1, <2>2
  <2>4. 0 \in 0 .. w
    OBVIOUS
  <2> QED BY <2>3, <2>4
<1>3. ASSUME NEW j \in 1 .. i, j - 1 \in S PROVE j \in S
  <2>1. j \in 0 .. w /\ j # 0 /\ j \in Nat \ {0} /\ c[j - 1] = Made(x, y, j - 1)
    BY <1>3
  <2>2. c[j] = IF (j - 1 \in x) = (j - 1 \in y) THEN j - 1 \in x ELSE c[j - 1]
    BY <1>1, <2>1 DEF IsCarries
  <2>3. CASE (j - 1 \in x) = (j - 1 \in y)
    <3>1. Made(x, y, j) = (j - 1 \in x)
      BY <2>1, <2>3, MadeStep, MadeIsBoolean
    <3> QED BY <2>1, <2>2, <2>3, <3>1
  <2>4. CASE (j - 1 \in x) # (j - 1 \in y)
    <3>1. Made(x, y, j) = Made(x, y, j - 1)
      BY <2>1, <2>4, MadeStep, MadeIsBoolean
    <3> QED BY <2>1, <2>2, <2>4, <3>1
  <2> QED BY <2>3, <2>4
<1>4. i \in S
  <2> HIDE DEF S
  <2> QED BY <1>2, <1>3, InductionUpTo
<1> QED BY <1>4 DEF c

\* A bit of a sum, without the recursion.
LEMMA AddBits ==
  ASSUME NEW w \in Nat, NEW x, NEW y
  PROVE  Add(w, x, y) =
           {i \in 0 .. w - 1 : ((i \in x) # (i \in y)) # Made(x, y, i)}
<1>1. \A i \in 0 .. w - 1 : Carries(w, x, y)[i] = Made(x, y, i)
  BY CarriesAreMade
<1> QED BY <1>1 DEF Add

\* wrapping_add takes its operands in either order.
LEMMA AddCommutes ==
  ASSUME NEW w \in Nat, NEW x, NEW y
  PROVE  Add(w, x, y) = Add(w, y, x)
<1>1. ASSUME NEW i PROVE Made(x, y, i) = Made(y, x, i)
  BY DEF Made
<1>2. ASSUME NEW i \in 0 .. w - 1
      PROVE  (((i \in x) # (i \in y)) # Made(x, y, i)) = (((i \in y) # (i \in x)) # Made(y, x, i))
  BY <1>1
<1>3. {i \in 0 .. w - 1 : ((i \in x) # (i \in y)) # Made(x, y, i)}
        = {i \in 0 .. w - 1 : ((i \in y) # (i \in x)) # Made(y, x, i)}
  BY <1>2
<1>4. /\ Add(w, x, y) = {i \in 0 .. w - 1 : ((i \in x) # (i \in y)) # Made(x, y, i)}
      /\ Add(w, y, x) = {i \in 0 .. w - 1 : ((i \in y) # (i \in x)) # Made(y, x, i)}
  BY AddBits
<1> QED BY <1>3, <1>4

\* Two uses of wrapping_add associate: bit by bit the two sums are equal,
\* and each order makes as many carries as the other.
LEMMA AddAssociates ==
  ASSUME NEW w \in Nat, NEW x, NEW y, NEW z
  PROVE  Add(w, Add(w, x, y), z) = Add(w, x, Add(w, y, z))
<1> DEFINE p == Add(w, x, y)
           q == Add(w, y, z)
           same(i) == /\ (Made(x, y, i) # Made(p, z, i)) = (Made(y, z, i) # Made(x, q, i))
                      /\ (Made(x, y, i) /\ Made(p, z, i)) = (Made(y, z, i) /\ Made(x, q, i))
           S == {i \in 0 .. w : same(i)}
<1>1. \A i \in 0 .. w - 1 :
        /\ (i \in p) = (((i \in x) # (i \in y)) # Made(x, y, i))
        /\ (i \in q) = (((i \in y) # (i \in z)) # Made(y, z, i))
  BY AddBits
<1> HIDE DEF p, q
<1>2. \A u, v : /\ ~Made(u, v, 0)
                /\ \A i : Made(u, v, i) \in BOOLEAN
  BY DEF Made
<1>3. \A u, v : \A i \in Nat \ {0} :
        Made(u, v, i) = IF (i - 1 \in u) = (i - 1 \in v) THEN i - 1 \in u ELSE Made(u, v, i - 1)
  BY MadeStep, MadeIsBoolean
<1>4. 0 \in S
  BY <1>2
<1>5. ASSUME NEW j \in 0 .. w - 1, same(j)
      PROVE  /\ (((j \in p) # (j \in z)) # Made(p, z, j))
                  = (((j \in x) # (j \in q)) # Made(x, q, j))
             /\ same(j + 1)
  <2>1. j + 1 \in Nat \ {0} /\ j + 1 - 1 = j
    OBVIOUS
  <2>2. \A u, v : Made(u, v, j + 1) = IF (j \in u) = (j \in v) THEN j \in u ELSE Made(u, v, j)
    BY <1>3, <2>1
  <2>3. (j \in p) = (((j \in x) # (j \in y)) # Made(x, y, j))
        /\ (j \in q) = (((j \in y) # (j \in z)) # Made(y, z, j))
    BY <1>1
  <2> DEFINE a == j \in x   b == j \in y   c == j \in z   r == j \in p   s == j \in q
             m1 == Made(x, y, j)   n1 == Made(x, y, j + 1)
             m2 == Made(p, z, j)   n2 == Made(p, z, j + 1)
             m3 == Made(y, z, j)   n3 == Made(y, z, j + 1)
             m4 == Made(x, q, j)   n4 == Made(x, q, j + 1)
  <2>4. /\ a \in BOOLEAN /\ b \in BOOLEAN /\ c \in BOOLEAN /\ r \in BOOLEAN /\ s \in BOOLEAN
        /\ m1 \in BOOLEAN /\ m2 \in BOOLEAN /\ m3 \in BOOLEAN /\ m4 \in BOOLEAN
        /\ n1 \in BOOLEAN /\ n2 \in BOOLEAN /\ n3 \in BOOLEAN /\ n4 \in BOOLEAN
    BY <1>2
  <2>5. (m1 # m2) = (m3 # m4) /\ (m1 /\ m2) = (m3 /\ m4)
    BY <1>5
  <2>6. r = ((a # b) # m1) /\ s = ((b # c) # m3)
    BY <2>3
  <2>7. /\ n1 = IF a = b THEN a ELSE m1
        /\ n2 = IF r = c THEN r ELSE m2
        /\ n3 = IF b = c THEN b ELSE m3
        /\ n4 = IF a = s THEN a ELSE m4
    BY <2>2
  <2>8. /\ ((r # c) # m2) = ((a # s) # m4)
        /\ (n1 # n2) = (n3 # n4)
        /\ (n1 /\ n2) = (n3 /\ n4)
    <3> HIDE DEF a, b, c, r, s, m1, m2, m3, m4, n1, n2, n3, n4
    <3> QED BY <2>4, <2>5, <2>6, <2>7
  <2> QED BY <2>8
<1>6. ASSUME NEW i \in 0 .. w PROVE i \in S
  <2>1. ASSUME NEW j \in 1 .. i, j - 1 \in S PROVE j \in S
    <3>1. j - 1 \in 0 .. w - 1 /\ j - 1 + 1 = j /\ j \in 0 .. w
      BY <2>1
    <3> QED BY <1>5, <2>1, <3>1
  <2> HIDE DEF S
  <2> QED BY <1>4, <2>1, InductionUpTo
<1>7. \A i \in 0 .. w - 1 :
        (((i \in p) # (i \in z)) # Made(p, z, i)) = (((i \in x) # (i \in q)) # Made(x, q, i))
  <2>1. \A i \in 0 .. w - 1 : i \in 0 .. w
    OBVIOUS
  <2> QED BY <1>5, <1>6, <2>1
<1>8. {i \in 0 .. w - 1 : ((i \in p) # (i \in z)) # Made(p, z, i)}
        = {i \in 0 .. w - 1 : ((i \in x) # (i \in q)) # Made(x, q, i)}
  BY <1>7
<1>9. /\ Add(w, p, z) = {i \in 0 .. w - 1 : ((i \in p) # (i \in z)) # Made(p, z, i)}
      /\ Add(w, x, q) = {i \in 0 .. w - 1 : ((i \in x) # (i \in q)) # Made(x, q, i)}
  BY AddBits
<1>10. Add(w, p, z) = Add(w, x, q)
  BY <1>8, <1>9
<1> QED BY <1>10 DEF p, q

(***************************************************************************)
(* One round: the standard's eight moving variables, the instruction's and *)
(* the portable code's fixed ones.                                         *)
(***************************************************************************)
\* The words of every width.
Bits == SUBSET Nat

\* A sum is a word.
LEMMA AddIsBits ==
  ASSUME NEW w \in Nat, NEW x, NEW y
  PROVE  Add(w, x, y) \in Bits
  BY DEF Add, Bits

\* Four words have the same sum in the order of the standard and of the code.
LEMMA SumReversed ==
  ASSUME NEW fn, fn.w \in Nat, NEW a, NEW b, NEW c, NEW d
  PROVE  Sum(fn, a, b, c, d) = Sum(fn, d, c, b, a)
<1> DEFINE w == fn.w
<1>1. Add(w, Add(w, Add(w, a, b), c), d) = Add(w, d, Add(w, c, Add(w, b, a)))
  BY AddCommutes
<1>2. @ = Add(w, Add(w, d, c), Add(w, b, a))
  BY AddAssociates
<1>3. @ = Add(w, Add(w, Add(w, d, c), b), a)
  BY AddAssociates
<1> QED BY <1>1, <1>2, <1>3 DEF Sum

\* The variables of FIPS 180-4 after a round with constant k and word w.
FipsVars(fn, v, k, w) ==
  LET t1 == T1(fn, v[5], v[6], v[7], v[8], k, w)
  IN  << Add(fn.w, t1, T2(fn, v[1], v[2], v[3])), v[1], v[2], v[3],
         Add(fn.w, v[4], t1), v[5], v[6], v[7] >>

\* A round of sha256rnds2, given the sum of constant and word, is one of
\* FIPS 180-4.
LEMMA NiRoundIsFips ==
  ASSUME NEW v, NEW k, NEW w
  PROVE  NiRound(v, Add(32, w, k)) = FipsVars(SHA256, v, k, w)
<1> DEFINE h  == v[8]
           s1 == BigSigma(SHA256, SHA256.Sigma1, v[5])
           ch == Ch(SHA256, v[5], v[6], v[7])
           s0 == BigSigma(SHA256, SHA256.Sigma0, v[1])
           mj == Maj(v[1], v[2], v[3])
           t  == Add(32, Add(32, Add(32, ch, s1), Add(32, w, k)), h)
           t1 == Add(32, Add(32, Add(32, Add(32, h, s1), ch), k), w)
<1>1. SHA256.w = 32
  BY DEF SHA256
<1>2. /\ NiRound(v, Add(32, w, k))
           = << Add(32, Add(32, t, mj), s0), v[1], v[2], v[3], Add(32, t, v[4]),
                v[5], v[6], v[7] >>
      /\ FipsVars(SHA256, v, k, w)
           = << Add(32, t1, Add(32, s0, mj)), v[1], v[2], v[3], Add(32, v[4], t1),
                v[5], v[6], v[7] >>
  BY <1>1 DEF NiRound, FipsVars, T1, T2, Sum
<1> HIDE DEF s1, ch, s0, mj, h
<1>3. t1 = t
  <2>1. t1 = Add(32, Add(32, Add(32, h, s1), ch), Add(32, k, w))
    BY AddAssociates
  <2>2. @ = Add(32, Add(32, h, Add(32, ch, s1)), Add(32, w, k))
    BY AddAssociates, AddCommutes
  <2>3. @ = Add(32, h, Add(32, Add(32, ch, s1), Add(32, w, k)))
    BY AddAssociates
  <2>4. @ = t
    BY AddCommutes
  <2> QED BY <2>1, <2>2, <2>3, <2>4
<1> HIDE DEF t, t1
<1>4. Add(32, Add(32, t, mj), s0) = Add(32, t, Add(32, s0, mj))
  BY AddAssociates, AddCommutes
<1>5. Add(32, t, v[4]) = Add(32, v[4], t)
  BY AddCommutes
<1> QED BY <1>2, <1>3, <1>4, <1>5

\* The names of round! permute the eight variables, and from one round to the
\* next each name moves to the place of the one before it.
LEMMA NamedTurns ==
  ASSUME NEW i \in Nat
  PROVE  /\ \A r \in 0 .. 7 : Named(i, r) \in 0 .. 7 /\ Named(i % 8, r) = Named(i, r)
         /\ \A r, q \in 0 .. 7 : Named(i, r) = Named(i, q) => r = q
         /\ \A r \in 1 .. 7 : Named(i + 1, r) = Named(i, r - 1)
         /\ Named(i + 1, 0) = Named(i, 7)
  BY DEF Named

\* round! writes two variables only, and read under the names of the next
\* round the eight are those of FIPS 180-4.
LEMMA RoundIsFips ==
  ASSUME NEW fn, fn.w \in Nat, NEW i \in Nat, NEW v \in [0 .. 7 -> Bits],
         NEW f, \A r \in 0 .. 7 : f[r + 1] = v[Named(i, r)], NEW k, NEW w
  PROVE  /\ Round(fn, v, i % 8, k, w) \in [0 .. 7 -> Bits]
         /\ \A r \in 0 .. 7 :
              FipsVars(fn, f, k, w)[r + 1] = Round(fn, v, i % 8, k, w)[Named(i + 1, r)]
<1> DEFINE n(r) == v[Named(i, r)]
           t1 == T1(fn, n(4), n(5), n(6), n(7), k, w)
           s0 == BigSigma(fn, fn.Sigma0, n(0))
           mj == Maj(n(0), n(1), n(2))
           d  == Add(fn.w, n(3), t1)
           h  == Add(fn.w, Add(fn.w, t1, s0), mj)
           u  == [v EXCEPT ![Named(i, 3)] = d, ![Named(i, 7)] = h]
<1>1. Round(fn, v, i % 8, k, w) = u
  <2>1. \A r \in 0 .. 7 : Named(i % 8, r) = Named(i, r)
    BY NamedTurns
  <2>2. /\ Named(i % 8, 0) = Named(i, 0) /\ Named(i % 8, 1) = Named(i, 1)
        /\ Named(i % 8, 2) = Named(i, 2) /\ Named(i % 8, 3) = Named(i, 3)
        /\ Named(i % 8, 4) = Named(i, 4) /\ Named(i % 8, 5) = Named(i, 5)
        /\ Named(i % 8, 6) = Named(i, 6) /\ Named(i % 8, 7) = Named(i, 7)
    BY <2>1
  <2>3. Named(i, 3) # Named(i, 7) /\ Named(i, 3) \in 0 .. 7 /\ Named(i, 7) \in 0 .. 7
    BY NamedTurns
  <2> QED BY <2>2, <2>3 DEF Round
<1>2. /\ f[1] = n(0) /\ f[2] = n(1) /\ f[3] = n(2) /\ f[4] = n(3)
      /\ f[5] = n(4) /\ f[6] = n(5) /\ f[7] = n(6) /\ f[8] = n(7)
  <2>1. \A r \in 0 .. 7 : f[r + 1] = v[Named(i, r)]
    OBVIOUS
  <2>2. /\ f[0 + 1] = n(0) /\ f[1 + 1] = n(1) /\ f[2 + 1] = n(2) /\ f[3 + 1] = n(3)
        /\ f[4 + 1] = n(4) /\ f[5 + 1] = n(5) /\ f[6 + 1] = n(6) /\ f[7 + 1] = n(7)
    BY <2>1
  <2> QED BY <2>2
<1>3. FipsVars(fn, f, k, w) = << h, n(0), n(1), n(2), d, n(4), n(5), n(6) >>
  <2>1. FipsVars(fn, f, k, w)
          = << Add(fn.w, t1, Add(fn.w, s0, mj)), n(0), n(1), n(2), d, n(4), n(5), n(6) >>
    BY <1>2 DEF FipsVars, T2
  <2> HIDE DEF t1, s0, mj
  <2>2. Add(fn.w, t1, Add(fn.w, s0, mj)) = h
    BY AddAssociates
  <2> HIDE DEF h, d, n
  <2> QED BY <2>1, <2>2
<1>4. d \in Bits /\ h \in Bits
  BY AddIsBits
<1> HIDE DEF d, h
<1>5. u \in [0 .. 7 -> Bits]
  BY <1>4
<1>6. \A r \in 0 .. 7 : << h, n(0), n(1), n(2), d, n(4), n(5), n(6) >>[r + 1] = u[Named(i + 1, r)]
  <2>1. u[Named(i + 1, 0)] = h
    BY NamedTurns
  <2>2. u[Named(i + 1, 4)] = d
    <3>1. Named(i + 1, 4) = Named(i, 3) /\ Named(i, 3) # Named(i, 7)
      BY NamedTurns
    <3> QED BY <3>1, NamedTurns
  <2>3. ASSUME NEW r \in 1 .. 7, r # 4 PROVE u[Named(i + 1, r)] = n(r - 1)
    <3>1. Named(i + 1, r) = Named(i, r - 1) /\ r - 1 \in 0 .. 7 /\ r - 1 # 3 /\ r - 1 # 7
      BY <2>3, NamedTurns
    <3>2. Named(i, r - 1) # Named(i, 3) /\ Named(i, r - 1) # Named(i, 7) /\ Named(i, r - 1) \in 0 .. 7
      BY <3>1, NamedTurns
    <3> QED BY <3>1, <3>2
  <2>4. /\ u[Named(i + 1, 1)] = n(0) /\ u[Named(i + 1, 2)] = n(1) /\ u[Named(i + 1, 3)] = n(2)
        /\ u[Named(i + 1, 5)] = n(4) /\ u[Named(i + 1, 6)] = n(5) /\ u[Named(i + 1, 7)] = n(6)
    <3> HIDE DEF u, n
    <3>1. /\ u[Named(i + 1, 1)] = n(1 - 1) /\ u[Named(i + 1, 2)] = n(2 - 1) /\ u[Named(i + 1, 3)] = n(3 - 1)
          /\ u[Named(i + 1, 5)] = n(5 - 1) /\ u[Named(i + 1, 6)] = n(6 - 1) /\ u[Named(i + 1, 7)] = n(7 - 1)
      BY <2>3
    <3> QED BY <3>1
  <2> HIDE DEF u, n
  <2> DEFINE g == << h, n(0), n(1), n(2), d, n(4), n(5), n(6) >>
  <2>5. /\ g[1] = u[Named(i + 1, 0)] /\ g[2] = u[Named(i + 1, 1)] /\ g[3] = u[Named(i + 1, 2)]
        /\ g[4] = u[Named(i + 1, 3)] /\ g[5] = u[Named(i + 1, 4)] /\ g[6] = u[Named(i + 1, 5)]
        /\ g[7] = u[Named(i + 1, 6)] /\ g[8] = u[Named(i + 1, 7)]
    BY <2>1, <2>2, <2>4
  <2> HIDE DEF g
  <2>6. ASSUME NEW r \in 0 .. 7 PROVE g[r + 1] = u[Named(i + 1, r)]
    <3>1. \/ r = 0 \/ r = 1 \/ r = 2 \/ r = 3 \/ r = 4 \/ r = 5 \/ r = 6 \/ r = 7
      OBVIOUS
    <3> QED BY <2>5, <3>1
  <2> QED BY <2>6 DEF g
<1> HIDE DEF u, n
<1> QED BY <1>1, <1>3, <1>5, <1>6

(***************************************************************************)
(* The schedule of the portable code, and its rounds.                      *)
(***************************************************************************)
\* The words of the schedule known before round i + 1.
Known(i) == IF i < 16 THEN 16 ELSE i

\* After i rounds the ring w holds the last sixteen words of schedule W.
RingHolds(w, W, i) ==
  /\ w \in [0 .. 15 -> Bits]
  /\ W \in Seq(Bits) /\ Len(W) = Known(i)
  /\ \A t \in Known(i) - 15 .. Known(i) : w[(t - 1) % 16] = W[t]

\* A sum of four is a word.
LEMMA SumIsBits ==
  ASSUME NEW fn, fn.w \in Nat, NEW a, NEW b, NEW c, NEW d
  PROVE  Sum(fn, a, b, c, d) \in Bits
  BY AddIsBits DEF Sum

\* What Append does to a schedule.
LEMMA Appended ==
  ASSUME NEW W \in Seq(Bits), NEW x \in Bits
  PROVE  /\ Append(W, x) \in Seq(Bits)
         /\ Len(Append(W, x)) = Len(W) + 1
         /\ \A t \in 1 .. Len(W) : Append(W, x)[t] = W[t]
         /\ Append(W, x)[Len(W) + 1] = x
  OBVIOUS

\* schedule! writes the word that FIPS 180-4 appends, over the one that is
\* used no more.
LEMMA RingExtends ==
  ASSUME NEW fn, fn.w \in Nat, NEW i \in Nat, i >= 16, NEW w, NEW W, RingHolds(w, W, i)
  PROVE  RingHolds(Extended(fn, w, i), Extend(fn, W, i + 1), i + 1)
<1> DEFINE x == Sum(fn, w[i % 16], SmallSigma(fn, fn.sigma0, w[(i + 1) % 16]),
                        w[(i + 9) % 16], SmallSigma(fn, fn.sigma1, w[(i + 14) % 16]))
           e == [w EXCEPT ![i % 16] = x]
           y == Sum(fn, SmallSigma(fn, fn.sigma1, W[i + 1 - 2]), W[i + 1 - 7],
                        SmallSigma(fn, fn.sigma0, W[i + 1 - 15]), W[i + 1 - 16])
<1>1. /\ w \in [0 .. 15 -> Bits] /\ W \in Seq(Bits) /\ Len(W) = i
      /\ \A t \in i - 15 .. i : w[(t - 1) % 16] = W[t]
      /\ Known(i + 1) = i + 1
  BY DEF RingHolds, Known
<1>2. Extended(fn, w, i) = e
  <2>1. i % 16 \in 0 .. 15
    OBVIOUS
  <2> QED BY <1>1, <2>1 DEF Extended
<1>3. Extend(fn, W, i + 1) = Append(W, y)
  <2>1. ~(i + 1 <= 16)
    OBVIOUS
  <2> QED BY <2>1 DEF Extend
<1>4. /\ w[i % 16] = W[i + 1 - 16]
      /\ w[(i + 1) % 16] = W[i + 1 - 15]
      /\ w[(i + 9) % 16] = W[i + 1 - 7]
      /\ w[(i + 14) % 16] = W[i + 1 - 2]
  <2>1. /\ i + 1 - 16 \in i - 15 .. i /\ (i + 1 - 16 - 1) % 16 = i % 16
        /\ i + 1 - 15 \in i - 15 .. i /\ (i + 1 - 15 - 1) % 16 = (i + 1) % 16
        /\ i + 1 - 7 \in i - 15 .. i /\ (i + 1 - 7 - 1) % 16 = (i + 9) % 16
        /\ i + 1 - 2 \in i - 15 .. i /\ (i + 1 - 2 - 1) % 16 = (i + 14) % 16
    OBVIOUS
  <2>2. \A t \in i - 15 .. i : w[(t - 1) % 16] = W[t]
    BY <1>1
  <2> QED
    <3>1. w[(i + 1 - 16 - 1) % 16] = W[i + 1 - 16]
      BY <2>1, <2>2
    <3>2. w[(i + 1 - 15 - 1) % 16] = W[i + 1 - 15]
      BY <2>1, <2>2
    <3>3. w[(i + 1 - 7 - 1) % 16] = W[i + 1 - 7]
      BY <2>1, <2>2
    <3>4. w[(i + 1 - 2 - 1) % 16] = W[i + 1 - 2]
      BY <2>1, <2>2
    <3> QED BY <2>1, <3>1, <3>2, <3>3, <3>4
<1>5. x = y
  BY <1>4, SumReversed
<1>6. x \in Bits
  BY SumIsBits
<1> HIDE DEF x, y
<1>7. e \in [0 .. 15 -> Bits]
  BY <1>1, <1>6
<1>8. /\ Append(W, y) \in Seq(Bits) /\ Len(Append(W, y)) = i + 1
      /\ \A t \in 1 .. i : Append(W, y)[t] = W[t]
      /\ Append(W, y)[i + 1] = y
  BY <1>1, <1>5, <1>6, Appended
<1>9. ASSUME NEW t \in i + 1 - 15 .. i + 1
      PROVE  e[(t - 1) % 16] = Append(W, y)[t]
  <2>1. CASE t = i + 1
    <3>1. (t - 1) % 16 = i % 16 /\ i % 16 \in 0 .. 15
      BY <2>1
    <3> QED BY <1>1, <1>5, <1>8, <2>1, <3>1
  <2>2. CASE t # i + 1
    <3>1. t \in i - 15 .. i /\ t \in 1 .. i /\ (t - 1) % 16 # i % 16 /\ (t - 1) % 16 \in 0 .. 15
      BY <2>2
    <3> QED BY <1>1, <1>8, <3>1
  <2> QED BY <2>1, <2>2
<1> HIDE DEF e
<1>10. RingHolds(e, Append(W, y), i + 1)
  BY <1>1, <1>7, <1>8, <1>9 DEF RingHolds
<1> QED BY <1>2, <1>3, <1>10

\* The variables after i rounds, under the names they then have.
VarsAgree(v, f, i) ==
  /\ v \in [0 .. 7 -> Bits] /\ f \in [1 .. 8 -> Bits]
  /\ \A r \in 0 .. 7 : f[r + 1] = v[Named(i, r)]

\* The locals of compress().
PortableLocals == [v : [0 .. 7 -> Bits], w : [0 .. 15 -> Bits]]

\* The states of the function of FIPS 180-4 within a block.
RefSet == [chain : [1 .. 8 -> Bits], v : [1 .. 8 -> Bits], W : Seq(Bits)]

\* The variables stay words.
LEMMA FipsVarsType ==
  ASSUME NEW fn, fn.w \in Nat, NEW v \in [1 .. 8 -> Bits], NEW k, NEW w
  PROVE  FipsVars(fn, v, k, w) \in [1 .. 8 -> Bits]
<1> DEFINE t1 == T1(fn, v[5], v[6], v[7], v[8], k, w)
           a == Add(fn.w, t1, T2(fn, v[1], v[2], v[3]))
           e == Add(fn.w, v[4], t1)
<1>1. a \in Bits /\ e \in Bits
  BY AddIsBits
<1> HIDE DEF a, e
<1>2. << a, v[1], v[2], v[3], e, v[5], v[6], v[7] >> \in [1 .. 8 -> Bits]
  <2> DEFINE g == << a, v[1], v[2], v[3], e, v[5], v[6], v[7] >>
  <2>0. v[1] \in Bits /\ v[2] \in Bits /\ v[3] \in Bits /\ v[5] \in Bits /\ v[6] \in Bits /\ v[7] \in Bits
    OBVIOUS
  <2>1. g \in Seq(Bits) /\ Len(g) = 8
    BY <1>1, <2>0
  <2> QED BY <2>1
<1> QED BY <1>2 DEF FipsVars, a, e

\* A round of FIPS 180-4, field by field.
LEMMA FipsRoundIs ==
  ASSUME NEW fn, NEW s \in RefSet, NEW t
  PROVE  FipsRound(fn, s, t) =
           [chain |-> s.chain,
            v     |-> FipsVars(fn, s.v, fn.K[t], Extend(fn, s.W, t)[t]),
            W     |-> Extend(fn, s.W, t)]
<1>1. ASSUME NEW a, NEW b
      PROVE  [s EXCEPT !.v = a, !.W = b] = [chain |-> s.chain, v |-> a, W |-> b]
  <2> DEFINE x == [s EXCEPT !.v = a, !.W = b]
  <2>1. DOMAIN s = {"chain", "v", "W"}
    BY DEF RefSet
  <2>2. x = [n \in {"chain", "v", "W"} |-> x[n]]
    BY <2>1
  <2>3. x.chain = s.chain /\ x.v = a /\ x.W = b
    BY <2>1
  <2> HIDE DEF x
  <2>4. x = [chain |-> s.chain, v |-> a, W |-> b]
    BY <2>2, <2>3
  <2> QED BY <2>4 DEF x
<1>2. FipsRound(fn, s, t)
        = [s EXCEPT !.v = FipsVars(fn, s.v, fn.K[t], Extend(fn, s.W, t)[t]),
                    !.W = Extend(fn, s.W, t)]
  BY DEF FipsRound, FipsVars
<1> QED BY <1>1, <1>2

\* A round of the portable code is one of FIPS 180-4: the ring is extended
\* before the round that first needs its word.
LEMMA PortableRoundAgrees ==
  ASSUME NEW fn, fn.w \in Nat, NEW i \in Nat,
         NEW s \in PortableLocals, NEW r \in RefSet,
         VarsAgree(s.v, r.v, i), RingHolds(s.w, r.W, i)
  PROVE  LET u == IF i < 16 THEN Rounded(fn, s, i) ELSE RoundedExtending(fn, s, i)
             q == FipsRound(fn, r, i + 1)
         IN  /\ u \in PortableLocals
             /\ q \in RefSet /\ q.chain = r.chain
             /\ VarsAgree(u.v, q.v, i + 1) /\ RingHolds(u.w, q.W, i + 1)
<1> DEFINE W == Extend(fn, r.W, i + 1)
           w == IF i < 16 THEN s.w ELSE Extended(fn, s.w, i)
           f == FipsVars(fn, r.v, fn.K[i + 1], W[i + 1])
           v == Round(fn, s.v, i % 8, fn.K[i + 1], W[i + 1])
<1>1. RingHolds(w, W, i + 1)
  <2>1. CASE i < 16
    <3>1. w = s.w /\ W = r.W
      BY <2>1 DEF Extend
    <3>2. Known(i + 1) = Known(i)
      BY <2>1 DEF Known
    <3> HIDE DEF w, W
    <3> QED BY <3>1, <3>2 DEF RingHolds
  <2>2. CASE ~(i < 16)
    <3>1. i >= 16
      BY <2>2
    <3>2. RingHolds(Extended(fn, s.w, i), Extend(fn, r.W, i + 1), i + 1)
      BY <3>1, RingExtends
    <3> QED BY <2>2, <3>2
  <2> QED BY <2>1, <2>2
<1>2. w[i % 16] = W[i + 1]
  <2> HIDE DEF w, W
  <2>1. i + 1 \in Known(i + 1) - 15 .. Known(i + 1) /\ (i + 1 - 1) % 16 = i % 16
    BY DEF Known
  <2>2. w[(i + 1 - 1) % 16] = W[i + 1]
    BY <1>1, <2>1 DEF RingHolds
  <2> QED BY <2>1, <2>2
<1>3. (IF i < 16 THEN Rounded(fn, s, i) ELSE RoundedExtending(fn, s, i)) = [v |-> v, w |-> w]
  <2>1. CASE i < 16
    <3>1. w = s.w
      BY <2>1
    <3>2. Rounded(fn, s, i) = [v |-> Round(fn, s.v, i % 8, fn.K[i + 1], s.w[i % 16]), w |-> s.w]
      BY DEF Rounded, PortableLocals
    <3>3. s.w[i % 16] = W[i + 1]
      BY <1>2, <3>1
    <3> HIDE DEF w, W
    <3> QED BY <2>1, <3>1, <3>2, <3>3
  <2>2. CASE ~(i < 16)
    <3>1. w = Extended(fn, s.w, i)
      BY <2>2
    <3>4. \A a : [s EXCEPT !.w = a] = [v |-> s.v, w |-> a]
      BY DEF PortableLocals
    <3>5. \A a, b : Rounded(fn, [v |-> a, w |-> b], i)
                      = [v |-> Round(fn, a, i % 8, fn.K[i + 1], b[i % 16]), w |-> b]
      BY DEF Rounded
    <3>6. RoundedExtending(fn, s, i) = Rounded(fn, [s EXCEPT !.w = Extended(fn, s.w, i)], i)
      BY DEF RoundedExtending
    <3>2. RoundedExtending(fn, s, i)
            = [v |-> Round(fn, s.v, i % 8, fn.K[i + 1], Extended(fn, s.w, i)[i % 16]),
               w |-> Extended(fn, s.w, i)]
      BY <3>4, <3>5, <3>6
    <3>3. Extended(fn, s.w, i)[i % 16] = W[i + 1]
      BY <1>2, <3>1
    <3> HIDE DEF w, W
    <3> QED BY <2>2, <3>1, <3>2, <3>3
  <2> QED BY <2>1, <2>2
<1>4. FipsRound(fn, r, i + 1) = [chain |-> r.chain, v |-> f, W |-> W]
  BY FipsRoundIs
<1> HIDE DEF w, W
<1>5. v \in [0 .. 7 -> Bits] /\ \A n \in 0 .. 7 : f[n + 1] = v[Named(i + 1, n)]
  <2>1. s.v \in [0 .. 7 -> Bits] /\ \A n \in 0 .. 7 : r.v[n + 1] = s.v[Named(i, n)]
    BY DEF VarsAgree
  <2> QED BY <2>1, RoundIsFips
<1>6. f \in [1 .. 8 -> Bits]
  BY FipsVarsType DEF VarsAgree
<1> HIDE DEF f, v
<1>7. VarsAgree(v, f, i + 1)
  BY <1>5, <1>6 DEF VarsAgree
<1>8. w \in [0 .. 15 -> Bits] /\ W \in Seq(Bits)
  BY <1>1 DEF RingHolds
<1>9. r.chain \in [1 .. 8 -> Bits]
  BY DEF RefSet
<1> QED BY <1>1, <1>3, <1>4, <1>5, <1>6, <1>7, <1>8, <1>9 DEF PortableLocals, RefSet

(***************************************************************************)
(* The vectors of the SHA-NI code: where its lanes keep the variables.     *)
(***************************************************************************)
\* A vector of four words.
Lane4 == [0 .. 3 -> Bits]

\* The variables a to h in the lanes of two vectors.
View(abef, cdgh) == << abef[3], abef[2], cdgh[3], cdgh[2],
                       abef[1], abef[0], cdgh[1], cdgh[0] >>

\* Eight words are a state.
LEMMA EightType ==
  ASSUME NEW a \in Bits, NEW b \in Bits, NEW c \in Bits, NEW d \in Bits,
         NEW e \in Bits, NEW f \in Bits, NEW g \in Bits, NEW h \in Bits
  PROVE  << a, b, c, d, e, f, g, h >> \in [1 .. 8 -> Bits]
<1> DEFINE t == << a, b, c, d, e, f, g, h >>
<1>1. t \in Seq(Bits) /\ Len(t) = 8
  OBVIOUS
<1> QED BY <1>1

\* States with the same eight words are equal.
LEMMA EightEqual ==
  ASSUME NEW x \in [1 .. 8 -> Bits], NEW y \in [1 .. 8 -> Bits],
         x[1] = y[1], x[2] = y[2], x[3] = y[3], x[4] = y[4],
         x[5] = y[5], x[6] = y[6], x[7] = y[7], x[8] = y[8]
  PROVE  x = y
<1>1. ASSUME NEW i \in 1 .. 8 PROVE x[i] = y[i]
  <2>1. i = 1 \/ i = 2 \/ i = 3 \/ i = 4 \/ i = 5 \/ i = 6 \/ i = 7 \/ i = 8
    OBVIOUS
  <2> QED BY <2>1
<1> QED BY <1>1

\* Two vectors hold a state.
LEMMA ViewType ==
  ASSUME NEW abef \in Lane4, NEW cdgh \in Lane4
  PROVE  View(abef, cdgh) \in [1 .. 8 -> Bits]
<1>1. /\ abef[0] \in Bits /\ abef[1] \in Bits /\ abef[2] \in Bits /\ abef[3] \in Bits
      /\ cdgh[0] \in Bits /\ cdgh[1] \in Bits /\ cdgh[2] \in Bits /\ cdgh[3] \in Bits
  BY DEF Lane4
<1> QED BY <1>1, EightType DEF View

\* The three shuffles of the code, lane by lane.
LEMMA Shuffles ==
  ASSUME NEW x \in Lane4
  PROVE  /\ ShuffleEpi32(x, \hb1) \in Lane4
         /\ ShuffleEpi32(x, \hb1)[0] = x[1] /\ ShuffleEpi32(x, \hb1)[1] = x[0]
         /\ ShuffleEpi32(x, \hb1)[2] = x[3] /\ ShuffleEpi32(x, \hb1)[3] = x[2]
         /\ ShuffleEpi32(x, \h1b) \in Lane4
         /\ ShuffleEpi32(x, \h1b)[0] = x[3] /\ ShuffleEpi32(x, \h1b)[1] = x[2]
         /\ ShuffleEpi32(x, \h1b)[2] = x[1] /\ ShuffleEpi32(x, \h1b)[3] = x[0]
         /\ ShuffleEpi32(x, \h0e)[0] = x[2] /\ ShuffleEpi32(x, \h0e)[1] = x[3]
  BY DEF ShuffleEpi32, Lanes, Lane4

\* The blend and the two alignments of the code, lane by lane.
LEMMA Blends ==
  ASSUME NEW x \in Lane4, NEW y \in Lane4
  PROVE  /\ BlendHigh(x, y) \in Lane4
         /\ BlendHigh(x, y)[0] = x[0] /\ BlendHigh(x, y)[1] = x[1]
         /\ BlendHigh(x, y)[2] = y[2] /\ BlendHigh(x, y)[3] = y[3]
         /\ Alignr(x, y, 2) \in Lane4
         /\ Alignr(x, y, 2)[0] = y[2] /\ Alignr(x, y, 2)[1] = y[3]
         /\ Alignr(x, y, 2)[2] = x[0] /\ Alignr(x, y, 2)[3] = x[1]
         /\ Alignr(x, y, 1) \in Lane4
         /\ Alignr(x, y, 1)[0] = y[1] /\ Alignr(x, y, 1)[1] = y[2]
         /\ Alignr(x, y, 1)[2] = y[3] /\ Alignr(x, y, 1)[3] = x[0]
  BY DEF BlendHigh, Alignr, Lanes, Lane4

\* The shuffles that end a call put every variable in its place.
LEMMA UnpackedIsView ==
  ASSUME NEW s, s.abef \in Lane4, s.cdgh \in Lane4
  PROVE  Unpacked(s) = View(s.abef, s.cdgh)
<1> DEFINE feba == ShuffleEpi32(s.abef, \h1b)
           dchg == ShuffleEpi32(s.cdgh, \hb1)
           dcba == BlendHigh(feba, dchg)
           hgfe == Alignr(dchg, feba, 2)
           u    == [i \in 1 .. 8 |-> IF i <= 4 THEN dcba[i - 1] ELSE hgfe[i - 5]]
<1>1. /\ feba \in Lane4 /\ dchg \in Lane4
      /\ feba[0] = s.abef[3] /\ feba[1] = s.abef[2] /\ feba[2] = s.abef[1] /\ feba[3] = s.abef[0]
      /\ dchg[0] = s.cdgh[1] /\ dchg[1] = s.cdgh[0] /\ dchg[2] = s.cdgh[3] /\ dchg[3] = s.cdgh[2]
  BY Shuffles
<1>2. Unpacked(s) = u
  BY DEF Unpacked
<1> HIDE DEF feba, dchg
<1>3. /\ dcba \in Lane4 /\ hgfe \in Lane4
      /\ dcba[0] = feba[0] /\ dcba[1] = feba[1] /\ dcba[2] = dchg[2] /\ dcba[3] = dchg[3]
      /\ hgfe[0] = feba[2] /\ hgfe[1] = feba[3] /\ hgfe[2] = dchg[0] /\ hgfe[3] = dchg[1]
  BY <1>1, Blends
<1> HIDE DEF dcba, hgfe
<1>4. u \in [1 .. 8 -> Bits]
  <2>1. ASSUME NEW i \in 1 .. 8 PROVE (IF i <= 4 THEN dcba[i - 1] ELSE hgfe[i - 5]) \in Bits
    <3>1. CASE i <= 4
      <4>1. i - 1 \in 0 .. 3
        BY <3>1
      <4> QED BY <1>3, <3>1, <4>1 DEF Lane4
    <3>2. CASE ~(i <= 4)
      <4>1. i - 5 \in 0 .. 3
        BY <3>2
      <4> QED BY <1>3, <3>2, <4>1 DEF Lane4
    <3> QED BY <3>1, <3>2
  <2> QED BY <2>1
<1>5. /\ u[1] = dcba[0] /\ u[2] = dcba[1] /\ u[3] = dcba[2] /\ u[4] = dcba[3]
      /\ u[5] = hgfe[0] /\ u[6] = hgfe[1] /\ u[7] = hgfe[2] /\ u[8] = hgfe[3]
  OBVIOUS
<1> HIDE DEF u
<1> DEFINE v == View(s.abef, s.cdgh)
<1>6. v \in [1 .. 8 -> Bits]
  BY ViewType
<1>7. /\ v[1] = s.abef[3] /\ v[2] = s.abef[2] /\ v[3] = s.cdgh[3] /\ v[4] = s.cdgh[2]
      /\ v[5] = s.abef[1] /\ v[6] = s.abef[0] /\ v[7] = s.cdgh[1] /\ v[8] = s.cdgh[0]
  BY DEF View
<1> HIDE DEF v
<1>8. u = v
  BY <1>1, <1>3, <1>4, <1>5, <1>6, <1>7, EightEqual
<1> QED BY <1>2, <1>8 DEF v

\* The shuffles that begin a call put every variable in its lane.
LEMMA PackedIs ==
  ASSUME NEW chn \in [1 .. 8 -> Bits]
  PROVE  /\ Packed(chn).abef \in Lane4 /\ Packed(chn).cdgh \in Lane4
         /\ Packed(chn) = [abef |-> Packed(chn).abef, cdgh |-> Packed(chn).cdgh]
         /\ View(Packed(chn).abef, Packed(chn).cdgh) = chn
<1> DEFINE dcba == Lanes(LAMBDA j : chn[j + 1])
           hgfe == Lanes(LAMBDA j : chn[j + 5])
           cdab == ShuffleEpi32(dcba, \hb1)
           efgh == ShuffleEpi32(hgfe, \h1b)
           abef == Alignr(cdab, efgh, 2)
           cdgh == BlendHigh(efgh, cdab)
<1>1. /\ dcba \in Lane4 /\ hgfe \in Lane4
      /\ dcba[0] = chn[1] /\ dcba[1] = chn[2] /\ dcba[2] = chn[3] /\ dcba[3] = chn[4]
      /\ hgfe[0] = chn[5] /\ hgfe[1] = chn[6] /\ hgfe[2] = chn[7] /\ hgfe[3] = chn[8]
  BY DEF Lanes, Lane4
<1>2. Packed(chn) = [abef |-> abef, cdgh |-> cdgh]
  BY DEF Packed
<1> HIDE DEF dcba, hgfe
<1>3. /\ cdab \in Lane4 /\ efgh \in Lane4
      /\ cdab[0] = dcba[1] /\ cdab[1] = dcba[0] /\ cdab[2] = dcba[3] /\ cdab[3] = dcba[2]
      /\ efgh[0] = hgfe[3] /\ efgh[1] = hgfe[2] /\ efgh[2] = hgfe[1] /\ efgh[3] = hgfe[0]
  BY <1>1, Shuffles
<1> HIDE DEF cdab, efgh
<1>4. /\ abef \in Lane4 /\ cdgh \in Lane4
      /\ abef[0] = efgh[2] /\ abef[1] = efgh[3] /\ abef[2] = cdab[0] /\ abef[3] = cdab[1]
      /\ cdgh[0] = efgh[0] /\ cdgh[1] = efgh[1] /\ cdgh[2] = cdab[2] /\ cdgh[3] = cdab[3]
  BY <1>3, Blends
<1> HIDE DEF abef, cdgh
<1> DEFINE v == View(abef, cdgh)
<1>5. v \in [1 .. 8 -> Bits]
  BY <1>4, ViewType
<1>6. /\ v[1] = abef[3] /\ v[2] = abef[2] /\ v[3] = cdgh[3] /\ v[4] = cdgh[2]
      /\ v[5] = abef[1] /\ v[6] = abef[0] /\ v[7] = cdgh[1] /\ v[8] = cdgh[0]
  BY DEF View
<1> HIDE DEF v
<1>7. v = chn
  BY <1>1, <1>3, <1>4, <1>5, <1>6, EightEqual
<1> QED BY <1>2, <1>4, <1>7 DEF v

\* sha256rnds2 leaves the half it wrote and the half it read in the lanes of
\* the state two rounds on, with their parts exchanged.
LEMMA Rnds2IsFips ==
  ASSUME NEW abef \in Lane4, NEW cdgh \in Lane4, NEW wk,
         NEW w0, NEW k0, wk[0] = Add(32, w0, k0),
         NEW w1, NEW k1, wk[1] = Add(32, w1, k1)
  PROVE  /\ Rnds2(cdgh, abef, wk) \in Lane4
         /\ View(Rnds2(cdgh, abef, wk), abef)
              = FipsVars(SHA256, FipsVars(SHA256, View(abef, cdgh), k0, w0), k1, w1)
<1> DEFINE v == View(abef, cdgh)
           f == FipsVars(SHA256, v, k0, w0)
           u == FipsVars(SHA256, f, k1, w1)
           n == Rnds2(cdgh, abef, wk)
           z == View(n, abef)
<1>0. SHA256.w \in Nat
  BY DEF SHA256
<1>1. v \in [1 .. 8 -> Bits]
  BY ViewType
<1>2. v[1] = abef[3] /\ v[2] = abef[2] /\ v[5] = abef[1] /\ v[6] = abef[0]
  BY DEF View
<1>3. NiRound(v, wk[0]) = f /\ NiRound(f, wk[1]) = u
  BY NiRoundIsFips
<1>4. n = [j \in 0 .. 3 |-> << u[6], u[5], u[2], u[1] >>[j + 1]]
  <2> HIDE DEF u
  <2> QED BY <1>3 DEF Rnds2, Lanes, View
<1> HIDE DEF v
<1>5. f \in [1 .. 8 -> Bits]
  BY <1>0, <1>1, FipsVarsType
<1>6. f[2] = v[1] /\ f[3] = v[2] /\ f[6] = v[5] /\ f[7] = v[6]
  BY DEF FipsVars
<1> HIDE DEF f
<1>7. u \in [1 .. 8 -> Bits]
  BY <1>0, <1>5, FipsVarsType
<1>8. u[3] = f[2] /\ u[4] = f[3] /\ u[7] = f[6] /\ u[8] = f[7]
  BY DEF FipsVars
<1> HIDE DEF u, n
<1>9. n[0] = u[6] /\ n[1] = u[5] /\ n[2] = u[2] /\ n[3] = u[1]
  BY <1>4
<1>10. n \in Lane4
  <2>1. u[6] \in Bits /\ u[5] \in Bits /\ u[2] \in Bits /\ u[1] \in Bits
    BY <1>7
  <2>2. ASSUME NEW j \in 0 .. 3 PROVE << u[6], u[5], u[2], u[1] >>[j + 1] \in Bits
    BY <2>1
  <2> QED BY <1>4, <2>2 DEF Lane4
<1>11. z \in [1 .. 8 -> Bits]
  BY <1>10, ViewType
<1>12. /\ z[1] = n[3] /\ z[2] = n[2] /\ z[3] = abef[3] /\ z[4] = abef[2]
       /\ z[5] = n[1] /\ z[6] = n[0] /\ z[7] = abef[1] /\ z[8] = abef[0]
  BY DEF View
<1> HIDE DEF z
<1>13. z = u
  BY <1>2, <1>6, <1>7, <1>8, <1>9, <1>11, <1>12, EightEqual
<1> QED BY <1>10, <1>13 DEF z, n, u, f, v

(***************************************************************************)
(* Four rounds of the SHA-NI code and four words of its schedule.          *)
(***************************************************************************)
\* The locals of compress_blocks_sha_ni.
NiLocals == [abef : Lane4, cdgh : Lane4,
             save : [abef : Lane4, cdgh : Lane4],
             w    : [0 .. 4 -> Lane4]]

\* After i rounds the five vectors hold the last sixteen words of schedule W.
LanesHold(w, W, i) ==
  /\ w \in [0 .. 4 -> Lane4]
  /\ W \in Seq(Bits) /\ Len(W) = Known(i)
  /\ \A t \in Known(i) - 15 .. Known(i) : w[((t - 1) \div 4) % 5][(t - 1) % 4] = W[t]

\* The variables after the four rounds that use words a, b, c and d.
FipsVars4(v, i, a, b, c, d) ==
  LET K1(n) == SHA256.K[4 * i + n]
      f1 == FipsVars(SHA256, v, K1(1), a)
      f2 == FipsVars(SHA256, f1, K1(2), b)
      f3 == FipsVars(SHA256, f2, K1(3), c)
  IN  FipsVars(SHA256, f3, K1(4), d)

\* rounds4! is four rounds on the words of vector k.
LEMMA NiRounds4IsFips ==
  ASSUME NEW s \in NiLocals, NEW k \in 0 .. 4, NEW i \in Nat
  PROVE  LET u == NiRounds4(s, k, i)
         IN  /\ u \in NiLocals /\ u.save = s.save /\ u.w = s.w
             /\ View(u.abef, u.cdgh)
                  = FipsVars4(View(s.abef, s.cdgh), i, s.w[k][0], s.w[k][1], s.w[k][2], s.w[k][3])
<1> DEFINE t1   == AddEpi32(s.w[k], K32X4(i))
           t2   == ShuffleEpi32(t1, \h0e)
           cdgh == Rnds2(s.cdgh, s.abef, t1)
           abef == Rnds2(s.abef, cdgh, t2)
           x    == s.w[k]
           K1(n) == SHA256.K[4 * i + n]
<1>1. s.abef \in Lane4 /\ s.cdgh \in Lane4
      /\ s.save \in [abef : Lane4, cdgh : Lane4] /\ s.w \in [0 .. 4 -> Lane4]
      /\ s = [abef |-> s.abef, cdgh |-> s.cdgh, save |-> s.save, w |-> s.w]
  BY DEF NiLocals
<1>2. NiRounds4(s, k, i) = [abef |-> abef, cdgh |-> cdgh, save |-> s.save, w |-> s.w]
  <2>1. ASSUME NEW a, NEW b PROVE  [s EXCEPT !.cdgh = a, !.abef = b]
                                   = [abef |-> b, cdgh |-> a, save |-> s.save, w |-> s.w]
    <3> DEFINE u == [s EXCEPT !.cdgh = a, !.abef = b]
    <3>1. DOMAIN s = {"abef", "cdgh", "save", "w"}
      BY DEF NiLocals
    <3>2. u = [n \in {"abef", "cdgh", "save", "w"} |-> u[n]]
      BY <3>1
    <3>3. u.abef = b /\ u.cdgh = a /\ u.save = s.save /\ u.w = s.w
      BY <3>1
    <3> HIDE DEF u
    <3>4. u = [abef |-> b, cdgh |-> a, save |-> s.save, w |-> s.w]
      BY <3>2, <3>3
    <3> QED BY <3>4 DEF u
  <2>2. NiRounds4(s, k, i) = [s EXCEPT !.cdgh = cdgh, !.abef = abef]
    BY DEF NiRounds4
  <2> HIDE DEF abef, cdgh
  <2> QED BY <2>1, <2>2
<1>3. /\ t1[0] = Add(32, x[0], K1(1)) /\ t1[1] = Add(32, x[1], K1(2))
      /\ t1[2] = Add(32, x[2], K1(3)) /\ t1[3] = Add(32, x[3], K1(4))
  <2>1. t1 = [j \in 0 .. 3 |-> Add(32, x[j], SHA256.K[4 * i + j + 1])]
    BY DEF AddEpi32, K32X4, Lanes
  <2> HIDE DEF t1
  <2>2. /\ t1[0] = Add(32, x[0], SHA256.K[4 * i + 0 + 1])
        /\ t1[1] = Add(32, x[1], SHA256.K[4 * i + 1 + 1])
        /\ t1[2] = Add(32, x[2], SHA256.K[4 * i + 2 + 1])
        /\ t1[3] = Add(32, x[3], SHA256.K[4 * i + 3 + 1])
    BY <2>1
  <2>3. 4 * i + 0 + 1 = 4 * i + 1 /\ 4 * i + 1 + 1 = 4 * i + 2
        /\ 4 * i + 2 + 1 = 4 * i + 3 /\ 4 * i + 3 + 1 = 4 * i + 4
    OBVIOUS
  <2> QED BY <2>2, <2>3
<1>4. t1 \in Lane4
  <2>1. \A j \in 0 .. 3 : Add(32, x[j], SHA256.K[4 * i + j + 1]) \in Bits
    BY AddIsBits
  <2> QED BY <2>1 DEF AddEpi32, K32X4, Lanes, Lane4
<1> HIDE DEF t1
<1>5. t2[0] = t1[2] /\ t2[1] = t1[3]
  BY <1>4, Shuffles
<1> HIDE DEF t2
<1> DEFINE f2 == FipsVars(SHA256, FipsVars(SHA256, View(s.abef, s.cdgh), K1(1), x[0]), K1(2), x[1])
<1>6. cdgh \in Lane4 /\ View(cdgh, s.abef) = f2
  BY <1>1, <1>3, Rnds2IsFips
<1> HIDE DEF cdgh
<1>7. /\ abef \in Lane4
      /\ View(abef, cdgh) = FipsVars(SHA256, FipsVars(SHA256, View(cdgh, s.abef), K1(3), x[2]), K1(4), x[3])
  BY <1>1, <1>3, <1>5, <1>6, Rnds2IsFips
<1> HIDE DEF abef
<1>8. View(abef, cdgh) = FipsVars4(View(s.abef, s.cdgh), i, x[0], x[1], x[2], x[3])
  BY <1>6, <1>7 DEF FipsVars4
<1>9. [abef |-> abef, cdgh |-> cdgh, save |-> s.save, w |-> s.w] \in NiLocals
  BY <1>1, <1>6, <1>7 DEF NiLocals
<1> QED BY <1>2, <1>8, <1>9

\* The schedule four words further.
Extend4(W, i) ==
  Extend(SHA256, Extend(SHA256, Extend(SHA256, Extend(SHA256, W, i + 1), i + 2), i + 3), i + 4)

\* The word that FIPS 180-4 computes from W[t - 2], W[t - 7], W[t - 15], W[t - 16].
Word(a, b, c, d) == Sum(SHA256, SmallSigma(SHA256, SHA256.sigma1, a), b,
                                SmallSigma(SHA256, SHA256.sigma0, c), d)

\* One more word of the schedule.
LEMMA Extends ==
  ASSUME NEW W \in Seq(Bits), NEW t \in Nat, t >= 17, Len(W) = t - 1
  PROVE  /\ Extend(SHA256, W, t) \in Seq(Bits)
         /\ Len(Extend(SHA256, W, t)) = t
         /\ \A n \in 1 .. t - 1 : Extend(SHA256, W, t)[n] = W[n]
         /\ Extend(SHA256, W, t)[t] = Word(W[t - 2], W[t - 7], W[t - 15], W[t - 16])
<1> DEFINE x == Word(W[t - 2], W[t - 7], W[t - 15], W[t - 16])
<1>1. Extend(SHA256, W, t) = Append(W, x)
  BY DEF Extend, Word
<1>2. x \in Bits
  <2>1. SHA256.w \in Nat
    BY DEF SHA256
  <2> QED BY <2>1, SumIsBits DEF Word
<1> HIDE DEF x
<1>3. Len(W) + 1 = t
  OBVIOUS
<1>4. Append(W, x) \in Seq(Bits) /\ Len(Append(W, x)) = t
      /\ (\A n \in 1 .. t - 1 : Append(W, x)[n] = W[n])
      /\ Append(W, x)[t] = x
  BY <1>2, <1>3, Appended
<1> QED BY <1>1, <1>4 DEF x

\* Four more words, two of which build on the first two.
LEMMA Extend4Is ==
  ASSUME NEW W \in Seq(Bits), NEW i \in Nat, i >= 16, Len(W) = i
  PROVE  LET X == Extend4(W, i)
         IN  /\ X \in Seq(Bits) /\ Len(X) = i + 4
             /\ \A n \in 1 .. i : X[n] = W[n]
             /\ X[i + 1] = Word(W[i - 1], W[i - 6], W[i - 14], W[i - 15])
             /\ X[i + 2] = Word(W[i], W[i - 5], W[i - 13], W[i - 14])
             /\ X[i + 3] = Word(X[i + 1], W[i - 4], W[i - 12], W[i - 13])
             /\ X[i + 4] = Word(X[i + 2], W[i - 3], W[i - 11], W[i - 12])
             /\ X[i + 1] = Extend(SHA256, W, i + 1)[i + 1]
             /\ X[i + 2] = Extend(SHA256, Extend(SHA256, W, i + 1), i + 2)[i + 2]
             /\ X[i + 3] = Extend(SHA256, Extend(SHA256, Extend(SHA256, W, i + 1), i + 2), i + 3)[i + 3]
<1> DEFINE A == Extend(SHA256, W, i + 1)
           B == Extend(SHA256, A, i + 2)
           C == Extend(SHA256, B, i + 3)
           D == Extend(SHA256, C, i + 4)
<1>1. /\ A \in Seq(Bits) /\ Len(A) = i + 1
      /\ \A n \in 1 .. i : A[n] = W[n]
      /\ A[i + 1] = Word(W[i - 1], W[i - 6], W[i - 14], W[i - 15])
  <2> DEFINE t == i + 1
  <2>1. /\ t \in Nat /\ t >= 17 /\ Len(W) = t - 1 /\ t = i + 1 /\ t - 1 = i
        /\ t - 2 = i - 1 /\ t - 7 = i - 6 /\ t - 15 = i - 14 /\ t - 16 = i - 15
        /\ A = Extend(SHA256, W, t)
    BY DEF A
  <2> HIDE DEF t, A
  <2>2. /\ A \in Seq(Bits) /\ Len(A) = t
        /\ \A n \in 1 .. t - 1 : A[n] = W[n]
        /\ A[t] = Word(W[t - 2], W[t - 7], W[t - 15], W[t - 16])
    BY <2>1, Extends
  <2> QED BY <2>1, <2>2
<1> HIDE DEF A
<1>2. /\ B \in Seq(Bits) /\ Len(B) = i + 2
      /\ \A n \in 1 .. i + 1 : B[n] = A[n]
      /\ B[i + 2] = Word(A[i], A[i - 5], A[i - 13], A[i - 14])
  <2> DEFINE t == i + 2
  <2>1. /\ t \in Nat /\ t >= 17 /\ Len(A) = t - 1 /\ t = i + 2 /\ t - 1 = i + 1
        /\ t - 2 = i /\ t - 7 = i - 5 /\ t - 15 = i - 13 /\ t - 16 = i - 14
        /\ B = Extend(SHA256, A, t)
    BY <1>1 DEF B
  <2> HIDE DEF t, B
  <2>2. /\ B \in Seq(Bits) /\ Len(B) = t
        /\ \A n \in 1 .. t - 1 : B[n] = A[n]
        /\ B[t] = Word(A[t - 2], A[t - 7], A[t - 15], A[t - 16])
    BY <1>1, <2>1, Extends
  <2> QED BY <2>1, <2>2
<1> HIDE DEF B
<1>3. /\ C \in Seq(Bits) /\ Len(C) = i + 3
      /\ \A n \in 1 .. i + 2 : C[n] = B[n]
      /\ C[i + 3] = Word(B[i + 1], B[i - 4], B[i - 12], B[i - 13])
  <2> DEFINE t == i + 3
  <2>1. /\ t \in Nat /\ t >= 17 /\ Len(B) = t - 1 /\ t = i + 3 /\ t - 1 = i + 2
        /\ t - 2 = i + 1 /\ t - 7 = i - 4 /\ t - 15 = i - 12 /\ t - 16 = i - 13
        /\ C = Extend(SHA256, B, t)
    BY <1>2 DEF C
  <2> HIDE DEF t, C
  <2>2. /\ C \in Seq(Bits) /\ Len(C) = t
        /\ \A n \in 1 .. t - 1 : C[n] = B[n]
        /\ C[t] = Word(B[t - 2], B[t - 7], B[t - 15], B[t - 16])
    BY <1>2, <2>1, Extends
  <2> QED BY <2>1, <2>2
<1> HIDE DEF C
<1>4. /\ D \in Seq(Bits) /\ Len(D) = i + 4
      /\ \A n \in 1 .. i + 3 : D[n] = C[n]
      /\ D[i + 4] = Word(C[i + 2], C[i - 3], C[i - 11], C[i - 12])
  <2> DEFINE t == i + 4
  <2>1. /\ t \in Nat /\ t >= 17 /\ Len(C) = t - 1 /\ t = i + 4 /\ t - 1 = i + 3
        /\ t - 2 = i + 2 /\ t - 7 = i - 3 /\ t - 15 = i - 11 /\ t - 16 = i - 12
        /\ D = Extend(SHA256, C, t)
    BY <1>3 DEF D
  <2> HIDE DEF t, D
  <2>2. /\ D \in Seq(Bits) /\ Len(D) = t
        /\ \A n \in 1 .. t - 1 : D[n] = C[n]
        /\ D[t] = Word(C[t - 2], C[t - 7], C[t - 15], C[t - 16])
    BY <1>3, <2>1, Extends
  <2> QED BY <2>1, <2>2
<1> HIDE DEF D
<1>5. Extend4(W, i) = D
  BY DEF Extend4, A, B, C, D
<1>6. \A n \in 1 .. i : D[n] = W[n] /\ C[n] = W[n] /\ B[n] = W[n] /\ A[n] = W[n]
  BY <1>1, <1>2, <1>3, <1>4
<1>7. /\ D[i + 1] = A[i + 1] /\ C[i + 1] = A[i + 1] /\ B[i + 1] = A[i + 1]
      /\ D[i + 2] = B[i + 2] /\ C[i + 2] = B[i + 2]
      /\ D[i + 3] = C[i + 3]
  BY <1>1, <1>2, <1>3, <1>4
<1>8. /\ i \in 1 .. i /\ i - 5 \in 1 .. i /\ i - 13 \in 1 .. i /\ i - 14 \in 1 .. i
      /\ i - 4 \in 1 .. i /\ i - 12 \in 1 .. i /\ i - 3 \in 1 .. i /\ i - 11 \in 1 .. i
  OBVIOUS
<1>9. /\ D[i + 1] = Word(W[i - 1], W[i - 6], W[i - 14], W[i - 15])
      /\ D[i + 2] = Word(W[i], W[i - 5], W[i - 13], W[i - 14])
      /\ D[i + 3] = Word(D[i + 1], W[i - 4], W[i - 12], W[i - 13])
      /\ D[i + 4] = Word(D[i + 2], W[i - 3], W[i - 11], W[i - 12])
  <2>1. D[i + 1] = Word(W[i - 1], W[i - 6], W[i - 14], W[i - 15])
    BY <1>1, <1>7
  <2>2. D[i + 2] = Word(W[i], W[i - 5], W[i - 13], W[i - 14])
    BY <1>2, <1>6, <1>7, <1>8
  <2>3. D[i + 3] = Word(D[i + 1], W[i - 4], W[i - 12], W[i - 13])
    BY <1>3, <1>6, <1>7, <1>8
  <2>4. D[i + 4] = Word(D[i + 2], W[i - 3], W[i - 11], W[i - 12])
    BY <1>4, <1>6, <1>7, <1>8
  <2> QED BY <2>1, <2>2, <2>3, <2>4
<1>10. /\ D \in Seq(Bits) /\ Len(D) = i + 4 /\ \A n \in 1 .. i : D[n] = W[n]
  BY <1>4, <1>6
<1> QED BY <1>5, <1>7, <1>9, <1>10 DEF A, B, C

\* The message instructions and the alignment make four words at once.
LEMMA MsgLanes ==
  ASSUME NEW x1, NEW x2, NEW x3, NEW x4
  PROVE  LET m == Msg2(AddEpi32(Msg1(x1, x2), Alignr(x4, x3, 1)), x4)
         IN  /\ m \in Lane4
             /\ m[0] = Word(x4[2], x3[1], x1[1], x1[0])
             /\ m[1] = Word(x4[3], x3[2], x1[2], x1[1])
             /\ m[2] = Word(m[0], x3[3], x1[3], x1[2])
             /\ m[3] = Word(m[1], x4[0], x2[0], x1[3])
<1> DEFINE s0(x) == SmallSigma(SHA256, SHA256.sigma0, x)
           s1(x) == SmallSigma(SHA256, SHA256.sigma1, x)
           y  == Msg1(x1, x2)
           a  == Alignr(x4, x3, 1)
           t  == AddEpi32(y, a)
           m  == Msg2(t, x4)
<1>1. y[0] = Add(32, x1[0], s0(x1[1])) /\ y[1] = Add(32, x1[1], s0(x1[2]))
      /\ y[2] = Add(32, x1[2], s0(x1[3])) /\ y[3] = Add(32, x1[3], s0(x2[0]))
  BY DEF Msg1, Lanes
<1>2. a[0] = x3[1] /\ a[1] = x3[2] /\ a[2] = x3[3] /\ a[3] = x4[0]
  BY DEF Alignr, Lanes
<1> HIDE DEF y, a
<1>3. t[0] = Add(32, y[0], a[0]) /\ t[1] = Add(32, y[1], a[1])
      /\ t[2] = Add(32, y[2], a[2]) /\ t[3] = Add(32, y[3], a[3])
  BY DEF AddEpi32, Lanes
<1> HIDE DEF t
<1>4. /\ m[0] = Add(32, t[0], s1(x4[2])) /\ m[1] = Add(32, t[1], s1(x4[3]))
      /\ m[2] = Add(32, t[2], s1(m[0])) /\ m[3] = Add(32, t[3], s1(m[1]))
      /\ m = [j \in 0 .. 3 |-> m[j]]
  BY DEF Msg2, Lanes
<1> HIDE DEF m
<1>5. m[0] \in Bits /\ m[1] \in Bits /\ m[2] \in Bits /\ m[3] \in Bits
  BY <1>4, AddIsBits
<1>6. m \in Lane4
  <2>1. \A j \in 0 .. 3 : m[j] \in Bits
    BY <1>5
  <2> QED BY <1>4, <2>1 DEF Lane4
<1>7. ASSUME NEW p, NEW q, NEW c, NEW d
      PROVE  Add(32, Add(32, Add(32, d, s0(c)), q), s1(p)) = Word(p, q, c, d)
  <2>1. SHA256.w = 32
    BY DEF SHA256
  <2>2. Sum(SHA256, d, s0(c), q, s1(p)) = Sum(SHA256, s1(p), q, s0(c), d)
    BY <2>1, SumReversed
  <2> QED BY <2>1, <2>2 DEF Sum, Word
<1> HIDE DEF s0, s1
<1>8. m[0] = Word(x4[2], x3[1], x1[1], x1[0])
  BY <1>1, <1>2, <1>3, <1>4, <1>7
<1>9. m[1] = Word(x4[3], x3[2], x1[2], x1[1])
  BY <1>1, <1>2, <1>3, <1>4, <1>7
<1>10. m[2] = Word(m[0], x3[3], x1[3], x1[2])
  BY <1>1, <1>2, <1>3, <1>4, <1>7
<1>11. m[3] = Word(m[1], x4[0], x2[0], x1[3])
  BY <1>1, <1>2, <1>3, <1>4, <1>7
<1> QED BY <1>6, <1>8, <1>9, <1>10, <1>11 DEF m, t, y, a

\* schedule_rounds4! replaces the oldest of the five vectors by the next four
\* words of the schedule.
LEMMA ScheduledLanes ==
  ASSUME NEW s \in NiLocals, NEW g \in Nat, 4 * g >= 16, NEW W, LanesHold(s.w, W, 4 * g)
  PROVE  LET u == NiScheduled(s, g)
         IN  /\ u \in NiLocals
             /\ u.abef = s.abef /\ u.cdgh = s.cdgh /\ u.save = s.save
             /\ LanesHold(u.w, Extend4(W, 4 * g), 4 * g + 4)
<1> DEFINE i  == 4 * g
           w  == s.w
           x1 == w[(g + 1) % 5]
           x2 == w[(g + 2) % 5]
           x3 == w[(g + 3) % 5]
           x4 == w[(g + 4) % 5]
           m  == Msg2(AddEpi32(Msg1(x1, x2), Alignr(x4, x3, 1)), x4)
           z  == [w EXCEPT ![g % 5] = m]
           X  == Extend4(W, i)
<1>1. /\ s.abef \in Lane4 /\ s.cdgh \in Lane4
      /\ s.save \in [abef : Lane4, cdgh : Lane4] /\ w \in [0 .. 4 -> Lane4]
      /\ DOMAIN s = {"abef", "cdgh", "save", "w"}
  BY DEF NiLocals
<1>2. NiScheduled(s, g) = [abef |-> s.abef, cdgh |-> s.cdgh, save |-> s.save, w |-> z]
  <2>1. ASSUME NEW a PROVE [s EXCEPT !.w[g % 5] = a]
                           = [abef |-> s.abef, cdgh |-> s.cdgh, save |-> s.save,
                              w |-> [w EXCEPT ![g % 5] = a]]
    <3> DEFINE u == [s EXCEPT !.w[g % 5] = a]
    <3>2. u = [n \in {"abef", "cdgh", "save", "w"} |-> u[n]]
      BY <1>1
    <3>3. u.abef = s.abef /\ u.cdgh = s.cdgh /\ u.save = s.save
          /\ u.w = [w EXCEPT ![g % 5] = a]
      BY <1>1
    <3> HIDE DEF u
    <3>4. u = [abef |-> s.abef, cdgh |-> s.cdgh, save |-> s.save,
               w |-> [w EXCEPT ![g % 5] = a]]
      BY <3>2, <3>3
    <3> QED BY <3>4 DEF u
  <2>2. NiScheduled(s, g) = [s EXCEPT !.w[g % 5] = m]
    BY DEF NiScheduled
  <2> HIDE DEF m
  <2> QED BY <2>1, <2>2
<1>3. \A j \in 0 .. 3 :
           /\ x1[j] = W[i - 15 + j] /\ x2[j] = W[i - 11 + j]
           /\ x3[j] = W[i - 7 + j]  /\ x4[j] = W[i - 3 + j]
  <2>1. \A t \in i - 15 .. i : w[((t - 1) \div 4) % 5][(t - 1) % 4] = W[t]
    <3>1. Known(i) = i
      BY DEF Known
    <3> QED BY <3>1 DEF LanesHold
  <2>2. ASSUME NEW j \in 0 .. 3, NEW m0 \in 1 .. 4
        PROVE  w[(g + m0) % 5][j] = W[i - 19 + 4 * m0 + j]
    <3> DEFINE t == i - 19 + 4 * m0 + j
    <3>1. /\ t \in i - 15 .. i
          /\ (t - 1) \div 4 = g - 5 + m0
          /\ (t - 1) % 4 = j
          /\ (g - 5 + m0) % 5 = (g + m0) % 5
      OBVIOUS
    <3>2. w[((t - 1) \div 4) % 5][(t - 1) % 4] = W[t]
      BY <2>1, <3>1
    <3> QED BY <3>1, <3>2
  <2>3. ASSUME NEW j \in 0 .. 3
        PROVE  /\ x1[j] = W[i - 19 + 4 * 1 + j] /\ x2[j] = W[i - 19 + 4 * 2 + j]
               /\ x3[j] = W[i - 19 + 4 * 3 + j] /\ x4[j] = W[i - 19 + 4 * 4 + j]
    BY <2>2
  <2>4. ASSUME NEW j \in 0 .. 3
        PROVE  /\ i - 19 + 4 * 1 + j = i - 15 + j /\ i - 19 + 4 * 2 + j = i - 11 + j
               /\ i - 19 + 4 * 3 + j = i - 7 + j  /\ i - 19 + 4 * 4 + j = i - 3 + j
    OBVIOUS
  <2> QED BY <2>3, <2>4
<1>4. /\ x4[2] = W[i - 1] /\ x3[1] = W[i - 6] /\ x1[1] = W[i - 14] /\ x1[0] = W[i - 15]
      /\ x4[3] = W[i] /\ x3[2] = W[i - 5] /\ x1[2] = W[i - 13]
      /\ x3[3] = W[i - 4] /\ x1[3] = W[i - 12]
      /\ x4[0] = W[i - 3] /\ x2[0] = W[i - 11]
  <2> HIDE DEF x1, x2, x3, x4
  <2>1. /\ i - 3 + 2 = i - 1 /\ i - 7 + 1 = i - 6 /\ i - 15 + 1 = i - 14 /\ i - 15 + 0 = i - 15
        /\ i - 3 + 3 = i /\ i - 7 + 2 = i - 5 /\ i - 15 + 2 = i - 13
        /\ i - 7 + 3 = i - 4 /\ i - 15 + 3 = i - 12
        /\ i - 3 + 0 = i - 3 /\ i - 11 + 0 = i - 11
    OBVIOUS
  <2> HIDE DEF i
  <2>2. /\ x4[2] = W[i - 3 + 2] /\ x3[1] = W[i - 7 + 1] /\ x1[1] = W[i - 15 + 1] /\ x1[0] = W[i - 15 + 0]
        /\ x4[3] = W[i - 3 + 3] /\ x3[2] = W[i - 7 + 2] /\ x1[2] = W[i - 15 + 2]
        /\ x3[3] = W[i - 7 + 3] /\ x1[3] = W[i - 15 + 3]
        /\ x4[0] = W[i - 3 + 0] /\ x2[0] = W[i - 11 + 0]
    BY <1>3
  <2> QED BY <2>1, <2>2
<1>5. /\ m \in Lane4
      /\ m[0] = Word(x4[2], x3[1], x1[1], x1[0])
      /\ m[1] = Word(x4[3], x3[2], x1[2], x1[1])
      /\ m[2] = Word(m[0], x3[3], x1[3], x1[2])
      /\ m[3] = Word(m[1], x4[0], x2[0], x1[3])
  BY MsgLanes
<1> HIDE DEF x1, x2, x3, x4, m
<1>6. i \in Nat /\ i >= 16
  OBVIOUS
<1>7. W \in Seq(Bits) /\ Len(W) = i /\ \A t \in i - 15 .. i : w[((t - 1) \div 4) % 5][(t - 1) % 4] = W[t]
  <2>1. Known(i) = i
    BY <1>6 DEF Known
  <2> QED BY <2>1 DEF LanesHold
<1>8. /\ X \in Seq(Bits) /\ Len(X) = i + 4
      /\ \A n \in 1 .. i : X[n] = W[n]
      /\ X[i + 1] = Word(W[i - 1], W[i - 6], W[i - 14], W[i - 15])
      /\ X[i + 2] = Word(W[i], W[i - 5], W[i - 13], W[i - 14])
      /\ X[i + 3] = Word(X[i + 1], W[i - 4], W[i - 12], W[i - 13])
      /\ X[i + 4] = Word(X[i + 2], W[i - 3], W[i - 11], W[i - 12])
  <2> HIDE DEF i
  <2> QED BY <1>6, <1>7, Extend4Is
<1> HIDE DEF X
<1>9. m[0] = X[i + 1] /\ m[1] = X[i + 2] /\ m[2] = X[i + 3] /\ m[3] = X[i + 4]
  <2> HIDE DEF i
  <2> QED BY <1>4, <1>5, <1>8
<1>10. z \in [0 .. 4 -> Lane4]
  BY <1>1, <1>5
<1>11. ASSUME NEW t \in i - 11 .. i + 4
       PROVE  z[((t - 1) \div 4) % 5][(t - 1) % 4] = X[t]
  <2>1. CASE t <= i
    <3>1. t \in i - 15 .. i /\ t \in 1 .. i
      BY <1>6, <2>1
    <3>2. ((t - 1) \div 4) % 5 \in 0 .. 4 /\ ((t - 1) \div 4) % 5 # g % 5
      <4>1. (t - 1) \div 4 \in g - 3 .. g - 1
        BY <2>1
      <4> DEFINE q == (t - 1) \div 4
      <4> HIDE DEF q
      <4>2. q % 5 \in 0 .. 4 /\ q % 5 # g % 5
        BY <4>1 DEF q
      <4> QED BY <4>2 DEF q
    <3>3. z[((t - 1) \div 4) % 5] = w[((t - 1) \div 4) % 5]
      BY <1>1, <3>2
    <3> HIDE DEF z, i
    <3> QED BY <1>7, <1>8, <3>1, <3>3
  <2>2. CASE t > i
    <3>1. (t - 1) \div 4 = g /\ g % 5 \in 0 .. 4
      BY <2>2
    <3>2. z[g % 5] = m
      BY <1>1, <3>1
    <3>3. \/ t = i + 1 /\ (t - 1) % 4 = 0
          \/ t = i + 2 /\ (t - 1) % 4 = 1
          \/ t = i + 3 /\ (t - 1) % 4 = 2
          \/ t = i + 4 /\ (t - 1) % 4 = 3
      BY <2>2
    <3> HIDE DEF z, i
    <3> QED BY <1>9, <3>1, <3>2, <3>3
  <2> QED BY <2>1, <2>2
<1> HIDE DEF z
<1>12. LanesHold(z, X, i + 4)
  <2>1. Known(i + 4) = i + 4 /\ i + 4 - 15 = i - 11
    BY <1>6 DEF Known
  <2> DEFINE k == Known(i + 4)
  <2>2. \A t \in k - 15 .. k : z[((t - 1) \div 4) % 5][(t - 1) % 4] = X[t]
    BY <1>11, <2>1
  <2>3. Len(X) = k
    BY <1>8, <2>1
  <2> HIDE DEF k
  <2>4. /\ z \in [0 .. 4 -> Lane4]
        /\ X \in Seq(Bits) /\ Len(X) = k
        /\ \A t \in k - 15 .. k : z[((t - 1) \div 4) % 5][(t - 1) % 4] = X[t]
    BY <1>8, <1>10, <2>2, <2>3
  <2> QED BY <2>4 DEF k, LanesHold
<1>13. [abef |-> s.abef, cdgh |-> s.cdgh, save |-> s.save, w |-> z] \in NiLocals
  BY <1>1, <1>10 DEF NiLocals
<1> QED BY <1>2, <1>12, <1>13 DEF X

\* The schedule remains a sequence of words.
LEMMA ExtendType ==
  ASSUME NEW fn, fn.w \in Nat, NEW W \in Seq(Bits), NEW t
  PROVE  Extend(fn, W, t) \in Seq(Bits)
<1>1. ASSUME NEW x \in Bits PROVE Append(W, x) \in Seq(Bits)
  OBVIOUS
<1> QED BY <1>1, SumIsBits DEF Extend

\* Four rounds of FIPS 180-4, field by field.
LEMMA FipsRounds4Is ==
  ASSUME NEW r \in RefSet, NEW g \in Nat
  PROVE  LET i  == 4 * g
             W1 == Extend(SHA256, r.W, i + 1)
             W2 == Extend(SHA256, W1, i + 2)
             W3 == Extend(SHA256, W2, i + 3)
             W4 == Extend(SHA256, W3, i + 4)
             q  == FipsRounds4(SHA256, r, i + 1)
         IN  /\ q \in RefSet
             /\ q.chain = r.chain
             /\ q.W = Extend4(r.W, i)
             /\ q.v = FipsVars4(r.v, g, W1[i + 1], W2[i + 2], W3[i + 3], W4[i + 4])
<1> DEFINE i  == 4 * g
           W1 == Extend(SHA256, r.W, i + 1)
           W2 == Extend(SHA256, W1, i + 2)
           W3 == Extend(SHA256, W2, i + 3)
           W4 == Extend(SHA256, W3, i + 4)
           k(n) == SHA256.K[i + n]
           v1 == FipsVars(SHA256, r.v, k(1), W1[i + 1])
           v2 == FipsVars(SHA256, v1, k(2), W2[i + 2])
           v3 == FipsVars(SHA256, v2, k(3), W3[i + 3])
           v4 == FipsVars(SHA256, v3, k(4), W4[i + 4])
           s(v, W) == [chain |-> r.chain, v |-> v, W |-> W]
<1>0. SHA256.w \in Nat
  BY DEF SHA256
<1>1. r.chain \in [1 .. 8 -> Bits] /\ r.v \in [1 .. 8 -> Bits] /\ r.W \in Seq(Bits) /\ i \in Nat
  BY DEF RefSet
<1>2. FipsRounds4(SHA256, r, i + 1)
        = FipsRound(SHA256, FipsRound(SHA256, FipsRound(SHA256, FipsRound(SHA256, r, i + 1), i + 2),
                                      i + 3), i + 4)
  <2>1. i + 1 + 1 = i + 2 /\ i + 1 + 2 = i + 3 /\ i + 1 + 2 + 1 = i + 4
    BY <1>1
  <2>2. FipsRounds4(SHA256, r, i + 1)
          = FipsRound(SHA256, FipsRound(SHA256, FipsRound(SHA256, FipsRound(SHA256, r, i + 1), i + 1 + 1),
                                        i + 1 + 2), i + 1 + 2 + 1)
    BY DEF FipsRounds4
  <2> HIDE DEF i
  <2> QED BY <2>1, <2>2
<1> HIDE DEF i
<1>3. FipsRound(SHA256, r, i + 1) = s(v1, W1)
  BY FipsRoundIs
<1>4. W1 \in Seq(Bits) /\ v1 \in [1 .. 8 -> Bits]
  BY <1>0, <1>1, ExtendType, FipsVarsType
<1> HIDE DEF W1, v1
<1>5. s(v1, W1) \in RefSet
  BY <1>1, <1>4 DEF RefSet
<1>6. FipsRound(SHA256, s(v1, W1), i + 2) = s(v2, W2)
  BY <1>5, FipsRoundIs
<1>7. W2 \in Seq(Bits) /\ v2 \in [1 .. 8 -> Bits]
  BY <1>0, <1>4, ExtendType, FipsVarsType
<1> HIDE DEF W2, v2
<1>8. s(v2, W2) \in RefSet
  BY <1>1, <1>7 DEF RefSet
<1>9. FipsRound(SHA256, s(v2, W2), i + 3) = s(v3, W3)
  BY <1>8, FipsRoundIs
<1>10. W3 \in Seq(Bits) /\ v3 \in [1 .. 8 -> Bits]
  BY <1>0, <1>7, ExtendType, FipsVarsType
<1> HIDE DEF W3, v3
<1>11. s(v3, W3) \in RefSet
  BY <1>1, <1>10 DEF RefSet
<1>12. FipsRound(SHA256, s(v3, W3), i + 4) = s(v4, W4)
  BY <1>11, FipsRoundIs
<1>13. W4 \in Seq(Bits) /\ v4 \in [1 .. 8 -> Bits]
  BY <1>0, <1>10, ExtendType, FipsVarsType
<1> HIDE DEF W4, v4
<1>14. s(v4, W4) \in RefSet
  BY <1>1, <1>13 DEF RefSet
<1>15. FipsRounds4(SHA256, r, i + 1) = s(v4, W4)
  BY <1>2, <1>3, <1>6, <1>9, <1>12
<1>16. W4 = Extend4(r.W, i)
  BY DEF Extend4, W1, W2, W3, W4
<1>17. v4 = FipsVars4(r.v, g, W1[i + 1], W2[i + 2], W3[i + 3], W4[i + 4])
  BY DEF FipsVars4, v1, v2, v3, v4, i
<1>18. /\ FipsRounds4(SHA256, r, i + 1) \in RefSet
       /\ FipsRounds4(SHA256, r, i + 1).chain = r.chain
       /\ FipsRounds4(SHA256, r, i + 1).W = Extend4(r.W, i)
       /\ FipsRounds4(SHA256, r, i + 1).v
            = FipsVars4(r.v, g, W1[i + 1], W2[i + 2], W3[i + 3], W4[i + 4])
  BY <1>14, <1>15, <1>16, <1>17
<1> QED BY <1>18 DEF i, W1, W2, W3, W4

\* An invocation of rounds4! or schedule_rounds4! is four rounds of FIPS
\* 180-4: no vector is overwritten while a word of it is still to be used.
LEMMA NiGroupAgrees ==
  ASSUME NEW s \in NiLocals, NEW r \in RefSet, NEW g \in Nat,
         View(s.abef, s.cdgh) = r.v, LanesHold(s.w, r.W, 4 * g)
  PROVE  LET u == NiGroup(s, g)
             q == FipsRounds4(SHA256, r, 4 * g + 1)
         IN  /\ u \in NiLocals /\ u.save = s.save
             /\ q \in RefSet /\ q.chain = r.chain
             /\ View(u.abef, u.cdgh) = q.v
             /\ LanesHold(u.w, q.W, 4 * g + 4)
<1> DEFINE i  == 4 * g
           W  == r.W
           W1 == Extend(SHA256, W, i + 1)
           W2 == Extend(SHA256, W1, i + 2)
           W3 == Extend(SHA256, W2, i + 3)
           W4 == Extend(SHA256, W3, i + 4)
           X  == Extend4(W, i)
           p  == IF g < 4 THEN s ELSE NiScheduled(s, g)
           k  == g % 5
           q  == FipsRounds4(SHA256, r, i + 1)
           u  == NiRounds4(p, k, g)
<1>1. W \in Seq(Bits) /\ i \in Nat /\ k \in 0 .. 4
  BY DEF RefSet
<1>2. /\ q \in RefSet /\ q.chain = r.chain /\ q.W = X
      /\ q.v = FipsVars4(r.v, g, W1[i + 1], W2[i + 2], W3[i + 3], W4[i + 4])
  BY FipsRounds4Is
<1>3. W4 = X
  BY DEF Extend4
<1>4. /\ p \in NiLocals /\ p.abef = s.abef /\ p.cdgh = s.cdgh /\ p.save = s.save
      /\ LanesHold(p.w, X, i + 4)
      /\ W1[i + 1] = X[i + 1] /\ W2[i + 2] = X[i + 2] /\ W3[i + 3] = X[i + 3]
  <2>1. CASE g < 4
    <3>1. i + 1 <= 16 /\ i + 2 <= 16 /\ i + 3 <= 16 /\ i + 4 <= 16
      BY <2>1
    <3>2. W1 = W /\ W2 = W /\ W3 = W /\ W4 = W
      BY <3>1 DEF Extend
    <3>3. Known(i + 4) = Known(i)
      BY <3>1 DEF Known
    <3>4. p = s
      BY <2>1
    <3> HIDE DEF W1, W2, W3, W4, X, p, W, i
    <3>5. X = W
      BY <1>3, <3>2
    <3>6. LanesHold(s.w, W, i)
      BY DEF W, i
    <3>7. LanesHold(s.w, W, i + 4)
      BY <3>3, <3>6 DEF LanesHold
    <3> QED BY <3>2, <3>4, <3>5, <3>7
  <2>2. CASE ~(g < 4)
    <3>1. 4 * g >= 16
      BY <2>2
    <3>2. p = NiScheduled(s, g)
      BY <2>2
    <3>3. /\ NiScheduled(s, g) \in NiLocals /\ NiScheduled(s, g).abef = s.abef
          /\ NiScheduled(s, g).cdgh = s.cdgh /\ NiScheduled(s, g).save = s.save
          /\ LanesHold(NiScheduled(s, g).w, X, 4 * g + 4)
      BY <3>1, ScheduledLanes
    <3>4. Len(W) = i
      <4>1. Known(i) = i
        BY <3>1 DEF Known
      <4> QED BY <4>1 DEF LanesHold
    <3> HIDE DEF i
    <3>5. X[i + 1] = W1[i + 1] /\ X[i + 2] = W2[i + 2] /\ X[i + 3] = W3[i + 3]
      <4>1. i >= 16
        BY <3>1 DEF i
      <4> HIDE DEF W
      <4> QED BY <1>1, <3>4, <4>1, Extend4Is
    <3> HIDE DEF p, X, W1, W2, W3
    <3>6. i + 4 = 4 * g + 4
      BY DEF i
    <3> QED BY <3>2, <3>3, <3>5, <3>6
  <2> QED BY <2>1, <2>2
<1>5. NiGroup(s, g) = u
  BY DEF NiGroup
<1> HIDE DEF p, q, k
<1>6. /\ u \in NiLocals /\ u.save = p.save /\ u.w = p.w
      /\ View(u.abef, u.cdgh)
           = FipsVars4(View(p.abef, p.cdgh), g, p.w[k][0], p.w[k][1], p.w[k][2], p.w[k][3])
  BY <1>1, <1>4, NiRounds4IsFips
<1> HIDE DEF u, W, W1, W2, W3, W4, X
<1>7. /\ p.w[k][0] = X[i + 1] /\ p.w[k][1] = X[i + 2]
      /\ p.w[k][2] = X[i + 3] /\ p.w[k][3] = X[i + 4]
  <2>1. \A t \in Known(i + 4) - 15 .. Known(i + 4) : p.w[((t - 1) \div 4) % 5][(t - 1) % 4] = X[t]
    <3> HIDE DEF i
    <3> QED BY <1>4 DEF LanesHold
  <2>2. ASSUME NEW j \in 0 .. 3 PROVE p.w[k][j] = X[i + 1 + j]
    <3> DEFINE t == i + 1 + j
    <3>1. t \in Known(i + 4) - 15 .. Known(i + 4)
      BY <1>1 DEF Known
    <3>2. (t - 1) \div 4 = g /\ (t - 1) % 4 = j
      OBVIOUS
    <3>3. p.w[((t - 1) \div 4) % 5][(t - 1) % 4] = X[t]
      BY <2>1, <3>1
    <3> QED BY <3>2, <3>3 DEF k
  <2>3. i + 1 + 0 = i + 1 /\ i + 1 + 1 = i + 2 /\ i + 1 + 2 = i + 3 /\ i + 1 + 3 = i + 4
    BY <1>1
  <2> HIDE DEF i
  <2>4. /\ p.w[k][0] = X[i + 1 + 0] /\ p.w[k][1] = X[i + 1 + 1]
        /\ p.w[k][2] = X[i + 1 + 2] /\ p.w[k][3] = X[i + 1 + 3]
    BY <2>2
  <2> QED BY <2>3, <2>4
<1> HIDE DEF i
<1>8. View(u.abef, u.cdgh) = q.v
  BY <1>2, <1>3, <1>4, <1>6, <1>7
<1>9. LanesHold(u.w, q.W, i + 4)
  BY <1>2, <1>4, <1>6
<1>10. /\ u \in NiLocals /\ u.save = s.save /\ q \in RefSet /\ q.chain = r.chain
  BY <1>2, <1>4, <1>6
<1> QED BY <1>5, <1>8, <1>9, <1>10 DEF q, i

(***************************************************************************)
(* The start of a block and its end.                                       *)
(***************************************************************************)
\* Bytes, the blocks of a hash function, and a state in two vectors.
Byte == 0 .. 255
BlockSet(fn) == [1 .. 2 * fn.w -> Byte]
Pair == [abef : Lane4, cdgh : Lane4]

\* A function over 1 .. n is a sequence.
LEMMA FunctionIsSeq ==
  ASSUME NEW S, NEW n \in Nat, NEW f \in [1 .. n -> S]
  PROVE  f \in Seq(S) /\ Len(f) = n
  OBVIOUS

\* An element of a sequence.
LEMMA Element ==
  ASSUME NEW S, NEW f \in Seq(S), NEW i \in 1 .. Len(f)
  PROVE  f[i] \in S
  OBVIOUS

\* Limbs make a word.
LEMMA FromLimbsIsBits ==
  ASSUME NEW limbs \in Seq(Nat), NEW k \in Nat
  PROVE  FromLimbs(limbs, k) \in Bits
<1>1. Len(limbs) \in Nat
  OBVIOUS
<1> DEFINE n == Len(limbs)
<1>2. k * n - 1 \in Int
  BY <1>1
<1> HIDE DEF n
<1>3. 0 .. k * n - 1 \in SUBSET Nat
  BY <1>2
<1> QED BY <1>3 DEF FromLimbs, Bits, n

\* The sixteen words of a block.
LEMMA BeWordsType ==
  ASSUME NEW fn, fn.w \in {32, 64}, NEW block \in BlockSet(fn)
  PROVE  /\ BeWords(fn, block) \in Seq(Bits)
         /\ Len(BeWords(fn, block)) = 16
         /\ \A i \in 1 .. 16 :
              BeWords(fn, block)[i]
                = FromLimbs(SubSeq(block, (fn.w \div 8) * (i - 1) + 1, (fn.w \div 8) * i), 8)
<1> DEFINE n == fn.w \div 8
           f(i) == FromLimbs(SubSeq(block, n * (i - 1) + 1, n * i), 8)
           B == [i \in 1 .. 16 |-> f(i)]
<1>1. n \in {4, 8} /\ 2 * fn.w = 16 * n
  OBVIOUS
<1>2. block \in Seq(Nat) /\ Len(block) = 16 * n
  <2>1. 16 * n \in Nat
    BY <1>1
  <2>2. 2 * fn.w = 16 * n
    BY <1>1
  <2> HIDE DEF n
  <2>3. block \in [1 .. 16 * n -> Byte]
    BY <2>2 DEF BlockSet
  <2> DEFINE m == 16 * n
  <2>4. m \in Nat /\ block \in [1 .. m -> Byte]
    BY <2>1, <2>3
  <2> HIDE DEF m
  <2>5. block \in [1 .. m -> Nat]
    <3>1. \A x \in Byte : x \in Nat
      BY DEF Byte
    <3> QED BY <2>4, <3>1
  <2>6. block \in Seq(Nat) /\ Len(block) = m
    BY <2>4, <2>5, FunctionIsSeq
  <2> QED BY <2>6 DEF m
<1>3. BeWords(fn, block) = B
  BY DEF BeWords
<1> HIDE DEF n
<1>4. ASSUME NEW i \in 1 .. 16 PROVE f(i) \in Bits
  <2>1. /\ n * (i - 1) + 1 \in Int /\ n * i \in Int
        /\ 1 <= n * (i - 1) + 1 /\ n * i <= 16 * n
    BY <1>1
  <2> DEFINE lo == n * (i - 1) + 1
             hi == n * i
  <2>2. lo \in Int /\ hi \in Int /\ 1 <= lo /\ hi <= Len(block)
    BY <1>2, <2>1
  <2> HIDE DEF lo, hi
  <2>3. SubSeq(block, lo, hi) \in Seq(Nat)
    BY <1>2, <2>2
  <2> QED BY <2>3, FromLimbsIsBits DEF lo, hi
<1> HIDE DEF f
<1>5. B \in Seq(Bits) /\ Len(B) = 16 /\ \A i \in 1 .. 16 : B[i] = f(i)
  BY <1>4
<1> QED BY <1>3, <1>5 DEF f, n

\* Load and byte shuffle read the words of FIPS 180-4 from the block.
LEMMA LoadIs ==
  ASSUME NEW block \in BlockSet(SHA256), NEW k \in 0 .. 3, NEW j \in 0 .. 3
  PROVE  Load(block, k)[j] = BeWords(SHA256, block)[4 * k + j + 1]
<1> DEFINE i  == 4 * k + j + 1
           lo == 4 * (i - 1) + 1
           hi == 4 * i
           a  == [b \in 1 .. 4 |-> block[16 * k + MASK[4 * j + 5 - b] + 1]]
           c  == SubSeq(block, lo, hi)
<1>1. SHA256.w = 32
  BY DEF SHA256
<1>2. block \in [1 .. 64 -> Byte]
  BY <1>1 DEF BlockSet
<1>3. Load(block, k)[j] = FromLimbs(a, 8)
  BY DEF Load, Lanes
<1>4. i \in 1 .. 16
  OBVIOUS
<1>5. BeWords(SHA256, block)[i] = FromLimbs(c, 8)
  <2>1. SHA256.w \in {32, 64} /\ SHA256.w \div 8 = 4
    BY <1>1
  <2>2. BeWords(SHA256, block) = [n \in 1 .. 16 |-> FromLimbs(SubSeq(block, 4 * (n - 1) + 1, 4 * n), 8)]
    BY <2>1 DEF BeWords
  <2> HIDE DEF i
  <2> QED BY <1>4, <2>2
<1>6. block \in Seq(Byte) /\ Len(block) = 64
  BY <1>2, FunctionIsSeq
<1>7. lo \in 1 .. 61 /\ hi = lo + 3 /\ lo = 16 * k + 4 * j + 1
  OBVIOUS
<1>8. ASSUME NEW b \in 1 .. 4 PROVE MASK[4 * j + 5 - b] = 4 * j + b - 1
  <2>1. /\ MASK[1] = 3 /\ MASK[2] = 2 /\ MASK[3] = 1 /\ MASK[4] = 0
        /\ MASK[5] = 7 /\ MASK[6] = 6 /\ MASK[7] = 5 /\ MASK[8] = 4
        /\ MASK[9] = 11 /\ MASK[10] = 10 /\ MASK[11] = 9 /\ MASK[12] = 8
        /\ MASK[13] = 15 /\ MASK[14] = 14 /\ MASK[15] = 13 /\ MASK[16] = 12
    BY DEF MASK
  <2>2. j = 0 \/ j = 1 \/ j = 2 \/ j = 3
    OBVIOUS
  <2>3. b = 1 \/ b = 2 \/ b = 3 \/ b = 4
    OBVIOUS
  <2> QED BY <2>1, <2>2, <2>3
<1>9. c = [b \in 1 .. 4 |-> block[lo + b - 1]]
  <2> HIDE DEF lo, hi
  <2> QED BY <1>6, <1>7
<1>10. ASSUME NEW b \in 1 .. 4
       PROVE  block[16 * k + MASK[4 * j + 5 - b] + 1] = block[lo + b - 1]
  <2>1. 16 * k + (4 * j + b - 1) + 1 = lo + b - 1
    BY <1>7
  <2> QED BY <1>8, <2>1
<1>11. a = c
  BY <1>9, <1>10
<1> QED BY <1>3, <1>5, <1>11

\* compress() begins where FIPS 180-4 does.
LEMMA LoadedAgrees ==
  ASSUME NEW fn, fn.w \in {32, 64}, NEW chn \in [1 .. 8 -> Bits], NEW block \in BlockSet(fn)
  PROVE  LET s == Loaded(fn, chn, block)
         IN  /\ s \in PortableLocals
             /\ VarsAgree(s.v, chn, 0) /\ RingHolds(s.w, BeWords(fn, block), 0)
<1> DEFINE B == BeWords(fn, block)
           v == [r \in 0 .. 7 |-> chn[r + 1]]
           w == [i \in 0 .. 15 |-> B[i + 1]]
<1>1. B \in Seq(Bits) /\ Len(B) = 16
  BY BeWordsType
<1>2. Loaded(fn, chn, block) = [v |-> v, w |-> w]
  BY DEF Loaded
<1> HIDE DEF B
<1>3. v \in [0 .. 7 -> Bits] /\ w \in [0 .. 15 -> Bits]
  <2>1. ASSUME NEW i \in 0 .. 15 PROVE B[i + 1] \in Bits
    <3>1. i + 1 \in 1 .. Len(B)
      BY <1>1
    <3> QED BY <1>1, <3>1, Element
  <2> QED BY <2>1
<1>4. VarsAgree(v, chn, 0)
  <2>1. \A r \in 0 .. 7 : Named(0, r) = r
    BY DEF Named
  <2> QED BY <1>3, <2>1 DEF VarsAgree
<1>5. RingHolds(w, B, 0)
  <2>1. Known(0) = 16 /\ 16 - 15 = 1
    BY DEF Known
  <2>2. \A t \in 1 .. 16 : (t - 1) % 16 = t - 1 /\ t - 1 \in 0 .. 15 /\ t - 1 + 1 = t
    OBVIOUS
  <2>3. \A t \in 1 .. 16 : w[(t - 1) % 16] = B[t]
    BY <2>2
  <2> HIDE DEF w
  <2> QED BY <1>1, <1>3, <2>1, <2>3 DEF RingHolds
<1> HIDE DEF v, w
<1> QED BY <1>2, <1>3, <1>4, <1>5 DEF B, PortableLocals

\* So does a block of compress_blocks_sha_ni.
LEMMA NiLoadedAgrees ==
  ASSUME NEW s \in Pair, NEW block \in BlockSet(SHA256)
  PROVE  LET u == NiLoaded(s, block)
         IN  /\ u \in NiLocals /\ u.abef = s.abef /\ u.cdgh = s.cdgh /\ u.save = s
             /\ LanesHold(u.w, BeWords(SHA256, block), 0)
<1> DEFINE B == BeWords(SHA256, block)
           z == Lanes(LAMBDA j : {})
           w == [k \in 0 .. 4 |-> IF k = 4 THEN z ELSE Load(block, k)]
<1>1. B \in Seq(Bits) /\ Len(B) = 16
  <2>1. SHA256.w \in {32, 64}
    BY DEF SHA256
  <2> QED BY <2>1, BeWordsType
<1>2. NiLoaded(s, block) = [abef |-> s.abef, cdgh |-> s.cdgh, save |-> s, w |-> w]
  BY DEF NiLoaded
<1>3. s.abef \in Lane4 /\ s.cdgh \in Lane4
  BY DEF Pair
<1>4. z \in Lane4
  BY DEF Lanes, Lane4, Bits
<1>5. \A k, j \in 0 .. 3 : Load(block, k)[j] = B[4 * k + j + 1]
  BY LoadIs
<1> HIDE DEF B, z
<1>6. ASSUME NEW k \in 0 .. 3 PROVE Load(block, k) \in Lane4
  <2>1. ASSUME NEW j \in 0 .. 3 PROVE Load(block, k)[j] \in Bits
    <3> DEFINE i == 4 * k + j + 1
    <3>1. i \in 1 .. Len(B)
      BY <1>1
    <3>2. Load(block, k)[j] = B[i]
      BY <1>5
    <3> HIDE DEF i
    <3> QED BY <1>1, <3>1, <3>2, Element
  <2>2. Load(block, k) = [j \in 0 .. 3 |-> Load(block, k)[j]]
    BY DEF Load, Lanes
  <2> QED BY <2>1, <2>2 DEF Lane4
<1>7. w \in [0 .. 4 -> Lane4]
  <2>1. \A k \in 0 .. 4 : k = 4 \/ k \in 0 .. 3
    OBVIOUS
  <2> QED BY <1>4, <1>6, <2>1
<1>8. LanesHold(w, B, 0)
  <2>1. Known(0) = 16 /\ 16 - 15 = 1
    BY DEF Known
  <2>2. ASSUME NEW t \in 1 .. 16 PROVE w[((t - 1) \div 4) % 5][(t - 1) % 4] = B[t]
    <3> DEFINE k == (t - 1) \div 4
               j == (t - 1) % 4
    <3>1. k \in 0 .. 3 /\ j \in 0 .. 3 /\ k % 5 = k /\ 4 * k + j + 1 = t
      OBVIOUS
    <3> HIDE DEF k, j
    <3>2. w[k % 5] = Load(block, k)
      BY <3>1
    <3>3. Load(block, k)[j] = B[4 * k + j + 1]
      BY <1>5, <3>1
    <3>4. w[k % 5][j] = B[t]
      BY <3>1, <3>2, <3>3
    <3> QED BY <3>4 DEF k, j
  <2> HIDE DEF w
  <2> QED BY <1>1, <1>7, <2>1, <2>2 DEF LanesHold
<1> HIDE DEF w
<1>9. [abef |-> s.abef, cdgh |-> s.cdgh, save |-> s, w |-> w] \in NiLocals
  BY <1>3, <1>7 DEF NiLocals, Pair
<1> QED BY <1>2, <1>8, <1>9 DEF B

\* The sum of two states.
LEMMA AddWordsType ==
  ASSUME NEW fn, fn.w \in Nat, NEW c \in [1 .. 8 -> Bits], NEW f
  PROVE  /\ AddWords(fn, c, f) \in [1 .. 8 -> Bits]
         /\ \A i \in 1 .. 8 : AddWords(fn, c, f)[i] = Add(fn.w, c[i], f[i])
<1>1. Len(c) = 8
  BY FunctionIsSeq
<1>2. AddWords(fn, c, f) = [i \in 1 .. 8 |-> Add(fn.w, c[i], f[i])]
  BY <1>1 DEF AddWords
<1>3. \A i \in 1 .. 8 : Add(fn.w, c[i], f[i]) \in Bits
  BY AddIsBits
<1> QED BY <1>2, <1>3

\* After a number of rounds that eight divides, the names are back in their
\* places and the feed-forward of compress() is that of FIPS 180-4.
LEMMA FeedForwardAgrees ==
  ASSUME NEW fn, fn.w \in Nat, fn.rounds \in {64, 80},
         NEW s \in PortableLocals, NEW f, VarsAgree(s.v, f, fn.rounds),
         NEW c
  PROVE  FeedForward(fn, c, s) = AddWords(fn, c, f)
<1>1. ASSUME NEW i \in 1 .. 8 PROVE s.v[i - 1] = f[i]
  <2>1. i - 1 \in 0 .. 7 /\ i - 1 + 1 = i
    OBVIOUS
  <2>2. Named(fn.rounds, i - 1) = i - 1
    BY <2>1 DEF Named
  <2>3. \A r \in 0 .. 7 : f[r + 1] = s.v[Named(fn.rounds, r)]
    BY DEF VarsAgree
  <2>4. f[i - 1 + 1] = s.v[Named(fn.rounds, i - 1)]
    BY <2>1, <2>3
  <2> QED BY <2>1, <2>2, <2>4
<1>2. f \in [1 .. 8 -> Bits]
  BY DEF VarsAgree
<1>3. [i \in 1 .. 8 |-> s.v[i - 1]] = f
  BY <1>1, <1>2
<1> QED BY <1>3 DEF FeedForward

\* The feed-forward of the two vectors, as one of states.
LEMMA NiFeedForwardAgrees ==
  ASSUME NEW s \in NiLocals
  PROVE  LET u == NiFeedForward(s)
         IN  /\ u \in Pair
             /\ View(u.abef, u.cdgh)
                  = AddWords(SHA256, View(s.save.abef, s.save.cdgh), View(s.abef, s.cdgh))
<1> DEFINE p == s.save.abef
           q == s.save.cdgh
           a == AddEpi32(s.abef, p)
           b == AddEpi32(s.cdgh, q)
           c == View(p, q)
           f == View(s.abef, s.cdgh)
           v == View(a, b)
           z == AddWords(SHA256, c, f)
<1>1. SHA256.w = 32 /\ SHA256.w \in Nat
  BY DEF SHA256
<1>2. s.abef \in Lane4 /\ s.cdgh \in Lane4 /\ p \in Lane4 /\ q \in Lane4
  BY DEF NiLocals
<1>3. NiFeedForward(s) = [abef |-> a, cdgh |-> b]
  BY DEF NiFeedForward
<1> HIDE DEF p, q
<1>4. ASSUME NEW x, NEW y
      PROVE  /\ AddEpi32(x, y) \in Lane4
             /\ \A j \in 0 .. 3 : AddEpi32(x, y)[j] = Add(32, y[j], x[j])
  <2>1. AddEpi32(x, y) = [j \in 0 .. 3 |-> Add(32, x[j], y[j])]
    BY DEF AddEpi32, Lanes
  <2>2. \A j \in 0 .. 3 : Add(32, x[j], y[j]) \in Bits /\ Add(32, x[j], y[j]) = Add(32, y[j], x[j])
    BY AddIsBits, AddCommutes
  <2> QED BY <2>1, <2>2 DEF Lane4
<1>5. /\ a \in Lane4 /\ b \in Lane4
      /\ a[0] = Add(32, p[0], s.abef[0]) /\ a[1] = Add(32, p[1], s.abef[1])
      /\ a[2] = Add(32, p[2], s.abef[2]) /\ a[3] = Add(32, p[3], s.abef[3])
      /\ b[0] = Add(32, q[0], s.cdgh[0]) /\ b[1] = Add(32, q[1], s.cdgh[1])
      /\ b[2] = Add(32, q[2], s.cdgh[2]) /\ b[3] = Add(32, q[3], s.cdgh[3])
  BY <1>4
<1> HIDE DEF a, b
<1>6. c \in [1 .. 8 -> Bits] /\ v \in [1 .. 8 -> Bits]
  BY <1>2, <1>5, ViewType
<1>7. /\ c[1] = p[3] /\ c[2] = p[2] /\ c[3] = q[3] /\ c[4] = q[2]
      /\ c[5] = p[1] /\ c[6] = p[0] /\ c[7] = q[1] /\ c[8] = q[0]
      /\ f[1] = s.abef[3] /\ f[2] = s.abef[2] /\ f[3] = s.cdgh[3] /\ f[4] = s.cdgh[2]
      /\ f[5] = s.abef[1] /\ f[6] = s.abef[0] /\ f[7] = s.cdgh[1] /\ f[8] = s.cdgh[0]
      /\ v[1] = a[3] /\ v[2] = a[2] /\ v[3] = b[3] /\ v[4] = b[2]
      /\ v[5] = a[1] /\ v[6] = a[0] /\ v[7] = b[1] /\ v[8] = b[0]
  BY DEF View
<1> HIDE DEF c, f, v
<1>8. z \in [1 .. 8 -> Bits] /\ \A i \in 1 .. 8 : z[i] = Add(32, c[i], f[i])
  BY <1>1, <1>6, AddWordsType
<1> HIDE DEF z
<1>9. /\ z[1] = Add(32, c[1], f[1]) /\ z[2] = Add(32, c[2], f[2])
      /\ z[3] = Add(32, c[3], f[3]) /\ z[4] = Add(32, c[4], f[4])
      /\ z[5] = Add(32, c[5], f[5]) /\ z[6] = Add(32, c[6], f[6])
      /\ z[7] = Add(32, c[7], f[7]) /\ z[8] = Add(32, c[8], f[8])
  BY <1>8
<1>10. v = z
  BY <1>5, <1>6, <1>7, <1>8, <1>9, EightEqual
<1>11. [abef |-> a, cdgh |-> b] \in Pair
  BY <1>5 DEF Pair
<1> QED BY <1>3, <1>10, <1>11 DEF v, z, c, f, p, q

\* The tables of the initial vectors.
LEMMA IVTypes ==
  /\ IV_512 \in [1 .. 8 -> [1 .. 4 -> Nat]]
  /\ IV_384 \in [1 .. 8 -> [1 .. 4 -> Nat]]
  BY DEF IV_512, IV_384

\* An entry of such a table makes a word.
LEMMA LimbsType ==
  ASSUME NEW s, s \in [1 .. 4 -> Nat], NEW n \in 1 .. 4
  PROVE  FromLimbs(SubSeq(s, 1, n), 16) \in Bits
<1>1. s \in Seq(Nat) /\ Len(s) = 4
  BY FunctionIsSeq
<1>2. SubSeq(s, 1, n) \in Seq(Nat)
  BY <1>1
<1> QED BY <1>2, FromLimbsIsBits

\* Such a table makes a state.
LEMMA WordsType ==
  ASSUME NEW t, t \in [1 .. 8 -> [1 .. 4 -> Nat]], NEW w \in {32, 64}
  PROVE  Words(t, w) \in [1 .. 8 -> Bits]
<1> DEFINE n == w \div 16
<1>1. n \in 1 .. 4
  OBVIOUS
<1> HIDE DEF n
<1>2. \A i \in 1 .. 8 : t[i] \in [1 .. 4 -> Nat]
  OBVIOUS
<1>3. \A i \in 1 .. 8 : FromLimbs(SubSeq(t[i], 1, n), 16) \in Bits
  BY <1>1, <1>2, LimbsType
<1>4. Words(t, w) = [i \in 1 .. 8 |-> FromLimbs(SubSeq(t[i], 1, n), 16)]
  BY DEF Words, n
<1> QED BY <1>3, <1>4

\* The three hash functions.
LEMMA HashFacts ==
  ASSUME NEW h \in DOMAIN Hash
  PROVE  /\ Hash[h].fn.w \in {32, 64} /\ Hash[h].fn.rounds \in {64, 80}
         /\ Hash[h].iv \in [1 .. 8 -> Bits]
         /\ h = "Sha256" => Hash[h].fn = SHA256
<1>1. /\ SHA256.w = 32 /\ SHA256.rounds = 64 /\ SHA512.w = 64 /\ SHA512.rounds = 80
  BY DEF SHA256, SHA512
<1>2. /\ Words(IV_512, 32) \in [1 .. 8 -> Bits]
      /\ Words(IV_384, 64) \in [1 .. 8 -> Bits]
      /\ Words(IV_512, 64) \in [1 .. 8 -> Bits]
  BY IVTypes, WordsType
<1>3. h \in {"Sha256", "Sha384", "Sha512"}
  BY DEF Hash
<1>4. /\ Hash["Sha256"] = [fn |-> SHA256, iv |-> Words(IV_512, 32)]
      /\ Hash["Sha384"] = [fn |-> SHA512, iv |-> Words(IV_384, 64)]
      /\ Hash["Sha512"] = [fn |-> SHA512, iv |-> Words(IV_512, 64)]
  BY DEF Hash
<1> QED BY <1>1, <1>2, <1>3, <1>4

(***************************************************************************)
(* The inductive invariant and its steps.                                  *)
(***************************************************************************)
\* The locals have the shape of the code that is running.
TypeOK ==
  /\ msg \in Message
  /\ chain \in [1 .. 8 -> Bits]
  /\ done \in 0 .. Len(msg.blocks)
  /\ left \in 0 .. Len(msg.blocks) - done
  /\ at \in 0 .. Fn.rounds
  /\ ref \in RefSet
  /\ \/ cpu = Idle
     \/ cpu.backend = "portable" /\ cpu.s \in PortableLocals
     \/ cpu.backend = "sha_ni" /\ cpu.s \in NiLocals
  /\ cpu = [backend |-> cpu.backend, s |-> cpu.s]

\* The three properties are not inductive.  RoundsAgree needs the words the
\* next round reads, so the schedule; ScheduleAgrees needs all sixteen words to
\* be there, so the lengths; ChainAgrees needs what the call keeps until its end:
\* the chaining state for the portable code, the saved vectors for the SHA-NI
\* code, whose caller's chain is stale after the first block.
IInv ==
  /\ TypeOK
  /\ cpu = Idle <=> left = 0
  /\ cpu = Idle => at = 0
  /\ cpu.backend # "sha_ni" => chain = ref.chain
  /\ at = 0 => ref.v = ref.chain
  /\ at = 0 /\ done < Len(msg.blocks) => ref.W = BeWords(Fn, msg.blocks[done + 1])
  /\ cpu.backend = "portable" =>
       VarsAgree(cpu.s.v, ref.v, at) /\ RingHolds(cpu.s.w, ref.W, at)
  /\ cpu.backend = "sha_ni" =>
       /\ msg.hash = "Sha256"
       /\ at % 4 = 0
       /\ View(cpu.s.abef, cpu.s.cdgh) = ref.v
       /\ View(cpu.s.save.abef, cpu.s.save.cdgh) = ref.chain
       /\ LanesHold(cpu.s.w, ref.W, at)

\* What the assumption about messages gives.
LEMMA MessageFacts ==
  ASSUME msg \in Message
  PROVE  /\ Fn.w \in {32, 64} /\ Fn.w \in Nat /\ Fn.rounds \in {64, 80}
         /\ Hash[msg.hash].iv \in [1 .. 8 -> Bits]
         /\ msg.hash = "Sha256" => Fn = SHA256
         /\ msg.blocks \in Seq(BlockSet(Fn)) /\ Len(msg.blocks) \in Nat \ {0}
         /\ \A n \in 1 .. Len(msg.blocks) : msg.blocks[n] \in BlockSet(Fn)
<1>1. /\ msg.hash \in DOMAIN Hash
      /\ msg.blocks \in Seq([1 .. 2 * Fn.w -> 0 .. 255]) /\ msg.blocks # << >>
  BY MessageAssumption DEF Fn
<1>2. /\ Fn.w \in {32, 64} /\ Fn.rounds \in {64, 80}
      /\ Hash[msg.hash].iv \in [1 .. 8 -> Bits]
      /\ msg.hash = "Sha256" => Fn = SHA256
  BY <1>1, HashFacts DEF Fn
<1>3. BlockSet(Fn) = [1 .. 2 * Fn.w -> 0 .. 255]
  BY DEF BlockSet, Byte
<1> HIDE DEF Fn
<1>4. msg.blocks \in Seq(BlockSet(Fn))
  BY <1>1, <1>3
<1>5. Len(msg.blocks) \in Nat \ {0} /\ \A n \in 1 .. Len(msg.blocks) : msg.blocks[n] \in BlockSet(Fn)
  BY <1>1, <1>4
<1> QED BY <1>2, <1>4, <1>5

\* The reference begins a block with a state.
LEMMA RefBlockType ==
  ASSUME msg \in Message, NEW c \in [1 .. 8 -> Bits], NEW n \in 1 .. Len(msg.blocks)
  PROVE  RefBlock(c, n) \in RefSet
<1>1. Fn.w \in {32, 64} /\ msg.blocks[n] \in BlockSet(Fn)
  BY MessageFacts
<1>2. BeWords(Fn, msg.blocks[n]) \in Seq(Bits)
  <2> HIDE DEF Fn
  <2> QED BY <1>1, BeWordsType
<1> QED BY <1>2 DEF RefBlock, RefSet

\* The invariant holds initially.
LEMMA InitIInv == Init => IInv
<1> SUFFICES ASSUME Init PROVE IInv
  OBVIOUS
<1>1. msg \in Message /\ Hash[msg.hash].iv \in [1 .. 8 -> Bits] /\ Len(msg.blocks) \in Nat \ {0}
      /\ Fn.rounds \in {64, 80}
  BY MessageFacts DEF Init
<1>2. /\ chain = Hash[msg.hash].iv /\ done = 0 /\ left = 0 /\ cpu = Idle /\ at = 0
      /\ ref = RefBlock(chain, 1)
  BY DEF Init
<1> DEFINE N == Len(msg.blocks)
<1> HIDE DEF Fn, N
<1>3. ref \in RefSet
  BY <1>1, <1>2, RefBlockType DEF N
<1>4. ref.chain = chain /\ ref.v = chain /\ ref.W = BeWords(Fn, msg.blocks[1])
  BY <1>2 DEF RefBlock
<1>5. cpu.backend = "none" /\ cpu = [backend |-> cpu.backend, s |-> cpu.s]
  BY <1>2 DEF Idle
<1>6. done \in 0 .. N /\ left \in 0 .. N - done /\ at \in 0 .. Fn.rounds
  BY <1>1, <1>2 DEF N
<1>7. TypeOK
  BY <1>1, <1>2, <1>3, <1>5, <1>6 DEF TypeOK, N
<1>8. done + 1 = 1
  BY <1>2
<1> QED BY <1>2, <1>4, <1>5, <1>7, <1>8 DEF IInv

\* A call loads the block and leaves the reference alone.
LEMMA CallsIInv ==
  ASSUME IInv, NEW n \in 1 .. Len(msg.blocks), CallPortable(n) \/ CallShaNi(n)
  PROVE  IInv'
<1> DEFINE N == Len(msg.blocks)
           block == msg.blocks[done + 1]
<1>1. /\ cpu = Idle /\ n <= N - done /\ left' = n
      /\ msg' = msg /\ chain' = chain /\ done' = done /\ at' = at /\ ref' = ref
  BY DEF CallPortable, CallShaNi, Call
<1>2. /\ msg \in Message /\ chain \in [1 .. 8 -> Bits] /\ ref \in RefSet
      /\ done \in 0 .. N /\ at = 0 /\ chain = ref.chain /\ ref.v = ref.chain
      /\ done < N => ref.W = BeWords(Fn, block)
      /\ at \in 0 .. Fn.rounds
  BY <1>1 DEF IInv, TypeOK, Idle
<1>3. /\ Fn.w \in {32, 64} /\ N \in Nat
      /\ msg.hash = "Sha256" => Fn = SHA256
      /\ \A k \in 1 .. N : msg.blocks[k] \in BlockSet(Fn)
  BY <1>2, MessageFacts
<1> HIDE DEF Fn
<1>4. done < N /\ done + 1 \in 1 .. N /\ n \in 0 .. N - done /\ n # 0
  BY <1>1, <1>2, <1>3
<1>5. block \in BlockSet(Fn) /\ ref.W = BeWords(Fn, block)
  BY <1>2, <1>3, <1>4
<1>6. Fn' = Fn /\ N' = N /\ block' = block
  BY <1>1 DEF Fn
<1>7. CASE CallPortable(n)
  <2> DEFINE s == Loaded(Fn, chain, block)
  <2>1. cpu' = [backend |-> "portable", s |-> s]
    BY <1>7 DEF CallPortable, Call
  <2>2. s \in PortableLocals /\ VarsAgree(s.v, ref.v, 0) /\ RingHolds(s.w, ref.W, 0)
    <3> HIDE DEF block
    <3> QED BY <1>2, <1>3, <1>5, LoadedAgrees
  <2> HIDE DEF s
  <2>3. cpu'.backend = "portable" /\ cpu'.s = s /\ cpu' # Idle'
    BY <2>1 DEF Idle
  <2>4. TypeOK'
    BY <1>1, <1>2, <1>4, <1>6, <2>1, <2>2, <2>3 DEF TypeOK
  <2> QED BY <1>1, <1>2, <1>4, <1>5, <1>6, <2>2, <2>3, <2>4 DEF IInv
<1>8. CASE CallShaNi(n)
  <2> DEFINE p == Packed(chain)
             s == NiLoaded(p, block)
  <2>1. cpu' = [backend |-> "sha_ni", s |-> s] /\ msg.hash = "Sha256"
    BY <1>8 DEF CallShaNi, Call
  <2>2. Fn = SHA256
    BY <1>3, <2>1
  <2>3. p \in Pair /\ View(p.abef, p.cdgh) = chain
    BY <1>2, PackedIs DEF Pair
  <2> HIDE DEF p
  <2>4. /\ s \in NiLocals /\ s.abef = p.abef /\ s.cdgh = p.cdgh /\ s.save = p
        /\ LanesHold(s.w, ref.W, 0)
    <3> HIDE DEF block
    <3> QED BY <1>5, <2>2, <2>3, NiLoadedAgrees
  <2> HIDE DEF s
  <2>5. cpu'.backend = "sha_ni" /\ cpu'.s = s /\ cpu' # Idle'
    BY <2>1 DEF Idle
  <2>6. TypeOK'
    BY <1>1, <1>2, <1>4, <1>6, <2>1, <2>4, <2>5 DEF TypeOK
  <2> QED BY <1>1, <1>2, <1>4, <1>5, <1>6, <2>1, <2>3, <2>4, <2>5, <2>6 DEF IInv
<1> QED BY <1>7, <1>8

\* A round of the portable code preserves it.
LEMMA PortableRoundIInv ==
  ASSUME IInv, PortableRound
  PROVE  IInv'
<1> DEFINE u == IF at < 16 THEN Rounded(Fn, cpu.s, at) ELSE RoundedExtending(Fn, cpu.s, at)
           q == FipsRound(Fn, ref, at + 1)
<1>1. /\ cpu.backend = "portable" /\ at < Fn.rounds /\ at' = at + 1
      /\ cpu' = [cpu EXCEPT !.s = u] /\ ref' = q
      /\ msg' = msg /\ chain' = chain /\ done' = done /\ left' = left
  BY DEF PortableRound, Step
<1>2. /\ msg \in Message /\ chain \in [1 .. 8 -> Bits] /\ ref \in RefSet
      /\ done \in 0 .. Len(msg.blocks) /\ left \in 0 .. Len(msg.blocks) - done
      /\ at \in 0 .. Fn.rounds
      /\ cpu = [backend |-> cpu.backend, s |-> cpu.s]
      /\ cpu # Idle /\ left # 0 /\ chain = ref.chain
      /\ cpu.s \in PortableLocals
      /\ VarsAgree(cpu.s.v, ref.v, at) /\ RingHolds(cpu.s.w, ref.W, at)
  BY <1>1 DEF IInv, TypeOK, Idle
<1>3. Fn.w \in Nat /\ Fn.rounds \in {64, 80}
  BY <1>2, MessageFacts
<1> HIDE DEF Fn
<1>4. at \in Nat /\ at + 1 \in 0 .. Fn.rounds /\ at + 1 # 0
  BY <1>1, <1>2, <1>3
<1>5. /\ u \in PortableLocals /\ q \in RefSet /\ q.chain = ref.chain
      /\ VarsAgree(u.v, q.v, at + 1) /\ RingHolds(u.w, q.W, at + 1)
  <2>1. LET v == IF at < 16 THEN Rounded(Fn, cpu.s, at) ELSE RoundedExtending(Fn, cpu.s, at)
            z == FipsRound(Fn, ref, at + 1)
        IN  /\ v \in PortableLocals
            /\ z \in RefSet /\ z.chain = ref.chain
            /\ VarsAgree(v.v, z.v, at + 1) /\ RingHolds(v.w, z.W, at + 1)
    BY <1>2, <1>3, <1>4, PortableRoundAgrees
  <2> QED BY <2>1
<1> HIDE DEF u, q
<1>6. cpu' = [backend |-> "portable", s |-> u]
  BY <1>1, <1>2
<1>7. cpu'.backend = "portable" /\ cpu'.s = u /\ cpu' # Idle' /\ Fn' = Fn
  BY <1>1, <1>6 DEF Idle, Fn
<1>8. TypeOK'
  BY <1>1, <1>2, <1>4, <1>5, <1>6, <1>7 DEF TypeOK
<1> QED BY <1>1, <1>2, <1>4, <1>5, <1>7, <1>8 DEF IInv

\* Four rounds of the SHA-NI code preserve it.
LEMMA ShaNiRoundsIInv ==
  ASSUME IInv, ShaNiRounds
  PROVE  IInv'
<1> DEFINE u == NiGroup(cpu.s, at \div 4)
           q == FipsRounds4(Fn, ref, at + 1)
<1>1. /\ cpu.backend = "sha_ni" /\ at < Fn.rounds /\ at' = at + 4
      /\ cpu' = [cpu EXCEPT !.s = u] /\ ref' = q
      /\ msg' = msg /\ chain' = chain /\ done' = done /\ left' = left
  BY DEF ShaNiRounds, Step
<1>2. /\ msg \in Message /\ chain \in [1 .. 8 -> Bits] /\ ref \in RefSet
      /\ done \in 0 .. Len(msg.blocks) /\ left \in 0 .. Len(msg.blocks) - done
      /\ at \in 0 .. Fn.rounds
      /\ cpu = [backend |-> cpu.backend, s |-> cpu.s]
      /\ cpu # Idle /\ left # 0
      /\ cpu.s \in NiLocals /\ msg.hash = "Sha256" /\ at % 4 = 0
      /\ View(cpu.s.abef, cpu.s.cdgh) = ref.v
      /\ View(cpu.s.save.abef, cpu.s.save.cdgh) = ref.chain
      /\ LanesHold(cpu.s.w, ref.W, at)
  BY <1>1 DEF IInv, TypeOK, Idle
<1>3. Fn = SHA256 /\ Fn.rounds = 64
  <2>1. Fn = SHA256
    BY <1>2, MessageFacts
  <2> QED BY <2>1 DEF SHA256
<1> HIDE DEF Fn
<1> DEFINE g == at \div 4
<1>4. /\ at = 4 * g /\ g \in Nat /\ at + 4 \in 0 .. Fn.rounds /\ at + 4 # 0 /\ (at + 4) % 4 = 0
  <2>1. ASSUME NEW i \in 0 .. 64, i < 64, i % 4 = 0
        PROVE  /\ i = 4 * (i \div 4) /\ i \div 4 \in Nat
               /\ i + 4 \in 0 .. 64 /\ i + 4 # 0 /\ (i + 4) % 4 = 0
    BY <2>1
  <2>2. at \in 0 .. 64 /\ at < 64 /\ at % 4 = 0
    BY <1>1, <1>2, <1>3
  <2> QED BY <1>3, <2>1, <2>2
<1>5. /\ u \in NiLocals /\ u.save = cpu.s.save /\ q \in RefSet /\ q.chain = ref.chain
      /\ View(u.abef, u.cdgh) = q.v /\ LanesHold(u.w, q.W, at + 4)
  <2> HIDE DEF g
  <2>1. LET v == NiGroup(cpu.s, g)
            z == FipsRounds4(SHA256, ref, 4 * g + 1)
        IN  /\ v \in NiLocals /\ v.save = cpu.s.save
            /\ z \in RefSet /\ z.chain = ref.chain
            /\ View(v.abef, v.cdgh) = z.v
            /\ LanesHold(v.w, z.W, 4 * g + 4)
    BY <1>2, <1>4, NiGroupAgrees
  <2> QED BY <1>3, <1>4, <2>1 DEF g
<1> HIDE DEF u, q, g
<1>6. cpu' = [backend |-> "sha_ni", s |-> u]
  BY <1>1, <1>2
<1>7. cpu'.backend = "sha_ni" /\ cpu'.s = u /\ cpu' # Idle' /\ Fn' = Fn
  BY <1>1, <1>6 DEF Idle, Fn
<1>8. TypeOK'
  BY <1>1, <1>2, <1>4, <1>5, <1>6, <1>7 DEF TypeOK
<1> QED BY <1>1, <1>2, <1>4, <1>5, <1>7, <1>8 DEF IInv

\* What the two ends of a block have in common.
LEMMA BlockEnds ==
  ASSUME IInv, PortableEnd \/ ShaNiEnd
  PROVE  LET sum == AddWords(Fn, ref.chain, ref.v)
             N   == Len(msg.blocks)
         IN  /\ msg' = msg /\ at' = 0 /\ done' = done + 1 /\ left' = left - 1
             /\ sum \in [1 .. 8 -> Bits]
             /\ ref' \in RefSet /\ ref'.chain = sum /\ ref'.v = sum
             /\ done' < N => ref'.W = BeWords(Fn, msg.blocks[done + 2])
             /\ done' \in 0 .. N /\ left' \in 0 .. N - done' /\ 0 \in 0 .. Fn.rounds
             /\ left # 1 => left' # 0 /\ done + 2 \in 1 .. N
             /\ left = 1 => left' = 0
<1> DEFINE sum == AddWords(Fn, ref.chain, ref.v)
           N   == Len(msg.blocks)
<1>1. /\ msg' = msg /\ at' = 0 /\ done' = done + 1 /\ left' = left - 1
      /\ ref' = IF done + 1 < N THEN RefBlock(sum, done + 2)
                ELSE [chain |-> sum, v |-> sum, W |-> << >>]
      /\ cpu # Idle
  BY DEF PortableEnd, ShaNiEnd, EndBlock, Idle
<1>2. /\ msg \in Message /\ ref \in RefSet
      /\ done \in 0 .. N /\ left \in 0 .. N - done /\ left # 0
  BY <1>1 DEF IInv, TypeOK
<1>3. Fn.w \in Nat /\ Fn.rounds \in {64, 80} /\ N \in Nat
  BY <1>2, MessageFacts
<1> HIDE DEF Fn, N
<1>4. sum \in [1 .. 8 -> Bits]
  <2>1. ref.chain \in [1 .. 8 -> Bits]
    BY <1>2 DEF RefSet
  <2> QED BY <1>3, <2>1, AddWordsType
<1> HIDE DEF sum
<1>5. /\ done' \in 0 .. N /\ left' \in 0 .. N - done' /\ 0 \in 0 .. Fn.rounds
      /\ left # 1 => left' # 0 /\ done + 2 \in 1 .. N
      /\ left = 1 => left' = 0
  BY <1>1, <1>2, <1>3
<1>6. /\ ref' \in RefSet /\ ref'.chain = sum /\ ref'.v = sum
      /\ done' < N => ref'.W = BeWords(Fn, msg.blocks[done + 2])
  <2>1. CASE done + 1 < N
    <3>1. done + 2 \in 1 .. N
      BY <1>2, <1>3, <2>1
    <3>2. RefBlock(sum, done + 2) \in RefSet
      BY <1>2, <1>4, <3>1, RefBlockType DEF N
    <3> QED BY <1>1, <2>1, <3>2 DEF RefBlock
  <2>2. CASE ~(done + 1 < N)
    <3>1. [chain |-> sum, v |-> sum, W |-> << >>] \in RefSet
      BY <1>4 DEF RefSet
    <3> QED BY <1>1, <2>2, <3>1
  <2> QED BY <2>1, <2>2
<1> QED BY <1>1, <1>4, <1>5, <1>6 DEF sum, N

\* The end of a block of the portable code preserves it.
LEMMA PortableEndIInv ==
  ASSUME IInv, PortableEnd
  PROVE  IInv'
<1> DEFINE N   == Len(msg.blocks)
           sum == AddWords(Fn, ref.chain, ref.v)
           block == msg.blocks[done + 2]
           s   == Loaded(Fn, sum, block)
<1>1. /\ cpu.backend = "portable" /\ at = Fn.rounds
      /\ chain' = FeedForward(Fn, chain, cpu.s)
      /\ cpu' = IF left = 1 THEN Idle
                ELSE [cpu EXCEPT !.s = Loaded(Fn, FeedForward(Fn, chain, cpu.s), block)]
  BY DEF PortableEnd, EndBlock
<1>2. /\ msg \in Message /\ cpu.s \in PortableLocals /\ chain = ref.chain
      /\ cpu = [backend |-> cpu.backend, s |-> cpu.s]
      /\ VarsAgree(cpu.s.v, ref.v, at)
  BY <1>1 DEF IInv, TypeOK, Idle
<1>3. /\ Fn.w \in {32, 64} /\ Fn.w \in Nat /\ Fn.rounds \in {64, 80}
      /\ \A n \in 1 .. N : msg.blocks[n] \in BlockSet(Fn)
  BY <1>2, MessageFacts
<1>4. /\ msg' = msg /\ at' = 0 /\ done' = done + 1 /\ left' = left - 1
      /\ sum \in [1 .. 8 -> Bits]
      /\ ref' \in RefSet /\ ref'.chain = sum /\ ref'.v = sum
      /\ done' < N => ref'.W = BeWords(Fn, block)
      /\ done' \in 0 .. N /\ left' \in 0 .. N - done' /\ 0 \in 0 .. Fn.rounds
      /\ left # 1 => left' # 0 /\ done + 2 \in 1 .. N
      /\ left = 1 => left' = 0
  BY BlockEnds
<1>5. Fn' = Fn /\ N' = N
  BY <1>4 DEF Fn
<1> HIDE DEF Fn
<1>6. FeedForward(Fn, chain, cpu.s) = sum
  <2>1. VarsAgree(cpu.s.v, ref.v, Fn.rounds)
    BY <1>1, <1>2
  <2> QED BY <1>2, <1>3, <2>1, FeedForwardAgrees
<1>7. chain' = sum /\ cpu' = IF left = 1 THEN Idle ELSE [backend |-> "portable", s |-> s]
  <2> HIDE DEF sum, block
  <2>1. [cpu EXCEPT !.s = s] = [backend |-> "portable", s |-> s]
    <3> HIDE DEF s
    <3> QED BY <1>1, <1>2
  <2> QED BY <1>1, <1>6, <2>1
<1>8. done' + 1 = done + 2 /\ done \in Int
  BY <1>4 DEF IInv, TypeOK
<1>9. CASE left = 1
  <2>1. cpu' = Idle' /\ cpu'.backend = "none" /\ cpu' = [backend |-> cpu'.backend, s |-> cpu'.s]
    BY <1>7, <1>9 DEF Idle
  <2> HIDE DEF sum, s
  <2>2. TypeOK'
    BY <1>2, <1>4, <1>5, <1>7, <2>1 DEF TypeOK
  <2> QED BY <1>4, <1>5, <1>7, <1>8, <1>9, <2>1, <2>2 DEF IInv
<1>10. CASE left # 1
  <2>1. block \in BlockSet(Fn)
    BY <1>3, <1>4, <1>10
  <2>2. s \in PortableLocals /\ VarsAgree(s.v, sum, 0) /\ RingHolds(s.w, BeWords(Fn, block), 0)
    <3> HIDE DEF sum, block
    <3> QED BY <1>3, <1>4, <2>1, LoadedAgrees
  <2> HIDE DEF s
  <2>3. cpu'.backend = "portable" /\ cpu'.s = s /\ cpu' # Idle'
        /\ cpu' = [backend |-> "portable", s |-> s]
    BY <1>7, <1>10 DEF Idle
  <2> HIDE DEF sum
  <2>4. TypeOK'
    BY <1>2, <1>4, <1>5, <1>7, <2>2, <2>3 DEF TypeOK
  <2>5. done' < N
    <3>1. N \in Nat
      BY <1>2, MessageFacts
    <3> HIDE DEF N
    <3> QED BY <1>4, <1>8, <1>10, <3>1
  <2> QED BY <1>4, <1>5, <1>7, <1>8, <1>10, <2>2, <2>3, <2>4, <2>5 DEF IInv
<1> QED BY <1>9, <1>10

\* The end of a block of the SHA-NI code preserves it, whether the call goes
\* on in its two vectors or unpacks them and returns.
LEMMA ShaNiEndIInv ==
  ASSUME IInv, ShaNiEnd
  PROVE  IInv'
<1> DEFINE N   == Len(msg.blocks)
           sum == AddWords(Fn, ref.chain, ref.v)
           p   == NiFeedForward(cpu.s)
           block == msg.blocks[done + 2]
           s   == NiLoaded(p, block)
<1>1. /\ cpu.backend = "sha_ni"
      /\ chain' = IF left = 1 THEN Unpacked(p) ELSE chain
      /\ cpu' = IF left = 1 THEN Idle ELSE [cpu EXCEPT !.s = s]
  BY DEF ShaNiEnd, EndBlock
<1>2. /\ msg \in Message /\ cpu.s \in NiLocals /\ chain \in [1 .. 8 -> Bits]
      /\ cpu = [backend |-> cpu.backend, s |-> cpu.s]
      /\ msg.hash = "Sha256"
      /\ View(cpu.s.abef, cpu.s.cdgh) = ref.v
      /\ View(cpu.s.save.abef, cpu.s.save.cdgh) = ref.chain
  BY <1>1 DEF IInv, TypeOK, Idle
<1>3. Fn = SHA256 /\ \A n \in 1 .. N : msg.blocks[n] \in BlockSet(Fn)
  BY <1>2, MessageFacts
<1>4. /\ msg' = msg /\ at' = 0 /\ done' = done + 1 /\ left' = left - 1
      /\ sum \in [1 .. 8 -> Bits]
      /\ ref' \in RefSet /\ ref'.chain = sum /\ ref'.v = sum
      /\ done' < N => ref'.W = BeWords(Fn, block)
      /\ done' \in 0 .. N /\ left' \in 0 .. N - done' /\ 0 \in 0 .. Fn.rounds
      /\ left # 1 => left' # 0 /\ done + 2 \in 1 .. N
      /\ left = 1 => left' = 0
  BY BlockEnds
<1>5. Fn' = Fn /\ N' = N
  BY <1>4 DEF Fn
<1> HIDE DEF Fn
<1>6. p \in Pair /\ View(p.abef, p.cdgh) = sum
  BY <1>2, <1>3, NiFeedForwardAgrees
<1> HIDE DEF p
<1>7. Unpacked(p) = sum
  BY <1>6, UnpackedIsView DEF Pair
<1>8. done' + 1 = done + 2 /\ done \in Int
  BY <1>4 DEF IInv, TypeOK
<1>9. CASE left = 1
  <2>1. cpu' = Idle' /\ cpu'.backend = "none" /\ cpu' = [backend |-> cpu'.backend, s |-> cpu'.s]
    BY <1>1, <1>9 DEF Idle
  <2>2. chain' = sum
    BY <1>1, <1>7, <1>9
  <2> HIDE DEF sum, s
  <2>3. TypeOK'
    BY <1>2, <1>4, <1>5, <2>1, <2>2 DEF TypeOK
  <2> QED BY <1>4, <1>5, <1>8, <1>9, <2>1, <2>2, <2>3 DEF IInv
<1>10. CASE left # 1
  <2>1. block \in BlockSet(SHA256)
    BY <1>3, <1>4, <1>10
  <2>2. /\ s \in NiLocals /\ s.abef = p.abef /\ s.cdgh = p.cdgh /\ s.save = p
        /\ LanesHold(s.w, BeWords(SHA256, block), 0)
    <3> HIDE DEF block
    <3> QED BY <1>6, <2>1, NiLoadedAgrees
  <2> HIDE DEF s
  <2>3. /\ cpu' = [backend |-> "sha_ni", s |-> s] /\ chain' = chain
        /\ cpu'.backend = "sha_ni" /\ cpu'.s = s /\ cpu' # Idle'
    BY <1>1, <1>2, <1>10 DEF Idle
  <2> HIDE DEF sum
  <2>4. TypeOK'
    BY <1>2, <1>4, <1>5, <2>2, <2>3 DEF TypeOK
  <2>5. done' < N
    <3>1. N \in Nat
      BY <1>2, MessageFacts
    <3> HIDE DEF N
    <3> QED BY <1>4, <1>8, <1>10, <3>1
  <2>6. 0 % 4 = 0
    OBVIOUS
  <2> QED BY <1>2, <1>3, <1>4, <1>5, <1>6, <1>8, <1>10, <2>2, <2>3, <2>4, <2>5, <2>6 DEF IInv
<1> QED BY <1>9, <1>10

\* Every step preserves the invariant.
LEMMA NextIInv == IInv /\ [Next]_vars => IInv'
<1> SUFFICES ASSUME IInv, [Next]_vars
             PROVE  IInv'
  OBVIOUS
<1>1. ASSUME NEW n \in 1 .. Len(msg.blocks), CallPortable(n) \/ CallShaNi(n)
      PROVE  IInv'
  BY <1>1, CallsIInv
<1>2. CASE PortableRound
  BY <1>2, PortableRoundIInv
<1>3. CASE PortableEnd
  BY <1>3, PortableEndIInv
<1>4. CASE ShaNiRounds
  BY <1>4, ShaNiRoundsIInv
<1>5. CASE ShaNiEnd
  BY <1>5, ShaNiEndIInv
<1>6. CASE UNCHANGED vars
  BY <1>6 DEF vars, IInv, TypeOK, Fn, Idle
<1> QED BY <1>1, <1>2, <1>3, <1>4, <1>5, <1>6 DEF Next

\* The invariant holds in every behaviour.
LEMMA Invariance == Spec => []IInv
  BY InitIInv, NextIInv, PTL DEF Spec

\* The properties follow from it.
LEMMA Consequences == IInv => RoundsAgree /\ ScheduleAgrees /\ ChainAgrees
<1> SUFFICES ASSUME IInv PROVE RoundsAgree /\ ScheduleAgrees /\ ChainAgrees
  OBVIOUS
<1>1. RoundsAgree
  <2>1. CASE cpu.backend = "portable"
    <3>1. /\ ref.v \in [1 .. 8 -> Bits]
          /\ \A r \in 0 .. 7 : ref.v[r + 1] = cpu.s.v[Named(at, r)]
      BY <2>1 DEF IInv, VarsAgree
    <3>2. ASSUME NEW i \in 1 .. 8 PROVE ref.v[i] = cpu.s.v[Named(at, i - 1)]
      <4>1. i - 1 \in 0 .. 7 /\ i - 1 + 1 = i
        OBVIOUS
      <4>2. ref.v[i - 1 + 1] = cpu.s.v[Named(at, i - 1)]
        BY <3>1, <4>1
      <4> QED BY <4>1, <4>2
    <3> QED BY <2>1, <3>1, <3>2 DEF RoundsAgree
  <2>2. CASE cpu.backend = "sha_ni"
    <3>1. cpu.s \in NiLocals /\ View(cpu.s.abef, cpu.s.cdgh) = ref.v
      BY <2>2 DEF IInv, TypeOK, Idle
    <3>2. cpu.s.abef \in Lane4 /\ cpu.s.cdgh \in Lane4
      BY <3>1 DEF NiLocals
    <3> QED BY <2>2, <3>1, <3>2, UnpackedIsView DEF RoundsAgree
  <2> QED BY <2>1, <2>2 DEF RoundsAgree
<1>2. ScheduleAgrees
  <2>1. CASE cpu.backend = "portable"
    BY <2>1 DEF IInv, RingHolds, ScheduleAgrees
  <2>2. CASE cpu.backend = "sha_ni"
    BY <2>2 DEF IInv, LanesHold, ScheduleAgrees
  <2> QED BY <2>1, <2>2 DEF ScheduleAgrees
<1>3. ChainAgrees
  BY DEF IInv, ChainAgrees, Idle
<1> QED BY <1>1, <1>2, <1>3

(***************************************************************************)
(* The theorems.                                                           *)
(***************************************************************************)
\* The locals have the shape of the code that is running, and no round or
\* block is counted beyond its end.
THEOREM TypeCorrect == Spec => []TypeOK
<1>1. IInv => TypeOK
  BY DEF IInv
<1> QED BY <1>1, Invariance, PTL

\* Between any two invocations of a round macro the variables of the code are
\* the variables a to h of FIPS 180-4 after as many rounds, for every message.
THEOREM RoundsOfTheStandard == Spec => []RoundsAgree
  BY Invariance, Consequences, PTL

\* The part of the schedule the code still holds is the latest part of that
\* of FIPS 180-4, each word in its slot, for every message.
THEOREM ScheduleOfTheStandard == Spec => []ScheduleAgrees
  BY Invariance, Consequences, PTL

\* Between calls the chaining state is that of FIPS 180-4, for every message,
\* whichever code compressed which of its blocks and however many in a call.
THEOREM ChainOfTheStandard == Spec => []ChainAgrees
  BY Invariance, Consequences, PTL
==============================================================================
