----------------------------- MODULE HashLemmas -----------------------------
(***************************************************************************)
(* What the operators of Sha256 do to a hasher's contents and those of     *)
(* Hmac to a keyed instance, for every block length, width and input: the  *)
(* facts that the proofs about the state machines cite.  B is the set of   *)
(* bytes hashed and I that of initial vectors: a MAC hashes key pads and   *)
(* digests besides message bytes, the SHA-512 family has other vectors.    *)
(***************************************************************************)
EXTENDS Hmac, SequenceTheorems, WellFoundedInduction, TLAPS

\* The bytes hashed include those the program writes as numbers, and the
\* vectors the one of SHA-256 and the all-zero state.
ByteSet(B) == Byte \subseteq B
IvSet(I)   == Ivs \subseteq I

\* A hasher inside update: the block may just have been filled.
HasherInUpdate(I, B) ==
  [state        : ChainOver(I, B),
   block        : [1 .. BLOCK_LEN -> B],
   block_len    : 0 .. BLOCK_LEN,
   len          : 0 .. LEN_MOD - 1,
   block_filled : 0 .. BLOCK_LEN]

\* The part of the inductive invariant that speaks of one hasher's buffer.
BufferSound(h) ==
  /\ h.block_len <= h.block_filled
  /\ \A i \in h.block_filled + 1 .. BLOCK_LEN : h.block[i] = ZERO

\* Compressed bytes come in whole blocks.
ChainAligned(h) == Len(h.state.absorbed) % BLOCK_LEN = 0

-----------------------------------------------------------------------------
(***************************************************************************)
(* Remainders, for any modulus.                                            *)
(***************************************************************************)
\* Division with remainder, as one fact to cite.
LEMMA DivisionTheorem ==
  ASSUME NEW n \in Int, NEW m \in Nat \ {0}
  PROVE  /\ n \div m \in Int
         /\ n % m \in 0 .. m - 1
         /\ n = m * (n \div m) + (n % m)
  OBVIOUS

\* A remainder is determined by any decomposition with a small rest.
LEMMA RemainderUnique ==
  ASSUME NEW n \in Int, NEW m \in Nat \ {0},
         NEW q \in Int, NEW r \in 0 .. m - 1, n = m * q + r
  PROVE  n % m = r
<1> DEFINE p == n \div m
<1>1. p \in Int /\ n % m \in 0 .. m - 1 /\ n = m * p + (n % m)
  BY DivisionTheorem
<1> HIDE DEF p
<1>2. m * (q - p) = (n % m) - r
  BY <1>1
<1>3. ~(q - p >= 1)
  <2> SUFFICES ASSUME q - p >= 1 PROVE FALSE
    OBVIOUS
  <2>1. m * (q - p) >= m
    BY <1>1
  <2> QED BY <2>1, <1>1, <1>2
<1>4. ~(q - p <= -1)
  <2> SUFFICES ASSUME q - p <= -1 PROVE FALSE
    OBVIOUS
  <2>1. m * (q - p) <= -m
    BY <1>1
  <2> QED BY <2>1, <1>1, <1>2
<1>5. q = p
  BY <1>1, <1>3, <1>4
<1> QED BY <1>1, <1>5

\* Subtracting a multiple of m moves the quotient only.
LEMMA ShiftByMultiple ==
  ASSUME NEW a \in Int, NEW b \in Int, NEW m \in Nat \ {0}, NEW q \in Int,
         NEW c \in Int, NEW p \in Int, NEW r \in Int,
         a = m * q + c, a + b = m * p + r
  PROVE  c + b = m * (p - q) + r
<1> DEFINE x == m * p   y == m * q   z == m * (p - q)
<1>1. z = x - y
  OBVIOUS
<1>2. x \in Int /\ y \in Int /\ a = y + c /\ a + b = x + r /\ z = x - y
  BY <1>1
<1> HIDE DEF x, y, z
<1>3. c + b = z + r
  BY <1>2
<1> QED BY <1>3 DEF z

\* A wrapped counter counts on as an unwrapped one does.
LEMMA WrapThenAdd ==
  ASSUME NEW a \in Int, NEW b \in Int, NEW m \in Nat \ {0}
  PROVE  ((a % m) + b) % m = (a + b) % m
<1>1. PICK q \in Int, c \in 0 .. m - 1 : a % m = c /\ a = m * q + c
  BY DivisionTheorem
<1>2. PICK p \in Int, r \in 0 .. m - 1 : (a + b) % m = r /\ a + b = m * p + r
  <2>1. a + b \in Int
    OBVIOUS
  <2> QED BY <2>1, DivisionTheorem
<1>3. c \in Int /\ r \in Int /\ p - q \in Int /\ c + b \in Int
  OBVIOUS
<1>4. c + b = m * (p - q) + r
  BY <1>1, <1>2, <1>3, ShiftByMultiple
<1>5. (c + b) % m = r
  BY <1>3, <1>4, RemainderUnique
<1> QED BY <1>1, <1>2, <1>5

\* A wrapped counter times k wraps as the product does.
LEMMA WrapThenTimes ==
  ASSUME NEW a \in Int, NEW k \in Int, NEW m \in Nat \ {0}
  PROVE  ((a % m) * k) % m = (a * k) % m
<1>1. PICK q \in Int, c \in 0 .. m - 1 : a % m = c /\ a = m * q + c
  BY DivisionTheorem
<1>2. PICK p \in Int, r \in 0 .. m - 1 : (c * k) % m = r /\ c * k = m * p + r
  <2>1. c * k \in Int
    OBVIOUS
  <2>2. /\ (c * k) \div m \in Int
        /\ (c * k) % m \in 0 .. m - 1
        /\ c * k = m * ((c * k) \div m) + ((c * k) % m)
    BY <2>1, DivisionTheorem
  <2> QED BY <2>2
<1>3. a * k = m * (q * k + p) + r
  <2>1. a * k = m * (q * k) + c * k
    BY <1>1
  <2>2. m * (q * k + p) = m * (q * k) + m * p
    OBVIOUS
  <2> QED BY <1>2, <2>1, <2>2
<1>4. q * k + p \in Int /\ a * k \in Int
  OBVIOUS
<1>5. (a * k) % m = r
  BY <1>3, <1>4, RemainderUnique
<1> QED BY <1>1, <1>2, <1>5

\* A remainder modulo a multiple of b keeps the remainder modulo b.
LEMMA RemainderOfRemainder ==
  ASSUME NEW a \in Int, NEW b \in Nat \ {0}, NEW m \in Nat \ {0}, m % b = 0
  PROVE  (a % m) % b = a % b
<1>1. PICK q \in Int, c \in 0 .. m - 1 : a % m = c /\ a = m * q + c
  BY DivisionTheorem
<1>2. PICK p \in Int, r \in 0 .. b - 1 : c % b = r /\ c = b * p + r
  <2>1. c \in Int
    OBVIOUS
  <2>2. /\ c \div b \in Int
        /\ c % b \in 0 .. b - 1
        /\ c = b * (c \div b) + (c % b)
    BY <2>1, DivisionTheorem
  <2> QED BY <2>2
<1>3. PICK j \in Int : m = b * j
  BY DivisionTheorem
<1>4. a = b * (j * q + p) + r
  BY <1>1, <1>2, <1>3
<1>5. j * q + p \in Int
  OBVIOUS
<1>6. a % b = r
  BY <1>4, <1>5, RemainderUnique
<1> QED BY <1>1, <1>2, <1>6

\* What is left after removing the remainder is a multiple.
LEMMA WholePart ==
  ASSUME NEW n \in Nat, NEW m \in Nat \ {0}
  PROVE  /\ n - (n % m) \in 0 .. n
         /\ (n - (n % m)) % m = 0
<1>0. n \in Int
  OBVIOUS
<1>1. PICK q \in Int, c \in 0 .. m - 1 : n % m = c /\ n = m * q + c
  BY <1>0, DivisionTheorem
<1>2. n % m <= n
  OBVIOUS
<1>3. n - c = m * q + 0 /\ n - c \in Int /\ 0 \in 0 .. m - 1
  BY <1>1
<1>4. (n - c) % m = 0
  BY <1>3, RemainderUnique
<1> QED BY <1>1, <1>2, <1>4

\* Multiples add up, and a small rest after a multiple is the remainder.
LEMMA MultiplePlusRest ==
  ASSUME NEW a \in Nat, NEW m \in Nat \ {0}, a % m = 0, NEW b \in Nat
  PROVE  (a + b) % m = b % m
<1>1. a \in Int /\ b \in Int
  OBVIOUS
<1>2. ((a % m) + b) % m = (a + b) % m
  BY <1>1, WrapThenAdd
<1> QED BY <1>1, <1>2

-----------------------------------------------------------------------------
\* The zero the buffers are created with and wiped to is a byte.
LEMMA ZeroIsByte ==
  ASSUME NEW B, ByteSet(B)
  PROVE  ZERO \in B
<1>1. ZERO \in Byte
  BY WidthAssumption DEF ZERO, Byte
<1> QED BY <1>1 DEF ByteSet

\* The byte counter wraps at a positive number.
LEMMA LenModType == LEN_MOD \in Nat \ {0}
<1>1. LEN_FIELD \in 0 .. LEN_FIELD
  BY BlockAssumption
<1> QED BY <1>1, WidthAssumption DEF LEN_MOD

\* The delimiter 0x80 fits in a byte.
LEMMA DelimIsByte ==
  ASSUME NEW B, ByteSet(B)
  PROVE  DELIM \in B
<1>1. DELIM \in Byte
  BY WidthAssumption DEF DELIM, Byte
<1> QED BY <1>1 DEF ByteSet

\* A function on 1 .. n is a sequence of length n.
LEMMA FunctionIsSequence ==
  ASSUME NEW S, NEW n \in Nat, NEW f \in [1 .. n -> S]
  PROVE  f \in Seq(S) /\ Len(f) = n
  OBVIOUS

\* A zeroed buffer is an array of bytes of its length.
LEMMA ZerosType ==
  ASSUME NEW B, ByteSet(B),
         NEW n \in Nat
  PROVE  Zeros(n) \in [1 .. n -> B]
  BY ZeroIsByte DEF Zeros

\* A prefix of a block.
LEMMA PrefixType ==
  ASSUME NEW B,
         NEW n \in Nat, NEW buf \in [1 .. n -> B], NEW k \in 0 .. n
  PROVE  /\ SubSeq(buf, 1, k) \in Seq(B)
         /\ Len(SubSeq(buf, 1, k)) = k
         /\ \A i \in 1 .. k : SubSeq(buf, 1, k)[i] = buf[i]
<1>1. \A i \in 1 .. k : buf[i] \in B
  OBVIOUS
<1>2. k \in Int /\ 1 \in Int /\ k - 1 + 1 = k
  OBVIOUS
<1>3. /\ SubSeq(buf, 1, k) \in Seq(B)
      /\ Len(SubSeq(buf, 1, k)) = IF 1 <= k THEN k - 1 + 1 ELSE 0
      /\ \A i \in 1 .. k - 1 + 1 : SubSeq(buf, 1, k)[i] = buf[1 + i - 1]
  BY <1>1, <1>2, SubSeqProperties
<1> QED BY <1>2, <1>3

\* Cutting a slice in two and joining it again.
LEMMA CutAndJoin ==
  ASSUME NEW B,
         NEW data \in Seq(B), NEW k \in 0 .. Len(data)
  PROVE  /\ SubSeq(data, 1, k) \in Seq(B)
         /\ Len(SubSeq(data, 1, k)) = k
         /\ SubSeq(data, k + 1, Len(data)) \in Seq(B)
         /\ Len(SubSeq(data, k + 1, Len(data))) = Len(data) - k
         /\ SubSeq(data, 1, k) \o SubSeq(data, k + 1, Len(data)) = data
<1>1. Len(data) \in Nat /\ k \in Nat
  OBVIOUS
<1>2. \A i \in 1 .. Len(data) : data[i] \in B
  OBVIOUS
<1>3. SubSeq(data, 1, k) \in Seq(B) /\ Len(SubSeq(data, 1, k)) = k
  <2>1. \A i \in 1 .. k : data[i] \in B
    BY <1>1, <1>2
  <2>2. Len(SubSeq(data, 1, k)) = IF 1 <= k THEN k - 1 + 1 ELSE 0
    BY <1>1, <2>1, SubSeqProperties
  <2>3. SubSeq(data, 1, k) \in Seq(B)
    BY <1>1, <2>1, SubSeqProperties
  <2> QED BY <1>1, <2>2, <2>3
<1>4. /\ SubSeq(data, k + 1, Len(data)) \in Seq(B)
      /\ Len(SubSeq(data, k + 1, Len(data))) = Len(data) - k
  <2>1. \A i \in k + 1 .. Len(data) : data[i] \in B
    BY <1>1, <1>2
  <2>2. k + 1 \in Int /\ Len(data) \in Int
    BY <1>1
  <2>3. Len(SubSeq(data, k + 1, Len(data))) =
          IF k + 1 <= Len(data) THEN Len(data) - (k + 1) + 1 ELSE 0
    BY <2>1, <2>2, SubSeqProperties
  <2>4. SubSeq(data, k + 1, Len(data)) \in Seq(B)
    BY <2>1, <2>2, SubSeqProperties
  <2> QED BY <1>1, <2>3, <2>4
<1>5. SubSeq(data, 1, k) \o SubSeq(data, k + 1, Len(data)) = data
  <2>1. 1 \in 1 .. Len(data) + 1 /\ k \in 1 - 1 .. Len(data)
        /\ Len(data) \in k .. Len(data)
    BY <1>1
  <2>2. SubSeq(data, 1, k) \o SubSeq(data, k + 1, Len(data))
          = SubSeq(data, 1, Len(data))
    BY <2>1, ConcatAdjacentSubSeq
  <2> QED BY <2>2, SubSeqFull
<1> QED BY <1>3, <1>4, <1>5

\* copy_from_slice at the end of a prefix extends the prefix.
LEMMA CopyExtendsPrefix ==
  ASSUME NEW B,
         NEW n \in Nat, NEW buf \in [1 .. n -> B], NEW at \in 0 .. n,
         NEW data \in Seq(B), at + Len(data) <= n
  PROVE  LET new == CopyFromSlice(buf, at, data)
         IN  /\ new \in [1 .. n -> B]
             /\ SubSeq(new, 1, at + Len(data)) = SubSeq(buf, 1, at) \o data
             /\ \A i \in at + Len(data) + 1 .. n : new[i] = buf[i]
<1> DEFINE new == CopyFromSlice(buf, at, data)
<1>1. Len(buf) = n /\ Len(data) \in Nat /\ at \in Nat
  BY FunctionIsSequence
<1>2. \A i \in 1 .. Len(data) : data[i] \in B
  OBVIOUS
<1>3. new = [i \in 1 .. n |->
               IF i \in at + 1 .. at + Len(data) THEN data[i - at] ELSE buf[i]]
  BY <1>1 DEF CopyFromSlice
<1>4. new \in [1 .. n -> B]
  <2> SUFFICES ASSUME NEW i \in 1 .. n
               PROVE  (IF i \in at + 1 .. at + Len(data)
                       THEN data[i - at] ELSE buf[i]) \in B
    BY <1>3
  <2>1. CASE i \in at + 1 .. at + Len(data)
    <3>1. i - at \in 1 .. Len(data)
      BY <1>1, <2>1
    <3> QED BY <1>2, <2>1, <3>1
  <2>2. CASE i \notin at + 1 .. at + Len(data)
    BY <2>2
  <2> QED BY <2>1, <2>2
<1>5. \A i \in at + Len(data) + 1 .. n : new[i] = buf[i]
  BY <1>1, <1>3
<1>6. SubSeq(new, 1, at + Len(data)) = SubSeq(buf, 1, at) \o data
  <2> DEFINE k == at + Len(data)
             l == SubSeq(new, 1, k)
             p == SubSeq(buf, 1, at)
  <2>1. k \in 0 .. n
    BY <1>1
  <2>2. l \in Seq(B) /\ Len(l) = k /\ \A i \in 1 .. k : l[i] = new[i]
    BY <1>4, <2>1, PrefixType
  <2>3. p \in Seq(B) /\ Len(p) = at /\ \A i \in 1 .. at : p[i] = buf[i]
    BY PrefixType
  <2>4. /\ p \o data \in Seq(B)
        /\ Len(p \o data) = k
        /\ \A i \in 1 .. k : (p \o data)[i] =
             IF i <= at THEN p[i] ELSE data[i - at]
    BY <2>3, ConcatProperties
  <2>5. \A i \in 1 .. k : new[i] = IF i <= at THEN buf[i] ELSE data[i - at]
    BY <1>1, <1>3, <2>1
  <2> HIDE DEF k, l, p
  <2>6. \A i \in 1 .. Len(l) : l[i] = (p \o data)[i]
    BY <1>1, <2>2, <2>3, <2>4, <2>5
  <2>7. l = p \o data
    BY <2>2, <2>4, <2>6, SeqEqual
  <2> QED BY <2>7 DEF k, l, p
<1> QED BY <1>4, <1>5, <1>6

\* Wiping a range leaves a block of bytes, zero on the range.
LEMMA WipeType ==
  ASSUME NEW B, ByteSet(B),
         NEW n \in Nat, NEW buf \in [1 .. n -> B],
         NEW from \in Nat, NEW to \in Nat
  PROVE  /\ Wipe(buf, from, to) \in [1 .. n -> B]
         /\ \A i \in 1 .. n : Wipe(buf, from, to)[i] =
              IF i \in from + 1 .. to THEN ZERO ELSE buf[i]
  BY ZeroIsByte, FunctionIsSequence DEF Wipe

\* With nothing above the mark, wiping up to the mark wipes the block.
LEMMA WipeToMarkWipesAll ==
  ASSUME NEW I, NEW B, ByteSet(B),
         NEW h \in HasherOver(I, B), BufferSound(h)
  PROVE  /\ WipeBlock(h) \in HasherOver(I, B)
         /\ WipeBlock(h) = [h EXCEPT !.block = Zeros(BLOCK_LEN)]
<1>1. BLOCK_LEN \in Nat /\ h.block \in [1 .. BLOCK_LEN -> B]
      /\ h.block_filled \in Nat /\ 0 \in Nat
  BY BlockAssumption DEF HasherOver
<1>2. Len(h.block) = BLOCK_LEN
  BY <1>1, FunctionIsSequence
<1>3. ASSUME NEW i \in 1 .. BLOCK_LEN
      PROVE  (IF i \in 0 + 1 .. h.block_filled THEN ZERO ELSE h.block[i]) = ZERO
  BY <1>1 DEF BufferSound
<1>4. Zeros(BLOCK_LEN) \in [1 .. BLOCK_LEN -> B]
  BY <1>1, ZerosType
<1>5. Wipe(h.block, 0, h.block_filled) = Zeros(BLOCK_LEN)
  BY <1>2, <1>3 DEF Wipe, Zeros
<1> QED BY <1>4, <1>5 DEF WipeBlock, HasherOver

\* Compressing whole blocks appends them to what the state has absorbed.
LEMMA CompressWhole ==
  ASSUME NEW I, NEW B,
         NEW c \in ChainOver(I, B), NEW blocks \in Seq(B),
         Len(blocks) % BLOCK_LEN = 0, Len(c.absorbed) % BLOCK_LEN = 0
  PROVE  /\ Compress(c, blocks) \in ChainOver(I, B)
         /\ Compress(c, blocks).iv = c.iv
         /\ Compress(c, blocks).absorbed = c.absorbed \o blocks
         /\ Len(Compress(c, blocks).absorbed) % BLOCK_LEN = 0
<1>1. WholeLen(blocks) = Len(blocks)
  BY DEF WholeLen
<1>2. SubSeq(blocks, 1, WholeLen(blocks)) = blocks
  BY <1>1, SubSeqFull
<1>3. Compress(c, blocks) = [c EXCEPT !.absorbed = c.absorbed \o blocks]
  BY <1>2 DEF Compress
<1>4. c.absorbed \in Seq(B)
  BY DEF ChainOver
<1>5. c.absorbed \o blocks \in Seq(B)
      /\ Len(c.absorbed \o blocks) = Len(c.absorbed) + Len(blocks)
  BY <1>4, ConcatProperties
<1>6. (Len(c.absorbed) + Len(blocks)) % BLOCK_LEN = Len(blocks) % BLOCK_LEN
  <2>1. Len(c.absorbed) \in Nat /\ Len(blocks) \in Nat
    BY <1>4, LenProperties
  <2> QED BY <2>1, BlockAssumption, MultiplePlusRest
<1> QED BY <1>3, <1>5, <1>6 DEF ChainOver

\* Buffering behind the fill appends to the contents.
LEMMA BufferAppends ==
  ASSUME NEW I, NEW B,
         NEW h \in HasherInUpdate(I, B), BufferSound(h), ChainAligned(h),
         NEW data \in Seq(B), h.block_len + Len(data) <= BLOCK_LEN
  PROVE  LET new == Buffer(h, h.block_len, data)
         IN  /\ new \in HasherInUpdate(I, B)
             /\ BufferSound(new)
             /\ new.state = h.state
             /\ new.len = h.len
             /\ new.block_len = h.block_len + Len(data)
             /\ Contents(new) = Contents(h) \o data
<1> DEFINE at   == h.block_len
           copy == CopyFromSlice(h.block, at, data)
           new  == Buffer(h, at, data)
<1>1. /\ BLOCK_LEN \in Nat
      /\ h.block \in [1 .. BLOCK_LEN -> B]
      /\ at \in 0 .. BLOCK_LEN
      /\ h.block_filled \in 0 .. BLOCK_LEN
      /\ h.state \in ChainOver(I, B)
      /\ Len(data) \in Nat
  BY BlockAssumption, LenProperties DEF HasherInUpdate
<1>2. /\ copy \in [1 .. BLOCK_LEN -> B]
      /\ SubSeq(copy, 1, at + Len(data)) = SubSeq(h.block, 1, at) \o data
      /\ \A i \in at + Len(data) + 1 .. BLOCK_LEN : copy[i] = h.block[i]
  <2> DEFINE buf == h.block   c == CopyFromSlice(buf, at, data)
  <2>1. /\ buf \in [1 .. BLOCK_LEN -> B] /\ at + Len(data) <= BLOCK_LEN
        /\ BLOCK_LEN \in Nat /\ at \in 0 .. BLOCK_LEN
    BY <1>1
  <2> HIDE DEF buf, at
  <2>2. /\ c \in [1 .. BLOCK_LEN -> B]
        /\ SubSeq(c, 1, at + Len(data)) = SubSeq(buf, 1, at) \o data
        /\ \A i \in at + Len(data) + 1 .. BLOCK_LEN : c[i] = buf[i]
    BY <2>1, CopyExtendsPrefix
  <2> QED BY <2>2 DEF buf, at
<1>3. AtLeast(h.block_filled, at + Len(data)) \in 0 .. BLOCK_LEN
      /\ at + Len(data) <= AtLeast(h.block_filled, at + Len(data))
      /\ h.block_filled <= AtLeast(h.block_filled, at + Len(data))
  BY <1>1 DEF AtLeast
<1>4. /\ new = [h EXCEPT !.block = copy,
                         !.block_len = at + Len(data),
                         !.block_filled = AtLeast(h.block_filled, at + Len(data))]
      /\ at + Len(data) \in 0 .. BLOCK_LEN
  BY <1>1 DEF Buffer
<1> HIDE DEF copy, new
<1>5. new \in HasherInUpdate(I, B)
  BY <1>2, <1>3, <1>4 DEF HasherInUpdate
<1>6. /\ new.block = copy
      /\ new.state = h.state
      /\ new.len = h.len
      /\ new.block_len = at + Len(data)
      /\ new.block_filled = AtLeast(h.block_filled, at + Len(data))
  BY <1>4 DEF HasherInUpdate
<1>7. BufferSound(new)
  <2>1. ASSUME NEW i \in new.block_filled + 1 .. BLOCK_LEN
        PROVE  copy[i] = ZERO
    <3>1. i \in at + Len(data) + 1 .. BLOCK_LEN
          /\ i \in h.block_filled + 1 .. BLOCK_LEN
      BY <1>1, <1>3, <1>6
    <3>2. h.block[i] = ZERO
      BY <3>1 DEF BufferSound
    <3> QED BY <1>2, <3>1, <3>2
  <2> QED BY <1>3, <1>6, <2>1 DEF BufferSound
<1>8. Contents(new) = Contents(h) \o data
  <2> DEFINE a == h.state.absorbed   b == SubSeq(h.block, 1, at)
  <2>1. a \in Seq(B) /\ b \in Seq(B)
    BY <1>1, PrefixType DEF ChainOver
  <2> HIDE DEF a, b
  <2>2. a \o (b \o data) = (a \o b) \o data
    BY <2>1, ConcatAssociative
  <2> USE DEF a, b
  <2> QED BY <1>2, <1>6, <2>2 DEF Contents
<1> QED BY <1>5, <1>6, <1>7, <1>8 DEF new

\* Compressing the full block moves its bytes and keeps the contents.
LEMMA FlushKeepsContents ==
  ASSUME NEW I, NEW B,
         NEW h \in HasherInUpdate(I, B), BufferSound(h), ChainAligned(h),
         h.block_len = BLOCK_LEN
  PROVE  /\ Flush(h) \in HasherOver(I, B)
         /\ BufferSound(Flush(h))
         /\ ChainAligned(Flush(h))
         /\ Flush(h).state.iv = h.state.iv
         /\ Flush(h).len = h.len
         /\ Flush(h).block_len = 0
         /\ Contents(Flush(h)) = Contents(h)
<1>1. /\ BLOCK_LEN \in Nat \ {0}
      /\ h.block \in [1 .. BLOCK_LEN -> B]
      /\ h.state \in ChainOver(I, B)
      /\ h.block_filled \in 0 .. BLOCK_LEN
  BY BlockAssumption DEF HasherInUpdate
<1>2. h.block \in Seq(B) /\ Len(h.block) = BLOCK_LEN
  BY <1>1, FunctionIsSequence
<1>3. Len(h.block) % BLOCK_LEN = 0
  <2>1. BLOCK_LEN \in Int /\ BLOCK_LEN = BLOCK_LEN * 1 + 0 /\ 0 \in 0 .. BLOCK_LEN - 1
    BY <1>1
  <2> QED BY <1>1, <1>2, <2>1, RemainderUnique
<1> DEFINE c == Compress(h.state, h.block)
<1>4. /\ c \in ChainOver(I, B)
      /\ c.iv = h.state.iv
      /\ c.absorbed = h.state.absorbed \o h.block
      /\ Len(c.absorbed) % BLOCK_LEN = 0
  <2> DEFINE s == h.state   b == h.block
  <2>1. /\ s \in ChainOver(I, B) /\ Len(s.absorbed) % BLOCK_LEN = 0
        /\ b \in Seq(B) /\ Len(b) % BLOCK_LEN = 0
    BY <1>1, <1>2, <1>3 DEF ChainAligned
  <2> HIDE DEF s, b
  <2>2. /\ Compress(s, b) \in ChainOver(I, B)
        /\ Compress(s, b).iv = s.iv
        /\ Compress(s, b).absorbed = s.absorbed \o b
        /\ Len(Compress(s, b).absorbed) % BLOCK_LEN = 0
    BY <2>1, CompressWhole
  <2> QED BY <2>2 DEF s, b
<1>5. Flush(h) = [h EXCEPT !.state = c, !.block_len = 0]
  BY DEF Flush
<1> HIDE DEF c
<1>6. /\ Flush(h).state = c /\ Flush(h).block_len = 0 /\ Flush(h).len = h.len
      /\ Flush(h).block = h.block /\ Flush(h).block_filled = h.block_filled
  BY <1>5 DEF HasherInUpdate
<1>7. Flush(h) \in HasherOver(I, B)
  <2>1. 0 \in 0 .. BLOCK_LEN - 1
    BY <1>1
  <2>2. [h EXCEPT !.state = c, !.block_len = 0] \in HasherOver(I, B)
    BY <1>4, <2>1 DEF HasherInUpdate, HasherOver
  <2> QED BY <1>5, <2>2
<1>8. Contents(Flush(h)) = Contents(h)
  <2>1. SubSeq(h.block, 1, h.block_len) = h.block
    BY <1>2, SubSeqFull
  <2>2. SubSeq(h.block, 1, 0) = << >>
    BY SubSeqEmpty
  <2>3. c.absorbed \in Seq(B)
    BY <1>4 DEF ChainOver
  <2>4. c.absorbed \o << >> = c.absorbed
    BY <2>3, ConcatEmptySeq
  <2> QED BY <1>4, <1>6, <2>1, <2>2, <2>4 DEF Contents
<1>9. BufferSound(Flush(h)) /\ ChainAligned(Flush(h))
  <2>1. 0 <= h.block_filled
    BY <1>1
  <2> QED BY <1>4, <1>6, <2>1 DEF BufferSound, ChainAligned
<1> QED BY <1>4, <1>6, <1>7, <1>8, <1>9

\* With an empty block the contents are what the state has absorbed.
LEMMA EmptyBlockContents ==
  ASSUME NEW I, NEW B,
         NEW h \in HasherInUpdate(I, B), h.block_len = 0
  PROVE  Contents(h) = h.state.absorbed /\ h.state.absorbed \in Seq(B)
<1>1. h.state.absorbed \in Seq(B)
  BY DEF HasherInUpdate, ChainOver
<1>2. SubSeq(h.block, 1, 0) = << >>
  BY SubSeqEmpty
<1>3. h.state.absorbed \o << >> = h.state.absorbed
  BY <1>1, ConcatEmptySeq
<1> QED BY <1>1, <1>2, <1>3 DEF Contents

\* Absorbing on a block boundary appends to the contents.
LEMMA AbsorbAppends ==
  ASSUME NEW I, NEW B,
         NEW h \in HasherOver(I, B), BufferSound(h), ChainAligned(h), h.block_len = 0,
         NEW data \in Seq(B)
  PROVE  LET new == Absorb(h, data)
         IN  /\ new \in HasherOver(I, B)
             /\ BufferSound(new)
             /\ ChainAligned(new)
             /\ new.state.iv = h.state.iv
             /\ new.len = h.len
             /\ Contents(new) = Contents(h) \o data
<1> DEFINE whole  == WholeLen(data)
           prefix == SubSeq(data, 1, whole)
           tail   == SubSeq(data, whole + 1, Len(data))
           c      == Compress(h.state, prefix)
           run    == [h EXCEPT !.state = c]
<1>1. /\ BLOCK_LEN \in Nat \ {0}
      /\ Len(data) \in Nat
      /\ h \in HasherInUpdate(I, B)
      /\ h.state \in ChainOver(I, B)
  BY BlockAssumption, LenProperties DEF HasherOver, HasherInUpdate
<1>2. whole \in 0 .. Len(data) /\ whole % BLOCK_LEN = 0
      /\ Len(data) - whole \in 0 .. BLOCK_LEN - 1
  <2>1. Len(data) - (Len(data) % BLOCK_LEN) \in 0 .. Len(data)
        /\ (Len(data) - (Len(data) % BLOCK_LEN)) % BLOCK_LEN = 0
    BY <1>1, WholePart
  <2>2. Len(data) % BLOCK_LEN \in 0 .. BLOCK_LEN - 1
    BY <1>1
  <2> QED BY <1>1, <2>1, <2>2 DEF WholeLen
<1> HIDE DEF whole
<1>3. /\ prefix \in Seq(B) /\ Len(prefix) = whole
      /\ tail \in Seq(B) /\ Len(tail) = Len(data) - whole
      /\ prefix \o tail = data
  BY <1>2, CutAndJoin
<1>4. /\ c \in ChainOver(I, B)
      /\ c.iv = h.state.iv
      /\ c.absorbed = h.state.absorbed \o prefix
      /\ Len(c.absorbed) % BLOCK_LEN = 0
  <2> DEFINE s == h.state   b == prefix
  <2>1. /\ s \in ChainOver(I, B) /\ Len(s.absorbed) % BLOCK_LEN = 0
        /\ b \in Seq(B) /\ Len(b) % BLOCK_LEN = 0
    BY <1>1, <1>2, <1>3 DEF ChainAligned
  <2> HIDE DEF s, b
  <2>2. /\ Compress(s, b) \in ChainOver(I, B)
        /\ Compress(s, b).iv = s.iv
        /\ Compress(s, b).absorbed = s.absorbed \o b
        /\ Len(Compress(s, b).absorbed) % BLOCK_LEN = 0
    BY <2>1, CompressWhole
  <2> QED BY <2>2 DEF s, b
<1>5. Absorb(h, data) = IF tail = << >> THEN run ELSE Buffer(run, 0, tail)
  BY DEF Absorb, whole
<1> HIDE DEF prefix, tail, c
<1>6. /\ run \in HasherOver(I, B)
      /\ run \in HasherInUpdate(I, B)
      /\ run.state = c /\ run.len = h.len /\ run.block_len = 0
      /\ run.block = h.block /\ run.block_filled = h.block_filled
  BY <1>1, <1>4 DEF HasherOver, HasherInUpdate
<1> HIDE DEF run
<1>7. BufferSound(run) /\ ChainAligned(run)
  BY <1>4, <1>6 DEF BufferSound, ChainAligned
<1>8. /\ Contents(h) = h.state.absorbed /\ h.state.absorbed \in Seq(B)
      /\ Contents(run) = h.state.absorbed \o prefix
  BY <1>1, <1>4, <1>6, EmptyBlockContents
<1>9. CASE tail = << >>
  <2>1. prefix = data
    BY <1>3, <1>9, ConcatEmptySeq
  <2> QED BY <1>4, <1>5, <1>6, <1>7, <1>8, <1>9, <2>1
<1>10. CASE tail # << >>
  <2> DEFINE new == Buffer(run, 0, tail)
  <2>1. run.block_len + Len(tail) <= BLOCK_LEN
    BY <1>1, <1>2, <1>3, <1>6
  <2>2. /\ new \in HasherInUpdate(I, B)
        /\ BufferSound(new)
        /\ new.state = run.state
        /\ new.len = run.len
        /\ new.block_len = Len(tail)
        /\ Contents(new) = Contents(run) \o tail
    <3>1. new = Buffer(run, run.block_len, tail)
      BY <1>6
    <3>2. Len(tail) \in Nat
      BY <1>3, LenProperties
    <3> HIDE DEF new
    <3>3. /\ new \in HasherInUpdate(I, B)
          /\ BufferSound(new)
          /\ new.state = run.state
          /\ new.len = run.len
          /\ new.block_len = run.block_len + Len(tail)
          /\ Contents(new) = Contents(run) \o tail
      BY <1>3, <1>6, <1>7, <2>1, <3>1, BufferAppends
    <3> QED BY <1>6, <3>2, <3>3
  <2> HIDE DEF new
  <2>3. new.block_len \in 0 .. BLOCK_LEN - 1
    BY <1>1, <1>2, <1>3, <2>2
  <2>4. new \in HasherOver(I, B)
    BY <2>2, <2>3 DEF HasherInUpdate, HasherOver
  <2>5. Contents(new) = Contents(h) \o data
    <3> DEFINE a == h.state.absorbed
    <3>1. (a \o prefix) \o tail = a \o (prefix \o tail)
      <4>1. a \in Seq(B) /\ prefix \in Seq(B) /\ tail \in Seq(B)
        BY <1>3, <1>8
      <4> HIDE DEF a
      <4> QED BY <4>1, ConcatAssociative
    <3> QED BY <1>3, <1>8, <2>2, <3>1
  <2>6. Absorb(h, data) = new
    BY <1>5, <1>10 DEF new
  <2> QED BY <1>4, <1>6, <2>2, <2>4, <2>5, <2>6, <1>7 DEF ChainAligned
<1> QED BY <1>9, <1>10

\* update appends its input to the message, whatever was buffered before.
LEMMA UpdateAppends ==
  ASSUME NEW I, NEW B,
         NEW h \in HasherOver(I, B), BufferSound(h), ChainAligned(h),
         NEW data \in Seq(B)
  PROVE  LET new == Update(h, data)
         IN  /\ new \in HasherOver(I, B)
             /\ BufferSound(new)
             /\ ChainAligned(new)
             /\ new.state.iv = h.state.iv
             /\ new.len = (h.len + Len(data)) % LEN_MOD
             /\ Contents(new) = Contents(h) \o data
<1> DEFINE counted == Counted(h, data)
           take    == AtMost(BLOCK_LEN - h.block_len, Len(data))
           first   == SubSeq(data, 1, take)
           rest    == SubSeq(data, take + 1, Len(data))
           joined  == Buffer(counted, h.block_len, first)
<1>1. /\ BLOCK_LEN \in Nat \ {0}
      /\ LEN_MOD \in Nat \ {0}
      /\ Len(data) \in Nat
      /\ h.block_len \in 0 .. BLOCK_LEN - 1
      /\ h.len \in 0 .. LEN_MOD - 1
  BY BlockAssumption, LenModType, LenProperties DEF HasherOver
<1>2. (h.len + Len(data)) % LEN_MOD \in 0 .. LEN_MOD - 1
  BY <1>1
<1>3. /\ counted \in HasherOver(I, B)
      /\ counted.state = h.state
      /\ counted.block = h.block
      /\ counted.block_len = h.block_len
      /\ counted.block_filled = h.block_filled
      /\ counted.len = (h.len + Len(data)) % LEN_MOD
  BY <1>2 DEF Counted, HasherOver
<1> HIDE DEF counted
<1>4. /\ BufferSound(counted) /\ ChainAligned(counted)
      /\ Contents(counted) = Contents(h)
  BY <1>3 DEF BufferSound, ChainAligned, Contents
<1>5. Update(h, data) =
        CASE h.block_len = 0 -> Absorb(counted, data)
          [] h.block_len > 0 /\ joined.block_len < BLOCK_LEN -> joined
          [] OTHER -> Absorb(Flush(joined), rest)
  BY DEF Update, counted
<1>6. CASE h.block_len = 0
  BY <1>3, <1>4, <1>5, <1>6, AbsorbAppends
<1>7. CASE h.block_len > 0
  <2>1. take \in 0 .. Len(data) /\ h.block_len + take <= BLOCK_LEN
        /\ (take = Len(data) \/ h.block_len + take = BLOCK_LEN)
    BY <1>1 DEF AtMost
  <2> HIDE DEF take
  <2>2. /\ first \in Seq(B) /\ Len(first) = take
        /\ rest \in Seq(B) /\ Len(rest) = Len(data) - take
        /\ first \o rest = data
    BY <2>1, CutAndJoin
  <2> HIDE DEF first, rest
  <2>3. counted \in HasherInUpdate(I, B) /\ counted.block_len + Len(first) <= BLOCK_LEN
    BY <1>1, <1>3, <2>1, <2>2 DEF HasherOver, HasherInUpdate
  <2>4. /\ joined \in HasherInUpdate(I, B)
        /\ BufferSound(joined)
        /\ joined.state = counted.state
        /\ joined.len = counted.len
        /\ joined.block_len = h.block_len + take
        /\ Contents(joined) = Contents(counted) \o first
    BY <1>3, <1>4, <2>2, <2>3, BufferAppends
  <2> HIDE DEF joined
  <2>5. /\ ChainAligned(joined)
        /\ joined.block_len \in 0 .. BLOCK_LEN
        /\ joined.block_len < BLOCK_LEN => take = Len(data)
    <3>1. ChainAligned(joined)
      BY <1>4, <2>4 DEF ChainAligned
    <3>2. joined.block_len = h.block_len + take
      BY <2>4
    <3> QED BY <1>1, <2>1, <3>1, <3>2
  <2>6. CASE joined.block_len < BLOCK_LEN
    <3>1. joined \in HasherOver(I, B)
      BY <1>1, <2>1, <2>4, <2>6 DEF HasherInUpdate, HasherOver
    <3>2. take = Len(data)
      BY <2>5, <2>6
    <3>3. first = data
      BY <3>2, SubSeqFull DEF first
    <3>4. Update(h, data) = joined
      BY <1>1, <1>5, <1>7, <2>6
    <3> QED BY <1>3, <1>4, <2>4, <2>5, <3>1, <3>3, <3>4
  <2>7. CASE ~(joined.block_len < BLOCK_LEN)
    <3>1. joined.block_len = BLOCK_LEN
      BY <1>1, <2>5, <2>7
    <3> DEFINE flushed == Flush(joined)
    <3>2. /\ flushed \in HasherOver(I, B)
          /\ BufferSound(flushed)
          /\ ChainAligned(flushed)
          /\ flushed.state.iv = joined.state.iv
          /\ flushed.len = joined.len
          /\ flushed.block_len = 0
          /\ Contents(flushed) = Contents(joined)
      BY <2>4, <2>5, <3>1, FlushKeepsContents
    <3>3. Update(h, data) = Absorb(flushed, rest)
      BY <1>1, <1>5, <1>7, <2>7
    <3> HIDE DEF flushed
    <3>4. /\ Absorb(flushed, rest) \in HasherOver(I, B)
          /\ BufferSound(Absorb(flushed, rest))
          /\ ChainAligned(Absorb(flushed, rest))
          /\ Absorb(flushed, rest).state.iv = flushed.state.iv
          /\ Absorb(flushed, rest).len = flushed.len
          /\ Contents(Absorb(flushed, rest)) = Contents(flushed) \o rest
      BY <2>2, <3>2, AbsorbAppends
    <3>5. Contents(h) \in Seq(B)
      <4>1. h.block \in [1 .. BLOCK_LEN -> B] /\ h.state.absorbed \in Seq(B)
            /\ h.block_len \in 0 .. BLOCK_LEN
        BY <1>1 DEF HasherOver, ChainOver
      <4>2. SubSeq(h.block, 1, h.block_len) \in Seq(B)
        BY <1>1, <4>1, PrefixType
      <4> QED BY <4>1, <4>2, ConcatProperties DEF Contents
    <3> DEFINE m == Contents(h)
    <3>6. (m \o first) \o rest = m \o (first \o rest)
      <4>1. m \in Seq(B) /\ first \in Seq(B) /\ rest \in Seq(B)
        BY <2>2, <3>5
      <4> HIDE DEF m
      <4> QED BY <4>1, ConcatAssociative
    <3> QED BY <1>3, <1>4, <2>2, <2>4, <3>2, <3>3, <3>4, <3>6
  <2> QED BY <2>6, <2>7
<1> QED BY <1>1, <1>6, <1>7

-----------------------------------------------------------------------------
(***************************************************************************)
(* finalize_into: where the tail, the delimiter and the length go.         *)
(***************************************************************************)

\* The blocks used hold tail, delimiter and length and fit the scratch buffer.
LEMMA UsedLenBounds ==
  ASSUME NEW I, NEW B,
         NEW h \in HasherOver(I, B)
  PROVE  /\ UsedLen(h) \in 0 .. 2 * BLOCK_LEN
         /\ UsedLen(h) % BLOCK_LEN = 0
         /\ \E j \in Int : UsedLen(h) = BLOCK_LEN * j
         /\ LenAt(h) \in h.block_len + 1 .. UsedLen(h)
         /\ LenAt(h) + LEN_FIELD = UsedLen(h)
         /\ UsedLen(h) - (h.block_len + 1 + LEN_FIELD) \in 0 .. BLOCK_LEN - 1
<1> DEFINE need == h.block_len + 1 + LEN_FIELD
           n    == need + BLOCK_LEN - 1
           j    == n \div BLOCK_LEN
           r    == n % BLOCK_LEN
           used == j * BLOCK_LEN
<1>1. /\ BLOCK_LEN \in Nat \ {0}
      /\ LEN_FIELD \in Nat \ {0}
      /\ LEN_FIELD + 1 <= BLOCK_LEN
      /\ h.block_len \in 0 .. BLOCK_LEN - 1
  BY BlockAssumption DEF HasherOver
<1>2. need \in Nat /\ n \in Int /\ need <= 2 * BLOCK_LEN - 1
  BY <1>1
<1>3. j \in Int /\ r \in 0 .. BLOCK_LEN - 1 /\ n = BLOCK_LEN * j + r
  BY <1>1, <1>2, DivisionTheorem
<1>4. UsedLen(h) = used
  <2>1. h.block_len + 1 + LEN_FIELD + BLOCK_LEN - 1 = n
    BY <1>1
  <2> QED BY <2>1 DEF UsedLen
<1> HIDE DEF j, r
<1>5. used = BLOCK_LEN * j /\ used \in Int
  BY <1>1, <1>3
<1> HIDE DEF used
<1>6. used = n - r
  BY <1>3, <1>5
<1> HIDE DEF n
<1>7. n = need + BLOCK_LEN - 1
  BY DEF n
<1>8. used - need \in 0 .. BLOCK_LEN - 1
  BY <1>1, <1>2, <1>3, <1>5, <1>6, <1>7
<1>9. used <= 2 * BLOCK_LEN
  <2>1. j <= 2
    <3> SUFFICES ASSUME j >= 3 PROVE FALSE
      BY <1>3
    <3>1. BLOCK_LEN * j >= BLOCK_LEN * 3
      BY <1>1, <1>3
    <3>2. used >= 3 * BLOCK_LEN
      BY <1>1, <1>5, <3>1
    <3> QED BY <1>1, <1>2, <1>5, <1>8, <3>2
  <2>2. BLOCK_LEN * j <= BLOCK_LEN * 2
    BY <1>1, <1>3, <2>1
  <2> QED BY <1>1, <1>5, <2>2
<1>10. used % BLOCK_LEN = 0
  <2>1. 0 \in 0 .. BLOCK_LEN - 1 /\ used = BLOCK_LEN * j + 0
    BY <1>1, <1>5
  <2> QED BY <1>1, <1>3, <1>5, <2>1, RemainderUnique
<1>11. LenAt(h) = used - LEN_FIELD
  BY <1>4 DEF LenAt
<1>12. used \in 0 .. 2 * BLOCK_LEN
  BY <1>1, <1>2, <1>5, <1>8, <1>9
<1>13. LenAt(h) \in h.block_len + 1 .. used /\ LenAt(h) + LEN_FIELD = used
  BY <1>1, <1>5, <1>8, <1>11
<1> QED BY <1>3, <1>4, <1>5, <1>8, <1>10, <1>12, <1>13

\* The length field is LEN_FIELD bytes.
LEMMA ToBeBytesType ==
  ASSUME NEW B, ByteSet(B),
         NEW n \in Int
  PROVE  ToBeBytes(n) \in [1 .. LEN_FIELD -> B]
<1> SUFFICES ASSUME NEW i \in 1 .. LEN_FIELD
             PROVE  Lit((n \div BASE ^ (LEN_FIELD - i)) % BASE) \in Byte
  BY DEF ToBeBytes, ByteSet
<1>1. BASE \in Nat \ {0} /\ LEN_FIELD \in Nat
  BY WidthAssumption, BlockAssumption
<1> DEFINE d == (n \div BASE ^ (LEN_FIELD - i))
<1>2. d \in Int
  <2>1. LEN_FIELD - i \in 0 .. LEN_FIELD
    BY <1>1
  <2>2. BASE ^ (LEN_FIELD - i) \in Nat \ {0}
    BY <2>1, WidthAssumption
  <2> DEFINE b == BASE ^ (LEN_FIELD - i)
  <2> HIDE DEF b
  <2>3. n \div b \in Int
    BY <2>2 DEF b
  <2> QED BY <2>3 DEF b
<1> HIDE DEF d
<1>3. d % BASE \in 0 .. BASE - 1
  BY <1>1, <1>2, DivisionTheorem
<1> QED BY <1>3 DEF Byte, d

\* The scratch buffer position by position.
LEMMA ScratchLayout ==
  ASSUME NEW I, NEW B, ByteSet(B),
         NEW h \in HasherOver(I, B)
  PROVE  /\ Scratch(h) \in [1 .. 2 * BLOCK_LEN -> B]
         /\ \A i \in 1 .. 2 * BLOCK_LEN :
              /\ i \in 1 .. h.block_len => Scratch(h)[i] = h.block[i]
              /\ i = h.block_len + 1 => Scratch(h)[i] = DELIM
              /\ i \in h.block_len + 2 .. LenAt(h) => Scratch(h)[i] = ZERO
              /\ i \in LenAt(h) + 1 .. UsedLen(h) =>
                   Scratch(h)[i] = ToBeBytes(BitLen(h.len))[i - LenAt(h)]
              /\ i > UsedLen(h) => Scratch(h)[i] = ZERO
<1> DEFINE n     == 2 * BLOCK_LEN
           bl    == h.block_len
           la    == LenAt(h)
           used  == UsedLen(h)
           pre   == SubSeq(h.block, 1, bl)
           bytes == ToBeBytes(BitLen(h.len))
           s0    == Zeros(n)
           s1    == CopyFromSlice(s0, 0, pre)
           s2    == CopyFromSlice(s1, bl, << DELIM >>)
           s3    == CopyFromSlice(s2, la, bytes)
<1>1. /\ n \in Nat /\ bl \in Nat /\ BLOCK_LEN \in Nat /\ LEN_FIELD \in Nat
      /\ bl <= BLOCK_LEN /\ bl + 1 <= n
      /\ h.block \in [1 .. BLOCK_LEN -> B]
      /\ h.len \in 0 .. LEN_MOD - 1
  BY BlockAssumption DEF HasherOver
<1>2. la \in bl + 1 .. used /\ used \in 0 .. n /\ la + LEN_FIELD = used
  BY UsedLenBounds
<1>3. /\ pre \in Seq(B) /\ Len(pre) = bl
      /\ \A i \in 1 .. bl : pre[i] = h.block[i]
  BY <1>1, PrefixType
<1>4. << DELIM >> \in Seq(B) /\ Len(<< DELIM >>) = 1 /\ << DELIM >>[1] = DELIM
  BY DelimIsByte
<1>5. bytes \in Seq(B) /\ Len(bytes) = LEN_FIELD
  <2>1. h.len * BITS \in Int
    BY <1>1, BlockAssumption, LenModType
  <2>2. BitLen(h.len) \in Int
    BY <2>1, LenModType DEF BitLen
  <2>3. bytes \in [1 .. LEN_FIELD -> B]
    BY <2>2, ToBeBytesType
  <2> QED BY <1>1, <2>3, FunctionIsSequence
<1>6. s0 \in [1 .. n -> B] /\ Len(s0) = n /\ \A i \in 1 .. n : s0[i] = ZERO
  <2> HIDE DEF n
  <2>1. s0 \in [1 .. n -> B]
    BY <1>1, ZerosType
  <2>2. Len(s0) = n
    BY <1>1, <2>1, FunctionIsSequence
  <2>3. \A i \in 1 .. n : s0[i] = ZERO
    BY DEF Zeros
  <2> QED BY <2>1, <2>2, <2>3
<1> HIDE DEF n, bl, la, used, pre, bytes, s0
<1>7. /\ s1 \in [1 .. n -> B] /\ Len(s1) = n
      /\ \A i \in 1 .. n : s1[i] = IF i \in 1 .. bl THEN pre[i] ELSE ZERO
  <2>1. s1 \in [1 .. n -> B]
    <3>1. 0 \in 0 .. n /\ 0 + Len(pre) <= n
      BY <1>1, <1>3
    <3> QED BY <1>1, <1>3, <1>6, <3>1, CopyExtendsPrefix
  <2>2. Len(s1) = n
    BY <1>1, <2>1, FunctionIsSequence
  <2>3. \A i \in 1 .. n : s1[i] = IF i \in 1 .. bl THEN pre[i] ELSE ZERO
    BY <1>1, <1>3, <1>6 DEF CopyFromSlice
  <2> QED BY <2>1, <2>2, <2>3
<1> HIDE DEF s1
<1>8. /\ s2 \in [1 .. n -> B] /\ Len(s2) = n
      /\ \A i \in 1 .. n : s2[i] = IF i = bl + 1 THEN DELIM ELSE s1[i]
  <2>1. s2 \in [1 .. n -> B]
    <3>1. bl \in 0 .. n /\ bl + Len(<< DELIM >>) <= n
      BY <1>1, <1>4
    <3> QED BY <1>1, <1>4, <1>7, <3>1, CopyExtendsPrefix
  <2>2. Len(s2) = n
    BY <1>1, <2>1, FunctionIsSequence
  <2>3. \A i \in 1 .. n : s2[i] = IF i = bl + 1 THEN DELIM ELSE s1[i]
    BY <1>1, <1>4, <1>7 DEF CopyFromSlice
  <2> QED BY <2>1, <2>2, <2>3
<1> HIDE DEF s2
<1>9. /\ s3 \in [1 .. n -> B]
      /\ \A i \in 1 .. n :
           s3[i] = IF i \in la + 1 .. used THEN bytes[i - la] ELSE s2[i]
  <2>1. s3 \in [1 .. n -> B]
    <3>1. la \in 0 .. n /\ la + Len(bytes) <= n
      BY <1>1, <1>2, <1>5
    <3> QED BY <1>1, <1>5, <1>8, <3>1, CopyExtendsPrefix
  <2>2. \A i \in 1 .. n :
           s3[i] = IF i \in la + 1 .. used THEN bytes[i - la] ELSE s2[i]
    BY <1>1, <1>2, <1>5, <1>8 DEF CopyFromSlice
  <2> QED BY <2>1, <2>2
<1>10. Scratch(h) = s3
  BY DEF Scratch, s0, s1, s2, pre, bl, la, bytes, n
<1> HIDE DEF s3
<1>11. ASSUME NEW i \in 1 .. n
       PROVE  /\ i \in 1 .. bl => s3[i] = h.block[i]
              /\ i = bl + 1 => s3[i] = DELIM
              /\ i \in bl + 2 .. la => s3[i] = ZERO
              /\ i \in la + 1 .. used => s3[i] = bytes[i - la]
              /\ i > used => s3[i] = ZERO
  <2>1. s1[i] = IF i \in 1 .. bl THEN pre[i] ELSE ZERO
    BY <1>7
  <2>2. s2[i] = IF i = bl + 1 THEN DELIM ELSE s1[i]
    BY <1>8
  <2>3. s3[i] = IF i \in la + 1 .. used THEN bytes[i - la] ELSE s2[i]
    BY <1>9
  <2> QED BY <1>1, <1>2, <1>3, <2>1, <2>2, <2>3
<1> QED BY <1>9, <1>10, <1>11 DEF bl, la, used, bytes, n

\* The two wiped regions leave nothing but zeros in the scratch buffer.
LEMMA ScratchLeftIsZero ==
  ASSUME NEW I, NEW B, ByteSet(B),
         NEW h \in HasherOver(I, B)
  PROVE  ScratchLeft(h) = Zeros(2 * BLOCK_LEN)
<1> DEFINE n    == 2 * BLOCK_LEN
           bl   == h.block_len
           la   == LenAt(h)
           used == UsedLen(h)
           s    == Scratch(h)
           once == Wipe(s, 0, bl + 1)
<1>1. n \in Nat /\ bl \in Nat /\ la \in bl + 1 .. used /\ used \in 0 .. n
      /\ la + LEN_FIELD = used
  BY BlockAssumption, UsedLenBounds DEF HasherOver
<1>2. s \in [1 .. n -> B]
      /\ \A i \in 1 .. n : (i \in bl + 2 .. la \/ i > used) => s[i] = ZERO
  BY ScratchLayout
<1>3. ScratchLeft(h) = Wipe(once, la, used)
  BY <1>1 DEF ScratchLeft
<1> HIDE DEF n, bl, la, used, s
<1>4. /\ once \in [1 .. n -> B]
      /\ \A i \in 1 .. n : once[i] = IF i \in 0 + 1 .. bl + 1 THEN ZERO ELSE s[i]
  <2>1. bl + 1 \in Nat /\ 0 \in Nat
    BY <1>1
  <2> QED BY <1>1, <1>2, <2>1, WipeType
<1>5. Len(once) = n
  BY <1>1, <1>4, FunctionIsSequence
<1> HIDE DEF once
<1>6. ASSUME NEW i \in 1 .. n
      PROVE  (IF i \in la + 1 .. used THEN ZERO ELSE once[i]) = ZERO
  BY <1>1, <1>2, <1>4
<1>7. Wipe(once, la, used) = Zeros(n)
  BY <1>5, <1>6 DEF Wipe, Zeros
<1> QED BY <1>3, <1>7 DEF n

\* What finalize compresses: tail, delimiter, zeros, length field.
LEMMA ScratchIsTailAndPadding ==
  ASSUME NEW I, NEW B, ByteSet(B),
         NEW h \in HasherOver(I, B)
  PROVE  LET tail == SubSeq(h.block, 1, h.block_len)
             gap  == UsedLen(h) - (h.block_len + 1 + LEN_FIELD)
             pad  == << DELIM >> \o Zeros(gap) \o ToBeBytes(BitLen(h.len))
         IN  /\ SubSeq(Scratch(h), 1, UsedLen(h)) = tail \o pad
             /\ tail \in Seq(B)
             /\ pad \in Seq(B)
<1> DEFINE bl    == h.block_len
           la    == LenAt(h)
           used  == UsedLen(h)
           s     == Scratch(h)
           tail  == SubSeq(h.block, 1, bl)
           gap   == used - (bl + 1 + LEN_FIELD)
           bytes == ToBeBytes(BitLen(h.len))
           open  == << DELIM >> \o Zeros(gap)
           pad   == open \o bytes
           all   == tail \o pad
           cut   == SubSeq(s, 1, used)
<1>1. /\ bl \in Nat /\ bl <= BLOCK_LEN /\ BLOCK_LEN \in Nat /\ LEN_FIELD \in Nat
      /\ la \in bl + 1 .. used /\ used \in 0 .. 2 * BLOCK_LEN
      /\ la + LEN_FIELD = used /\ gap \in Nat /\ gap = la - (bl + 1)
      /\ h.block \in [1 .. BLOCK_LEN -> B]
  BY BlockAssumption, UsedLenBounds DEF HasherOver
<1>2. bytes \in Seq(B) /\ Len(bytes) = LEN_FIELD
  <2>1. h.len * BITS \in Int
    BY BlockAssumption, LenModType DEF HasherOver
  <2>2. BitLen(h.len) \in Int
    BY <2>1, LenModType DEF BitLen
  <2>3. bytes \in [1 .. LEN_FIELD -> B]
    BY <2>2, ToBeBytesType
  <2> QED BY <1>1, <2>3, FunctionIsSequence
<1>3. /\ s \in [1 .. 2 * BLOCK_LEN -> B]
      /\ \A i \in 1 .. 2 * BLOCK_LEN :
           /\ i \in 1 .. bl => s[i] = h.block[i]
           /\ i = bl + 1 => s[i] = DELIM
           /\ i \in bl + 2 .. la => s[i] = ZERO
           /\ i \in la + 1 .. used => s[i] = bytes[i - la]
  BY ScratchLayout
<1>4. /\ tail \in Seq(B) /\ Len(tail) = bl
      /\ \A i \in 1 .. bl : tail[i] = h.block[i]
  BY <1>1, PrefixType
<1> HIDE DEF bl, la, used, s, tail, gap, bytes
<1>5. /\ Zeros(gap) \in Seq(B) /\ Len(Zeros(gap)) = gap
      /\ \A i \in 1 .. gap : Zeros(gap)[i] = ZERO
  <2>1. Zeros(gap) \in [1 .. gap -> B]
    BY <1>1, ZerosType
  <2>2. \A i \in 1 .. gap : Zeros(gap)[i] = ZERO
    BY DEF Zeros
  <2> QED BY <1>1, <2>1, <2>2, FunctionIsSequence
<1>6. /\ open \in Seq(B) /\ Len(open) = 1 + gap
      /\ \A i \in 1 .. 1 + gap : open[i] = IF i = 1 THEN DELIM ELSE ZERO
  <2> DEFINE d == << DELIM >>
             z == Zeros(gap)
  <2>1. d \in Seq(B) /\ Len(d) = 1 /\ d[1] = DELIM
    BY DelimIsByte
  <2>2. z \in Seq(B) /\ Len(z) = gap /\ \A i \in 1 .. gap : z[i] = ZERO
    BY <1>5
  <2> HIDE DEF d, z
  <2>3. /\ d \o z \in Seq(B)
        /\ Len(d \o z) = Len(d) + Len(z)
        /\ \A i \in 1 .. Len(d) + Len(z) : (d \o z)[i] =
             IF i <= Len(d) THEN d[i] ELSE z[i - Len(d)]
    BY <2>1, <2>2, ConcatProperties
  <2>4. open = d \o z
    BY DEF d, z
  <2>5. Len(open) = 1 + gap /\ open \in Seq(B)
    BY <2>1, <2>2, <2>3, <2>4
  <2>6. ASSUME NEW i \in 1 .. 1 + gap
        PROVE  open[i] = IF i = 1 THEN DELIM ELSE ZERO
    <3>1. open[i] = IF i <= 1 THEN d[i] ELSE z[i - 1]
      BY <2>1, <2>2, <2>3, <2>4
    <3>2. CASE i = 1
      BY <2>1, <3>1, <3>2
    <3>3. CASE i # 1
      <4>1. i - 1 \in 1 .. gap /\ ~(i <= 1)
        BY <1>1, <3>3
      <4>2. z[i - 1] = ZERO
        BY <2>2, <4>1
      <4> QED BY <3>1, <3>3, <4>1, <4>2
    <3> QED BY <3>2, <3>3
  <2> QED BY <2>5, <2>6
<1> HIDE DEF open
<1>7. /\ pad \in Seq(B) /\ Len(pad) = 1 + gap + LEN_FIELD
      /\ \A i \in 1 .. 1 + gap + LEN_FIELD : pad[i] =
           IF i <= 1 + gap THEN open[i] ELSE bytes[i - (1 + gap)]
  <2>1. /\ open \o bytes \in Seq(B)
        /\ Len(open \o bytes) = Len(open) + Len(bytes)
        /\ \A i \in 1 .. Len(open) + Len(bytes) : (open \o bytes)[i] =
             IF i <= Len(open) THEN open[i] ELSE bytes[i - Len(open)]
    BY <1>2, <1>6, ConcatProperties
  <2> QED BY <1>2, <1>6, <2>1
<1> HIDE DEF pad
<1>8. /\ all \in Seq(B) /\ Len(all) = bl + (1 + gap + LEN_FIELD)
      /\ \A i \in 1 .. bl + (1 + gap + LEN_FIELD) : all[i] =
           IF i <= bl THEN tail[i] ELSE pad[i - bl]
  <2>1. /\ tail \o pad \in Seq(B)
        /\ Len(tail \o pad) = Len(tail) + Len(pad)
        /\ \A i \in 1 .. Len(tail) + Len(pad) : (tail \o pad)[i] =
             IF i <= Len(tail) THEN tail[i] ELSE pad[i - Len(tail)]
    BY <1>4, <1>7, ConcatProperties
  <2> QED BY <1>4, <1>7, <2>1
<1> HIDE DEF all
<1>9. /\ cut \in Seq(B) /\ Len(cut) = used
      /\ \A i \in 1 .. used : cut[i] = s[i]
  <2>1. 2 * BLOCK_LEN \in Nat
    BY <1>1
  <2> QED BY <1>1, <1>3, <2>1, PrefixType
<1> HIDE DEF cut
<1>10. Len(all) = used
  BY <1>1, <1>8
<1>11. ASSUME NEW i \in 1 .. used
       PROVE  cut[i] = all[i]
  <2>1. i \in 1 .. 2 * BLOCK_LEN /\ i \in 1 .. bl + (1 + gap + LEN_FIELD)
    BY <1>1
  <2>2. CASE i <= bl
    <3>1. all[i] = tail[i] /\ i \in 1 .. bl
      BY <1>1, <1>8, <2>1, <2>2
    <3>2. s[i] = h.block[i] /\ tail[i] = h.block[i]
      BY <1>3, <1>4, <2>1, <3>1
    <3> QED BY <1>9, <3>1, <3>2
  <2>3. CASE i > bl
    <3>1. i - bl \in 1 .. 1 + gap + LEN_FIELD /\ all[i] = pad[i - bl]
      BY <1>1, <1>8, <2>1, <2>3
    <3>2. CASE i <= la
      <4>1. i - bl \in 1 .. 1 + gap /\ pad[i - bl] = open[i - bl]
        BY <1>1, <1>7, <2>3, <3>1, <3>2
      <4>2. open[i - bl] = IF i = bl + 1 THEN DELIM ELSE ZERO
        BY <1>1, <1>6, <4>1
      <4>3. s[i] = IF i = bl + 1 THEN DELIM ELSE ZERO
        BY <1>1, <1>3, <2>1, <2>3, <3>2
      <4> QED BY <1>9, <3>1, <4>1, <4>2, <4>3
    <3>3. CASE i > la
      <4>1. pad[i - bl] = bytes[(i - bl) - (1 + gap)]
        BY <1>1, <1>7, <3>1, <3>3
      <4>2. (i - bl) - (1 + gap) = i - la
        BY <1>1
      <4>3. s[i] = bytes[i - la]
        BY <1>1, <1>3, <2>1, <3>3
      <4> QED BY <1>9, <3>1, <4>1, <4>2, <4>3
    <3> QED BY <1>1, <3>2, <3>3
  <2> QED BY <1>1, <2>2, <2>3
<1>12. cut = all
  BY <1>8, <1>9, <1>10, <1>11, SeqEqual
<1> QED BY <1>4, <1>7, <1>12 DEF cut, all, pad, open, tail, bytes, gap, s, used, bl

\* finalize absorbs the contents followed by the FIPS 180-4 padding of their
\* length, in one piece.
LEMMA FinalizePads ==
  ASSUME NEW I, NEW B, ByteSet(B),
         NEW h \in HasherOver(I, B), ChainAligned(h),
         h.len = Len(Contents(h)) % LEN_MOD
  PROVE  LET n   == Len(Contents(h))
             pad == << DELIM >> \o Zeros((-(n + 1 + LEN_FIELD)) % BLOCK_LEN)
                                \o ToBeBytes((n * BITS) % LEN_MOD)
         IN  Finalize(h) = [iv |-> h.state.iv, absorbed |-> Contents(h) \o pad]
<1> DEFINE n    == Len(Contents(h))
           a    == h.state.absorbed
           tail == SubSeq(h.block, 1, h.block_len)
           used == UsedLen(h)
           gap  == used - (h.block_len + 1 + LEN_FIELD)
           pad  == << DELIM >> \o Zeros(gap) \o ToBeBytes(BitLen(h.len))
           cut  == SubSeq(Scratch(h), 1, used)
<1>1. /\ BLOCK_LEN \in Nat \ {0} /\ LEN_FIELD \in Nat
      /\ BITS \in Int /\ LEN_MOD \in Nat \ {0}
      /\ h.block_len \in 0 .. BLOCK_LEN - 1
      /\ h.block \in [1 .. BLOCK_LEN -> B]
      /\ h.state \in ChainOver(I, B) /\ a \in Seq(B) /\ Len(a) \in Nat
  BY BlockAssumption, LenModType, LenProperties DEF HasherOver, ChainOver
<1>2. /\ cut = tail \o pad /\ tail \in Seq(B) /\ pad \in Seq(B)
  BY ScratchIsTailAndPadding
<1>3. Len(tail) = h.block_len
  <2>1. h.block_len \in 0 .. BLOCK_LEN /\ BLOCK_LEN \in Nat
    BY <1>1
  <2> QED BY <1>1, <2>1, PrefixType
<1>4. n = Len(a) + h.block_len
  <2>1. Len(a \o tail) = Len(a) + Len(tail)
    BY <1>1, <1>2, ConcatProperties
  <2> QED BY <1>3, <2>1 DEF Contents
<1>5. BitLen(h.len) = (n * BITS) % LEN_MOD
  <2>1. n \in Int
    BY <1>1, <1>4
  <2>2. ((n % LEN_MOD) * BITS) % LEN_MOD = (n * BITS) % LEN_MOD
    BY <1>1, <2>1, WrapThenTimes
  <2> QED BY <2>2 DEF BitLen
<1>6. gap = (-(n + 1 + LEN_FIELD)) % BLOCK_LEN
  <2>1. PICK j \in Int : used = BLOCK_LEN * j
    BY UsedLenBounds
  <2>2. gap \in 0 .. BLOCK_LEN - 1
    BY UsedLenBounds
  <2>3. PICK k \in Int : Len(a) = BLOCK_LEN * k
    <3> DEFINE l == Len(a)
    <3>1. l \in Int /\ l % BLOCK_LEN = 0
      <4>1. Len(a) % BLOCK_LEN = 0
        BY DEF ChainAligned
      <4>2. Len(a) \in Int
        BY <1>1
      <4> QED BY <4>1, <4>2
    <3> HIDE DEF l
    <3>2. /\ l \div BLOCK_LEN \in Int
          /\ l = BLOCK_LEN * (l \div BLOCK_LEN) + (l % BLOCK_LEN)
      BY <1>1, <3>1, DivisionTheorem
    <3>3. l = BLOCK_LEN * (l \div BLOCK_LEN)
      BY <1>1, <3>1, <3>2
    <3> QED BY <3>2, <3>3 DEF l
  <2> DEFINE x == BLOCK_LEN * k   y == BLOCK_LEN * j   l == Len(a)
  <2>4. BLOCK_LEN * (-k - j) = -x - y /\ x \in Int /\ y \in Int /\ -k - j \in Int
    BY <1>1
  <2>5. used = y /\ l = x
    BY <2>1, <2>3
  <2>6. n = l + h.block_len /\ gap = used - (h.block_len + 1 + LEN_FIELD)
    BY <1>4
  <2>7. -(n + 1 + LEN_FIELD) = (-x - y) + gap /\ -(n + 1 + LEN_FIELD) \in Int
    <3>1. h.block_len \in Int /\ LEN_FIELD \in Int /\ x \in Int /\ y \in Int
      BY <1>1
    <3> HIDE DEF n, used, gap, x, y, l
    <3>2. n = x + h.block_len /\ gap = y - (h.block_len + 1 + LEN_FIELD)
      BY <2>5, <2>6
    <3> QED BY <3>1, <3>2
  <2> HIDE DEF n, used, gap, x, y, l
  <2>8. -(n + 1 + LEN_FIELD) = BLOCK_LEN * (-k - j) + gap
    BY <2>4, <2>7
  <2> DEFINE z == -(n + 1 + LEN_FIELD)   q == -k - j
  <2>9. z \in Int /\ q \in Int /\ z = BLOCK_LEN * q + gap
    BY <2>4, <2>7, <2>8
  <2> HIDE DEF z, q
  <2>10. z % BLOCK_LEN = gap
    BY <1>1, <2>2, <2>9, RemainderUnique
  <2> QED BY <2>10 DEF z
<1>7. Compress(h.state, cut) = [h.state EXCEPT !.absorbed = a \o cut]
  <2>1. Scratch(h) \in [1 .. 2 * BLOCK_LEN -> B] /\ 2 * BLOCK_LEN \in Nat
    BY <1>1, ScratchLayout
  <2>2. used \in 0 .. 2 * BLOCK_LEN /\ used % BLOCK_LEN = 0
    BY UsedLenBounds
  <2>3. cut \in Seq(B) /\ Len(cut) = used
    BY <2>1, <2>2, PrefixType
  <2>4. SubSeq(cut, 1, Len(cut)) = cut
    BY <2>3, SubSeqFull
  <2>5. WholeLen(cut) = Len(cut)
    BY <2>2, <2>3 DEF WholeLen
  <2> HIDE DEF cut
  <2> QED BY <2>4, <2>5 DEF Compress
<1>8. a \o (tail \o pad) = Contents(h) \o pad
  <2>1. a \in Seq(B) /\ tail \in Seq(B) /\ pad \in Seq(B)
    BY <1>1, <1>2
  <2> HIDE DEF a, tail, pad
  <2>2. a \o (tail \o pad) = (a \o tail) \o pad
    BY <2>1, ConcatAssociative
  <2> QED BY <2>2 DEF Contents, a, tail
<1>9. Finalize(h) = [iv |-> h.state.iv, absorbed |-> Contents(h) \o pad]
  <2>1. Finalize(h) = Compress(h.state, cut)
    BY DEF Finalize
  <2>2. Finalize(h) = [h.state EXCEPT !.absorbed = Contents(h) \o pad]
    BY <1>2, <1>7, <1>8, <2>1
  <2> HIDE DEF pad
  <2> QED BY <1>1, <2>2 DEF ChainOver
<1> QED BY <1>5, <1>6, <1>9

\* A digest is a chaining state.
LEMMA FinalizeType ==
  ASSUME NEW I, NEW B, ByteSet(B),
         NEW h \in HasherOver(I, B), ChainAligned(h)
  PROVE  Finalize(h) \in ChainOver(I, B)
<1> DEFINE cut == SubSeq(Scratch(h), 1, UsedLen(h))
<1>1. BLOCK_LEN \in Nat /\ h.state \in ChainOver(I, B)
  BY BlockAssumption DEF HasherOver
<1>2. Scratch(h) \in [1 .. 2 * BLOCK_LEN -> B] /\ 2 * BLOCK_LEN \in Nat
  BY <1>1, ScratchLayout
<1>3. UsedLen(h) \in 0 .. 2 * BLOCK_LEN /\ UsedLen(h) % BLOCK_LEN = 0
  BY UsedLenBounds
<1>4. cut \in Seq(B) /\ Len(cut) = UsedLen(h)
  BY <1>2, <1>3, PrefixType
<1>5. Finalize(h) = Compress(h.state, cut)
  BY DEF Finalize
<1> DEFINE s == h.state
<1>6. /\ s \in ChainOver(I, B) /\ Len(s.absorbed) % BLOCK_LEN = 0
      /\ Len(cut) % BLOCK_LEN = 0
  BY <1>1, <1>3, <1>4 DEF ChainAligned
<1> HIDE DEF cut, s
<1>7. Compress(s, cut) \in ChainOver(I, B)
  BY <1>4, <1>6, CompressWhole
<1> QED BY <1>5, <1>7 DEF s

-----------------------------------------------------------------------------
(***************************************************************************)
(* The values a handle starts from or is left with.                        *)
(***************************************************************************)

\* The counter and the compressed bytes agree with the contents.
Tracks(h) == ChainAligned(h) /\ h.len = Len(Contents(h)) % LEN_MOD

Clean(h) == h.state = ZERO_STATE /\ h.block = Zeros(BLOCK_LEN)

\* The initial vector and the all-zero state are chaining states.
LEMMA InitialStates ==
  ASSUME NEW I, NEW B, IvSet(I)
  PROVE
  /\ INITIAL_STATE \in ChainOver(I, B) /\ INITIAL_STATE.absorbed = << >>
  /\ ZERO_STATE \in ChainOver(I, B) /\ ZERO_STATE.absorbed = << >>
  BY DEF INITIAL_STATE, ZERO_STATE, ChainOver, IvSet, Ivs

\* A hasher with an empty block on a state of whole blocks.
LEMMA AtBoundary ==
  ASSUME NEW I, NEW B,
         NEW h \in HasherOver(I, B), h.block_len = 0,
         Len(h.state.absorbed) % BLOCK_LEN = 0,
         h.len = Len(h.state.absorbed) % LEN_MOD
  PROVE  Tracks(h) /\ Contents(h) = h.state.absorbed
<1>1. h \in HasherInUpdate(I, B)
  BY BlockAssumption DEF HasherOver, HasherInUpdate
<1>2. Contents(h) = h.state.absorbed
  BY <1>1, EmptyBlockContents
<1> QED BY <1>2 DEF Tracks, ChainAligned

\* A hasher at the start of a message.
LEMMA AtStart ==
  ASSUME NEW I, NEW B,
         NEW h \in HasherOver(I, B), h.block_len = 0, h.len = 0,
         h.state.absorbed = << >>
  PROVE  Tracks(h) /\ Contents(h) = << >>
<1>1. Len(h.state.absorbed) = 0
  OBVIOUS
<1>2. 0 % BLOCK_LEN = 0 /\ 0 % LEN_MOD = 0
  BY BlockAssumption, LenModType
<1> QED BY <1>1, <1>2, AtBoundary

\* from_state on whole blocks; new is the case of no bytes at all.
LEMMA FromStateSound ==
  ASSUME NEW I, NEW B, ByteSet(B),
         NEW c \in ChainOver(I, B), NEW n \in 0 .. LEN_MOD - 1
  PROVE  LET h == FromState(c, n)
         IN  /\ h \in HasherOver(I, B)
             /\ BufferSound(h)
             /\ h.state = c /\ h.len = n /\ h.block_len = 0
<1>1. BLOCK_LEN \in Nat \ {0} /\ Zeros(BLOCK_LEN) \in [1 .. BLOCK_LEN -> B]
  BY BlockAssumption, ZerosType
<1> QED BY <1>1 DEF FromState, HasherOver, BufferSound, Zeros

\* Sha256::new yields a well-formed hasher of the empty message.
LEMMA NewSound ==
  ASSUME NEW I, NEW B, ByteSet(B), IvSet(I)
  PROVE
  /\ New \in HasherOver(I, B) /\ BufferSound(New) /\ Tracks(New)
  /\ New.state = INITIAL_STATE
  /\ Contents(New) = << >>
<1>1. 0 \in 0 .. LEN_MOD - 1
  BY LenModType
<1>2. /\ New \in HasherOver(I, B) /\ BufferSound(New)
      /\ New.state = INITIAL_STATE /\ New.len = 0 /\ New.block_len = 0
  BY <1>1, InitialStates, FromStateSound DEF New
<1> QED BY <1>2, InitialStates, AtStart

\* A message started on chaining state c in the buffer of w.
StartedOn(w, c) ==
  [w EXCEPT !.state = c, !.block_len = 0, !.block_filled = 0, !.len = 0]

\* It is well started if the block is all zeros, however it was wiped.
LEMMA StartAt ==
  ASSUME NEW I, NEW B,
         NEW w \in HasherOver(I, B), w.block = Zeros(BLOCK_LEN),
         NEW c \in ChainOver(I, B), c.absorbed = << >>
  PROVE  /\ StartedOn(w, c) \in HasherOver(I, B)
         /\ BufferSound(StartedOn(w, c)) /\ Tracks(StartedOn(w, c))
         /\ StartedOn(w, c).state = c
         /\ StartedOn(w, c).block = Zeros(BLOCK_LEN)
         /\ Contents(StartedOn(w, c)) = << >>
<1> DEFINE new == StartedOn(w, c)
<1>1. 0 \in 0 .. LEN_MOD - 1 /\ 0 \in 0 .. BLOCK_LEN - 1 /\ 0 \in 0 .. BLOCK_LEN
      /\ BLOCK_LEN \in Nat
  BY BlockAssumption, LenModType
<1>2. new \in HasherOver(I, B)
  BY <1>1 DEF HasherOver, StartedOn
<1>3. /\ new.state = c /\ new.block = Zeros(BLOCK_LEN)
      /\ new.block_len = 0 /\ new.block_filled = 0 /\ new.len = 0
  BY DEF HasherOver, StartedOn
<1> HIDE DEF new
<1>4. BufferSound(new)
  BY <1>1, <1>3 DEF BufferSound, Zeros
<1>5. Tracks(new) /\ Contents(new) = << >>
  BY <1>2, <1>3, AtStart
<1> QED BY <1>2, <1>3, <1>4, <1>5 DEF new

\* Reset and zeroize start a message with a block that is all zeros.
LEMMA RestartSound ==
  ASSUME NEW I, NEW B, ByteSet(B), IvSet(I),
         NEW h \in HasherOver(I, B), BufferSound(h)
  PROVE  /\ Reset(h) \in HasherOver(I, B) /\ BufferSound(Reset(h)) /\ Tracks(Reset(h))
         /\ Reset(h).state = INITIAL_STATE /\ Contents(Reset(h)) = << >>
         /\ Zeroize(h) \in HasherOver(I, B) /\ BufferSound(Zeroize(h)) /\ Tracks(Zeroize(h))
         /\ Clean(Zeroize(h)) /\ Contents(Zeroize(h)) = << >>
<1> DEFINE w == WipeBlock(h)
<1>1. w \in HasherOver(I, B) /\ w = [h EXCEPT !.block = Zeros(BLOCK_LEN)]
  BY WipeToMarkWipesAll
<1>2. w \in HasherOver(I, B) /\ w.block = Zeros(BLOCK_LEN)
  BY <1>1 DEF HasherOver
<1>3. Reset(h) = StartedOn(w, INITIAL_STATE) /\ Zeroize(h) = StartedOn(w, ZERO_STATE)
  BY DEF Reset, Zeroize, StartedOn
<1>4. /\ INITIAL_STATE \in ChainOver(I, B) /\ INITIAL_STATE.absorbed = << >>
      /\ ZERO_STATE \in ChainOver(I, B) /\ ZERO_STATE.absorbed = << >>
  BY InitialStates
<1> HIDE DEF w
<1>5. ASSUME NEW c \in ChainOver(I, B), c.absorbed = << >>
      PROVE  /\ StartedOn(w, c) \in HasherOver(I, B)
             /\ BufferSound(StartedOn(w, c)) /\ Tracks(StartedOn(w, c))
             /\ StartedOn(w, c).state = c
             /\ StartedOn(w, c).block = Zeros(BLOCK_LEN)
             /\ Contents(StartedOn(w, c)) = << >>
  BY <1>2, <1>5, StartAt
<1> QED BY <1>3, <1>4, <1>5 DEF Clean

\* Drop leaves the counters and wipes everything that holds message bytes.
LEMMA DropSound ==
  ASSUME NEW I, NEW B, ByteSet(B), IvSet(I),
         NEW h \in HasherOver(I, B), BufferSound(h)
  PROVE  Drop(h) \in HasherOver(I, B) /\ BufferSound(Drop(h)) /\ Clean(Drop(h))
<1>1. /\ WipeBlock(h) \in HasherOver(I, B)
      /\ WipeBlock(h) = [h EXCEPT !.block = Zeros(BLOCK_LEN)]
  BY WipeToMarkWipesAll
<1>2. Drop(h) = [WipeBlock(h) EXCEPT !.state = ZERO_STATE]
  BY DEF Drop
<1>3. /\ Drop(h) \in HasherOver(I, B)
      /\ Drop(h).state = ZERO_STATE
      /\ Drop(h).block = Zeros(BLOCK_LEN)
      /\ Drop(h).block_len = h.block_len
      /\ Drop(h).block_filled = h.block_filled
  <2>1. ZERO_STATE \in ChainOver(I, B)
    BY InitialStates
  <2> QED BY <1>1, <1>2, <2>1 DEF HasherOver
<1>4. BufferSound(Drop(h))
  <2>1. \A i \in h.block_filled + 1 .. BLOCK_LEN : Zeros(BLOCK_LEN)[i] = ZERO
    BY BlockAssumption DEF Zeros, HasherOver
  <2> QED BY <1>3, <2>1 DEF BufferSound
<1> QED BY <1>3, <1>4 DEF Clean

-----------------------------------------------------------------------------
(***************************************************************************)
(* What the calls that go on with a message keep.                          *)
(***************************************************************************)

\* The contents are bytes.
LEMMA ContentsType ==
  ASSUME NEW I, NEW B, NEW h \in HasherOver(I, B)
  PROVE  Contents(h) \in Seq(B) /\ Len(Contents(h)) \in Nat
<1> DEFINE a == h.state.absorbed
           t == SubSeq(h.block, 1, h.block_len)
<1>1. /\ h.block \in [1 .. BLOCK_LEN -> B] /\ a \in Seq(B)
      /\ h.block_len \in 0 .. BLOCK_LEN /\ BLOCK_LEN \in Nat
  BY BlockAssumption DEF HasherOver, ChainOver
<1>2. t \in Seq(B)
  BY <1>1, PrefixType
<1>3. Contents(h) = a \o t
  BY DEF Contents
<1> HIDE DEF a, t
<1>4. a \o t \in Seq(B)
  BY <1>1, <1>2, ConcatProperties
<1>5. Len(a \o t) \in Nat
  BY <1>4, LenProperties
<1> QED BY <1>3, <1>4, <1>5

\* update keeps a live hasher in step with its message.
LEMMA UpdateTracks ==
  ASSUME NEW I, NEW B, NEW h \in HasherOver(I, B),
         BufferSound(h), Tracks(h), NEW data \in Seq(B)
  PROVE  /\ Update(h, data) \in HasherOver(I, B)
         /\ BufferSound(Update(h, data))
         /\ Tracks(Update(h, data))
         /\ Update(h, data).state.iv = h.state.iv
         /\ Contents(Update(h, data)) = Contents(h) \o data
<1> DEFINE new == Update(h, data)
           n   == Len(Contents(h))
<1>1. ChainAligned(h) /\ h.len = n % LEN_MOD
  BY DEF Tracks
<1>2. /\ new \in HasherOver(I, B) /\ BufferSound(new) /\ ChainAligned(new)
      /\ new.state.iv = h.state.iv
      /\ new.len = (h.len + Len(data)) % LEN_MOD
      /\ Contents(new) = Contents(h) \o data
  BY <1>1, UpdateAppends
<1>3. Contents(h) \in Seq(B)
  BY ContentsType
<1>4. Len(Contents(h) \o data) = n + Len(data) /\ n \in Int /\ Len(data) \in Int
  BY <1>3, ConcatProperties, LenProperties
<1>5. ((n % LEN_MOD) + Len(data)) % LEN_MOD = (n + Len(data)) % LEN_MOD
  BY <1>4, LenModType, WrapThenAdd
<1>6. Tracks(new)
  BY <1>1, <1>2, <1>4, <1>5 DEF Tracks
<1> QED BY <1>2, <1>6

\* Resuming from the state of a hasher on a block boundary.
LEMMA ResumeTracks ==
  ASSUME NEW I, NEW B, ByteSet(B), NEW h \in HasherOver(I, B),
         Tracks(h), h.block_len = 0
  PROVE  LET new == FromState(h.state, h.len)
         IN  /\ new \in HasherOver(I, B) /\ BufferSound(new) /\ Tracks(new)
             /\ new.state.iv = h.state.iv /\ Contents(new) = Contents(h)
<1> DEFINE new == FromState(h.state, h.len)
<1>1. h.state \in ChainOver(I, B) /\ h.len \in 0 .. LEN_MOD - 1
  BY DEF HasherOver
<1>2. /\ new \in HasherOver(I, B) /\ BufferSound(new)
      /\ new.state = h.state /\ new.len = h.len /\ new.block_len = 0
  BY <1>1, FromStateSound
<1> HIDE DEF new
<1>3. h \in HasherInUpdate(I, B)
  BY BlockAssumption DEF HasherOver, HasherInUpdate
<1>4. Contents(h) = h.state.absorbed
  BY <1>3, EmptyBlockContents
<1>5. Tracks(new) /\ Contents(new) = new.state.absorbed
  BY <1>2, <1>4, AtBoundary DEF Tracks, ChainAligned
<1> QED BY <1>2, <1>4, <1>5 DEF new

-----------------------------------------------------------------------------
(***************************************************************************)
(* HMAC.                                                                   *)
(***************************************************************************)
\* HMAC of a whole message under the initial vector of SHA-256.
F == INSTANCE Fips198 WITH H0 <- "H0"

Pads == {"ipad", "opad"}

PadOf(B)    == Pads \X B
DigestOf(B) == {"digest"} \X ChainOver(Ivs, B) \X (1 .. DIGEST_LEN)

\* The chaining state behind key block k0 on initial vector v, and an
\* instance just keyed.
PadState(v, p, k0) == [iv |-> v, absorbed |-> XorInto(p, k0)]

KeyedWith(v, k0) ==
  [inner       |-> FromState(PadState(v, "ipad", k0), PREFIX_LEN),
   inner_state |-> PadState(v, "ipad", k0),
   outer_state |-> PadState(v, "opad", k0)]

-----------------------------------------------------------------------------
\* A sequence over fewer bytes is one over more.
LEMMA SeqMonotone ==
  ASSUME NEW B, NEW C, B \subseteq C, NEW s \in Seq(B)
  PROVE  s \in Seq(C)
<1>1. /\ Len(s) \in Nat /\ s = [i \in 1 .. Len(s) |-> s[i]]
      /\ \A i \in 1 .. Len(s) : s[i] \in B
  BY LenProperties
<1> QED BY <1>1, IsASeq

\* So are a chaining state and a hasher.
LEMMA HasherMonotone ==
  ASSUME NEW I, NEW B, NEW C, B \subseteq C
  PROVE  /\ \A c \in ChainOver(I, B) : c \in ChainOver(I, C)
         /\ \A h \in HasherOver(I, B) : h \in HasherOver(I, C)
         /\ ByteSet(B) => ByteSet(C)
<1>1. \A c \in ChainOver(I, B) : c \in ChainOver(I, C)
  BY SeqMonotone DEF ChainOver
<1>2. \A h \in HasherOver(I, B) : h.state \in ChainOver(I, C)
  BY <1>1 DEF HasherOver
<1>3. \A h \in HasherOver(I, B) : h \in HasherOver(I, C)
  BY <1>2 DEF HasherOver
<1> QED BY <1>1, <1>3 DEF ByteSet

\* Sizes that every proof below needs.
LEMMA Sizes == /\ BLOCK_LEN \in Nat \ {0} /\ PREFIX_LEN = BLOCK_LEN
               /\ DIGEST_LEN \in Nat \ {0} /\ DIGEST_LEN <= BLOCK_LEN
               /\ LEN_MOD \in Nat \ {0} /\ PREFIX_LEN \in 0 .. LEN_MOD - 1
               /\ IvSet(Ivs)
<1>1. BLOCK_LEN \in Nat \ {0} /\ LEN_MOD \in Nat \ {0}
  BY BlockAssumption, LenModType
<1> QED BY <1>1, DigestAssumption, PrefixAssumption DEF PREFIX_LEN, IvSet

\* The bytes of a digest.
LEMMA DigestBytesType ==
  ASSUME NEW B, NEW c \in ChainOver(Ivs, B)
  PROVE  /\ DigestBytes(c) \in [1 .. DIGEST_LEN -> DigestOf(B)]
         /\ DigestBytes(c) \in Seq(DigestOf(B))
         /\ Len(DigestBytes(c)) = DIGEST_LEN
<1>1. DigestBytes(c) \in [1 .. DIGEST_LEN -> DigestOf(B)]
  BY DEF DigestBytes, DigestOf
<1> QED BY <1>1, Sizes, FunctionIsSequence

\* Two digests agree in their bytes only if they are the same.
LEMMA DigestBytesInjective ==
  ASSUME NEW a, NEW b, DigestBytes(a) = DigestBytes(b)
  PROVE  a = b
<1>1. 1 \in 1 .. DIGEST_LEN
  BY Sizes
<1>2. DigestBytes(a)[1] = << "digest", a, 1 >> /\ DigestBytes(b)[1] = << "digest", b, 1 >>
  BY <1>1 DEF DigestBytes
<1> QED BY <1>2

\* The constant-time comparison of two digests is equality.
LEMMA CtEqIsEquality ==
  ASSUME NEW B, NEW C, NEW a \in ChainOver(Ivs, B), NEW b \in ChainOver(Ivs, C)
  PROVE  CtEq(DigestBytes(a), DigestBytes(b)) <=> (a = b)
<1>1. /\ Len(DigestBytes(a)) = DIGEST_LEN /\ Len(DigestBytes(b)) = DIGEST_LEN
  BY DigestBytesType
<1>2. ASSUME CtEq(DigestBytes(a), DigestBytes(b)) PROVE a = b
  <2>1. \A i \in 1 .. DIGEST_LEN : DigestBytes(a)[i] = DigestBytes(b)[i]
    BY <1>1, <1>2 DEF CtEq
  <2>2. DigestBytes(a) = DigestBytes(b)
    BY <2>1 DEF DigestBytes
  <2> QED BY <2>2, DigestBytesInjective
<1>3. ASSUME a = b PROVE CtEq(DigestBytes(a), DigestBytes(b))
  BY <1>1, <1>3 DEF CtEq
<1> QED BY <1>2, <1>3

\* Copying a slice to the start of a zeroed buffer pads it with zeros.
LEMMA ZeroPadded ==
  ASSUME NEW B, ByteSet(B), NEW d \in Seq(B), NEW n \in Nat, Len(d) <= n
  PROVE  /\ CopyFromSlice(Zeros(n), 0, d) \in [1 .. n -> B]
         /\ CopyFromSlice(Zeros(n), 0, d) = d \o Zeros(n - Len(d))
<1> DEFINE buf == CopyFromSlice(Zeros(n), 0, d)
           k   == Len(d)
           z   == Zeros(n - k)
<1>1. k \in Nat /\ n - k \in Nat
  BY LenProperties
<1>2. Zeros(n) \in [1 .. n -> B] /\ z \in [1 .. n - k -> B]
  BY <1>1, ZerosType
<1>3. z \in Seq(B) /\ Len(z) = n - k /\ Zeros(n) \in Seq(B) /\ Len(Zeros(n)) = n
  BY <1>1, <1>2, FunctionIsSequence
<1>4. \A i \in 1 .. n - k : z[i] = ZERO
  BY DEF Zeros
<1>5. buf = [i \in 1 .. n |-> IF i <= k THEN d[i] ELSE ZERO]
  BY <1>1, <1>3 DEF CopyFromSlice, Zeros
<1>6. \A i \in 1 .. k : d[i] \in B
  OBVIOUS
<1>7. buf \in [1 .. n -> B]
  BY <1>1, <1>5, <1>6, ZeroIsByte
<1> HIDE DEF z, buf
<1>8. /\ d \o z \in Seq(B) /\ Len(d \o z) = n
      /\ \A i \in 1 .. n : (d \o z)[i] = IF i <= k THEN d[i] ELSE z[i - k]
  BY <1>1, <1>3, ConcatProperties
<1>9. buf \in Seq(B) /\ Len(buf) = n
  BY <1>7, FunctionIsSequence
<1>10. ASSUME NEW i \in 1 .. n PROVE buf[i] = (d \o z)[i]
  <2>1. CASE i <= k
    BY <1>5, <1>8, <2>1
  <2>2. CASE ~(i <= k)
    <3>1. i - k \in 1 .. n - k
      BY <1>1, <2>2
    <3> QED BY <1>4, <1>5, <1>8, <2>2, <3>1
  <2> QED BY <2>1, <2>2
<1>11. buf = d \o z
  BY <1>8, <1>9, <1>10, SeqEqual
<1> QED BY <1>7, <1>11 DEF buf, z

-----------------------------------------------------------------------------
(***************************************************************************)
(* The whole-message hash.                                                 *)
(***************************************************************************)

\* FIPS 180-4 in the operators of Sha256.
LEMMA HashIs ==
  \A bytes : F!Hash(bytes) =
    LET n   == Len(bytes)
        pad == << DELIM >> \o Zeros((-(n + 1 + LEN_FIELD)) % BLOCK_LEN)
                           \o ToBeBytes((n * BITS) % LEN_MOD)
    IN  [iv |-> "H0", absorbed |-> bytes \o pad]
<1>1. /\ F!DELIM = DELIM /\ F!LEN_MOD = LEN_MOD
      /\ \A n : F!Zeros(n) = Zeros(n)
      /\ \A n : F!ToBeBytes(n) = ToBeBytes(n)
  BY DEF F!DELIM, DELIM, F!LEN_MOD, LEN_MOD, F!BASE, BASE, F!Zeros, Zeros,
         F!ZERO, ZERO, F!Lit, Lit, F!ToBeBytes, ToBeBytes
<1> QED BY <1>1 DEF F!Hash, F!Digest, F!Message, F!Padding

\* A hasher that tracks its message finalizes to the hash of the message.
LEMMA FinalizeIsHash ==
  ASSUME NEW B, ByteSet(B), NEW h \in HasherOver(Ivs, B), Tracks(h),
         h.state.iv = "H0"
  PROVE  Finalize(h) = F!Hash(Contents(h))
<1>1. ChainAligned(h) /\ h.len = Len(Contents(h)) % LEN_MOD
  BY DEF Tracks
<1>2. LET n   == Len(Contents(h))
          pad == << DELIM >> \o Zeros((-(n + 1 + LEN_FIELD)) % BLOCK_LEN)
                             \o ToBeBytes((n * BITS) % LEN_MOD)
      IN  Finalize(h) = [iv |-> h.state.iv, absorbed |-> Contents(h) \o pad]
  BY <1>1, FinalizePads
<1> QED BY <1>2, HashIs

\* Hashing in one call.
LEMMA HashOnce ==
  ASSUME NEW B, ByteSet(B), NEW data \in Seq(B)
  PROVE  /\ Finalize(Update(New, data)) = F!Hash(data)
         /\ F!Hash(data) \in ChainOver(Ivs, B)
<1> DEFINE h == Update(New, data)
<1>1. /\ New \in HasherOver(Ivs, B) /\ BufferSound(New) /\ Tracks(New)
      /\ New.state = INITIAL_STATE /\ Contents(New) = << >>
  BY Sizes, NewSound
<1>0. New.state.iv = "H0"
  BY <1>1 DEF INITIAL_STATE
<1>2. /\ h \in HasherOver(Ivs, B) /\ Tracks(h) /\ h.state.iv = "H0"
      /\ Contents(h) = << >> \o data
  <2>1. /\ h \in HasherOver(Ivs, B) /\ Tracks(h) /\ h.state.iv = New.state.iv
        /\ Contents(h) = Contents(New) \o data
    <3> DEFINE v == New
    <3>1. v \in HasherOver(Ivs, B) /\ BufferSound(v) /\ Tracks(v)
      BY <1>1
    <3> HIDE DEF v
    <3>2. /\ Update(v, data) \in HasherOver(Ivs, B) /\ Tracks(Update(v, data))
          /\ Update(v, data).state.iv = v.state.iv
          /\ Contents(Update(v, data)) = Contents(v) \o data
      BY <3>1, UpdateTracks
    <3> QED BY <3>2 DEF v
  <2> HIDE DEF h
  <2> QED BY <1>0, <1>1, <2>1
<1>3. << >> \o data = data
  BY ConcatEmptySeq
<1> HIDE DEF h
<1>4. ChainAligned(h)
  BY <1>2 DEF Tracks
<1>5. Finalize(h) = F!Hash(data) /\ Finalize(h) \in ChainOver(Ivs, B)
  BY <1>2, <1>3, <1>4, FinalizeIsHash, FinalizeType
<1> QED BY <1>5 DEF h

\* finalize stays on the initial vector.
LEMMA FinalizeKeepsIv ==
  ASSUME NEW I, NEW B, NEW h \in HasherOver(I, B)
  PROVE  Finalize(h).iv = h.state.iv
<1>1. h.state \in ChainOver(I, B)
  BY DEF HasherOver
<1> QED BY <1>1 DEF Finalize, Compress, ChainOver

-----------------------------------------------------------------------------
(***************************************************************************)
(* Keying.                                                                 *)
(***************************************************************************)

\* The key block is that of RFC 2104: one block of key or digest bytes.
LEMMA KeyBlockIsK0 ==
  ASSUME NEW B, ByteSet(B), NEW key \in Seq(B)
  PROVE  /\ KeyBlock(key) \in [1 .. BLOCK_LEN -> B \cup DigestOf(B)]
         /\ KeyBlock(key) = F!K0(key)
<1> DEFINE C     == B \cup DigestOf(B)
           short == IF Len(key) > BLOCK_LEN THEN DigestBytes(F!Hash(key)) ELSE key
<1>1. ByteSet(C) /\ B \subseteq C /\ DigestOf(B) \subseteq C
  BY DEF ByteSet
<1>2. Finalize(Update(New, key)) = F!Hash(key) /\ F!Hash(key) \in ChainOver(Ivs, B)
  BY HashOnce
<1>3. short \in Seq(C) /\ Len(short) <= BLOCK_LEN
  <2>1. CASE Len(key) > BLOCK_LEN
    <3>1. /\ DigestBytes(F!Hash(key)) \in Seq(DigestOf(B))
          /\ Len(DigestBytes(F!Hash(key))) = DIGEST_LEN
      BY <1>2, DigestBytesType
    <3>2. DigestBytes(F!Hash(key)) \in Seq(C)
      BY <1>1, <3>1, SeqMonotone
    <3> QED BY <2>1, <3>1, <3>2, Sizes
  <2>2. CASE ~(Len(key) > BLOCK_LEN)
    <3>1. key \in Seq(C)
      BY <1>1, SeqMonotone
    <3>2. Len(key) \in Nat /\ BLOCK_LEN \in Nat
      BY LenProperties, Sizes
    <3> QED BY <2>2, <3>1, <3>2
  <2> QED BY <2>1, <2>2
<1>4. KeyBlock(key) = CopyFromSlice(Zeros(BLOCK_LEN), 0, short)
  BY <1>2 DEF KeyBlock
<1>5. F!K0(key) = short \o Zeros(BLOCK_LEN - Len(short))
  <2>1. /\ \A n : F!Zeros(n) = Zeros(n)
        /\ \A c : F!DigestBytes(c) = DigestBytes(c)
    BY DEF F!Zeros, Zeros, F!ZERO, ZERO, F!Lit, Lit, F!DigestBytes, DigestBytes
  <2> QED BY <2>1 DEF F!K0
<1> HIDE DEF C, short
<1>6. BLOCK_LEN \in Nat
  BY Sizes
<1>7. /\ CopyFromSlice(Zeros(BLOCK_LEN), 0, short) \in [1 .. BLOCK_LEN -> C]
      /\ CopyFromSlice(Zeros(BLOCK_LEN), 0, short)
           = short \o Zeros(BLOCK_LEN - Len(short))
  BY <1>1, <1>3, <1>6, ZeroPadded
<1> QED BY <1>4, <1>5, <1>7 DEF C

\* A block of pad bytes.
LEMMA XorIntoType ==
  ASSUME NEW B, NEW p \in Pads, NEW k0 \in [1 .. BLOCK_LEN -> B]
  PROVE  /\ XorInto(p, k0) \in Seq(PadOf(B)) /\ Len(XorInto(p, k0)) = BLOCK_LEN
         /\ \A i \in 1 .. BLOCK_LEN : XorInto(p, k0)[i] = << p, k0[i] >>
<1>1. XorInto(p, k0) \in [1 .. BLOCK_LEN -> PadOf(B)]
  BY DEF XorInto, PadOf
<1>2. \A i \in 1 .. BLOCK_LEN : XorInto(p, k0)[i] = << p, k0[i] >>
  BY DEF XorInto
<1> QED BY <1>1, <1>2, Sizes, FunctionIsSequence

\* One block of data goes straight through the compressor and leaves the
\* block, the mark and the fill of a new hasher as they were.
LEMMA UpdateOneBlock ==
  ASSUME NEW v, NEW B, NEW data \in Seq(B), Len(data) = BLOCK_LEN
  PROVE  Update(FromState([iv |-> v, absorbed |-> << >>], 0), data) =
           FromState([iv |-> v, absorbed |-> data], PREFIX_LEN)
<1>1. BLOCK_LEN \in Nat \ {0} /\ BLOCK_LEN = PREFIX_LEN
      /\ LEN_MOD \in Nat \ {0} /\ BLOCK_LEN \in 0 .. LEN_MOD - 1
  BY Sizes
<1>2. BLOCK_LEN % BLOCK_LEN = 0
  <2>1. BLOCK_LEN = BLOCK_LEN * 1 + 0 /\ 0 \in 0 .. BLOCK_LEN - 1 /\ BLOCK_LEN \in Int
    BY <1>1
  <2> QED BY <1>1, <2>1, RemainderUnique
<1>3. (0 + BLOCK_LEN) % LEN_MOD = BLOCK_LEN
  <2>1. BLOCK_LEN = LEN_MOD * 0 + BLOCK_LEN /\ BLOCK_LEN \in Int /\ 0 + BLOCK_LEN = BLOCK_LEN
    BY <1>1
  <2>2. BLOCK_LEN % LEN_MOD = BLOCK_LEN
    BY <1>1, <2>1, RemainderUnique
  <2> QED BY <2>1, <2>2
<1>4. WholeLen(data) = BLOCK_LEN
  BY <1>1, <1>2 DEF WholeLen
<1>5. SubSeq(data, 1, BLOCK_LEN) = data /\ SubSeq(data, 1, Len(data)) = data
  BY SubSeqFull
<1>6. SubSeq(data, BLOCK_LEN + 1, Len(data)) = << >>
  <2>1. Len(data) < BLOCK_LEN + 1 /\ Len(data) \in Int /\ BLOCK_LEN + 1 \in Int
    BY <1>1
  <2> QED BY <2>1, SubSeqEmpty
<1>7. << >> \o data = data
  BY ConcatEmptySeq
<1> DEFINE c == [iv |-> v, absorbed |-> data]   s == [iv |-> v, absorbed |-> << >>]
           n == FromState(s, 0)
<1>8. Compress(s, data) = c
  BY <1>4, <1>5, <1>7 DEF Compress
<1>9. Counted(n, data) = FromState(s, BLOCK_LEN)
  BY <1>3 DEF Counted, FromState
<1>10. Update(n, data) = Absorb(Counted(n, data), data)
  BY DEF Update, FromState
<1>11. Absorb(FromState(s, BLOCK_LEN), data)
         = [FromState(s, BLOCK_LEN) EXCEPT !.state = Compress(@, data)]
  BY <1>4, <1>5, <1>6 DEF Absorb
<1> HIDE DEF c
<1>12. [FromState(s, BLOCK_LEN) EXCEPT !.state = Compress(@, data)]
         = FromState(c, BLOCK_LEN)
  BY <1>8 DEF FromState
<1> QED BY <1>1, <1>9, <1>10, <1>11, <1>12 DEF c, n, s

\* A freshly keyed instance is its key block and nothing else.
LEMMA WithKeyIs ==
  ASSUME NEW B, ByteSet(B), NEW key \in Seq(B)
  PROVE  WithKey(key) = KeyedWith("H0", KeyBlock(key))
<1> DEFINE k0 == KeyBlock(key)
<1>1. k0 \in [1 .. BLOCK_LEN -> B \cup DigestOf(B)]
  BY KeyBlockIsK0
<1> HIDE DEF k0
<1>0. New = FromState([iv |-> "H0", absorbed |-> << >>], 0)
  BY DEF New, INITIAL_STATE
<1>2. ASSUME NEW p \in Pads
      PROVE  Update(New, XorInto(p, k0)) = FromState(PadState("H0", p, k0), PREFIX_LEN)
  <2>1. /\ XorInto(p, k0) \in Seq(PadOf(B \cup DigestOf(B)))
        /\ Len(XorInto(p, k0)) = BLOCK_LEN
    BY <1>1, XorIntoType
  <2> QED BY <1>0, <2>1, UpdateOneBlock DEF PadState
<1>3. \A c : FromState(c, PREFIX_LEN).state = c
  BY DEF FromState
<1> QED BY <1>2, <1>3 DEF WithKey, KeyedWith, Pads, k0

\* The state behind a key block, and a hasher that goes on from it.
LEMMA PadStateSound ==
  ASSUME NEW I, NEW v \in I, NEW B, NEW p \in Pads, NEW k0 \in [1 .. BLOCK_LEN -> B],
         NEW C, ByteSet(C), PadOf(B) \subseteq C
  PROVE  /\ PadState(v, p, k0) \in ChainOver(I, PadOf(B))
         /\ PadState(v, p, k0) \in ChainOver(I, C)
         /\ FromState(PadState(v, p, k0), PREFIX_LEN) \in HasherOver(I, C)
         /\ BufferSound(FromState(PadState(v, p, k0), PREFIX_LEN))
         /\ Tracks(FromState(PadState(v, p, k0), PREFIX_LEN))
         /\ Contents(FromState(PadState(v, p, k0), PREFIX_LEN)) = XorInto(p, k0)
<1> DEFINE c == PadState(v, p, k0)
           h == FromState(c, PREFIX_LEN)
<1>1. XorInto(p, k0) \in Seq(PadOf(B)) /\ Len(XorInto(p, k0)) = BLOCK_LEN
  BY XorIntoType
<1>2. XorInto(p, k0) \in Seq(C)
  BY <1>1, SeqMonotone
<1>3. c \in ChainOver(I, PadOf(B)) /\ c \in ChainOver(I, C)
  BY <1>1, <1>2 DEF PadState, ChainOver
<1>4. c.absorbed = XorInto(p, k0) /\ Len(c.absorbed) = BLOCK_LEN
  BY <1>1 DEF PadState
<1>5. PREFIX_LEN \in 0 .. LEN_MOD - 1 /\ PREFIX_LEN = BLOCK_LEN
  BY Sizes
<1> HIDE DEF c
<1>6. /\ h \in HasherOver(I, C) /\ BufferSound(h)
      /\ h.state = c /\ h.len = PREFIX_LEN /\ h.block_len = 0
  BY <1>3, <1>5, FromStateSound
<1> HIDE DEF h
<1>7. BLOCK_LEN % BLOCK_LEN = 0 /\ BLOCK_LEN % LEN_MOD = BLOCK_LEN
  <2>1. /\ BLOCK_LEN \in Nat \ {0} /\ LEN_MOD \in Nat \ {0} /\ BLOCK_LEN \in Int
        /\ BLOCK_LEN \in 0 .. LEN_MOD - 1 /\ 0 \in 0 .. BLOCK_LEN - 1
        /\ BLOCK_LEN = BLOCK_LEN * 1 + 0 /\ BLOCK_LEN = LEN_MOD * 0 + BLOCK_LEN
    BY Sizes
  <2>2. BLOCK_LEN % BLOCK_LEN = 0
    BY <2>1, RemainderUnique
  <2>3. BLOCK_LEN % LEN_MOD = BLOCK_LEN
    BY <2>1, RemainderUnique
  <2> QED BY <2>2, <2>3
<1>8. Tracks(h) /\ Contents(h) = h.state.absorbed
  BY <1>4, <1>5, <1>6, <1>7, AtBoundary
<1> QED BY <1>3, <1>4, <1>6, <1>8 DEF c, h

\* The hasher of the outer pass.
LEMMA OuterStart ==
  ASSUME NEW B, NEW k0 \in [1 .. BLOCK_LEN -> B],
         NEW C, ByteSet(C), PadOf(B) \subseteq C
  PROVE  LET h == FromState(PadState("H0", "opad", k0), PREFIX_LEN)
         IN  /\ h \in HasherOver(Ivs, C) /\ BufferSound(h) /\ Tracks(h)
             /\ Contents(h) = XorInto("opad", k0)
<1> DEFINE v == "H0"   p == "opad"
<1>1. v \in Ivs /\ p \in Pads
  BY DEF Ivs, Pads
<1> HIDE DEF v, p
<1>2. /\ FromState(PadState(v, p, k0), PREFIX_LEN) \in HasherOver(Ivs, C)
      /\ BufferSound(FromState(PadState(v, p, k0), PREFIX_LEN))
      /\ Tracks(FromState(PadState(v, p, k0), PREFIX_LEN))
      /\ Contents(FromState(PadState(v, p, k0), PREFIX_LEN)) = XorInto(p, k0)
  BY <1>1, PadStateSound
<1> QED BY <1>2 DEF v, p

-----------------------------------------------------------------------------
(***************************************************************************)
(* The calls on an instance.                                               *)
(***************************************************************************)

\* The outer pass, from any state of whole blocks: the tag is a chaining
\* state on the vector of the outer state.
LEMMA MacFinalizeType ==
  ASSUME NEW B, ByteSet(B), NEW C, ByteSet(C), DigestOf(B) \subseteq C,
         NEW m, m.inner \in HasherOver(Ivs, B), ChainAligned(m.inner),
         m.outer_state \in ChainOver(Ivs, C),
         Len(m.outer_state.absorbed) % BLOCK_LEN = 0
  PROVE  /\ MacFinalize(m) \in ChainOver(Ivs, C)
         /\ MacFinalize(m).iv = m.outer_state.iv
<1> DEFINE d     == Finalize(m.inner)
           data  == DigestBytes(d)
           c     == m.outer_state
           start == FromState(c, PREFIX_LEN)
           h     == Update(start, data)
<1>1. d \in ChainOver(Ivs, B)
  BY FinalizeType
<1>2. data \in Seq(C)
  BY <1>1, DigestBytesType, SeqMonotone
<1>3. c \in ChainOver(Ivs, C) /\ PREFIX_LEN \in 0 .. LEN_MOD - 1
  BY Sizes
<1>4. Len(c.absorbed) % BLOCK_LEN = 0
  OBVIOUS
<1> HIDE DEF c, data
<1>5. start \in HasherOver(Ivs, C) /\ BufferSound(start) /\ start.state = c
  BY <1>3, FromStateSound
<1>6. ChainAligned(start)
  BY <1>4, <1>5 DEF ChainAligned
<1> HIDE DEF start
<1>7. h \in HasherOver(Ivs, C) /\ ChainAligned(h) /\ h.state.iv = c.iv
  BY <1>2, <1>5, <1>6, UpdateAppends
<1> HIDE DEF h
<1>8. Finalize(h) \in ChainOver(Ivs, C) /\ Finalize(h).iv = c.iv
  BY <1>7, FinalizeType, FinalizeKeepsIv
<1> QED BY <1>8 DEF MacFinalize, h, start, data, c, d

\* The tag of an instance that holds key block k0 and message msg is that of
\* RFC 2104, however the inner hasher came by its contents.
LEMMA MacFinalizeIsTag ==
  ASSUME NEW B, ByteSet(B), NEW k0 \in [1 .. BLOCK_LEN -> B], NEW msg,
         NEW m, m.inner \in HasherOver(Ivs, B), Tracks(m.inner),
         m.inner.state.iv = "H0",
         Contents(m.inner) = XorInto("ipad", k0) \o msg,
         m.outer_state = PadState("H0", "opad", k0)
  PROVE  MacFinalize(m) = F!Tag(k0, msg)
<1> DEFINE C     == B \cup PadOf(B) \cup DigestOf(B)
           d     == Finalize(m.inner)
           data  == DigestBytes(d)
           start == FromState(PadState("H0", "opad", k0), PREFIX_LEN)
           h     == Update(start, data)
<1>1. /\ ByteSet(C) /\ PadOf(B) \subseteq C /\ DigestOf(B) \subseteq C
      /\ "opad" \in Pads /\ "H0" \in Ivs
  BY DEF ByteSet, Pads, Ivs
<1>2. d \in ChainOver(Ivs, B)
  BY FinalizeType DEF Tracks
<1>3. d = F!Hash(XorInto("ipad", k0) \o msg)
  <2> DEFINE i == m.inner
  <2>1. i \in HasherOver(Ivs, B) /\ Tracks(i) /\ i.state.iv = "H0"
        /\ Contents(i) = XorInto("ipad", k0) \o msg
    OBVIOUS
  <2> HIDE DEF i
  <2>2. Finalize(i) = F!Hash(XorInto("ipad", k0) \o msg)
    BY <2>1, FinalizeIsHash
  <2> QED BY <2>2 DEF i
<1>4. data \in Seq(C)
  BY <1>1, <1>2, DigestBytesType, SeqMonotone
<1> HIDE DEF C, d, data
<1>5. /\ start \in HasherOver(Ivs, C) /\ BufferSound(start) /\ Tracks(start)
      /\ Contents(start) = XorInto("opad", k0)
  BY <1>1, OuterStart
<1>6. start.state.iv = "H0"
  BY DEF FromState, PadState
<1> HIDE DEF start
<1>7. /\ h \in HasherOver(Ivs, C) /\ Tracks(h) /\ h.state.iv = "H0"
      /\ Contents(h) = XorInto("opad", k0) \o data
  BY <1>4, <1>5, <1>6, UpdateTracks
<1> HIDE DEF h
<1>8. Finalize(h) = F!Hash(XorInto("opad", k0) \o data)
  BY <1>1, <1>7, FinalizeIsHash
<1>9. MacFinalize(m) = Finalize(h)
  BY DEF MacFinalize, h, start, data, d
<1>10. /\ \A p : F!XorInto(p, k0) = XorInto(p, k0)
       /\ \A c : F!DigestBytes(c) = DigestBytes(c)
  BY DEF F!XorInto, XorInto, F!DigestBytes, DigestBytes
<1> QED BY <1>3, <1>8, <1>9, <1>10 DEF F!Tag, data

-----------------------------------------------------------------------------
(***************************************************************************)
(* An instance that holds a key, over some set of bytes: HKDF feeds digests *)
(* back as input, so that no fixed set holds all bytes.                    *)
(***************************************************************************)
MacOver(I, B) == [inner       : HasherOver(I, B),
               inner_state : ChainOver(I, B),
               outer_state : ChainOver(I, B)]

\* Bytes over some set.
Bytes(s) == \E B : s \in Seq(B)

\* The memory of an HMAC, whatever it is doing.
SomeMac(I, m) == \E B : ByteSet(B) /\ m \in MacOver(I, B) /\ BufferSound(m.inner)

\* An HMAC that holds key block k0 and has absorbed msg since.
KeyedOver(I, v, B, m, k0, msg) ==
  /\ ByteSet(B) /\ m \in MacOver(I, B) /\ BufferSound(m.inner)
  /\ k0 \in [1 .. BLOCK_LEN -> B] /\ msg \in Seq(B)
  /\ m.inner_state = PadState(v, "ipad", k0)
  /\ m.outer_state = PadState(v, "opad", k0)
  /\ Tracks(m.inner) /\ m.inner.state.iv = v
  /\ Contents(m.inner) = XorInto("ipad", k0) \o msg

Keyed(I, v, m, k0, msg) == \E B : KeyedOver(I, v, B, m, k0, msg)

LEMMA MacMonotone ==
  ASSUME NEW I, NEW B, NEW C, B \subseteq C
  PROVE  \A m \in MacOver(I, B) : m \in MacOver(I, C)
  BY HasherMonotone DEF MacOver

LEMMA KeyedMonotone ==
  ASSUME NEW I, NEW v, NEW B, NEW C, B \subseteq C,
         NEW m, NEW k0, NEW msg, KeyedOver(I, v, B, m, k0, msg)
  PROVE  KeyedOver(I, v, C, m, k0, msg)
<1>1. ByteSet(C)
  BY HasherMonotone DEF KeyedOver
<1>2. m \in MacOver(I, C)
  BY MacMonotone DEF KeyedOver
<1>3. msg \in Seq(C)
  BY SeqMonotone DEF KeyedOver
<1>4. k0 \in [1 .. BLOCK_LEN -> C]
  BY DEF KeyedOver
<1> QED BY <1>1, <1>2, <1>3, <1>4 DEF KeyedOver

\* An instance just keyed with a block.
LEMMA KeyedWithHolds ==
  ASSUME NEW I, NEW v \in I, NEW B, ByteSet(B), NEW k0 \in [1 .. BLOCK_LEN -> B]
  PROVE  Keyed(I, v, KeyedWith(v, k0), k0, << >>)
<1> DEFINE C == B \cup PadOf(B)
           i == PadState(v, "ipad", k0)   o == PadState(v, "opad", k0)
           f == FromState(i, PREFIX_LEN)
           x == XorInto("ipad", k0)
<1>1. /\ ByteSet(C) /\ PadOf(B) \subseteq C /\ B \subseteq C
      /\ "ipad" \in Pads /\ "opad" \in Pads
  BY DEF ByteSet, Pads
<1> HIDE DEF C
<1>2. /\ i \in ChainOver(I, C) /\ o \in ChainOver(I, C)
      /\ f \in HasherOver(I, C) /\ BufferSound(f) /\ Tracks(f)
      /\ Contents(f) = x
  BY <1>1, PadStateSound
<1>3. f.state = i /\ i.iv = v
  BY DEF FromState, PadState
<1>4. KeyedWith(v, k0) = [inner |-> f, inner_state |-> i, outer_state |-> o]
  BY DEF KeyedWith
<1>5. x \o << >> = x
  <2>1. x \in Seq(PadOf(B))
    BY <1>1, XorIntoType
  <2> QED BY <2>1, ConcatEmptySeq
<1>6. k0 \in [1 .. BLOCK_LEN -> C] /\ << >> \in Seq(C)
  BY <1>1
<1>7. ASSUME NEW m, m = [inner |-> f, inner_state |-> i, outer_state |-> o]
      PROVE  KeyedOver(I, v, C, m, k0, << >>)
  <2> HIDE DEF f
  <2>1. m.inner = f /\ m.inner_state = i /\ m.outer_state = o
    BY <1>7
  <2>2. m \in MacOver(I, C)
    <3> HIDE DEF i, o
    <3> QED BY <1>2, <1>7 DEF MacOver
  <2> QED BY <1>1, <1>2, <1>3, <1>5, <1>6, <2>1, <2>2 DEF KeyedOver
<1> QED BY <1>4, <1>7 DEF Keyed

\* update appends to the message.
LEMMA KeyedUpdate ==
  ASSUME NEW I, NEW v, NEW m, NEW k0, NEW msg, Keyed(I, v, m, k0, msg),
         NEW data, Bytes(data)
  PROVE  Keyed(I, v, MacUpdate(m, data), k0, msg \o data)
<1>1. PICK A : KeyedOver(I, v, A, m, k0, msg)
  BY DEF Keyed
<1>2. PICK D : data \in Seq(D)
  BY DEF Bytes
<1> DEFINE B   == A \cup D
           i   == m.inner
           new == Update(i, data)
           pad == XorInto("ipad", k0)
<1>3. KeyedOver(I, v, B, m, k0, msg) /\ data \in Seq(B)
  BY <1>1, <1>2, KeyedMonotone, SeqMonotone
<1> HIDE DEF B
<1>4. /\ ByteSet(B) /\ m \in MacOver(I, B)
      /\ k0 \in [1 .. BLOCK_LEN -> B] /\ msg \in Seq(B)
      /\ i \in HasherOver(I, B) /\ BufferSound(i) /\ Tracks(i)
      /\ i.state.iv = v /\ Contents(i) = pad \o msg
  BY <1>3 DEF KeyedOver, MacOver
<1>5. pad \in Seq(PadOf(B))
  BY <1>4, XorIntoType DEF Pads
<1> HIDE DEF i, pad
<1>6. /\ new \in HasherOver(I, B) /\ BufferSound(new) /\ Tracks(new)
      /\ new.state.iv = i.state.iv /\ Contents(new) = Contents(i) \o data
  <2>1. /\ i \in HasherOver(I, B) /\ BufferSound(i) /\ Tracks(i)
        /\ data \in Seq(B)
    BY <1>3, <1>4
  <2> QED BY <2>1, UpdateTracks
<1> HIDE DEF new
<1>7. (pad \o msg) \o data = pad \o (msg \o data)
  <2>1. pad \in Seq(B \cup PadOf(B)) /\ msg \in Seq(B \cup PadOf(B))
        /\ data \in Seq(B \cup PadOf(B))
    BY <1>3, <1>4, <1>5, SeqMonotone
  <2> QED BY <2>1, ConcatAssociative
<1>8. msg \o data \in Seq(B)
  BY <1>3, <1>4, ConcatProperties
<1>9. MacUpdate(m, data) = [m EXCEPT !.inner = new]
  BY DEF MacUpdate, new, i
<1>10. /\ MacUpdate(m, data) \in MacOver(I, B)
       /\ MacUpdate(m, data).inner = new
       /\ MacUpdate(m, data).inner_state = m.inner_state
       /\ MacUpdate(m, data).outer_state = m.outer_state
  BY <1>4, <1>6, <1>9 DEF MacOver
<1>11. KeyedOver(I, v, B, MacUpdate(m, data), k0, msg \o data)
  BY <1>3, <1>4, <1>6, <1>7, <1>8, <1>10 DEF KeyedOver, pad
<1> QED BY <1>11 DEF Keyed

\* reset forgets the message and keeps the key.
LEMMA KeyedReset ==
  ASSUME NEW I, NEW v \in I, NEW m, NEW k0, NEW msg, Keyed(I, v, m, k0, msg)
  PROVE  Keyed(I, v, MacReset(m), k0, << >>)
<1>1. PICK B : KeyedOver(I, v, B, m, k0, msg)
  BY DEF Keyed
<1> DEFINE i == PadState(v, "ipad", k0)   o == PadState(v, "opad", k0)
           f == FromState(i, PREFIX_LEN)
<1>2. m.inner_state = i /\ m.outer_state = o /\ m \in MacOver(I, B)
  BY <1>1 DEF KeyedOver
<1>3. MacReset(m) = [m EXCEPT !.inner = f]
  BY <1>2 DEF MacReset
<1>4. KeyedWith(v, k0) = [inner |-> f, inner_state |-> i, outer_state |-> o]
  BY DEF KeyedWith
<1> HIDE DEF f, i, o
<1>5. MacReset(m) = KeyedWith(v, k0)
  BY <1>2, <1>3, <1>4 DEF MacOver
<1>6. ByteSet(B) /\ k0 \in [1 .. BLOCK_LEN -> B]
  BY <1>1 DEF KeyedOver
<1> QED BY <1>5, <1>6, KeyedWithHolds

\* The block behind a key can be read off the key state.
LEMMA KeyedView ==
  ASSUME NEW I, NEW v, NEW m, NEW k0, NEW msg, Keyed(I, v, m, k0, msg)
  PROVE  /\ [j \in 1 .. Len(m.inner_state.absorbed) |-> m.inner_state.absorbed[j][2]] = k0
         /\ k0 # << >> /\ SomeMac(I, m)
<1>1. PICK B : KeyedOver(I, v, B, m, k0, msg)
  BY DEF Keyed
<1>2. /\ ByteSet(B) /\ m \in MacOver(I, B) /\ BufferSound(m.inner)
      /\ k0 \in [1 .. BLOCK_LEN -> B]
      /\ m.inner_state.absorbed = XorInto("ipad", k0)
  BY <1>1 DEF KeyedOver, PadState
<1>3. /\ Len(XorInto("ipad", k0)) = BLOCK_LEN
      /\ \A j \in 1 .. BLOCK_LEN : XorInto("ipad", k0)[j] = << "ipad", k0[j] >>
  BY <1>2, XorIntoType DEF Pads
<1>4. [j \in 1 .. Len(m.inner_state.absorbed) |-> m.inner_state.absorbed[j][2]]
        = [j \in 1 .. BLOCK_LEN |-> k0[j]]
  BY <1>2, <1>3
<1>5. Len(k0) = BLOCK_LEN /\ BLOCK_LEN # 0
  BY <1>2, Sizes, FunctionIsSequence
<1>6. Len(<< >>) = 0
  OBVIOUS
<1> QED BY <1>2, <1>4, <1>5, <1>6 DEF SomeMac

\* A dropped HMAC is clean, whatever it was doing.
LEMMA DropErases ==
  ASSUME NEW I, IvSet(I), NEW m, SomeMac(I, m)
  PROVE  /\ SomeMac(I, MacDrop(m)) /\ Clean(MacDrop(m).inner)
         /\ MacDrop(m).inner_state = ZERO_STATE /\ MacDrop(m).outer_state = ZERO_STATE
<1>1. PICK B : ByteSet(B) /\ m \in MacOver(I, B) /\ BufferSound(m.inner)
  BY DEF SomeMac
<1> DEFINE i == m.inner   d == Drop(i)
<1>2. i \in HasherOver(I, B) /\ BufferSound(i)
  BY <1>1 DEF MacOver
<1> HIDE DEF i
<1>3. d \in HasherOver(I, B) /\ BufferSound(d) /\ Clean(d)
  BY <1>1, <1>2, Sizes, DropSound
<1> HIDE DEF d
<1>4. MacDrop(m) = [inner |-> d, inner_state |-> ZERO_STATE,
                    outer_state |-> ZERO_STATE]
  BY DEF MacDrop, d, i
<1>5. ZERO_STATE \in ChainOver(I, B)
  BY Sizes, InitialStates
<1>6. MacDrop(m) \in MacOver(I, B)
  BY <1>3, <1>4, <1>5 DEF MacOver
<1> QED BY <1>1, <1>3, <1>4, <1>6 DEF SomeMac

-----------------------------------------------------------------------------
(***************************************************************************)
(* The passes of an expansion: how many there are, and which bytes of the  *)
(* output each one writes, when a block has D bytes.                       *)
(***************************************************************************)
PassCount(D, n) == (n + D - 1) \div D

\* The block that byte j of the output is in, and its place there.
BlockOf(D, j) == ((j - 1) \div D) + 1
PlaceOf(D, j) == ((j - 1) % D) + 1

LEMMA ProductMonotone ==
  ASSUME NEW a \in Int, NEW b \in Int, NEW c \in Nat, a <= b
  PROVE  c * a \in Int /\ c * b \in Int /\ c * a <= c * b
<1> DEFINE d == b - a
<1>1. d \in Nat /\ b = a + d
  OBVIOUS
<1> HIDE DEF d
<1>2. c * d \in Nat /\ c * a \in Int
  BY <1>1
<1>3. c * b = c * a + c * d
  BY <1>1
<1> QED BY <1>2, <1>3

LEMMA PassCounts ==
  ASSUME NEW D \in Nat \ {0}, NEW n \in Nat
  PROVE  /\ PassCount(D, n) \in Nat
         /\ n <= D * PassCount(D, n)
         /\ \A i \in 1 .. PassCount(D, n) : D * (i - 1) < n
         /\ n <= (BASE - 1) * D => PassCount(D, n) < BASE
<1> DEFINE N == PassCount(D, n)   t == n + D - 1
<1>1. D \in Nat \ {0} /\ t \in Nat
  OBVIOUS
<1> HIDE DEF t
<1>2. N = t \div D
  BY DEF PassCount, t
<1> HIDE DEF N
<1>3. N \in Int /\ t % D \in 0 .. D - 1 /\ t = D * N + (t % D)
  BY <1>1, <1>2, DivisionTheorem
<1>4. t = n + D - 1
  BY DEF t
<1> DEFINE p == D * N
<1>5. p \in Int /\ t = p + (t % D)
  BY <1>1, <1>3
<1> HIDE DEF p
<1>6. n <= p /\ p <= n + D - 1
  BY <1>1, <1>3, <1>4, <1>5
<1>7. N >= 0
  <2> SUFFICES ASSUME N + 1 <= 0 PROVE FALSE
    BY <1>3
  <2>1. D * (N + 1) <= D * 0
    BY <1>1, <1>3, ProductMonotone
  <2>2. D * (N + 1) = p + D
    BY <1>1, <1>3 DEF p
  <2>3. D * 0 = 0
    BY <1>1
  <2> QED BY <1>1, <1>5, <1>6, <2>1, <2>2, <2>3
<1>8. ASSUME NEW i \in 1 .. N PROVE D * (i - 1) < n
  <2>1. D * i <= p /\ D * i \in Int
    BY <1>1, <1>3, ProductMonotone DEF p
  <2>2. D * (i - 1) = D * i - D
    BY <1>1
  <2> QED BY <1>1, <1>5, <1>6, <2>1, <2>2
<1>9. ASSUME n <= (BASE - 1) * D PROVE N < BASE
  <2>1. BASE \in Nat \ {0} /\ n <= (BASE - 1) * D
    BY <1>9, WidthAssumption
  <2> SUFFICES ASSUME BASE <= N PROVE FALSE
    BY <1>3, <2>1
  <2>2. D * BASE <= p /\ D * BASE \in Int
    BY <1>1, <1>3, <2>1, ProductMonotone DEF p
  <2>3. (BASE - 1) * D = D * BASE - D
    BY <1>1, <2>1
  <2> QED BY <1>1, <1>5, <1>6, <2>1, <2>2, <2>3
<1> QED BY <1>3, <1>6, <1>7, <1>8, <1>9 DEF p, N

\* Byte j lies in block i exactly when the pass i covers it.
LEMMA Places ==
  ASSUME NEW D \in Nat \ {0}, NEW n \in Nat, NEW j \in 1 .. n
  PROVE  /\ BlockOf(D, j) \in 1 .. PassCount(D, n) /\ PlaceOf(D, j) \in 1 .. D
         /\ \A i \in 1 .. PassCount(D, n) :
              D * (i - 1) < j /\ j <= D * i =>
                BlockOf(D, j) = i /\ PlaceOf(D, j) = j - D * (i - 1)
<1> DEFINE N == PassCount(D, n)
           q == (j - 1) \div D   r == (j - 1) % D
<1>1. D \in Nat \ {0} /\ j - 1 \in Nat /\ j - 1 \in Int /\ j \in Int
  OBVIOUS
<1>2. N \in Nat /\ n <= D * N
  BY PassCounts
<1> HIDE DEF N
<1>3. q \in Int /\ r \in 0 .. D - 1 /\ j - 1 = D * q + r
  BY <1>1, DivisionTheorem
<1>4. BlockOf(D, j) = q + 1 /\ PlaceOf(D, j) = r + 1
  BY DEF BlockOf, PlaceOf, q, r
<1> HIDE DEF q, r
<1>5. D * q \in Int /\ D * N \in Int
  BY <1>1, <1>2, <1>3
<1>6. q >= 0
  <2> SUFFICES ASSUME q + 1 <= 0 PROVE FALSE
    BY <1>3
  <2>1. D * (q + 1) <= D * 0
    BY <1>1, <1>3, ProductMonotone
  <2>2. D * (q + 1) = D * q + D /\ D * 0 = 0
    BY <1>1, <1>3
  <2> QED BY <1>1, <1>3, <1>5, <2>1, <2>2
<1>7. q + 1 <= N
  <2> SUFFICES ASSUME N <= q PROVE FALSE
    BY <1>2, <1>3
  <2>1. D * N <= D * q
    BY <1>1, <1>2, <1>3, ProductMonotone
  <2> QED BY <1>1, <1>2, <1>3, <1>5, <2>1
<1>8. ASSUME NEW i \in 1 .. N, D * (i - 1) < j, j <= D * i
      PROVE  q + 1 = i /\ r + 1 = j - D * (i - 1)
  <2> DEFINE s == (j - 1) - D * (i - 1)
  <2>1. D * (i - 1) \in Int /\ D * i = D * (i - 1) + D
    BY <1>1
  <2>2. s \in 0 .. D - 1 /\ j - 1 = D * (i - 1) + s /\ i - 1 \in Int /\ j - 1 \in Int
    BY <1>1, <1>8, <2>1
  <2> HIDE DEF s
  <2>3. (j - 1) % D = s
    BY <1>1, <2>2, RemainderUnique
  <2>4. r = s
    BY <2>3 DEF r
  <2>5. D * q = D * (i - 1)
    BY <1>1, <1>3, <1>5, <2>1, <2>2, <2>4
  <2>6. ~(q + 1 <= i - 1)
    <3> SUFFICES ASSUME q + 1 <= i - 1 PROVE FALSE
      OBVIOUS
    <3>1. D * (q + 1) <= D * (i - 1) /\ D * (q + 1) = D * q + D
      BY <1>1, <1>3, ProductMonotone
    <3> QED BY <1>1, <1>5, <2>1, <2>5, <3>1
  <2>7. ~(i <= q)
    <3> SUFFICES ASSUME i <= q PROVE FALSE
      OBVIOUS
    <3>1. D * i <= D * q
      BY <1>1, <1>3, ProductMonotone
    <3> QED BY <1>1, <1>5, <2>1, <2>5, <3>1
  <2> QED BY <1>1, <1>3, <2>1, <2>2, <2>4, <2>6, <2>7 DEF s
<1>9. q + 1 \in 1 .. N /\ r + 1 \in 1 .. D
  BY <1>1, <1>2, <1>3, <1>6, <1>7
<1>10. \A i \in 1 .. N : D * (i - 1) < j /\ j <= D * i =>
         BlockOf(D, j) = i /\ PlaceOf(D, j) = j - D * (i - 1)
  BY <1>4, <1>8
<1> QED BY <1>4, <1>9, <1>10 DEF N

-----------------------------------------------------------------------------
(***************************************************************************)
(* Induction up to a bound, from the well-foundedness of < on Nat.         *)
(***************************************************************************)
LEMMA InductionUpTo ==
  ASSUME NEW n \in Nat, NEW T, 0 \in T, \A i \in 1 .. n : i - 1 \in T => i \in T
  PROVE  n \in T
<1> DEFINE bad == (0 .. n) \ T
<1> SUFFICES ASSUME bad # {} PROVE FALSE
  OBVIOUS
<1>0. IsWellFoundedOn(OpToRel(<, Nat), Nat)
  BY NatLessThanWellFounded
<1>1. bad \in SUBSET Nat
  OBVIOUS
<1>2. PICK x \in bad : \A y \in bad : ~ (<< y, x >> \in OpToRel(<, Nat))
  BY <1>0, <1>1, WFMin
<1>3. \A u, v \in Nat : u < v => << u, v >> \in OpToRel(<, Nat)
  BY DEF OpToRel
<1>4. x \in 1 .. n /\ x - 1 \in 0 .. n /\ x - 1 < x
  OBVIOUS
<1>5. x - 1 \in T
  <2> SUFFICES ASSUME x - 1 \in bad PROVE FALSE
    BY <1>4
  <2>1. << x - 1, x >> \in OpToRel(<, Nat)
    BY <1>1, <1>3, <1>4
  <2> QED BY <1>2, <2>1
<1> QED BY <1>4, <1>5

\* The output after i passes: what T(1) to T(i) give, the rest untouched.
Written(D, t, n, i) ==
  [j \in 1 .. n |-> IF j <= D * i THEN t[BlockOf(D, j)][PlaceOf(D, j)] ELSE ZERO]

LEMMA PassWrites ==
  ASSUME NEW D \in Nat \ {0}, NEW n \in Nat, NEW i \in 1 .. PassCount(D, n), NEW t,
         NEW B, t[i] \in [1 .. D -> B],
         NEW okm, okm = Written(D, t, n, i - 1)
  PROVE  LET at  == (i - 1) * D
             out == SubSeq(t[i], 1, AtMost(D, Len(okm) - at))
         IN  CopyFromSlice(okm, at, out) = Written(D, t, n, i)
<1> DEFINE w   == t[i]
           at  == (i - 1) * D
           k   == AtMost(D, n - at)
           out == SubSeq(w, 1, k)
           val(j) == t[BlockOf(D, j)][PlaceOf(D, j)]
<1>1. D \in Nat \ {0} /\ PassCount(D, n) \in Nat /\ D * (i - 1) < n
  BY PassCounts
<1>2. at = D * (i - 1) /\ at \in Nat /\ D * i = at + D /\ at < n
  <2>1. at = D * (i - 1) /\ D * i = D * (i - 1) + D
    BY <1>1
  <2>2. D * 0 = 0 /\ D * 0 <= D * (i - 1) /\ D * (i - 1) \in Int
    BY <1>1, ProductMonotone
  <2> HIDE DEF at
  <2> QED BY <1>1, <2>1, <2>2
<1>3. w \in [1 .. D -> B]
  OBVIOUS
<1>4. ASSUME NEW j \in 1 .. n, at < j, j <= at + D
      PROVE  val(j) = w[j - at]
  <2>1. D * (i - 1) < j /\ j <= D * i
    <3> HIDE DEF at
    <3> QED BY <1>2, <1>4
  <2>2. BlockOf(D, j) = i /\ PlaceOf(D, j) = j - D * (i - 1)
    BY <2>1, Places
  <2>3. PlaceOf(D, j) = j - at
    <3> HIDE DEF at
    <3> QED BY <1>2, <2>2
  <2> HIDE DEF at
  <2> QED BY <2>2, <2>3
<1> HIDE DEF at, w, val
<1>5. k \in 0 .. D /\ k \in Nat /\ (k = D \/ k = n - at)
  BY <1>1, <1>2 DEF AtMost
<1> HIDE DEF k
<1>6. /\ Len(out) = k /\ \A x \in 1 .. k : out[x] = w[x]
  <2>1. D \in Nat
    BY <1>1
  <2> QED BY <1>3, <1>5, <2>1, PrefixType
<1> HIDE DEF out
<1>7. okm = [j \in 1 .. n |-> IF j <= at THEN val(j) ELSE ZERO]
  BY <1>2 DEF Written, val
<1>8. Written(D, t, n, i) = [j \in 1 .. n |-> IF j <= at + D THEN val(j) ELSE ZERO]
  BY <1>2 DEF Written, val
<1>9. Len(okm) = n
  BY <1>7
<1>10. CopyFromSlice(okm, at, out) =
         [j \in 1 .. n |-> IF j \in at + 1 .. at + k THEN out[j - at] ELSE okm[j]]
  BY <1>6, <1>9 DEF CopyFromSlice
<1>11. ASSUME NEW j \in 1 .. n
       PROVE  (IF j \in at + 1 .. at + k THEN out[j - at] ELSE okm[j])
                = IF j <= at + D THEN val(j) ELSE ZERO
  <2>1. CASE j <= at
    BY <1>1, <1>2, <1>5, <1>7, <2>1
  <2>2. CASE at < j /\ j <= at + D
    <3>1. j - at \in 1 .. k /\ j \in at + 1 .. at + k
      BY <1>1, <1>2, <1>5, <2>2
    <3> QED BY <1>4, <1>6, <2>2, <3>1
  <2>3. CASE at + D < j
    BY <1>1, <1>2, <1>5, <1>7, <2>3
  <2> QED BY <1>1, <1>2, <2>1, <2>2, <2>3
<1>12. CopyFromSlice(okm, at, out) = Written(D, t, n, i)
  BY <1>8, <1>10, <1>11
<1> QED BY <1>9, <1>12 DEF out, k, at, w

\* A pass sets every variable of the loop but ok.
LEMMA PassSets ==
  ASSUME NEW s, NEW a, NEW b, NEW c, NEW x, NEW y, NEW z, NEW e,
         s = [mac |-> a, block |-> b, okm |-> c, ok |-> e]
  PROVE  [s EXCEPT !.mac = x, !.block = y, !.okm = z]
           = [mac |-> x, block |-> y, okm |-> z, ok |-> e]
<1> DEFINE r == [s EXCEPT !.mac = x, !.block = y, !.okm = z]
<1>1. DOMAIN s = {"mac", "block", "okm", "ok"}
  OBVIOUS
<1>2. r = [i \in {"mac", "block", "okm", "ok"} |-> r[i]]
  BY <1>1
<1>3. r.mac = x /\ r.block = y /\ r.okm = z /\ r.ok = e
  BY <1>1
<1> HIDE DEF r
<1>4. r = [mac |-> x, block |-> y, okm |-> z, ok |-> e]
  BY <1>2, <1>3
<1> QED BY <1>4 DEF r
=============================================================================
