----------------------------- MODULE HmacProofs -----------------------------
(***************************************************************************)
(* Theorems about HmacInstances: its invariants hold, and it implements    *)
(* StreamingMac, for every block and digest length, width, key and input.  *)
(***************************************************************************)
EXTENDS HmacInstances, HashLemmas

Statuses == {"unused", "live", "wiped", "dropped"}

KeyByte == Byte \cup DigestByte
TagByte == MacByte \cup DigestOf(MacByte)
MacSet  == [inner       : HasherOver(Ivs, MacByte),
            inner_state : ChainOver(Ivs, PadByte),
            outer_state : ChainOver(Ivs, PadByte)]

\* Instance m is keyed with key and has absorbed msg since.
Holds(m, key, msg) ==
  /\ m.inner_state = PadState("H0", "ipad", KeyBlock(key))
  /\ m.outer_state = PadState("H0", "opad", KeyBlock(key))
  /\ Tracks(m.inner) /\ m.inner.state.iv = "H0"
  /\ Contents(m.inner) = XorInto("ipad", KeyBlock(key)) \o msg

\* A zeroized instance: no key, and message bytes only.  Its counter need
\* not be that of its message, since reset counts a key block it lacks.
Keyless(m) ==
  /\ m.inner_state = ZERO_STATE /\ m.outer_state = ZERO_STATE
  /\ m.inner \in HasherOver(Ivs, Byte)
  /\ m.inner.state.iv = "zero" /\ ChainAligned(m.inner)

\* The memory of an instance that is gone.
Erased(m) == /\ m.inner_state = ZERO_STATE /\ m.outer_state = ZERO_STATE
             /\ Clean(m.inner)

\* What each stage of an instance's life says of its memory.
StageSound(m, s) ==
  /\ BufferSound(m.inner)
  /\ s = "live"    => \E key \in Keys, msg \in Seq(Byte) : Holds(m, key, msg)
  /\ s = "wiped"   => Keyless(m)
  /\ s = "dropped" => Erased(m)

IInv == /\ hmac \in [Handle -> MacSet]
        /\ status \in [Handle -> Statuses]
        /\ \A h \in Handle : StageSound(hmac[h], status[h])
        /\ returned.tag \in ChainOver(Ivs, TagByte)
        /\ offered \in ChainOver(Ivs, TagByte)
        /\ returned.by \subseteq Handle
        /\ returned.accepted \subseteq BOOLEAN

-----------------------------------------------------------------------------
\* How the sets of bytes lie in each other.
LEMMA OwnSets ==
  /\ ByteSet(Byte) /\ ByteSet(KeyByte) /\ ByteSet(MacByte) /\ ByteSet(TagByte)
  /\ DigestByte = DigestOf(Byte) /\ PadByte = PadOf(KeyByte)
  /\ PadByte \subseteq MacByte /\ Byte \subseteq MacByte
  /\ MacByte \subseteq TagByte /\ PadByte \subseteq TagByte
  /\ DigestOf(MacByte) \subseteq TagByte
  /\ Keys \subseteq Seq(Byte) /\ Chunks \subseteq Seq(Byte)
  BY InputAssumption DEF ByteSet, KeyByte, MacByte, TagByte, DigestByte, DigestOf,
     PadByte, PadOf, Pads, Chain, ChainOf

\* A key pad is no message byte.
LEMMA PadIsNoByte == \A b \in Byte : b \notin PadByte
<1> SUFFICES ASSUME NEW b \in Byte, b \in PadByte PROVE FALSE
  OBVIOUS
<1>1. Len(b) = 1
  BY DEF Byte, Lit
<1>2. Len(b) = 2
  BY DEF PadByte
<1> QED BY <1>1, <1>2

\* The key block of each key.
LEMMA KeyBlocks ==
  ASSUME NEW key \in Keys
  PROVE  /\ KeyBlock(key) \in [1 .. BLOCK_LEN -> KeyByte]
         /\ KeyBlock(key) = F!K0(key)
         /\ WithKey(key) = KeyedWith("H0", KeyBlock(key))
<1>1. key \in Seq(Byte) /\ ByteSet(Byte)
  BY OwnSets
<1> QED BY <1>1, OwnSets, KeyBlockIsK0, WithKeyIs DEF KeyByte

\* An instance keyed with a block.
LEMMA KeyedWithSound ==
  ASSUME NEW k0 \in [1 .. BLOCK_LEN -> KeyByte]
  PROVE  /\ KeyedWith("H0", k0) \in MacSet
         /\ BufferSound(KeyedWith("H0", k0).inner) /\ Tracks(KeyedWith("H0", k0).inner)
         /\ KeyedWith("H0", k0).inner.state.iv = "H0"
         /\ Contents(KeyedWith("H0", k0).inner) = XorInto("ipad", k0)
<1> DEFINE i == PadState("H0", "ipad", k0)   o == PadState("H0", "opad", k0)
           f == FromState(i, PREFIX_LEN)
<1>1. /\ i \in ChainOver(Ivs, PadByte) /\ o \in ChainOver(Ivs, PadByte)
      /\ f \in HasherOver(Ivs, MacByte)
      /\ BufferSound(f) /\ Tracks(f) /\ Contents(f) = XorInto("ipad", k0)
  <2>1. "ipad" \in Pads /\ "opad" \in Pads /\ "H0" \in Ivs
    BY DEF Pads, Ivs
  <2>2. ByteSet(MacByte) /\ PadOf(KeyByte) \subseteq MacByte /\ PadByte = PadOf(KeyByte)
    BY OwnSets
  <2> QED BY <2>1, <2>2, PadStateSound
<1>2. f.state = i /\ i.iv = "H0"
  BY DEF FromState, PadState
<1>3. KeyedWith("H0", k0) = [inner |-> f, inner_state |-> i, outer_state |-> o]
  BY DEF KeyedWith
<1> HIDE DEF f, i, o
<1> QED BY <1>1, <1>2, <1>3 DEF MacSet

\* A fresh instance holds its key and the empty message.
LEMMA KeyedHolds ==
  ASSUME NEW key \in Keys
  PROVE  /\ WithKey(key) \in MacSet /\ BufferSound(WithKey(key).inner)
         /\ Holds(WithKey(key), key, << >>)
<1> DEFINE k0 == KeyBlock(key)
<1>1. k0 \in [1 .. BLOCK_LEN -> KeyByte] /\ WithKey(key) = KeyedWith("H0", k0)
  BY KeyBlocks
<1> HIDE DEF k0
<1>2. /\ KeyedWith("H0", k0) \in MacSet
      /\ BufferSound(KeyedWith("H0", k0).inner) /\ Tracks(KeyedWith("H0", k0).inner)
      /\ KeyedWith("H0", k0).inner.state.iv = "H0"
      /\ Contents(KeyedWith("H0", k0).inner) = XorInto("ipad", k0)
  BY <1>1, KeyedWithSound
<1>3. /\ KeyedWith("H0", k0).inner_state = PadState("H0", "ipad", k0)
      /\ KeyedWith("H0", k0).outer_state = PadState("H0", "opad", k0)
  BY DEF KeyedWith
<1>4. XorInto("ipad", k0) \o << >> = XorInto("ipad", k0)
  <2>1. XorInto("ipad", k0) \in Seq(PadOf(KeyByte))
    BY <1>1, XorIntoType DEF Pads
  <2> QED BY <2>1, ConcatEmptySeq
<1> QED BY <1>1, <1>2, <1>3, <1>4 DEF Holds, k0

\* What StreamingMac sees of a keyed instance.
LEMMA HoldsView ==
  ASSUME NEW m \in MacSet, NEW key \in Keys, NEW msg \in Seq(Byte),
         Holds(m, key, msg)
  PROVE  /\ MessageOf(m) = msg
         /\ KeyBlockOf(m) = F!K0(key)
         /\ MacFinalize(m) = F!Tag(F!K0(key), msg)
<1> DEFINE k0  == KeyBlock(key)
           pad == XorInto("ipad", k0)
           B   == KeyByte \cup MacByte
<1>1. k0 \in [1 .. BLOCK_LEN -> KeyByte] /\ k0 = F!K0(key)
  BY KeyBlocks
<1>2. /\ m.inner_state = PadState("H0", "ipad", k0) /\ m.outer_state = PadState("H0", "opad", k0)
      /\ Tracks(m.inner) /\ m.inner.state.iv = "H0"
      /\ Contents(m.inner) = pad \o msg /\ m.inner \in HasherOver(Ivs, MacByte)
  BY DEF Holds, MacSet
<1> HIDE DEF k0
<1>3. /\ pad \in Seq(PadOf(KeyByte)) /\ Len(pad) = BLOCK_LEN
      /\ \A i \in 1 .. BLOCK_LEN : pad[i] = << "ipad", k0[i] >>
  BY <1>1, XorIntoType DEF Pads
<1> HIDE DEF pad
<1>4. MessageOf(m) = msg
  <2>1. pad \in Seq(MacByte) /\ msg \in Seq(MacByte)
    BY <1>3, OwnSets, SeqMonotone
  <2>2. SubSeq(pad \o msg, Len(pad) + 1, Len(pad \o msg)) = msg
    <3>1. SubSeq(pad \o msg, Len(pad) + 1, Len(pad) + Len(msg)) = msg
      BY <2>1, SubSeqOfConcat2
    <3> QED BY <2>1, <3>1, ConcatProperties
  <2> QED BY <1>2, <1>3, <2>2, Sizes DEF MessageOf
<1>5. KeyBlockOf(m) = k0
  <2>1. m.inner_state.iv = "H0" /\ m.inner_state.absorbed = pad
    BY <1>2 DEF PadState, pad
  <2>2. KeyBlockOf(m) = [i \in 1 .. BLOCK_LEN |-> pad[i][2]]
    BY <1>3, <2>1 DEF KeyBlockOf
  <2> QED BY <1>1, <1>3, <2>2
<1>6. MacFinalize(m) = F!Tag(k0, msg)
  <2>1. ByteSet(B) /\ KeyByte \subseteq B /\ MacByte \subseteq B
    BY OwnSets DEF ByteSet
  <2> HIDE DEF B
  <2>2. m.inner \in HasherOver(Ivs, B) /\ k0 \in [1 .. BLOCK_LEN -> B]
    BY <1>1, <1>2, <2>1, HasherMonotone
  <2>3. Contents(m.inner) = XorInto("ipad", k0) \o msg
    BY <1>2 DEF pad
  <2> QED BY <1>2, <2>1, <2>2, <2>3, MacFinalizeIsTag
<1> QED BY <1>1, <1>4, <1>5, <1>6

\* update appends to the message and keeps the key.
LEMMA UpdateHolds ==
  ASSUME NEW m \in MacSet, BufferSound(m.inner),
         NEW key \in Keys, NEW msg \in Seq(Byte), Holds(m, key, msg),
         NEW data \in Seq(Byte)
  PROVE  /\ MacUpdate(m, data) \in MacSet /\ BufferSound(MacUpdate(m, data).inner)
         /\ msg \o data \in Seq(Byte) /\ Holds(MacUpdate(m, data), key, msg \o data)
<1> DEFINE i   == m.inner
           new == Update(i, data)
           pad == XorInto("ipad", KeyBlock(key))
<1>1. /\ i \in HasherOver(Ivs, MacByte) /\ BufferSound(i) /\ Tracks(i)
      /\ i.state.iv = "H0" /\ Contents(i) = pad \o msg
  BY DEF Holds, MacSet
<1>2. data \in Seq(MacByte) /\ msg \in Seq(MacByte)
  BY OwnSets, SeqMonotone
<1>3. pad \in Seq(MacByte)
  <2>1. pad \in Seq(PadOf(KeyByte))
    BY KeyBlocks, XorIntoType DEF Pads
  <2> QED BY <2>1, OwnSets, SeqMonotone
<1> HIDE DEF i, pad
<1>4. /\ new \in HasherOver(Ivs, MacByte) /\ BufferSound(new) /\ Tracks(new)
      /\ new.state.iv = "H0" /\ Contents(new) = (pad \o msg) \o data
  <2>1. i \in HasherOver(Ivs, MacByte) /\ BufferSound(i) /\ Tracks(i)
    BY <1>1
  <2>2. data \in Seq(MacByte) /\ ByteSet(MacByte)
    BY <1>2, OwnSets
  <2>3. /\ new \in HasherOver(Ivs, MacByte) /\ BufferSound(new) /\ Tracks(new)
        /\ new.state.iv = i.state.iv /\ Contents(new) = Contents(i) \o data
    BY <2>1, <2>2, UpdateTracks
  <2> QED BY <1>1, <2>3
<1> HIDE DEF new
<1>5. (pad \o msg) \o data = pad \o (msg \o data)
  BY <1>2, <1>3, ConcatAssociative
<1>6. msg \o data \in Seq(Byte)
  BY ConcatProperties
<1>7. MacUpdate(m, data) = [m EXCEPT !.inner = new]
  BY DEF MacUpdate, new, i
<1> QED BY <1>4, <1>5, <1>6, <1>7 DEF Holds, MacSet, pad

\* reset brings back, in every field, the instance freshly keyed.
LEMMA ResetHolds ==
  ASSUME NEW m \in MacSet, NEW key \in Keys, NEW msg, Holds(m, key, msg)
  PROVE  MacReset(m) = WithKey(key)
<1> DEFINE k0 == KeyBlock(key)
           i  == PadState("H0", "ipad", k0)
           o  == PadState("H0", "opad", k0)
           f  == FromState(i, PREFIX_LEN)
<1>1. m.inner_state = i /\ m.outer_state = o
  BY DEF Holds
<1>2. WithKey(key) = [inner |-> f, inner_state |-> i, outer_state |-> o]
  BY KeyBlocks DEF KeyedWith
<1>3. MacReset(m) = [m EXCEPT !.inner = f]
  BY <1>1 DEF MacReset
<1> HIDE DEF f, i, o
<1> QED BY <1>1, <1>2, <1>3 DEF MacSet

-----------------------------------------------------------------------------
(***************************************************************************)
(* Instances without a key.                                                *)
(***************************************************************************)

\* The all-zero state is a key state.
LEMMA ZeroKeyState ==
  /\ ZERO_STATE \in ChainOver(Ivs, PadByte) /\ ZERO_STATE \in ChainOver(Ivs, Byte)
  /\ ZERO_STATE \in ChainOver(Ivs, TagByte)
  /\ ZERO_STATE.iv = "zero" /\ ZERO_STATE.absorbed = << >>
  BY Sizes, InitialStates DEF ZERO_STATE

\* zeroize clears both key states and the live hasher.
LEMMA ZeroizeSound ==
  ASSUME NEW m \in MacSet, BufferSound(m.inner)
  PROVE  /\ MacZeroize(m) \in MacSet /\ BufferSound(MacZeroize(m).inner)
         /\ Keyless(MacZeroize(m)) /\ Contents(MacZeroize(m).inner) = << >>
<1> DEFINE i == m.inner   z == Zeroize(i)
<1>1. i \in HasherOver(Ivs, MacByte) /\ BufferSound(i)
  BY DEF MacSet
<1> HIDE DEF i
<1>2. /\ z \in HasherOver(Ivs, MacByte) /\ BufferSound(z) /\ Tracks(z)
      /\ Clean(z) /\ Contents(z) = << >>
  BY <1>1, OwnSets, Sizes, RestartSound
<1> HIDE DEF z
<1>3. Zeros(BLOCK_LEN) \in [1 .. BLOCK_LEN -> Byte]
  BY Sizes, OwnSets, ZerosType
<1>4. z \in HasherOver(Ivs, Byte)
  BY <1>2, <1>3, ZeroKeyState DEF HasherOver, Clean
<1>5. MacZeroize(m) = [inner |-> z, inner_state |-> ZERO_STATE,
                       outer_state |-> ZERO_STATE]
  BY DEF MacZeroize, z, i
<1>6. z.state.iv = "zero" /\ ChainAligned(z)
  BY <1>2, ZeroKeyState DEF Clean, Tracks
<1> QED BY <1>2, <1>4, <1>5, <1>6, ZeroKeyState DEF MacSet, Keyless

\* update of an instance without a key.
LEMMA UpdateKeyless ==
  ASSUME NEW m \in MacSet, BufferSound(m.inner), Keyless(m), NEW data \in Seq(Byte)
  PROVE  /\ MacUpdate(m, data) \in MacSet /\ BufferSound(MacUpdate(m, data).inner)
         /\ Keyless(MacUpdate(m, data))
         /\ Contents(MacUpdate(m, data).inner) = Contents(m.inner) \o data
<1> DEFINE i == m.inner   new == Update(i, data)
<1>1. /\ i \in HasherOver(Ivs, Byte) /\ BufferSound(i) /\ ChainAligned(i)
      /\ i.state.iv = "zero"
  BY DEF Keyless
<1> HIDE DEF i
<1>2. /\ new \in HasherOver(Ivs, Byte) /\ BufferSound(new) /\ ChainAligned(new)
      /\ new.state.iv = "zero" /\ Contents(new) = Contents(i) \o data
  BY <1>1, UpdateAppends
<1> HIDE DEF new
<1>3. new \in HasherOver(Ivs, MacByte)
  BY <1>2, OwnSets, HasherMonotone
<1>4. MacUpdate(m, data) = [m EXCEPT !.inner = new]
  BY DEF MacUpdate, new, i
<1> QED BY <1>2, <1>3, <1>4 DEF MacSet, Keyless, i

\* reset of an instance without a key starts on the all-zero state.
LEMMA ResetKeyless ==
  ASSUME NEW m \in MacSet, Keyless(m)
  PROVE  /\ MacReset(m) \in MacSet /\ BufferSound(MacReset(m).inner)
         /\ Keyless(MacReset(m)) /\ Contents(MacReset(m).inner) = << >>
<1> DEFINE new == FromState(ZERO_STATE, PREFIX_LEN)
<1>1. PREFIX_LEN \in 0 .. LEN_MOD - 1 /\ BLOCK_LEN \in Nat \ {0}
  BY Sizes
<1>2. /\ new \in HasherOver(Ivs, Byte) /\ BufferSound(new)
      /\ new.state = ZERO_STATE /\ new.block_len = 0
  BY <1>1, ZeroKeyState, OwnSets, FromStateSound
<1> HIDE DEF new
<1>3. new \in HasherOver(Ivs, MacByte)
  BY <1>2, OwnSets, HasherMonotone
<1>4. Contents(new) = << >>
  <2>1. new \in HasherInUpdate(Ivs, Byte)
    BY <1>1, <1>2 DEF HasherOver, HasherInUpdate
  <2> QED BY <1>2, <2>1, ZeroKeyState, EmptyBlockContents
<1>5. ChainAligned(new)
  <2>1. 0 % BLOCK_LEN = 0 /\ Len(<< >>) = 0
    BY <1>1
  <2> QED BY <1>2, <2>1, ZeroKeyState DEF ChainAligned
<1>6. MacReset(m) = [m EXCEPT !.inner = new]
  BY DEF MacReset, new, Keyless
<1> QED BY <1>2, <1>3, <1>4, <1>5, <1>6, ZeroKeyState DEF MacSet, Keyless

\* What StreamingMac sees of an instance without a key.
LEMMA KeylessView ==
  ASSUME NEW m \in MacSet, Keyless(m)
  PROVE  /\ MessageOf(m) = Contents(m.inner) /\ KeyBlockOf(m) = << >>
         /\ MessageOf(m) \in Seq(Byte)
<1>1. m.inner \in HasherOver(Ivs, Byte)
  BY DEF Keyless
<1>2. Contents(m.inner) \in Seq(Byte)
  BY <1>1, ContentsType
<1> QED BY <1>2, ZeroKeyState DEF MessageOf, KeyBlockOf, Keyless

\* The two drops clear the key states, the live hasher's state and its block.
LEMMA DroppedIsErased ==
  ASSUME NEW m \in MacSet, BufferSound(m.inner)
  PROVE  MacDrop(m) \in MacSet /\ BufferSound(MacDrop(m).inner) /\ Erased(MacDrop(m))
<1> DEFINE i == m.inner   d == Drop(i)
<1>1. i \in HasherOver(Ivs, MacByte) /\ BufferSound(i)
  BY DEF MacSet
<1> HIDE DEF i
<1>2. d \in HasherOver(Ivs, MacByte) /\ BufferSound(d) /\ Clean(d)
  BY <1>1, OwnSets, Sizes, DropSound
<1> HIDE DEF d
<1>3. MacDrop(m) = [inner |-> d, inner_state |-> ZERO_STATE,
                    outer_state |-> ZERO_STATE]
  BY DEF MacDrop, d, i
<1> QED BY <1>2, <1>3, ZeroKeyState DEF MacSet, Erased

-----------------------------------------------------------------------------
(***************************************************************************)
(* Each call on an instance that is alive, whatever its stage: the stage   *)
(* it leaves the memory in, and the key block and message it leaves.       *)
(***************************************************************************)
Stages == {"live", "wiped"}

LEMMA NewStage ==
  ASSUME NEW key \in Keys
  PROVE  /\ WithKey(key) \in MacSet /\ StageSound(WithKey(key), "live")
         /\ KeyBlockOf(WithKey(key)) = F!K0(key) /\ MessageOf(WithKey(key)) = << >>
<1> DEFINE m == WithKey(key)
<1>1. m \in MacSet /\ BufferSound(m.inner) /\ Holds(m, key, << >>)
  BY KeyedHolds
<1> HIDE DEF m
<1>2. << >> \in Seq(Byte)
  OBVIOUS
<1>3. StageSound(m, "live")
  BY <1>1, <1>2 DEF StageSound
<1>4. KeyBlockOf(m) = F!K0(key) /\ MessageOf(m) = << >>
  BY <1>1, <1>2, HoldsView
<1> QED BY <1>1, <1>3, <1>4 DEF m

LEMMA UpdateStage ==
  ASSUME NEW m \in MacSet, NEW s \in Stages, StageSound(m, s), NEW data \in Seq(Byte)
  PROVE  /\ MacUpdate(m, data) \in MacSet /\ StageSound(MacUpdate(m, data), s)
         /\ KeyBlockOf(MacUpdate(m, data)) = KeyBlockOf(m)
         /\ MessageOf(MacUpdate(m, data)) = MessageOf(m) \o data
<1> DEFINE new == MacUpdate(m, data)
<1>0. BufferSound(m.inner)
  BY DEF StageSound
<1>1. CASE s = "live"
  <2>1. PICK key \in Keys, msg \in Seq(Byte) : Holds(m, key, msg)
    BY <1>1 DEF StageSound
  <2>2. /\ new \in MacSet /\ BufferSound(new.inner)
        /\ msg \o data \in Seq(Byte) /\ Holds(new, key, msg \o data)
    BY <1>0, <2>1, UpdateHolds
  <2> HIDE DEF new
  <2>3. StageSound(new, s)
    BY <1>1, <2>2 DEF StageSound
  <2>4. KeyBlockOf(new) = F!K0(key) /\ MessageOf(new) = msg \o data
    BY <2>2, HoldsView
  <2>5. KeyBlockOf(m) = F!K0(key) /\ MessageOf(m) = msg
    BY <2>1, HoldsView
  <2> QED BY <2>2, <2>3, <2>4, <2>5 DEF new
<1>2. CASE s = "wiped"
  <2>1. Keyless(m)
    BY <1>2 DEF StageSound
  <2>2. /\ new \in MacSet /\ BufferSound(new.inner) /\ Keyless(new)
        /\ Contents(new.inner) = Contents(m.inner) \o data
    BY <1>0, <2>1, UpdateKeyless
  <2> HIDE DEF new
  <2>3. StageSound(new, s)
    BY <1>2, <2>2 DEF StageSound
  <2>4. KeyBlockOf(new) = << >> /\ MessageOf(new) = Contents(new.inner)
    BY <2>2, KeylessView
  <2>5. KeyBlockOf(m) = << >> /\ MessageOf(m) = Contents(m.inner)
    BY <2>1, KeylessView
  <2> QED BY <2>2, <2>3, <2>4, <2>5 DEF new
<1> QED BY <1>1, <1>2 DEF Stages

LEMMA ResetStage ==
  ASSUME NEW m \in MacSet, NEW s \in Stages, StageSound(m, s)
  PROVE  /\ MacReset(m) \in MacSet /\ StageSound(MacReset(m), s)
         /\ KeyBlockOf(MacReset(m)) = KeyBlockOf(m) /\ MessageOf(MacReset(m)) = << >>
         /\ s = "live" => \E key \in Keys : MacReset(m) = WithKey(key)
<1> DEFINE new == MacReset(m)
<1>1. CASE s = "live"
  <2>1. PICK key \in Keys, msg \in Seq(Byte) : Holds(m, key, msg)
    BY <1>1 DEF StageSound
  <2>2. new = WithKey(key)
    BY <2>1, ResetHolds
  <2>3. KeyBlockOf(m) = F!K0(key)
    BY <2>1, HoldsView
  <2> HIDE DEF new
  <2> QED BY <1>1, <2>2, <2>3, NewStage DEF new
<1>2. CASE s = "wiped"
  <2>1. Keyless(m)
    BY <1>2 DEF StageSound
  <2>2. /\ new \in MacSet /\ BufferSound(new.inner) /\ Keyless(new)
        /\ Contents(new.inner) = << >>
    BY <2>1, ResetKeyless
  <2> HIDE DEF new
  <2>3. StageSound(new, s)
    BY <1>2, <2>2 DEF StageSound
  <2>4. KeyBlockOf(new) = << >> /\ MessageOf(new) = << >>
    BY <2>2, KeylessView
  <2>5. KeyBlockOf(m) = << >>
    BY <2>1, KeylessView
  <2> QED BY <1>2, <2>2, <2>3, <2>4, <2>5 DEF new
<1> QED BY <1>1, <1>2 DEF Stages

LEMMA ZeroizeStage ==
  ASSUME NEW m \in MacSet, BufferSound(m.inner)
  PROVE  /\ MacZeroize(m) \in MacSet /\ StageSound(MacZeroize(m), "wiped")
         /\ KeyBlockOf(MacZeroize(m)) = << >> /\ MessageOf(MacZeroize(m)) = << >>
<1> DEFINE new == MacZeroize(m)
<1>1. /\ new \in MacSet /\ BufferSound(new.inner) /\ Keyless(new)
      /\ Contents(new.inner) = << >>
  BY ZeroizeSound
<1> HIDE DEF new
<1>2. StageSound(new, "wiped")
  BY <1>1 DEF StageSound
<1>3. KeyBlockOf(new) = << >> /\ MessageOf(new) = << >>
  BY <1>1, KeylessView
<1> QED BY <1>1, <1>2, <1>3 DEF new

\* finalize: the tag of RFC 2104 for the key and the message; without a key,
\* some tag that begins from no initial vector.
LEMMA TagStage ==
  ASSUME NEW m \in MacSet, NEW s \in Stages, StageSound(m, s)
  PROVE  /\ MacFinalize(m) \in ChainOver(Ivs, TagByte)
         /\ s = "live"  => /\ KeyBlockOf(m) # << >>
                           /\ MacFinalize(m) = F!Tag(KeyBlockOf(m), MessageOf(m))
         /\ s = "wiped" => /\ KeyBlockOf(m) = << >> /\ MacFinalize(m).iv = "zero"
<1>1. CASE s = "live"
  <2>1. PICK key \in Keys, msg \in Seq(Byte) : Holds(m, key, msg)
    BY <1>1 DEF StageSound
  <2> DEFINE k0 == KeyBlock(key)
  <2>2. k0 \in [1 .. BLOCK_LEN -> KeyByte] /\ k0 = F!K0(key)
    BY KeyBlocks
  <2>3. /\ MessageOf(m) = msg /\ KeyBlockOf(m) = F!K0(key)
        /\ MacFinalize(m) = F!Tag(F!K0(key), msg)
    BY <2>1, HoldsView
  <2> HIDE DEF k0
  <2>4. k0 # << >>
    <3>1. Len(k0) = BLOCK_LEN /\ BLOCK_LEN # 0
      BY <2>2, Sizes, FunctionIsSequence
    <3>2. Len(<< >>) = 0
      OBVIOUS
    <3> QED BY <3>1, <3>2
  <2>5. /\ m.outer_state = PadState("H0", "opad", k0) /\ Tracks(m.inner)
        /\ m.inner \in HasherOver(Ivs, MacByte)
        /\ m.outer_state \in ChainOver(Ivs, PadByte)
    BY <2>1 DEF Holds, MacSet, k0
  <2>6. Len(m.outer_state.absorbed) % BLOCK_LEN = 0
    <3>1. m.outer_state.absorbed = XorInto("opad", k0)
      BY <2>5 DEF PadState
    <3>2. Len(XorInto("opad", k0)) = BLOCK_LEN
      BY <2>2, XorIntoType DEF Pads
    <3>3. BLOCK_LEN \in Nat \ {0} /\ 0 \in 0 .. BLOCK_LEN - 1 /\ BLOCK_LEN \in Int
          /\ BLOCK_LEN = BLOCK_LEN * 1 + 0
      BY Sizes
    <3>4. BLOCK_LEN % BLOCK_LEN = 0
      BY <3>3, RemainderUnique
    <3> QED BY <3>1, <3>2, <3>4
  <2>7. ChainAligned(m.inner) /\ m.outer_state \in ChainOver(Ivs, TagByte)
    BY <2>5, OwnSets, HasherMonotone DEF Tracks
  <2>8. MacFinalize(m) \in ChainOver(Ivs, TagByte)
    <3>1. ByteSet(MacByte) /\ ByteSet(TagByte) /\ DigestOf(MacByte) \subseteq TagByte
      BY OwnSets
    <3> QED BY <2>5, <2>6, <2>7, <3>1, MacFinalizeType
  <2> QED BY <1>1, <2>2, <2>3, <2>4, <2>8
<1>2. CASE s = "wiped"
  <2>1. Keyless(m)
    BY <1>2 DEF StageSound
  <2>2. /\ m.inner \in HasherOver(Ivs, MacByte) /\ ChainAligned(m.inner)
        /\ m.outer_state \in ChainOver(Ivs, TagByte)
        /\ m.outer_state.iv = "zero" /\ m.outer_state.absorbed = << >>
    BY <2>1, ZeroKeyState DEF Keyless, MacSet
  <2>3. Len(m.outer_state.absorbed) % BLOCK_LEN = 0
    <3>1. 0 % BLOCK_LEN = 0
      BY Sizes
    <3>2. Len(<< >>) = 0
      OBVIOUS
    <3> QED BY <2>2, <3>1, <3>2
  <2>4. MacFinalize(m) \in ChainOver(Ivs, TagByte) /\ MacFinalize(m).iv = "zero"
    <3>1. ByteSet(MacByte) /\ ByteSet(TagByte) /\ DigestOf(MacByte) \subseteq TagByte
      BY OwnSets
    <3> QED BY <2>2, <2>3, <3>1, MacFinalizeType
  <2>5. KeyBlockOf(m) = << >>
    BY <2>1, KeylessView
  <2> QED BY <1>2, <2>4, <2>5
<1> QED BY <1>1, <1>2 DEF Stages

-----------------------------------------------------------------------------
(***************************************************************************)
(* The inductive invariant.                                                *)
(***************************************************************************)

\* Handles that were never used hold memory that was keyed with the empty
\* key and dropped.
LEMMA InitIInv == Init => IInv
<1> SUFFICES ASSUME Init PROVE IInv
  OBVIOUS
<1> DEFINE m == WithKey(<< >>)   d == MacDrop(m)
<1>1. << >> \in Seq(Byte) /\ ByteSet(Byte)
  BY OwnSets
<1>2. /\ m = KeyedWith("H0", KeyBlock(<< >>))
      /\ KeyBlock(<< >>) \in [1 .. BLOCK_LEN -> KeyByte]
  BY <1>1, OwnSets, KeyBlockIsK0, WithKeyIs DEF KeyByte
<1>3. m \in MacSet /\ BufferSound(m.inner)
  <2>1. /\ KeyedWith("H0", KeyBlock(<< >>)) \in MacSet
        /\ BufferSound(KeyedWith("H0", KeyBlock(<< >>)).inner)
    BY <1>2, KeyedWithSound
  <2> QED BY <1>2, <2>1
<1> HIDE DEF m
<1>4. d \in MacSet /\ BufferSound(d.inner)
  BY <1>3, DroppedIsErased
<1>5. hmac = [h \in Handle |-> d]
  BY DEF Init, m
<1> HIDE DEF d
<1>6. StageSound(d, "unused")
  BY <1>4 DEF StageSound
<1>7. /\ status = [h \in Handle |-> "unused"]
      /\ returned = Nothing /\ offered = ZERO_STATE
  BY DEF Init
<1> QED BY <1>4, <1>5, <1>6, <1>7, ZeroKeyState DEF IInv, Statuses, Nothing

\* A call that gives instance h sound memory keeps the invariant.
LEMMA BecomesKeepsIInv ==
  ASSUME IInv, NEW h \in Handle, NEW m \in MacSet, NEW s \in Statuses,
         StageSound(m, s), Becomes(h, m, s)
  PROVE  IInv'
<1>1. /\ hmac' = [hmac EXCEPT ![h] = m] /\ status' = [status EXCEPT ![h] = s]
      /\ returned' = Nothing /\ offered' = offered
  BY DEF Becomes
<1>2. /\ hmac' \in [Handle -> MacSet] /\ status' \in [Handle -> Statuses]
  BY <1>1 DEF IInv
<1>3. ASSUME NEW g \in Handle
      PROVE  StageSound(hmac'[g], status'[g])
  <2>1. CASE g = h
    <3>1. hmac'[g] = m /\ status'[g] = s
      BY <1>1, <2>1 DEF IInv
    <3> QED BY <3>1
  <2>2. CASE g # h
    <3>1. hmac'[g] = hmac[g] /\ status'[g] = status[g]
      BY <1>1, <2>2 DEF IInv
    <3> QED BY <3>1 DEF IInv
  <2> QED BY <2>1, <2>2
<1>4. /\ returned'.tag \in ChainOver(Ivs, TagByte) /\ returned'.by \subseteq Handle
      /\ returned'.accepted \subseteq BOOLEAN
  BY <1>1, ZeroKeyState DEF Nothing
<1> QED BY <1>1, <1>2, <1>3, <1>4 DEF IInv

\* The memory of an instance that is alive.
LEMMA AliveIs ==
  ASSUME IInv, NEW h \in Alive
  PROVE  /\ h \in Handle /\ hmac[h] \in MacSet
         /\ status[h] \in Stages /\ status[h] \in Statuses
         /\ StageSound(hmac[h], status[h]) /\ BufferSound(hmac[h].inner)
<1>1. h \in Handle /\ status[h] \in {"live", "wiped"}
  BY DEF Alive
<1>2. hmac[h] \in MacSet /\ StageSound(hmac[h], status[h])
  BY <1>1 DEF IInv
<1> QED BY <1>1, <1>2 DEF Stages, Statuses, StageSound

LEMMA NextIInv == IInv /\ [Next]_vars => IInv'
<1> SUFFICES ASSUME IInv, [Next]_vars PROVE IInv'
  OBVIOUS
<1>0. "live" \in Statuses /\ "wiped" \in Statuses /\ "dropped" \in Statuses
  BY DEF Statuses
<1>1. ASSUME NEW h \in Handle, NEW key \in Keys, DoNew(h, key) PROVE IInv'
  <2>1. Becomes(h, WithKey(key), "live")
    BY <1>1 DEF DoNew
  <2>2. WithKey(key) \in MacSet /\ StageSound(WithKey(key), "live")
    BY NewStage
  <2> QED BY <1>0, <2>1, <2>2, BecomesKeepsIInv
<1>2. ASSUME NEW h \in Handle, NEW g \in Handle, DoClone(h, g) PROVE IInv'
  <2>1. g \in Alive /\ Becomes(h, hmac[g], status[g])
    BY <1>2 DEF DoClone
  <2> QED BY <2>1, AliveIs, BecomesKeepsIInv
<1>3. ASSUME NEW h \in Handle, NEW data \in Chunks, DoUpdate(h, data) PROVE IInv'
  <2>1. h \in Alive /\ Becomes(h, MacUpdate(hmac[h], data), status[h])
    BY <1>3 DEF DoUpdate
  <2>2. data \in Seq(Byte)
    BY OwnSets
  <2>3. /\ MacUpdate(hmac[h], data) \in MacSet
        /\ StageSound(MacUpdate(hmac[h], data), status[h])
    BY <2>1, <2>2, AliveIs, UpdateStage
  <2> QED BY <2>1, <2>3, AliveIs, BecomesKeepsIInv
<1>4. ASSUME NEW h \in Handle, DoFinalize(h) PROVE IInv'
  <2>1. /\ h \in Alive /\ offered' = MacFinalize(hmac[h])
        /\ returned' = [by |-> {h}, tag |-> MacFinalize(hmac[h]), accepted |-> {}]
        /\ hmac' = hmac /\ status' = status
    BY <1>4 DEF DoFinalize
  <2>2. MacFinalize(hmac[h]) \in ChainOver(Ivs, TagByte)
    BY <2>1, AliveIs, TagStage
  <2> QED BY <2>1, <2>2 DEF IInv
<1>5. ASSUME NEW h \in Handle, DoVerify(h) PROVE IInv'
  <2> DEFINE v == Verify(hmac[h], offered)
  <2>1. /\ returned' = [by |-> {h}, tag |-> offered, accepted |-> {v}]
        /\ hmac' = hmac /\ status' = status /\ offered' = offered
    BY <1>5 DEF DoVerify
  <2>2. v \in BOOLEAN
    BY DEF Verify, CtEq
  <2> HIDE DEF v
  <2> QED BY <2>1, <2>2 DEF IInv
<1>6. ASSUME NEW h \in Handle, DoReset(h) PROVE IInv'
  <2>1. h \in Alive /\ Becomes(h, MacReset(hmac[h]), status[h])
    BY <1>6 DEF DoReset
  <2>2. MacReset(hmac[h]) \in MacSet /\ StageSound(MacReset(hmac[h]), status[h])
    BY <2>1, AliveIs, ResetStage
  <2> QED BY <2>1, <2>2, AliveIs, BecomesKeepsIInv
<1>7. ASSUME NEW h \in Handle, DoZeroize(h) PROVE IInv'
  <2>1. h \in Alive /\ Becomes(h, MacZeroize(hmac[h]), "wiped")
    BY <1>7 DEF DoZeroize
  <2>2. MacZeroize(hmac[h]) \in MacSet /\ StageSound(MacZeroize(hmac[h]), "wiped")
    BY <2>1, AliveIs, ZeroizeStage
  <2> QED BY <1>0, <2>1, <2>2, BecomesKeepsIInv
<1>8. ASSUME NEW h \in Handle, DoDrop(h) PROVE IInv'
  <2> DEFINE m == MacDrop(hmac[h])
  <2>1. h \in Alive /\ Becomes(h, m, "dropped")
    BY <1>8 DEF DoDrop
  <2>2. m \in MacSet /\ BufferSound(m.inner) /\ Erased(m)
    BY <2>1, AliveIs, DroppedIsErased
  <2> HIDE DEF m
  <2>3. StageSound(m, "dropped")
    BY <2>2 DEF StageSound
  <2> QED BY <1>0, <2>1, <2>2, <2>3, BecomesKeepsIInv
<1>9. CASE UNCHANGED vars
  BY <1>9 DEF vars, IInv
<1> QED BY <1>1, <1>2, <1>3, <1>4, <1>5, <1>6, <1>7, <1>8, <1>9 DEF Next

LEMMA Inductive == Spec => []IInv
  BY InitIInv, NextIInv, PTL DEF Spec

-----------------------------------------------------------------------------
(***************************************************************************)
(* The theorems.                                                           *)
(***************************************************************************)

\* Key states hold nothing but pad bytes, live hashers pad and message bytes
\* and tags digest bytes, for every width and every input.
THEOREM TypeCorrect == Spec => []TypeOK
<1>1. IInv => TypeOK
  <2> SUFFICES ASSUME IInv PROVE TypeOK
    OBVIOUS
  <2>1. \A B : ChainOf(B) = ChainOver(Ivs, B) /\ HasherOf(B) = HasherOver(Ivs, B)
    BY DEF ChainOf, HasherOf
  <2>2. MacByte \cup ({"digest"} \X KeyedChain \X (1 .. DIGEST_LEN)) = TagByte
    BY <2>1 DEF TagByte, DigestOf, KeyedChain
  <2>3. MacSet = [inner : HasherOf(MacByte), inner_state : ChainOf(PadByte),
                  outer_state : ChainOf(PadByte)]
    BY <2>1 DEF MacSet
  <2> QED BY <2>1, <2>2, <2>3 DEF IInv, TypeOK, Statuses
<1> QED BY <1>1, Inductive, PTL

\* No byte made from a key is left in an instance that was dropped or
\* zeroized, and no message byte in one that was dropped.
THEOREM KeysErased == Spec => []KeyErased
<1>1. IInv => KeyErased
  <2> SUFFICES ASSUME IInv, NEW h \in Handle
               PROVE  /\ status[h] \in {"wiped", "dropped"} =>
                           /\ hmac[h].inner_state = ZERO_STATE
                           /\ hmac[h].outer_state = ZERO_STATE
                           /\ hmac[h].inner.state.iv = "zero"
                           /\ \A i \in 1 .. BLOCK_LEN : hmac[h].inner.block[i] \notin PadByte
                      /\ status[h] = "dropped" => hmac[h].inner.block = Zeros(BLOCK_LEN)
    BY DEF KeyErased
  <2> DEFINE m == hmac[h]
  <2>1. StageSound(m, status[h])
    BY DEF IInv
  <2> HIDE DEF m
  <2>2. CASE status[h] = "wiped"
    <3>1. Keyless(m)
      BY <2>1, <2>2 DEF StageSound
    <3>2. \A i \in 1 .. BLOCK_LEN : m.inner.block[i] \in Byte
      BY <3>1 DEF Keyless, HasherOver
    <3> QED BY <2>2, <3>1, <3>2, PadIsNoByte DEF Keyless, m
  <2>3. CASE status[h] = "dropped"
    <3>1. /\ m.inner_state = ZERO_STATE /\ m.outer_state = ZERO_STATE
          /\ m.inner.state = ZERO_STATE /\ m.inner.block = Zeros(BLOCK_LEN)
      BY <2>1, <2>3 DEF StageSound, Erased, Clean
    <3>2. Zeros(BLOCK_LEN) \in [1 .. BLOCK_LEN -> Byte]
      BY Sizes, OwnSets, ZerosType
    <3> QED BY <2>3, <3>1, <3>2, ZeroKeyState, PadIsNoByte DEF m
  <2> QED BY <2>2, <2>3
<1> QED BY <1>1, Inductive, PTL

\* reset always brings back the instance some key was installed in.
THEOREM ResetRestores == Spec => []ResetRestoresKeyed
<1>1. IInv => ResetRestoresKeyed
  <2> SUFFICES ASSUME IInv, NEW h \in Handle, status[h] = "live"
               PROVE  \E key \in Keys : MacReset(hmac[h]) = WithKey(key)
    BY DEF ResetRestoresKeyed
  <2>1. h \in Alive
    BY DEF Alive
  <2> QED BY <2>1, AliveIs, ResetStage
<1> QED BY <1>1, Inductive, PTL

-----------------------------------------------------------------------------
(***************************************************************************)
(* Refinement: HmacInstances implements StreamingMac.                      *)
(***************************************************************************)
View(m) == [k0 |-> KeyBlockOf(m), bytes |-> MessageOf(m)]
NoMac   == [k0 |-> << >>, bytes |-> << >>]

\* The promise speaks of the same key blocks and tags as the lemmas do.
LEMMA SameTag ==
  /\ \A key : Promise!K0(key) = F!K0(key)
  /\ \A k0, msg : Promise!Tag(k0, msg) = F!Tag(k0, msg)
  /\ Promise!ZERO_STATE = ZERO_STATE /\ Promise!NoKey = << >>
<1>1. /\ Promise!DELIM = DELIM /\ F!DELIM = DELIM
      /\ Promise!LEN_MOD = LEN_MOD /\ F!LEN_MOD = LEN_MOD
      /\ \A n : Promise!Zeros(n) = Zeros(n) /\ F!Zeros(n) = Zeros(n)
      /\ \A n : Promise!ToBeBytes(n) = ToBeBytes(n) /\ F!ToBeBytes(n) = ToBeBytes(n)
  BY DEF F!DELIM, Promise!DELIM, DELIM, F!LEN_MOD, Promise!LEN_MOD, LEN_MOD,
         F!BASE, Promise!BASE, BASE, F!Zeros, Promise!Zeros, Zeros,
         F!ZERO, Promise!ZERO, ZERO, F!Lit, Promise!Lit, Lit,
         F!ToBeBytes, Promise!ToBeBytes, ToBeBytes
<1>2. \A bytes : Promise!Hash(bytes) = F!Hash(bytes)
  BY <1>1 DEF F!Hash, F!Digest, F!Message, F!Padding,
              Promise!Hash, Promise!Digest, Promise!Message, Promise!Padding
<1>3. /\ \A p, k : Promise!XorInto(p, k) = F!XorInto(p, k)
      /\ \A c : Promise!DigestBytes(c) = F!DigestBytes(c)
  BY DEF F!XorInto, Promise!XorInto, F!DigestBytes, Promise!DigestBytes
<1>4. \A key : Promise!K0(key) = F!K0(key)
  BY <1>1, <1>2, <1>3 DEF F!K0, Promise!K0
<1>5. \A k0, msg : Promise!Tag(k0, msg) = F!Tag(k0, msg)
  BY <1>2, <1>3 DEF F!Tag, Promise!Tag
<1> QED BY <1>4, <1>5 DEF Promise!ZERO_STATE, ZERO_STATE, Promise!NoKey

\* What the promise sees when instance h gets memory m.
LEMMA BecomesView ==
  ASSUME IInv, NEW h \in Handle, NEW m, NEW s, Becomes(h, m, s)
  PROVE  /\ s \in Stages => /\ Alive' = Alive \cup {h}
                             /\ Macs' = [Macs EXCEPT ![h] = View(m)]
         /\ s \notin Stages => /\ Alive' = Alive \ {h}
                                /\ Macs' = [Macs EXCEPT ![h] = NoMac]
         /\ returned' = Promise!Nothing
<1>1. /\ hmac' = [hmac EXCEPT ![h] = m] /\ status' = [status EXCEPT ![h] = s]
      /\ returned' = Nothing
  BY DEF Becomes
<1>2. /\ hmac'[h] = m /\ status'[h] = s
      /\ \A g \in Handle \ {h} : hmac'[g] = hmac[g] /\ status'[g] = status[g]
  BY <1>1 DEF IInv
<1>3. /\ s \in Stages => Alive' = Alive \cup {h}
      /\ s \notin Stages => Alive' = Alive \ {h}
  BY <1>2 DEF Alive, Stages
<1>4. /\ Macs = [g \in Handle |-> IF g \in Alive THEN View(hmac[g]) ELSE NoMac]
      /\ Macs' = [g \in Handle |-> IF g \in Alive' THEN View(hmac'[g]) ELSE NoMac]
  BY DEF Macs, View, NoMac, KeyBlockOf, MessageOf
<1>5. ASSUME s \in Stages PROVE Macs' = [Macs EXCEPT ![h] = View(m)]
  BY <1>2, <1>3, <1>4, <1>5
<1>6. ASSUME s \notin Stages PROVE Macs' = [Macs EXCEPT ![h] = NoMac]
  BY <1>2, <1>3, <1>4, <1>6
<1>7. returned' = Promise!Nothing
  BY <1>1, SameTag DEF Nothing, Promise!Nothing
<1> QED BY <1>3, <1>5, <1>6, <1>7

\* The instances that are alive are handles, and each is its view.
LEMMA AliveView ==
  ASSUME NEW h \in Alive
  PROVE  /\ h \in Handle /\ Macs[h] = View(hmac[h])
         /\ Macs[h].k0 = KeyBlockOf(hmac[h]) /\ Macs[h].bytes = MessageOf(hmac[h])
  BY DEF Alive, Macs, View

\* Verify accepts exactly the tag that finalize would return.
LEMMA VerifyAccepts ==
  ASSUME IInv, NEW h \in Alive
  PROVE  Verify(hmac[h], offered) <=> (offered = MacFinalize(hmac[h]))
<1> DEFINE t == MacFinalize(hmac[h])
<1>1. t \in ChainOver(Ivs, TagByte) /\ offered \in ChainOver(Ivs, TagByte)
  BY AliveIs, TagStage DEF IInv
<1>2. Verify(hmac[h], offered) = CtEq(DigestBytes(t), DigestBytes(offered))
  BY DEF Verify
<1> HIDE DEF t
<1>3. CtEq(DigestBytes(t), DigestBytes(offered)) <=> (t = offered)
  BY <1>1, CtEqIsEquality
<1> QED BY <1>2, <1>3 DEF t

LEMMA InitImplements == IInv /\ Init => Promise!AInit
<1> SUFFICES ASSUME Init PROVE Promise!AInit
  OBVIOUS
<1>1. Alive = {}
  BY DEF Init, Alive
<1>2. Macs = [h \in Handle |-> NoMac]
  BY <1>1 DEF Macs, NoMac
<1>3. returned = Promise!Nothing
  BY SameTag DEF Init, Nothing, Promise!Nothing
<1> QED BY <1>1, <1>2, <1>3
    DEF Promise!AInit, Promise!Keyed, Promise!NoKey, NoMac

LEMMA NextImplements ==
  IInv /\ IInv' /\ [Next]_vars => [Promise!ANext]_(Promise!avars)
<1> SUFFICES ASSUME IInv, [Next]_vars PROVE [Promise!ANext]_(Promise!avars)
  OBVIOUS
<1> USE DEF Promise!ANext, Promise!Keyed
<1>0. "live" \in Stages /\ "wiped" \in Stages /\ "dropped" \notin Stages
  BY DEF Stages
<1>1. ASSUME NEW h \in Handle, NEW key \in Keys, DoNew(h, key) PROVE Promise!ANext
  <2>1. h \notin Alive /\ Becomes(h, WithKey(key), "live")
    BY <1>1 DEF DoNew
  <2>2. View(WithKey(key)) = Promise!Keyed(Promise!K0(key), << >>)
    BY NewStage, SameTag DEF View, Promise!Keyed
  <2>3. /\ Alive' = Alive \cup {h} /\ returned' = Promise!Nothing
        /\ Macs' = [Macs EXCEPT ![h] = View(WithKey(key))]
    BY <1>0, <2>1, BecomesView
  <2>4. Promise!AStart(h, Promise!Keyed(Promise!K0(key), << >>))
    BY <2>1, <2>2, <2>3 DEF Promise!AStart
  <2> QED BY <2>4
<1>2. ASSUME NEW h \in Handle, NEW g \in Handle, DoClone(h, g) PROVE Promise!ANext
  <2>1. h \notin Alive /\ g \in Alive /\ Becomes(h, hmac[g], status[g])
    BY <1>2 DEF DoClone
  <2>2. status[g] \in Stages /\ Macs[g] = View(hmac[g])
    BY <2>1, AliveIs, AliveView
  <2>3. /\ Alive' = Alive \cup {h} /\ returned' = Promise!Nothing
        /\ Macs' = [Macs EXCEPT ![h] = View(hmac[g])]
    BY <2>1, <2>2, BecomesView
  <2>4. Promise!AClone(h, g)
    BY <2>1, <2>2, <2>3 DEF Promise!AClone, Promise!AStart
  <2> QED BY <2>4
<1>3. ASSUME NEW h \in Handle, NEW data \in Chunks, DoUpdate(h, data)
      PROVE  Promise!ANext
  <2> DEFINE m == hmac[h]   new == MacUpdate(m, data)
  <2>1. /\ h \in Alive /\ Becomes(h, new, status[h])
        /\ Len(MessageOf(m)) + Len(data) <= MaxLen
    BY <1>3 DEF DoUpdate
  <2>2. m \in MacSet /\ status[h] \in Stages /\ StageSound(m, status[h])
    BY <2>1, AliveIs
  <2>3. data \in Seq(Byte)
    BY OwnSets
  <2>4. KeyBlockOf(new) = KeyBlockOf(m) /\ MessageOf(new) = MessageOf(m) \o data
    BY <2>2, <2>3, UpdateStage
  <2>5. Macs[h] = View(m) /\ Macs[h].bytes = MessageOf(m)
    BY <2>1, AliveView
  <2>6. /\ Alive' = Alive \cup {h} /\ returned' = Promise!Nothing
        /\ Macs' = [Macs EXCEPT ![h] = View(new)]
    BY <2>1, <2>2, BecomesView
  <2>7. View(new) = [Macs[h] EXCEPT !.bytes = @ \o data]
    <3> DEFINE k == KeyBlockOf(m)   b == MessageOf(m)
    <3>1. Macs[h] = [k0 |-> k, bytes |-> b]
      BY <2>5 DEF View
    <3>2. View(new) = [k0 |-> k, bytes |-> b \o data]
      BY <2>4 DEF View
    <3> DEFINE c == b \o data
    <3>3. [Macs[h] EXCEPT !.bytes = @ \o data] = [Macs[h] EXCEPT !.bytes = c]
      BY <2>5
    <3> HIDE DEF k, b, c, m, new
    <3>4. [[k0 |-> k, bytes |-> b] EXCEPT !.bytes = c] = [k0 |-> k, bytes |-> c]
      OBVIOUS
    <3> QED BY <3>1, <3>2, <3>3, <3>4 DEF c
  <2>8. Macs' = [Macs EXCEPT ![h].bytes = @ \o data]
    BY <2>6, <2>7
  <2>9. Promise!AUpdate(h, data)
    BY <2>1, <2>5, <2>6, <2>8 DEF Promise!AUpdate
  <2> QED BY <2>9
<1>4. ASSUME NEW h \in Handle, DoFinalize(h) PROVE Promise!ANext
  <2> DEFINE m == hmac[h]
  <2>1. /\ h \in Alive
        /\ returned' = [by |-> {h}, tag |-> MacFinalize(m), accepted |-> {}]
        /\ Alive' = Alive /\ Macs' = Macs
    BY <1>4 DEF DoFinalize, Alive, Macs, KeyBlockOf, MessageOf
  <2>2. m \in MacSet /\ status[h] \in Stages /\ StageSound(m, status[h])
    BY <2>1, AliveIs
  <2>3. Macs[h].k0 = KeyBlockOf(m) /\ Macs[h].bytes = MessageOf(m)
    BY <2>1, AliveView
  <2>4. Promise!ATag(h, MacFinalize(m))
    <3>1. CASE status[h] = "live"
      BY <2>2, <2>3, <3>1, TagStage, SameTag DEF Promise!ATag
    <3>2. CASE status[h] = "wiped"
      BY <2>2, <2>3, <3>2, TagStage, SameTag DEF Promise!ATag
    <3> QED BY <2>2, <3>1, <3>2 DEF Stages
  <2> HIDE DEF m
  <2>5. Promise!AFinalize(h)
    BY <2>1, <2>4 DEF Promise!AFinalize
  <2> QED BY <2>5
<1>5. ASSUME NEW h \in Handle, DoVerify(h) PROVE Promise!ANext
  <2> DEFINE m == hmac[h]   v == Verify(m, offered)
  <2>1. /\ h \in Alive
        /\ returned' = [by |-> {h}, tag |-> offered, accepted |-> {v}]
        /\ Alive' = Alive /\ Macs' = Macs
    BY <1>5 DEF DoVerify, Alive, Macs, KeyBlockOf, MessageOf
  <2>2. m \in MacSet /\ status[h] \in Stages /\ StageSound(m, status[h])
    BY <2>1, AliveIs
  <2>3. Macs[h].k0 = KeyBlockOf(m) /\ Macs[h].bytes = MessageOf(m)
    BY <2>1, AliveView
  <2>4. ASSUME Macs[h].k0 # << >>
        PROVE  {v} = {offered = Promise!Tag(Macs[h].k0, Macs[h].bytes)}
    <3>1. status[h] = "live"
      BY <2>2, <2>3, <2>4, TagStage DEF Stages
    <3>2. MacFinalize(m) = Promise!Tag(Macs[h].k0, Macs[h].bytes)
      BY <2>2, <2>3, <3>1, TagStage, SameTag
    <3>3. v <=> (offered = MacFinalize(m))
      BY <2>1, VerifyAccepts
    <3>4. v \in BOOLEAN
      BY DEF Verify, CtEq
    <3> HIDE DEF v
    <3>5. v = (offered = MacFinalize(m))
      BY <3>3, <3>4
    <3> QED BY <3>2, <3>5
  <2> HIDE DEF v
  <2>5. Promise!AVerify(h)
    BY <2>1, <2>4, SameTag DEF Promise!AVerify
  <2> QED BY <2>5
<1>6. ASSUME NEW h \in Handle, DoReset(h) PROVE Promise!ANext
  <2> DEFINE m == hmac[h]   new == MacReset(m)
  <2>1. h \in Alive /\ Becomes(h, new, status[h])
    BY <1>6 DEF DoReset
  <2>2. m \in MacSet /\ status[h] \in Stages /\ StageSound(m, status[h])
    BY <2>1, AliveIs
  <2>3. KeyBlockOf(new) = KeyBlockOf(m) /\ MessageOf(new) = << >>
    BY <2>2, ResetStage
  <2>4. Macs[h].k0 = KeyBlockOf(m)
    BY <2>1, AliveView
  <2>5. /\ Alive' = Alive \cup {h} /\ returned' = Promise!Nothing
        /\ Macs' = [Macs EXCEPT ![h] = View(new)]
    BY <2>1, <2>2, BecomesView
  <2>6. Promise!ARestart(h, Macs[h].k0)
    BY <2>1, <2>3, <2>4, <2>5 DEF Promise!ARestart, Promise!Keyed, View
  <2> QED BY <2>6
<1>7. ASSUME NEW h \in Handle, DoZeroize(h) PROVE Promise!ANext
  <2> DEFINE m == hmac[h]   new == MacZeroize(m)
  <2>1. h \in Alive /\ Becomes(h, new, "wiped")
    BY <1>7 DEF DoZeroize
  <2>2. m \in MacSet /\ BufferSound(m.inner)
    BY <2>1, AliveIs
  <2>3. KeyBlockOf(new) = << >> /\ MessageOf(new) = << >>
    BY <2>2, ZeroizeStage
  <2>4. /\ Alive' = Alive \cup {h} /\ returned' = Promise!Nothing
        /\ Macs' = [Macs EXCEPT ![h] = View(new)]
    BY <1>0, <2>1, BecomesView
  <2>5. Promise!ARestart(h, Promise!NoKey)
    BY <2>1, <2>3, <2>4, SameTag DEF Promise!ARestart, Promise!Keyed, View
  <2> QED BY <2>5
<1>8. ASSUME NEW h \in Handle, DoDrop(h) PROVE Promise!ANext
  <2>1. h \in Alive /\ Becomes(h, MacDrop(hmac[h]), "dropped")
    BY <1>8 DEF DoDrop
  <2>2. /\ Alive' = Alive \ {h} /\ returned' = Promise!Nothing
        /\ Macs' = [Macs EXCEPT ![h] = NoMac]
    BY <1>0, <2>1, BecomesView
  <2>3. Promise!ADrop(h)
    BY <2>1, <2>2, SameTag DEF Promise!ADrop, Promise!Keyed, NoMac
  <2> QED BY <2>3
<1>9. CASE UNCHANGED vars
  <2>1. Alive' = Alive /\ Macs' = Macs /\ returned' = returned
    BY <1>9 DEF vars, Alive, Macs, KeyBlockOf, MessageOf
  <2> QED BY <2>1 DEF Promise!avars
<1> QED BY <1>1, <1>2, <1>3, <1>4, <1>5, <1>6, <1>7, <1>8, <1>9 DEF Next

\* The instances of hmac.rs keep the promise of an incremental MAC: however
\* update cuts the message and whatever clones, resets and zeroizes come in
\* between, finalize returns the RFC 2104 tag and verify accepts no other.
THEOREM ImplementsPromise == Spec => ImplementsStreamingMac
<1>1. Init => Promise!AInit
  BY InitIInv, InitImplements
<1>2. IInv /\ IInv' /\ [Next]_vars => [Promise!ANext]_(Promise!avars)
  BY NextImplements
<1> QED BY <1>1, <1>2, Inductive, PTL DEF Spec, ImplementsStreamingMac, Promise!ASpec
=============================================================================
