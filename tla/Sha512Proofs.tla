---------------------------- MODULE Sha512Proofs ----------------------------
(***************************************************************************)
(* Theorems about Sha512Hasher: its invariants hold, and it implements     *)
(* StreamingHash with the wide length field, for every block length,       *)
(* width, input and bound.                                                 *)
(***************************************************************************)
EXTENDS Sha512Hasher, HashLemmas, TLAPS

\* The lemmas about padding, for the wide length field.
W == INSTANCE HashLemmas WITH LEN_FIELD <- LENGTH_LEN

Statuses == {"unused", "live", "wiped", "dropped"}

\* The vectors of the three types besides those of Sha256's operators.
CoreIvs == Ivs \cup {"IV_512", "IV_384", "caller"}
CoreSet == HasherOver(CoreIvs, Byte)

\* A core that stands for a message of its type.
OfType(t, v) == v.state.iv \in {OwnIv[t], "zero"}

\* As for SHA-256, the mark and the tracking of the message make the other
\* parts inductive.  The bound on the contents is what lets a counter of one
\* width stand for a length field of another: it never wraps.
IInv == /\ core \in [Handle -> CoreSet]
        /\ type \in [Handle -> HashType]
        /\ status \in [Handle -> Statuses]
        /\ \A h \in Handle : BufferSound(core[h]) /\ OfType(type[h], core[h])
        /\ \A h \in Alive : Tracks(core[h]) /\ Len(Contents(core[h])) <= MaxLen
        /\ \A h \in Handle :
             status[h] \in {"dropped", "wiped"} => Clean(core[h])
        /\ ScratchCleared

-----------------------------------------------------------------------------
\* The bytes and initial vectors of these hashers.
LEMMA CoreSets == /\ ByteSet(Byte) /\ IvSet(CoreIvs)
                  /\ BLOCK_LEN \in Nat \ {0} /\ 2 * BLOCK_LEN \in Nat
                  /\ MaxLen \in Nat /\ LEN_MOD \in Nat \ {0}
<1>1. MaxLen \in 0 .. LEN_MOD - 1 /\ LEN_MOD \in Nat \ {0}
  BY InputAssumption, LenModType
<1> QED BY <1>1, BlockAssumption DEF ByteSet, IvSet, CoreIvs

\* The assumptions on the constants hold of the wide length field, too.
LEMMA WideAssumptions ==
  /\ W!BlockAssumption /\ W!WidthAssumption
  /\ W!DigestAssumption /\ W!PrefixAssumption
  /\ W!LEN_MOD = BASE ^ LENGTH_LEN
  /\ LEN_MOD <= W!LEN_MOD /\ W!LEN_MOD \in Nat \ {0}
<1>1. LENGTH_LEN \in Nat \ {0}
  BY BlockAssumption DEF LENGTH_LEN
<1>2. W!BlockAssumption
  BY <1>1, BlockAssumption, WideAssumption DEF W!BlockAssumption
<1>3. W!BASE = BASE /\ W!LEN_MOD = BASE ^ LENGTH_LEN
  BY DEF W!BASE, BASE, W!LEN_MOD
<1>4. W!WidthAssumption
  BY <1>3, WidthAssumption, WideWidthAssumption DEF W!WidthAssumption
<1>5. LENGTH_LEN \in 0 .. LENGTH_LEN
  BY <1>1
<1>6. LEN_MOD <= W!LEN_MOD /\ W!LEN_MOD \in Nat \ {0}
  BY <1>3, <1>5, WideWidthAssumption
<1>7. W!PrefixAssumption
  <2>1. PREFIX_LEN = BLOCK_LEN /\ W!PREFIX_LEN = BLOCK_LEN
    BY DEF PREFIX_LEN, W!PREFIX_LEN
  <2>2. BLOCK_LEN \in Nat /\ LEN_MOD \in Nat
    BY BlockAssumption, LenModType
  <2> QED BY <1>6, <2>1, <2>2, PrefixAssumption DEF W!PrefixAssumption
<1>8. W!DigestAssumption
  BY DigestAssumption DEF W!DigestAssumption
<1> QED BY <1>2, <1>3, <1>4, <1>6, <1>7, <1>8

\* The bytes written with the wide field are bytes.
LEMMA WideBytes == W!ByteSet(Byte)
  BY DEF W!ByteSet, W!Byte, Byte, W!BASE, BASE, W!Lit, Lit

\* What does not depend on the width is the same on both sides.
LEMMA SharedOperators ==
  /\ \A n : W!Zeros(n) = Zeros(n)
  /\ \A h : W!Contents(h) = Contents(h)
  /\ \A h : W!ChainAligned(h) <=> ChainAligned(h)
  /\ \A h : Wide!Finalize(h) = W!Finalize(h)
  /\ \A h : Wide!ScratchLeft(h) = W!ScratchLeft(h)
<1>1. \A n : W!Zeros(n) = Zeros(n) /\ Wide!Zeros(n) = W!Zeros(n)
  BY DEF W!Zeros, Wide!Zeros, Zeros, W!ZERO, Wide!ZERO, ZERO, W!Lit, Wide!Lit, Lit
<1>2. \A h : Wide!UsedLen(h) = W!UsedLen(h) /\ Wide!LenAt(h) = W!LenAt(h)
  BY DEF Wide!UsedLen, W!UsedLen, Wide!LenAt, W!LenAt
<1>3. \A n : Wide!ToBeBytes(n) = W!ToBeBytes(n)
  BY DEF Wide!ToBeBytes, W!ToBeBytes, Wide!BASE, W!BASE, Wide!Lit, W!Lit
<1>4. \A n : Wide!BitLen(n) = W!BitLen(n)
  BY DEF Wide!BitLen, W!BitLen, Wide!LEN_MOD, W!LEN_MOD, Wide!BASE, W!BASE
<1>5. Wide!DELIM = W!DELIM
  BY DEF Wide!DELIM, W!DELIM, Wide!Lit, W!Lit
<1>6. \A b, a, d : Wide!CopyFromSlice(b, a, d) = W!CopyFromSlice(b, a, d)
  BY DEF Wide!CopyFromSlice, W!CopyFromSlice
<1>7. \A h : Wide!Scratch(h) = W!Scratch(h)
  BY <1>1, <1>2, <1>3, <1>4, <1>5, <1>6 DEF Wide!Scratch, W!Scratch
<1>8. \A c, b : Wide!Compress(c, b) = W!Compress(c, b)
  BY DEF Wide!Compress, W!Compress, Wide!WholeLen, W!WholeLen
<1>9. \A b, i, j : Wide!Wipe(b, i, j) = W!Wipe(b, i, j)
  BY DEF Wide!Wipe, W!Wipe, Wide!ZERO, W!ZERO, Wide!Lit, W!Lit
<1>10. \A h : Wide!Finalize(h) = W!Finalize(h)
  BY <1>2, <1>7, <1>8 DEF Wide!Finalize, W!Finalize
<1>11. \A h : Wide!ScratchLeft(h) = W!ScratchLeft(h)
  BY <1>2, <1>7, <1>9 DEF Wide!ScratchLeft, W!ScratchLeft
<1> QED BY <1>1, <1>10, <1>11
        DEF W!Contents, Contents, W!ChainAligned, ChainAligned

\* A core is a hasher of the wide lemmas.
LEMMA WideCore ==
  ASSUME NEW v \in CoreSet
  PROVE  v \in W!HasherOver(CoreIvs, Byte)
<1>1. v \in HasherOver(CoreIvs, Byte) /\ LEN_MOD <= W!LEN_MOD
      /\ LEN_MOD \in Nat /\ W!LEN_MOD \in Nat
  BY WideAssumptions, CoreSets DEF CoreSet
<1>2. v.len \in 0 .. W!LEN_MOD - 1
  BY <1>1 DEF HasherOver
<1> QED BY <1>1, <1>2 DEF HasherOver, ChainOver, W!HasherOver, W!ChainOver

\* finalize_state clears its scratch buffer.
LEMMA CoreScratchLeftIsZero ==
  ASSUME NEW v \in CoreSet
  PROVE  CoreScratchLeft(v) = Zeros(2 * BLOCK_LEN)
<1>1. W!ScratchLeft(v) = W!Zeros(2 * BLOCK_LEN)
  BY WideAssumptions, WideBytes, WideCore, W!ScratchLeftIsZero
<1> QED BY <1>1, SharedOperators DEF CoreScratchLeft

\* finalize_state absorbs the contents and the padding with the wide field.
LEMMA CoreFinalizePads ==
  ASSUME NEW v \in CoreSet, Tracks(v), Len(Contents(v)) <= MaxLen
  PROVE  LET n   == Len(Contents(v))
             pad == << W!DELIM >>
                      \o Zeros((-(n + 1 + LENGTH_LEN)) % BLOCK_LEN)
                      \o W!ToBeBytes((n * BITS) % W!LEN_MOD)
         IN  CoreFinalize(v) = [iv |-> v.state.iv, absorbed |-> Contents(v) \o pad]
<1> DEFINE n == Len(Contents(v))
<1>1. v \in W!HasherOver(CoreIvs, Byte) /\ W!ChainAligned(v)
  BY WideCore, SharedOperators DEF Tracks
<1>2. n \in 0 .. LEN_MOD - 1 /\ n \in Int
  <2>1. v \in HasherOver(CoreIvs, Byte)
    BY DEF CoreSet
  <2>2. n \in Nat
    BY <2>1, ContentsType
  <2>3. n <= MaxLen /\ MaxLen \in 0 .. LEN_MOD - 1 /\ LEN_MOD \in Nat
    BY InputAssumption, CoreSets
  <2> HIDE DEF n
  <2> QED BY <2>2, <2>3
<1>3. LEN_MOD \in Nat \ {0} /\ W!LEN_MOD \in Nat \ {0} /\ LEN_MOD <= W!LEN_MOD
  BY WideAssumptions, CoreSets
<1>4. v.len = n % LEN_MOD
  BY DEF Tracks
<1> HIDE DEF n
<1>5. n \in 0 .. W!LEN_MOD - 1
  BY <1>2, <1>3
<1>6. n % LEN_MOD = n
  <2>1. n = LEN_MOD * 0 + n /\ 0 \in Int
    BY <1>2, <1>3
  <2> QED BY <1>2, <1>3, <2>1, RemainderUnique
<1>7. n % W!LEN_MOD = n
  <2> DEFINE m == W!LEN_MOD
  <2>1. n = m * 0 + n /\ 0 \in Int /\ m \in Nat \ {0} /\ n \in 0 .. m - 1
    BY <1>2, <1>3, <1>5
  <2> HIDE DEF m
  <2>2. n % m = n
    BY <1>2, <2>1, RemainderUnique
  <2> QED BY <2>2 DEF m
<1>8. v.len = Len(W!Contents(v)) % W!LEN_MOD
  BY <1>4, <1>6, <1>7, SharedOperators DEF n
<1>9. LET k   == Len(W!Contents(v))
          pad == << W!DELIM >> \o W!Zeros((-(k + 1 + LENGTH_LEN)) % BLOCK_LEN)
                               \o W!ToBeBytes((k * BITS) % W!LEN_MOD)
      IN  W!Finalize(v) = [iv |-> v.state.iv, absorbed |-> W!Contents(v) \o pad]
  BY <1>1, <1>8, WideAssumptions, WideBytes, W!FinalizePads
<1> QED BY <1>9, SharedOperators DEF CoreFinalize

-----------------------------------------------------------------------------
(***************************************************************************)
(* The values a core starts from or is left with.                          *)
(***************************************************************************)

\* The vector of each type.
LEMMA OwnVector ==
  ASSUME NEW t \in HashType
  PROVE  /\ CoreIv(t) \in ChainOver(CoreIvs, Byte)
         /\ CoreIv(t).iv = OwnIv[t] /\ CoreIv(t).absorbed = << >>
         /\ OwnIv[t] # "zero"
  BY DEF HashType, CoreIv, OwnIv, CoreIvs, ChainOver

\* A new core is one of the empty message.
LEMMA CoreNewSound ==
  ASSUME NEW t \in HashType
  PROVE  /\ CoreNew(t) \in CoreSet /\ BufferSound(CoreNew(t)) /\ Tracks(CoreNew(t))
         /\ CoreNew(t).state = CoreIv(t) /\ Contents(CoreNew(t)) = << >>
<1> DEFINE c == CoreIv(t)
<1>1. c \in ChainOver(CoreIvs, Byte) /\ c.absorbed = << >>
  BY OwnVector
<1>2. 0 \in 0 .. LEN_MOD - 1
  BY LenModType
<1> HIDE DEF c
<1>3. /\ FromState(c, 0) \in HasherOver(CoreIvs, Byte)
      /\ BufferSound(FromState(c, 0)) /\ FromState(c, 0).state = c
      /\ FromState(c, 0).len = 0 /\ FromState(c, 0).block_len = 0
  BY <1>1, <1>2, CoreSets, FromStateSound
<1>4. Tracks(FromState(c, 0)) /\ Contents(FromState(c, 0)) = << >>
  BY <1>1, <1>3, AtStart
<1> QED BY <1>3, <1>4 DEF CoreNew, CoreWithState, CoreSet, c

\* Neither reset nor zeroize leaves a message byte in the block.
LEMMA CoreRestartSound ==
  ASSUME NEW v \in CoreSet, BufferSound(v), NEW t \in HashType
  PROVE  /\ CoreReset(v, CoreIv(t)) \in CoreSet
         /\ BufferSound(CoreReset(v, CoreIv(t))) /\ Tracks(CoreReset(v, CoreIv(t)))
         /\ CoreReset(v, CoreIv(t)).state = CoreIv(t)
         /\ Contents(CoreReset(v, CoreIv(t))) = << >>
         /\ CoreZeroize(v) \in CoreSet
         /\ BufferSound(CoreZeroize(v)) /\ Tracks(CoreZeroize(v))
         /\ Clean(CoreZeroize(v)) /\ Contents(CoreZeroize(v)) = << >>
<1> DEFINE w == WipeBlock(v)
<1>1. w \in HasherOver(CoreIvs, Byte) /\ w = [v EXCEPT !.block = Zeros(BLOCK_LEN)]
  BY CoreSets, WipeToMarkWipesAll DEF CoreSet
<1>2. w \in HasherOver(CoreIvs, Byte) /\ w.block = Zeros(BLOCK_LEN)
  <2>1. v \in HasherOver(CoreIvs, Byte)
    BY DEF CoreSet
  <2> HIDE DEF w
  <2> QED BY <1>1, <2>1 DEF HasherOver
<1>3. CoreReset(v, CoreIv(t)) = StartedOn(w, CoreIv(t))
  BY DEF CoreReset, StartedOn
<1>4. CoreZeroize(v) = StartedOn(w, ZERO_STATE)
  <2>1. v \in HasherOver(CoreIvs, Byte)
    BY DEF CoreSet
  <2> HIDE DEF w
  <2> QED BY <1>1, <2>1 DEF CoreZeroize, StartedOn, HasherOver
<1>5. /\ CoreIv(t) \in ChainOver(CoreIvs, Byte) /\ CoreIv(t).absorbed = << >>
      /\ ZERO_STATE \in ChainOver(CoreIvs, Byte) /\ ZERO_STATE.absorbed = << >>
  BY OwnVector, CoreSets, InitialStates
<1> HIDE DEF w
<1>6. ASSUME NEW c \in ChainOver(CoreIvs, Byte), c.absorbed = << >>
      PROVE  /\ StartedOn(w, c) \in HasherOver(CoreIvs, Byte)
             /\ BufferSound(StartedOn(w, c)) /\ Tracks(StartedOn(w, c))
             /\ StartedOn(w, c).state = c
             /\ StartedOn(w, c).block = Zeros(BLOCK_LEN)
             /\ Contents(StartedOn(w, c)) = << >>
  BY <1>2, <1>6, StartAt
<1> QED BY <1>3, <1>4, <1>5, <1>6 DEF Clean, CoreSet

\* Drop wipes everything that holds message bytes.
LEMMA CoreDropSound ==
  ASSUME NEW v \in CoreSet, BufferSound(v)
  PROVE  CoreDrop(v) \in CoreSet /\ BufferSound(CoreDrop(v)) /\ Clean(CoreDrop(v))
  BY CoreSets, DropSound DEF CoreSet, CoreDrop

-----------------------------------------------------------------------------
\* The invariant holds before any hasher exists.
LEMMA InitIInv == Init => IInv
<1> SUFFICES ASSUME Init PROVE IInv
  OBVIOUS
<1>1. "Sha512" \in HashType
  BY DEF HashType
<1> DEFINE v == CoreDrop(CoreNew("Sha512"))
<1>2. v \in CoreSet /\ BufferSound(v) /\ Clean(v)
  BY <1>1, CoreNewSound, CoreDropSound
<1> HIDE DEF v
<1>3. OfType("Sha512", v)
  BY <1>2 DEF OfType, Clean, ZERO_STATE
<1>4. /\ core = [h \in Handle |-> v]
      /\ type = [h \in Handle |-> "Sha512"]
      /\ status = [h \in Handle |-> "unused"]
  BY DEF Init, v
<1>5. Alive = {}
  BY <1>4 DEF Alive
<1> QED BY <1>1, <1>2, <1>3, <1>4, <1>5 DEF IInv, Init, Statuses, ScratchCleared

\* Every call but finalize gives one hasher a new value.
LEMMA BecomesKeepsIInv ==
  ASSUME IInv, NEW h \in Handle, NEW t \in HashType, NEW v \in CoreSet,
         NEW s \in Statuses, Becomes(h, t, v, s),
         BufferSound(v), OfType(t, v),
         s \in {"live", "wiped"} => Tracks(v) /\ Len(Contents(v)) <= MaxLen,
         s \in {"dropped", "wiped"} => Clean(v)
  PROVE  IInv'
<1>1. /\ core \in [Handle -> CoreSet] /\ type \in [Handle -> HashType]
      /\ status \in [Handle -> Statuses]
  BY DEF IInv
<1>2. /\ core' = [core EXCEPT ![h] = v] /\ type' = [type EXCEPT ![h] = t]
      /\ status' = [status EXCEPT ![h] = s] /\ scratch' = scratch
  BY DEF Becomes
<1>3. /\ core' \in [Handle -> CoreSet] /\ type' \in [Handle -> HashType]
      /\ status' \in [Handle -> Statuses]
  BY <1>1, <1>2
<1>4. core'[h] = v /\ type'[h] = t /\ status'[h] = s
  BY <1>1, <1>2
<1>5. ASSUME NEW g \in Handle, g # h
      PROVE  core'[g] = core[g] /\ type'[g] = type[g] /\ status'[g] = status[g]
  BY <1>1, <1>2, <1>5
<1>6. ASSUME NEW g \in Handle
      PROVE  /\ BufferSound(core'[g]) /\ OfType(type'[g], core'[g])
             /\ status'[g] \in {"live", "wiped"} =>
                  Tracks(core'[g]) /\ Len(Contents(core'[g])) <= MaxLen
             /\ status'[g] \in {"dropped", "wiped"} => Clean(core'[g])
  <2>1. CASE g = h
    BY <1>4, <2>1
  <2>2. CASE g # h
    BY <1>5, <2>2 DEF IInv, Alive
  <2> QED BY <2>1, <2>2
<1>7. ScratchCleared'
  BY <1>2 DEF IInv, ScratchCleared
<1> QED BY <1>3, <1>6, <1>7 DEF IInv, Alive

\* What a live hasher satisfies.
LEMMA AliveSound ==
  ASSUME IInv, NEW h \in Alive
  PROVE  /\ h \in Handle /\ core[h] \in CoreSet /\ type[h] \in HashType
         /\ status[h] \in {"live", "wiped"}
         /\ BufferSound(core[h]) /\ OfType(type[h], core[h])
         /\ Tracks(core[h]) /\ Len(Contents(core[h])) <= MaxLen
         /\ status[h] = "wiped" => Clean(core[h])
  BY DEF IInv, Alive

\* The value a resumed core gets from its origin.
LEMMA ResumedSound ==
  ASSUME NEW v \in CoreSet, Tracks(v), v.block_len = 0
  PROVE  LET new == FromState(v.state, v.len)
         IN  /\ new \in CoreSet /\ BufferSound(new) /\ Tracks(new)
             /\ new.state = v.state /\ Contents(new) = Contents(v)
             /\ Clean(v) => Clean(new)
<1> DEFINE new == FromState(v.state, v.len)
<1>1. v \in HasherOver(CoreIvs, Byte)
  BY DEF CoreSet
<1>2. /\ new \in HasherOver(CoreIvs, Byte) /\ BufferSound(new) /\ Tracks(new)
      /\ Contents(new) = Contents(v)
  BY <1>1, CoreSets, ResumeTracks
<1>3. new.state = v.state /\ new.block = Zeros(BLOCK_LEN)
  BY DEF FromState
<1> HIDE DEF new
<1> QED BY <1>2, <1>3 DEF CoreSet, Clean, new

\* The value an update leaves.
LEMMA UpdatedSound ==
  ASSUME NEW v \in CoreSet, BufferSound(v), Tracks(v), NEW data \in Seq(Byte),
         Len(Contents(v)) + Len(data) <= MaxLen
  PROVE  LET new == CoreUpdate(v, data)
         IN  /\ new \in CoreSet /\ BufferSound(new) /\ Tracks(new)
             /\ new.state.iv = v.state.iv
             /\ Contents(new) = Contents(v) \o data
             /\ Len(Contents(new)) <= MaxLen
<1> DEFINE new == CoreUpdate(v, data)
<1>1. v \in HasherOver(CoreIvs, Byte)
  BY DEF CoreSet
<1>2. /\ new \in HasherOver(CoreIvs, Byte) /\ BufferSound(new) /\ Tracks(new)
      /\ new.state.iv = v.state.iv /\ Contents(new) = Contents(v) \o data
  BY <1>1, UpdateTracks DEF CoreUpdate
<1>3. Contents(v) \in Seq(Byte)
  BY <1>1, ContentsType
<1> HIDE DEF new
<1>4. Len(Contents(v) \o data) = Len(Contents(v)) + Len(data)
  BY <1>3, ConcatProperties
<1> QED BY <1>2, <1>4 DEF new, CoreSet

\* Every public call keeps the invariant.
LEMMA NextIInv == IInv /\ [Next]_vars => IInv'
<1> SUFFICES ASSUME IInv, [Next]_vars PROVE IInv'
  OBVIOUS
<1>0. Len(<< >>) <= MaxLen
  BY CoreSets
<1>1. ASSUME NEW h \in Handle, NEW t \in HashType, DoNew(h, t) PROVE IInv'
  <2>1. Becomes(h, t, CoreNew(t), "live")
    BY <1>1 DEF DoNew
  <2> DEFINE new == CoreNew(t)
  <2>2. new \in CoreSet /\ BufferSound(new) /\ Tracks(new) /\ Contents(new) = << >>
    BY CoreNewSound
  <2>3. OfType(t, new)
    BY CoreNewSound, OwnVector DEF OfType
  <2>4. Becomes(h, t, new, "live")
    BY <2>1
  <2> HIDE DEF new
  <2> QED BY <1>0, <2>2, <2>3, <2>4, BecomesKeepsIInv DEF Statuses
<1>2. ASSUME NEW h \in Handle, NEW g \in Handle, DoClone(h, g) PROVE IInv'
  <2>1. g \in Alive /\ Becomes(h, type[g], core[g], status[g])
    BY <1>2 DEF DoClone
  <2> QED BY <2>1, AliveSound, BecomesKeepsIInv DEF Statuses
<1>3. ASSUME NEW h \in Handle, NEW g \in Handle, DoResume(h, g) PROVE IInv'
  <2> DEFINE new == FromState(core[g].state, core[g].len)
  <2>1. g \in Alive /\ core[g].block_len = 0 /\ Becomes(h, type[g], new, status[g])
    BY <1>3 DEF DoResume
  <2>2. /\ new \in CoreSet /\ BufferSound(new) /\ Tracks(new)
        /\ new.state = core[g].state /\ Contents(new) = Contents(core[g])
        /\ Clean(core[g]) => Clean(new)
    BY <2>1, AliveSound, ResumedSound
  <2> HIDE DEF new
  <2>3. OfType(type[g], new)
    BY <2>1, <2>2, AliveSound DEF OfType
  <2> QED BY <2>1, <2>2, <2>3, AliveSound, BecomesKeepsIInv DEF Statuses
<1>4. ASSUME NEW h \in Handle, NEW data \in Chunks, DoUpdate(h, data)
      PROVE  IInv'
  <2> DEFINE new == CoreUpdate(core[h], data)
  <2>1. /\ h \in Alive /\ Becomes(h, type[h], new, "live") /\ data \in Seq(Byte)
        /\ Len(Contents(core[h])) + Len(data) <= MaxLen
    BY <1>4, InputAssumption DEF DoUpdate
  <2>2. /\ new \in CoreSet /\ BufferSound(new) /\ Tracks(new)
        /\ new.state.iv = core[h].state.iv /\ Len(Contents(new)) <= MaxLen
    BY <2>1, AliveSound, UpdatedSound
  <2> HIDE DEF new
  <2>3. OfType(type[h], new)
    BY <2>1, <2>2, AliveSound DEF OfType
  <2> QED BY <2>1, <2>2, <2>3, AliveSound, BecomesKeepsIInv DEF Statuses
<1>5. ASSUME NEW h \in Handle, DoFinalize(h) PROVE IInv'
  <2>1. /\ h \in Alive /\ scratch' = CoreScratchLeft(core[h])
        /\ core' = core /\ type' = type /\ status' = status
    BY <1>5 DEF DoFinalize
  <2>2. scratch' = Zeros(2 * BLOCK_LEN)
    BY <2>1, AliveSound, CoreScratchLeftIsZero
  <2> QED BY <2>1, <2>2 DEF IInv, ScratchCleared, Alive
<1>6. ASSUME NEW h \in Handle, DoReset(h) PROVE IInv'
  <2> DEFINE new == CoreReset(core[h], CoreIv(type[h]))
  <2>1. h \in Alive /\ Becomes(h, type[h], new, "live")
    BY <1>6 DEF DoReset
  <2>2. /\ new \in CoreSet /\ BufferSound(new) /\ Tracks(new)
        /\ new.state = CoreIv(type[h]) /\ Contents(new) = << >>
    BY <2>1, AliveSound, CoreRestartSound
  <2> HIDE DEF new
  <2>3. OfType(type[h], new)
    BY <2>1, <2>2, AliveSound, OwnVector DEF OfType
  <2> QED BY <1>0, <2>1, <2>2, <2>3, AliveSound, BecomesKeepsIInv DEF Statuses
<1>7. ASSUME NEW h \in Handle, DoZeroize(h) PROVE IInv'
  <2> DEFINE new == CoreZeroize(core[h])
  <2>1. h \in Alive /\ Becomes(h, type[h], new, "wiped")
    BY <1>7 DEF DoZeroize
  <2>2. /\ new \in CoreSet /\ BufferSound(new) /\ Tracks(new)
        /\ Clean(new) /\ Contents(new) = << >>
    BY <2>1, AliveSound, CoreRestartSound
  <2> HIDE DEF new
  <2>3. OfType(type[h], new)
    BY <2>2 DEF OfType, Clean, ZERO_STATE
  <2> QED BY <1>0, <2>1, <2>2, <2>3, AliveSound, BecomesKeepsIInv DEF Statuses
<1>8. ASSUME NEW h \in Handle, DoDrop(h) PROVE IInv'
  <2> DEFINE new == CoreDrop(core[h])
  <2>1. h \in Alive /\ Becomes(h, type[h], new, "dropped")
    BY <1>8 DEF DoDrop
  <2>2. new \in CoreSet /\ BufferSound(new) /\ Clean(new)
    BY <2>1, AliveSound, CoreDropSound
  <2> HIDE DEF new
  <2>3. OfType(type[h], new)
    BY <2>2 DEF OfType, Clean, ZERO_STATE
  <2> QED BY <2>1, <2>2, <2>3, AliveSound, BecomesKeepsIInv DEF Statuses
<1>9. CASE UNCHANGED vars
  BY <1>9 DEF vars, IInv, ScratchCleared, Alive
<1> QED BY <1>1, <1>2, <1>3, <1>4, <1>5, <1>6, <1>7, <1>8, <1>9 DEF Next

LEMMA InductiveInvariant == Spec => []IInv
  BY InitIInv, NextIInv, PTL DEF Spec

-----------------------------------------------------------------------------
(***************************************************************************)
(* The invariants of Sha512Hasher.                                         *)
(***************************************************************************)

\* Every field keeps its type, whatever is called in whatever order, and no
\* newtype ever runs on the vector of the other.
THEOREM TypeCorrect == Spec => []TypeOK
<1>1. IInv => TypeOK
  <2> SUFFICES ASSUME IInv PROVE TypeOK
    OBVIOUS
  <2>1. scratch \in [1 .. 2 * BLOCK_LEN -> Byte]
    BY CoreSets, ZerosType DEF IInv, ScratchCleared
  <2>2. ASSUME NEW h \in Handle
        PROVE  /\ core[h].block \in [1 .. BLOCK_LEN -> Byte]
               /\ core[h].block_len \in 0 .. BLOCK_LEN - 1
               /\ core[h].block_filled \in 0 .. BLOCK_LEN
               /\ core[h].len \in 0 .. LEN_MOD - 1
    BY DEF IInv, CoreSet, HasherOver
  <2> QED BY <2>1, <2>2 DEF IInv, TypeOK, OfType, Statuses
<1> QED BY <1>1, InductiveInvariant, PTL

\* A dropped or zeroized core holds no message byte, on either way of wiping.
THEOREM WipedIsClean == Spec => []WipedMemoryClean
<1>1. IInv => WipedMemoryClean
  BY DEF IInv, WipedMemoryClean, Clean
<1> QED BY <1>1, InductiveInvariant, PTL

\* finalize_state leaves a scratch buffer of zeros: all sixteen length bytes.
THEOREM ScratchIsCleared == Spec => []ScratchCleared
  BY InductiveInvariant, PTL DEF IInv

-----------------------------------------------------------------------------
(***************************************************************************)
(* Sha512Hasher implements StreamingHash with the wide length field.       *)
(***************************************************************************)

\* The message that core v of type t stands for.
MessageAt(t, v) ==
  [iv |-> IF v.state.iv = OwnIv[t] THEN "H0" ELSE v.state.iv, bytes |-> Contents(v)]

Absent == [iv |-> "zero", bytes |-> << >>]

\* The abstract module names the same values and the same padding.
LEMMA SameValues ==
  /\ Promise!Nothing = Nothing
  /\ \A iv, b : Promise!Message(iv, b) = [iv |-> iv, bytes |-> b]
  /\ \A m : Promise!Digest(m) =
       LET n == Len(m.bytes)
       IN  [iv |-> m.iv,
            absorbed |-> m.bytes \o
              (<< W!DELIM >> \o Zeros((-(n + 1 + LENGTH_LEN)) % BLOCK_LEN)
                             \o W!ToBeBytes((n * BITS) % W!LEN_MOD))]
<1>1. Promise!Nothing = Nothing
  BY DEF Promise!Nothing, Nothing, Promise!ZERO_STATE, ZERO_STATE
<1>2. /\ Promise!DELIM = W!DELIM /\ Promise!LEN_MOD = W!LEN_MOD
      /\ \A n : Promise!Zeros(n) = Zeros(n)
      /\ \A n : Promise!ToBeBytes(n) = W!ToBeBytes(n)
  BY DEF Promise!DELIM, W!DELIM, Promise!LEN_MOD, W!LEN_MOD, Promise!BASE, W!BASE,
         Promise!Zeros, Zeros, Promise!ZERO, ZERO, Promise!Lit, W!Lit, Lit,
         Promise!ToBeBytes, W!ToBeBytes
<1> QED BY <1>1, <1>2 DEF Promise!Message, Promise!Digest, Promise!Padding

\* The message of a live hasher is that of its core and type.
LEMMA LiveMessage ==
  ASSUME IInv, NEW h \in Alive
  PROVE  Messages[h] = MessageAt(type[h], core[h])
<1>1. h \in Handle /\ core[h].state \in ChainOver(CoreIvs, Byte)
  BY AliveSound DEF CoreSet, HasherOver
<1>2. Own(h, core[h].state).iv =
        IF core[h].state.iv = OwnIv[type[h]] THEN "H0" ELSE core[h].state.iv
  BY <1>1 DEF Own, ChainOver
<1> QED BY <1>1, <1>2 DEF Messages, MessageAt

\* A hasher that comes to life holds its message, one that dies holds none.
LEMMA BecomesMaps ==
  ASSUME IInv, NEW h \in Handle, NEW t \in HashType, NEW v \in CoreSet,
         NEW s \in Statuses, Becomes(h, t, v, s)
  PROVE  /\ Digests' = Nothing
         /\ s \in {"live", "wiped"} =>
              /\ Alive' = Alive \cup {h}
              /\ Messages' = [Messages EXCEPT ![h] = MessageAt(t, v)]
         /\ s = "dropped" =>
              /\ Alive' = Alive \ {h}
              /\ Messages' = [Messages EXCEPT ![h] = Absent]
<1>1. /\ core \in [Handle -> CoreSet] /\ type \in [Handle -> HashType]
      /\ status \in [Handle -> Statuses]
      /\ core' = [core EXCEPT ![h] = v] /\ type' = [type EXCEPT ![h] = t]
      /\ status' = [status EXCEPT ![h] = s] /\ returned' = Nothing
  BY DEF IInv, Becomes
<1>2. ASSUME NEW g \in Handle
      PROVE  /\ core'[g] = IF g = h THEN v ELSE core[g]
             /\ type'[g] = IF g = h THEN t ELSE type[g]
             /\ status'[g] = IF g = h THEN s ELSE status[g]
  BY <1>1
<1>3. Digests' = Nothing
  BY <1>1 DEF Digests, Nothing
<1>4. s \in {"live", "wiped"} => Alive' = Alive \cup {h}
  BY <1>2 DEF Alive
<1>5. s = "dropped" => Alive' = Alive \ {h}
  BY <1>2 DEF Alive
<1> DEFINE value(g) == [iv |-> Own(g, core[g].state).iv, bytes |-> Contents(core[g])]
<1>6. ASSUME NEW g \in Handle, g # h
      PROVE  value(g)' = value(g)
  BY <1>2, <1>6 DEF Own, Contents
<1>7. value(h)' = MessageAt(t, v)
  <2>1. core'[h] = v /\ type'[h] = t /\ v.state \in ChainOver(CoreIvs, Byte)
    BY <1>2 DEF CoreSet, HasherOver
  <2>2. Own(h, core[h].state)' = [v.state EXCEPT !.iv = IF @ = OwnIv[t] THEN "H0" ELSE @]
    BY <2>1 DEF Own
  <2> QED BY <2>1, <2>2 DEF MessageAt, ChainOver, Contents
<1>8. Messages = [g \in Handle |-> IF g \in Alive THEN value(g) ELSE Absent]
  BY DEF Messages, Absent
<1>9. Messages' = [g \in Handle |-> IF g \in Alive' THEN value(g)' ELSE Absent]
  BY DEF Messages, Absent
<1> HIDE DEF value
<1>10. ASSUME s \in {"live", "wiped"}
       PROVE  Messages' = [Messages EXCEPT ![h] = MessageAt(t, v)]
  BY <1>4, <1>6, <1>7, <1>8, <1>9, <1>10
<1>11. ASSUME s = "dropped"
       PROVE  Messages' = [Messages EXCEPT ![h] = Absent]
  BY <1>5, <1>6, <1>8, <1>9, <1>11
<1> QED BY <1>3, <1>4, <1>5, <1>10, <1>11

\* The abstract start of a handle, for any call that creates one.
LEMMA StartMaps ==
  ASSUME IInv, NEW h \in Handle, NEW t \in HashType, NEW v \in CoreSet,
         NEW s \in {"live", "wiped"}, h \notin Alive, Becomes(h, t, v, s)
  PROVE  Promise!AStart(h, MessageAt(t, v))
  BY BecomesMaps, SameValues DEF Statuses, Promise!AStart

\* The abstract restart of a handle.
LEMMA RestartMaps ==
  ASSUME IInv, NEW h \in Alive, NEW v \in CoreSet, NEW iv,
         NEW s \in {"live", "wiped"}, Becomes(h, type[h], v, s),
         MessageAt(type[h], v) = [iv |-> iv, bytes |-> << >>]
  PROVE  Promise!ARestart(h, iv)
<1>1. h \in Handle /\ type[h] \in HashType
  BY AliveSound
<1>2. /\ Digests' = Nothing /\ Alive' = Alive
      /\ Messages' = [Messages EXCEPT ![h] = MessageAt(type[h], v)]
  BY <1>1, BecomesMaps DEF Statuses
<1> QED BY <1>1, <1>2, SameValues DEF Promise!ARestart

\* finalize answers for one hasher, whose vector is the abstract H0.
LEMMA AnswerMaps ==
  ASSUME NEW h \in Handle, NEW d, type' = type,
         returned' = [by |-> {h}, digest |-> d]
  PROVE  Digests' = [by |-> {h}, digest |->
                       [d EXCEPT !.iv = IF @ = OwnIv[type[h]] THEN "H0" ELSE @]]
<1>1. (CHOOSE g \in {h} : TRUE) = h
  OBVIOUS
<1> QED BY <1>1 DEF Digests, Own

\* Every call is the abstract call of the same name.
LEMMA StepRefines == IInv /\ [Next]_vars => [Promise!ANext]_(Promise!avars)
<1> SUFFICES ASSUME IInv, [Next]_vars
             PROVE  Promise!ANext \/ UNCHANGED Promise!avars
  OBVIOUS
<1>1. ASSUME NEW h \in Handle, NEW t \in HashType, DoNew(h, t)
      PROVE  Promise!ANext
  <2> DEFINE new == CoreNew(t)
  <2>1. h \notin Alive /\ Becomes(h, t, new, "live")
    BY <1>1 DEF DoNew
  <2>2. /\ new \in CoreSet /\ new.state.iv = OwnIv[t] /\ Contents(new) = << >>
    BY CoreNewSound, OwnVector
  <2> HIDE DEF new
  <2>3. MessageAt(t, new) = Promise!Message("H0", << >>)
    BY <2>2, SameValues DEF MessageAt
  <2>4. Promise!AStart(h, MessageAt(t, new))
    BY <2>1, <2>2, StartMaps
  <2> QED BY <2>3, <2>4 DEF Promise!ACreate, Promise!ANext
<1>2. ASSUME NEW h \in Handle, NEW g \in Handle, DoClone(h, g)
      PROVE  Promise!ANext
  <2>1. h \notin Alive /\ g \in Alive /\ Becomes(h, type[g], core[g], status[g])
    BY <1>2 DEF DoClone
  <2>2. Promise!AStart(h, MessageAt(type[g], core[g]))
    BY <2>1, AliveSound, StartMaps
  <2>3. Promise!AClone(h, g)
    BY <2>1, <2>2, LiveMessage DEF Promise!AClone
  <2> QED BY <2>3 DEF Promise!ANext
<1>3. ASSUME NEW h \in Handle, NEW g \in Handle, DoResume(h, g)
      PROVE  Promise!ANext
  <2> DEFINE new == FromState(core[g].state, core[g].len)
  <2>1. /\ h \notin Alive /\ g \in Alive /\ core[g].block_len = 0
        /\ Becomes(h, type[g], new, status[g])
    BY <1>3 DEF DoResume
  <2>2. /\ new \in CoreSet /\ new.state = core[g].state
        /\ Contents(new) = Contents(core[g])
    BY <2>1, AliveSound, ResumedSound
  <2> HIDE DEF new
  <2>3. MessageAt(type[g], new) = MessageAt(type[g], core[g])
    BY <2>2 DEF MessageAt
  <2>4. Promise!AStart(h, MessageAt(type[g], new))
    BY <2>1, <2>2, AliveSound, StartMaps
  <2>5. Promise!AClone(h, g)
    BY <2>1, <2>3, <2>4, LiveMessage DEF Promise!AClone
  <2> QED BY <2>5 DEF Promise!ANext
<1>4. ASSUME NEW h \in Handle, NEW data \in Chunks, DoUpdate(h, data)
      PROVE  Promise!ANext
  <2> DEFINE new == CoreUpdate(core[h], data)
  <2>1. /\ h \in Alive /\ Becomes(h, type[h], new, "live") /\ data \in Seq(Byte)
        /\ Len(Contents(core[h])) + Len(data) <= MaxLen
    BY <1>4, InputAssumption DEF DoUpdate
  <2>2. /\ new \in CoreSet /\ new.state.iv = core[h].state.iv
        /\ Contents(new) = Contents(core[h]) \o data
    BY <2>1, AliveSound, UpdatedSound
  <2> HIDE DEF new
  <2>3. /\ Digests' = Nothing /\ Alive' = Alive
        /\ Messages' = [Messages EXCEPT ![h] = MessageAt(type[h], new)]
    <3>1. h \in Handle /\ type[h] \in HashType /\ Alive \cup {h} = Alive
      BY <2>1, AliveSound
    <3> QED BY <2>1, <2>2, <3>1, BecomesMaps DEF Statuses
  <2>4. Messages[h] = MessageAt(type[h], core[h])
    BY <2>1, LiveMessage
  <2> DEFINE i == IF core[h].state.iv = OwnIv[type[h]] THEN "H0" ELSE core[h].state.iv
             m == Contents(core[h])
             n == m \o data
  <2>5. /\ Messages[h] = [iv |-> i, bytes |-> m]
        /\ MessageAt(type[h], new) = [iv |-> i, bytes |-> n]
    BY <2>2, <2>4 DEF MessageAt
  <2>6. Messages[h].bytes = m /\ Len(m) + Len(data) <= MaxLen
    BY <2>1, <2>5
  <2>7. Messages' = [Messages EXCEPT ![h].bytes = @ \o data]
    <3>1. Messages[h].bytes \o data = n
      BY <2>6
    <3> HIDE DEF i, m, n
    <3>2. [Messages[h] EXCEPT !.bytes = n] = MessageAt(type[h], new)
      BY <2>5
    <3> QED BY <2>3, <3>1, <3>2
  <2>8. Promise!AUpdate(h, data)
    BY <2>1, <2>3, <2>6, <2>7, SameValues DEF Promise!AUpdate
  <2> QED BY <2>8 DEF Promise!ANext
<1>5. ASSUME NEW h \in Handle, DoFinalize(h) PROVE Promise!ANext
  <2>1. /\ h \in Alive
        /\ returned' = [by |-> {h}, digest |-> CoreFinalize(core[h])]
        /\ core' = core /\ type' = type /\ status' = status
    BY <1>5 DEF DoFinalize
  <2>2. Messages' = Messages /\ Alive' = Alive
    BY <2>1 DEF Messages, Alive, Own
  <2>3. core[h] \in CoreSet /\ Tracks(core[h]) /\ Len(Contents(core[h])) <= MaxLen
    BY <2>1, AliveSound
  <2>4. PICK v, t, d : v = core[h] /\ t = type[h] /\ d = CoreFinalize(v)
    OBVIOUS
  <2> DEFINE n   == Len(Contents(v))
             pad == << W!DELIM >>
                      \o Zeros((-(n + 1 + LENGTH_LEN)) % BLOCK_LEN)
                      \o W!ToBeBytes((n * BITS) % W!LEN_MOD)
             iv  == IF v.state.iv = OwnIv[t] THEN "H0" ELSE v.state.iv
  <2>5. d = [iv |-> v.state.iv, absorbed |-> Contents(v) \o pad]
    BY <2>3, <2>4, CoreFinalizePads
  <2>6. Promise!Digest(MessageAt(t, v)) = [iv |-> iv, absorbed |-> Contents(v) \o pad]
    BY SameValues DEF MessageAt
  <2> HIDE DEF pad
  <2>7. [d EXCEPT !.iv = IF @ = OwnIv[t] THEN "H0" ELSE @]
          = [iv |-> iv, absorbed |-> Contents(v) \o pad]
    <3> DEFINE x == Contents(v) \o pad   u == v.state.iv   o == OwnIv[t]
    <3>1. d = [iv |-> u, absorbed |-> x] /\ iv = IF u = o THEN "H0" ELSE u
      BY <2>5
    <3> HIDE DEF x, u, o, iv
    <3>2. d.iv = u
      BY <3>1
    <3>3. (IF d.iv = o THEN "H0" ELSE d.iv) = iv
      BY <3>1, <3>2
    <3>4. [d EXCEPT !.iv = iv] = [iv |-> iv, absorbed |-> x]
      BY <3>1
    <3> QED BY <3>3, <3>4 DEF x, o
  <2>8. Digests' = [by |-> {h}, digest |-> Promise!Digest(MessageAt(t, v))]
    <3>1. returned' = [by |-> {h}, digest |-> d] /\ type' = type /\ type[h] = t
      BY <2>1, <2>4
    <3>2. Digests' = [by |-> {h}, digest |->
                        [d EXCEPT !.iv = IF @ = OwnIv[t] THEN "H0" ELSE @]]
      BY <3>1, AnswerMaps
    <3> QED BY <2>6, <2>7, <3>2
  <2>9. Messages[h] = MessageAt(t, v)
    BY <2>1, <2>4, LiveMessage
  <2>10. Promise!AFinalize(h)
    BY <2>1, <2>2, <2>8, <2>9 DEF Promise!AFinalize
  <2> QED BY <2>10 DEF Promise!ANext
<1>6. ASSUME NEW h \in Handle, DoReset(h) PROVE Promise!ANext
  <2> DEFINE new == CoreReset(core[h], CoreIv(type[h]))
  <2>1. h \in Alive /\ Becomes(h, type[h], new, "live")
    BY <1>6 DEF DoReset
  <2>2. new \in CoreSet /\ new.state.iv = OwnIv[type[h]] /\ Contents(new) = << >>
    BY <2>1, AliveSound, CoreRestartSound, OwnVector
  <2> HIDE DEF new
  <2>3. MessageAt(type[h], new) = [iv |-> "H0", bytes |-> << >>]
    BY <2>2 DEF MessageAt
  <2>4. Promise!ARestart(h, "H0")
    BY <2>1, <2>2, <2>3, RestartMaps
  <2> QED BY <2>4 DEF Promise!ANext
<1>7. ASSUME NEW h \in Handle, DoZeroize(h) PROVE Promise!ANext
  <2> DEFINE new == CoreZeroize(core[h])
  <2>1. h \in Alive /\ Becomes(h, type[h], new, "wiped")
    BY <1>7 DEF DoZeroize
  <2>2. new \in CoreSet /\ Clean(new) /\ Contents(new) = << >>
    BY <2>1, AliveSound, CoreRestartSound
  <2> HIDE DEF new
  <2>3. OwnIv[type[h]] # "zero"
    BY <2>1, AliveSound, OwnVector
  <2>4. MessageAt(type[h], new) = [iv |-> "zero", bytes |-> << >>]
    BY <2>2, <2>3 DEF MessageAt, Clean, ZERO_STATE
  <2>5. Promise!ARestart(h, "zero")
    BY <2>1, <2>2, <2>4, RestartMaps
  <2> QED BY <2>5 DEF Promise!ANext
<1>8. ASSUME NEW h \in Handle, DoDrop(h) PROVE Promise!ANext
  <2>1. h \in Alive /\ Becomes(h, type[h], CoreDrop(core[h]), "dropped")
    BY <1>8 DEF DoDrop
  <2>2. CoreDrop(core[h]) \in CoreSet /\ type[h] \in HashType
    BY <2>1, AliveSound, CoreDropSound
  <2>3. Promise!ADrop(h)
    BY <2>1, <2>2, BecomesMaps, SameValues DEF Statuses, Promise!ADrop, Absent
  <2> QED BY <2>3 DEF Promise!ANext
<1>9. CASE UNCHANGED vars
  <2>1. Messages' = Messages /\ Alive' = Alive /\ Digests' = Digests
    BY <1>9 DEF vars, Messages, Alive, Digests, Own
  <2> QED BY <2>1 DEF Promise!avars
<1> QED BY <1>1, <1>2, <1>3, <1>4, <1>5, <1>6, <1>7, <1>8, <1>9 DEF Next

\* For every type the digest is that of the absorbed bytes on its own vector,
\* with the length in a field twice as wide as the counter, whatever clones,
\* resets, resumptions and zeroizations came before.
THEOREM ImplementsPromise == Spec => ImplementsStreamingHash
<1>1. Init => Promise!AInit
  <2> SUFFICES ASSUME Init PROVE Promise!AInit
    OBVIOUS
  <2>1. Alive = {}
    BY DEF Init, Alive
  <2>2. Messages = [h \in Handle |-> Promise!Message("zero", << >>)]
    BY <2>1, SameValues DEF Messages
  <2>3. Digests = Nothing
    BY DEF Init, Digests, Nothing
  <2> QED BY <2>1, <2>2, <2>3, SameValues DEF Promise!AInit
<1>2. Spec => Promise!ASpec
  BY <1>1, StepRefines, InductiveInvariant, PTL DEF Spec, Promise!ASpec
<1> QED BY <1>2 DEF ImplementsStreamingHash
=============================================================================
