---------------------------- MODULE Sha256Proofs ----------------------------
(***************************************************************************)
(* Theorems about Sha256Hasher: its invariants hold, and it implements     *)
(* StreamingHash, for every block length, width, input and bound.          *)
(***************************************************************************)
EXTENDS Sha256Hasher, HashLemmas, TLAPS

Statuses == {"unused", "live", "wiped", "dropped"}

\* ResidueBelowMark and the tracking of the message are what make the other
\* parts inductive: wiping up to the mark wipes the block only if nothing
\* lies above it, and a digest is that of the message only if the compressed
\* bytes are whole blocks and the counter is that of the contents.
IInv == /\ TypeOK
        /\ \A h \in Handle : BufferSound(hasher[h])
        /\ \A h \in Alive : Tracks(hasher[h])
        /\ \A h \in Handle :
             status[h] \in {"dropped", "wiped"} => Clean(hasher[h])
        /\ ScratchCleared

-----------------------------------------------------------------------------
\* The bytes and initial vectors of these hashers.
LEMMA OwnSets ==
  /\ Hasher = HasherOver(Ivs, Byte) /\ Chain = ChainOver(Ivs, Byte)
  /\ ByteSet(Byte) /\ IvSet(Ivs)
  BY DEF Hasher, HasherOf, Chain, ChainOf, ByteSet, IvSet

\* The invariant holds before any hasher exists.
LEMMA InitIInv == Init => IInv
<1> SUFFICES ASSUME Init PROVE IInv
  OBVIOUS
<1>1. Drop(New) \in Hasher /\ BufferSound(Drop(New))
  BY OwnSets, NewSound, DropSound
<1>2. Zeros(2 * BLOCK_LEN) \in [1 .. 2 * BLOCK_LEN -> Byte]
  <2>1. 2 * BLOCK_LEN \in Nat
    BY BlockAssumption
  <2> QED BY <2>1, OwnSets, ZerosType
<1>3. Nothing \in [by : SUBSET Handle, digest : Chain]
  BY OwnSets, InitialStates DEF Nothing
<1>4. TypeOK
  BY <1>1, <1>2, <1>3 DEF Init, TypeOK
<1>5. \A h \in Handle : status[h] = "unused" /\ hasher[h] = Drop(New)
  BY DEF Init
<1>6. Alive = {}
  BY <1>5 DEF Alive
<1> QED BY <1>1, <1>4, <1>5, <1>6 DEF IInv, Init, ScratchCleared

\* Every call but finalize gives one hasher a new value.
LEMMA BecomesKeepsIInv ==
  ASSUME IInv, NEW h \in Handle, NEW v \in Hasher, NEW s \in Statuses,
         Becomes(h, v, s), BufferSound(v),
         s \in {"live", "wiped"} => Tracks(v),
         s \in {"dropped", "wiped"} => Clean(v)
  PROVE  IInv'
<1>1. /\ hasher \in [Handle -> Hasher]
      /\ status \in [Handle -> Statuses]
      /\ scratch \in [1 .. 2 * BLOCK_LEN -> Byte]
  BY DEF IInv, TypeOK, Statuses
<1>2. /\ hasher' = [hasher EXCEPT ![h] = v]
      /\ status' = [status EXCEPT ![h] = s]
      /\ returned' = Nothing
      /\ scratch' = scratch
  BY DEF Becomes
<1>3. TypeOK'
  <2>1. Nothing \in [by : SUBSET Handle, digest : Chain]
    BY OwnSets, InitialStates DEF Nothing
  <2> QED BY <1>1, <1>2, <2>1 DEF TypeOK, Statuses
<1>4. hasher'[h] = v /\ status'[h] = s
  BY <1>1, <1>2
<1>5. ASSUME NEW g \in Handle, g # h
      PROVE  hasher'[g] = hasher[g] /\ status'[g] = status[g]
  BY <1>1, <1>2, <1>5
<1>6. ASSUME NEW g \in Handle
      PROVE  /\ BufferSound(hasher'[g])
             /\ status'[g] \in {"live", "wiped"} => Tracks(hasher'[g])
             /\ status'[g] \in {"dropped", "wiped"} => Clean(hasher'[g])
  <2>1. CASE g = h
    BY <1>4, <2>1
  <2>2. CASE g # h
    BY <1>5, <2>2 DEF IInv, Alive
  <2> QED BY <2>1, <2>2
<1>7. ScratchCleared'
  BY <1>2 DEF IInv, ScratchCleared
<1> QED BY <1>3, <1>6, <1>7 DEF IInv, Alive

\* What a live hasher satisfies.
LEMMA AliveSound ==
  ASSUME IInv, NEW h \in Alive
  PROVE  /\ h \in Handle
         /\ hasher[h] \in Hasher
         /\ BufferSound(hasher[h])
         /\ Tracks(hasher[h])
  BY DEF IInv, TypeOK, Alive

\* Every public call keeps the invariant.
LEMMA NextIInv == IInv /\ [Next]_vars => IInv'
<1> SUFFICES ASSUME IInv, [Next]_vars PROVE IInv'
  OBVIOUS
<1>1. ASSUME NEW h \in Handle, DoNew(h) PROVE IInv'
  <2>1. Becomes(h, New, "live")
    BY <1>1 DEF DoNew
  <2> QED BY <2>1, OwnSets, NewSound, BecomesKeepsIInv DEF Statuses
<1>2. ASSUME NEW h \in Handle, NEW g \in Handle, DoClone(h, g) PROVE IInv'
  <2>1. g \in Alive /\ Becomes(h, hasher[g], "live")
    BY <1>2 DEF DoClone
  <2> QED BY <2>1, AliveSound, BecomesKeepsIInv DEF Statuses
<1>3. ASSUME NEW h \in Handle, NEW g \in Handle, DoResume(h, g) PROVE IInv'
  <2> DEFINE new == FromState(hasher[g].state, hasher[g].len)
  <2>1. g \in Alive /\ hasher[g].block_len = 0 /\ Becomes(h, new, "live")
    BY <1>3 DEF DoResume
  <2>2. new \in Hasher /\ BufferSound(new) /\ Tracks(new)
    BY <2>1, OwnSets, AliveSound, ResumeTracks
  <2> HIDE DEF new
  <2> QED BY <2>1, <2>2, BecomesKeepsIInv DEF Statuses
<1>4. ASSUME NEW h \in Handle, NEW data \in Chunks, DoUpdate(h, data)
      PROVE  IInv'
  <2> DEFINE new == Update(hasher[h], data)
  <2>1. h \in Alive /\ Becomes(h, new, "live") /\ data \in Seq(Byte)
    BY <1>4, InputAssumption DEF DoUpdate
  <2>2. new \in Hasher /\ BufferSound(new) /\ Tracks(new)
    BY <2>1, OwnSets, AliveSound, UpdateTracks
  <2> HIDE DEF new
  <2> QED BY <2>1, <2>2, BecomesKeepsIInv DEF Statuses
<1>5. ASSUME NEW h \in Handle, DoFinalize(h) PROVE IInv'
  <2>1. /\ h \in Alive
        /\ returned' = [by |-> {h}, digest |-> Finalize(hasher[h])]
        /\ scratch' = ScratchLeft(hasher[h])
        /\ hasher' = hasher /\ status' = status
    BY <1>5 DEF DoFinalize
  <2>2. hasher[h] \in Hasher /\ ChainAligned(hasher[h])
    BY <2>1, AliveSound DEF Tracks
  <2>3. returned' \in [by : SUBSET Handle, digest : Chain]
    BY <2>1, <2>2, OwnSets, FinalizeType
  <2>4. scratch' = Zeros(2 * BLOCK_LEN)
    BY <2>1, <2>2, OwnSets, ScratchLeftIsZero
  <2>5. scratch' \in [1 .. 2 * BLOCK_LEN -> Byte]
    <3>1. 2 * BLOCK_LEN \in Nat
      BY BlockAssumption
    <3> QED BY <2>4, <3>1, OwnSets, ZerosType
  <2> QED BY <2>1, <2>3, <2>4, <2>5 DEF IInv, TypeOK, ScratchCleared, Alive
<1>6. ASSUME NEW h \in Handle, DoReset(h) PROVE IInv'
  <2>1. h \in Alive /\ Becomes(h, Reset(hasher[h]), "live")
    BY <1>6 DEF DoReset
  <2> QED BY <2>1, AliveSound, OwnSets, RestartSound, BecomesKeepsIInv DEF Statuses
<1>7. ASSUME NEW h \in Handle, DoZeroize(h) PROVE IInv'
  <2>1. h \in Alive /\ Becomes(h, Zeroize(hasher[h]), "wiped")
    BY <1>7 DEF DoZeroize
  <2> QED BY <2>1, AliveSound, OwnSets, RestartSound, BecomesKeepsIInv DEF Statuses
<1>8. ASSUME NEW h \in Handle, DoDrop(h) PROVE IInv'
  <2>1. h \in Alive /\ Becomes(h, Drop(hasher[h]), "dropped")
    BY <1>8 DEF DoDrop
  <2> QED BY <2>1, AliveSound, OwnSets, DropSound, BecomesKeepsIInv DEF Statuses
<1>9. CASE UNCHANGED vars
  BY <1>9 DEF vars, IInv, TypeOK, ScratchCleared, Alive
<1> QED BY <1>1, <1>2, <1>3, <1>4, <1>5, <1>6, <1>7, <1>8, <1>9 DEF Next

\* The invariant holds throughout.
LEMMA InductiveInvariant == Spec => []IInv
  BY InitIInv, NextIInv, PTL DEF Spec

-----------------------------------------------------------------------------
\* Every field of every hasher keeps its type under any sequence of calls;
\* in particular the block is never full between two calls.
THEOREM TypeCorrect == Spec => []TypeOK
  BY InductiveInvariant, PTL DEF IInv

\* The doc of block_filled: what drop, zeroize and reset do not wipe is zero.
THEOREM MarkIsHighWater == Spec => []ResidueBelowMark
<1>1. IInv => ResidueBelowMark
  BY DEF IInv, ResidueBelowMark, BufferSound
<1> QED BY <1>1, InductiveInvariant, PTL

\* A dropped or zeroized hasher holds no message byte.
THEOREM WipedIsClean == Spec => []WipedMemoryClean
<1>1. IInv => WipedMemoryClean
  BY DEF IInv, WipedMemoryClean, Clean
<1> QED BY <1>1, InductiveInvariant, PTL

\* finalize_into leaves a scratch buffer of zeros.
THEOREM ScratchIsCleared == Spec => []ScratchCleared
  BY InductiveInvariant, PTL DEF IInv

\* The counters are those of the message, across wraps and clones.
THEOREM CountersCorrect == Spec => []CountersTrackMessage
<1>1. IInv => CountersTrackMessage
  <2> SUFFICES ASSUME IInv, NEW h \in Alive
               PROVE  LET n == Len(Contents(hasher[h]))
                      IN  /\ hasher[h].len = n % LEN_MOD
                          /\ hasher[h].block_len = n % BLOCK_LEN
                          /\ hasher[h].block_len = hasher[h].len % BLOCK_LEN
    BY DEF CountersTrackMessage
  <2> DEFINE v == hasher[h]
             a == v.state.absorbed
             t == SubSeq(v.block, 1, v.block_len)
             n == Len(Contents(v))
  <2>1. v \in Hasher /\ Tracks(v)
    BY AliveSound
  <2> HIDE DEF v
  <2>2. /\ BLOCK_LEN \in Nat \ {0} /\ LEN_MOD \in Nat \ {0}
        /\ LEN_MOD % BLOCK_LEN = 0
        /\ v.block_len \in 0 .. BLOCK_LEN - 1
        /\ v.block \in [1 .. BLOCK_LEN -> Byte]
        /\ a \in Seq(Byte) /\ Len(a) \in Nat
    BY <2>1, BlockAssumption, WidthAssumption, LenModType, LenProperties
       DEF Hasher, HasherOf, HasherOver, ChainOver
  <2>3. t \in Seq(Byte) /\ Len(t) = v.block_len
    <3>1. v.block_len \in 0 .. BLOCK_LEN /\ BLOCK_LEN \in Nat
      BY <2>2
    <3> QED BY <2>2, <3>1, PrefixType
  <2>4. n = Len(a) + v.block_len /\ n \in Int
    BY <2>2, <2>3, ConcatProperties DEF Contents
  <2>5. n % BLOCK_LEN = v.block_len % BLOCK_LEN
    <3> DEFINE l == Len(a)   b == v.block_len
    <3>1. l % BLOCK_LEN = 0
      BY <2>1 DEF Tracks, ChainAligned
    <3>2. b \in Nat /\ l \in Nat /\ n = l + b
      BY <2>2, <2>4
    <3> HIDE DEF l, b, n
    <3>3. (l + b) % BLOCK_LEN = b % BLOCK_LEN
      BY <2>2, <3>1, <3>2, MultiplePlusRest
    <3> QED BY <3>2, <3>3 DEF b
  <2>6. v.block_len % BLOCK_LEN = v.block_len
    <3> DEFINE b == v.block_len
    <3>1. b \in 0 .. BLOCK_LEN - 1 /\ b \in Int /\ b = BLOCK_LEN * 0 + b
      BY <2>2
    <3> HIDE DEF b
    <3>2. b % BLOCK_LEN = b
      BY <2>2, <3>1, RemainderUnique
    <3> QED BY <3>2 DEF b
  <2>7. v.len = n % LEN_MOD
    BY <2>1 DEF Tracks
  <2> HIDE DEF n
  <2>8. (n % LEN_MOD) % BLOCK_LEN = n % BLOCK_LEN
    BY <2>2, <2>4, RemainderOfRemainder
  <2> QED BY <2>5, <2>6, <2>7, <2>8 DEF v, n
<1> QED BY <1>1, InductiveInvariant, PTL

-----------------------------------------------------------------------------
(***************************************************************************)
(* Sha256Hasher implements StreamingHash.                                  *)
(***************************************************************************)

\* A hasher that comes to life holds its message, one that dies holds none.
LEMMA BecomesMaps ==
  ASSUME IInv, NEW h \in Handle, NEW v \in Hasher, NEW s \in Statuses,
         Becomes(h, v, s)
  PROVE  /\ returned' = Nothing
         /\ s \in {"live", "wiped"} =>
              /\ Alive' = Alive \cup {h}
              /\ Messages' = [Messages EXCEPT ![h] = MessageOf(v)]
         /\ s = "dropped" =>
              /\ Alive' = Alive \ {h}
              /\ Messages' = [Messages EXCEPT ![h] = Absent]
<1>1. /\ hasher \in [Handle -> Hasher]
      /\ status \in [Handle -> Statuses]
      /\ hasher' = [hasher EXCEPT ![h] = v]
      /\ status' = [status EXCEPT ![h] = s]
      /\ returned' = Nothing
  BY DEF IInv, TypeOK, Becomes, Statuses
<1>2. ASSUME NEW g \in Handle
      PROVE  /\ hasher'[g] = IF g = h THEN v ELSE hasher[g]
             /\ status'[g] = IF g = h THEN s ELSE status[g]
  BY <1>1
<1>3. s \in {"live", "wiped"} => Alive' = Alive \cup {h}
  BY <1>2 DEF Alive
<1>4. s = "dropped" => Alive' = Alive \ {h}
  BY <1>2 DEF Alive
<1>5. ASSUME s \in {"live", "wiped"}
      PROVE  Messages' = [Messages EXCEPT ![h] = MessageOf(v)]
  BY <1>2, <1>3, <1>5 DEF Messages, MessageOf, Contents
<1>6. ASSUME s = "dropped"
      PROVE  Messages' = [Messages EXCEPT ![h] = Absent]
  BY <1>2, <1>4, <1>6 DEF Messages, MessageOf, Contents
<1> QED BY <1>1, <1>3, <1>4, <1>5, <1>6

\* The abstract module names the same values and the same padding.
LEMMA SameValues ==
  /\ Promise!Nothing = Nothing
  /\ \A iv, b : Promise!Message(iv, b) = [iv |-> iv, bytes |-> b]
  /\ \A m : Promise!Digest(m) =
       LET n == Len(m.bytes)
       IN  [iv |-> m.iv,
            absorbed |-> m.bytes \o
              (<< DELIM >> \o Zeros((-(n + 1 + LEN_FIELD)) % BLOCK_LEN)
                          \o ToBeBytes((n * BITS) % LEN_MOD))]
<1>1. Promise!Nothing = Nothing
  BY DEF Promise!Nothing, Nothing, Promise!ZERO_STATE, ZERO_STATE
<1>2. /\ Promise!DELIM = DELIM /\ Promise!LEN_MOD = LEN_MOD
      /\ \A n : Promise!Zeros(n) = Zeros(n)
      /\ \A n : Promise!ToBeBytes(n) = ToBeBytes(n)
  BY DEF Promise!DELIM, DELIM, Promise!LEN_MOD, LEN_MOD, Promise!BASE, BASE,
         Promise!Zeros, Zeros, Promise!ZERO, ZERO, Promise!Lit, Lit,
         Promise!ToBeBytes, ToBeBytes
<1> QED BY <1>1, <1>2 DEF Promise!Message, Promise!Digest, Promise!Padding

\* A clone has the message of its origin.
LEMMA CloneMessage ==
  ASSUME NEW g \in Alive
  PROVE  Messages[g] = MessageOf(hasher[g])
  BY DEF Messages, Alive

\* The abstract start of a handle, for any call that creates one.
LEMMA StartMaps ==
  ASSUME IInv, NEW h \in Handle, NEW v \in Hasher, h \notin Alive,
         Becomes(h, v, "live")
  PROVE  Promise!AStart(h, MessageOf(v))
  BY BecomesMaps, SameValues DEF Statuses, Promise!AStart

\* Every call is the abstract call of the same name.
LEMMA StepRefines == IInv /\ [Next]_vars => [Promise!ANext]_(Promise!avars)
<1> SUFFICES ASSUME IInv, [Next]_vars
             PROVE  Promise!ANext \/ UNCHANGED Promise!avars
  OBVIOUS
<1>1. ASSUME NEW h \in Handle, DoNew(h) PROVE Promise!ANext
  <2>1. h \notin Alive /\ Becomes(h, New, "live")
    BY <1>1 DEF DoNew
  <2>2. MessageOf(New) = Promise!Message("H0", << >>)
    BY OwnSets, NewSound, SameValues DEF MessageOf, INITIAL_STATE
  <2>3. Promise!ACreate(h)
    BY <2>1, <2>2, OwnSets, NewSound, StartMaps DEF Promise!ACreate
  <2> QED BY <2>3 DEF Promise!ANext
<1>2. ASSUME NEW h \in Handle, NEW g \in Handle, DoClone(h, g)
      PROVE  Promise!ANext
  <2>1. h \notin Alive /\ g \in Alive /\ Becomes(h, hasher[g], "live")
    BY <1>2 DEF DoClone
  <2>2. Promise!AStart(h, MessageOf(hasher[g]))
    BY <2>1, AliveSound, StartMaps
  <2>3. Promise!AClone(h, g)
    BY <2>1, <2>2, CloneMessage DEF Promise!AClone
  <2> QED BY <2>3 DEF Promise!ANext
<1>3. ASSUME NEW h \in Handle, NEW g \in Handle, DoResume(h, g)
      PROVE  Promise!ANext
  <2> DEFINE new == FromState(hasher[g].state, hasher[g].len)
  <2>1. h \notin Alive /\ g \in Alive /\ hasher[g].block_len = 0
        /\ Becomes(h, new, "live")
    BY <1>3 DEF DoResume
  <2>2. /\ new \in Hasher /\ new.state.iv = hasher[g].state.iv
        /\ Contents(new) = Contents(hasher[g])
    BY <2>1, OwnSets, AliveSound, ResumeTracks
  <2> HIDE DEF new
  <2>3. MessageOf(new) = MessageOf(hasher[g])
    BY <2>2 DEF MessageOf
  <2>4. Promise!AClone(h, g)
    BY <2>1, <2>2, <2>3, StartMaps, CloneMessage DEF Promise!AClone
  <2> QED BY <2>4 DEF Promise!ANext
<1>4. ASSUME NEW h \in Handle, NEW data \in Chunks, DoUpdate(h, data)
      PROVE  Promise!ANext
  <2> DEFINE new == Update(hasher[h], data)
  <2>1. /\ h \in Alive /\ Becomes(h, new, "live") /\ data \in Seq(Byte)
        /\ Len(Contents(hasher[h])) + Len(data) <= MaxLen
    BY <1>4, InputAssumption DEF DoUpdate
  <2>2. /\ new \in Hasher /\ new.state.iv = hasher[h].state.iv
        /\ Contents(new) = Contents(hasher[h]) \o data
    BY <2>1, OwnSets, AliveSound, UpdateTracks
  <2> HIDE DEF new
  <2>3. /\ Alive' = Alive \cup {h}
        /\ Messages' = [Messages EXCEPT ![h] = MessageOf(new)]
        /\ returned' = Nothing
    BY <2>1, <2>2, BecomesMaps DEF Statuses
  <2>4. Messages[h] = MessageOf(hasher[h])
    BY <2>1, CloneMessage
  <2>5. Messages' = [Messages EXCEPT ![h].bytes = @ \o data]
    <3> DEFINE i == hasher[h].state.iv
               m == Contents(hasher[h])
               n == m \o data
    <3>1. Messages[h] = [iv |-> i, bytes |-> m] /\ MessageOf(new) = [iv |-> i, bytes |-> n]
      BY <2>2, <2>4 DEF MessageOf
    <3>2. Messages[h].bytes \o data = n
      BY <3>1
    <3> HIDE DEF i, m, n
    <3>3. [Messages[h] EXCEPT !.bytes = n] = MessageOf(new)
      BY <3>1
    <3> QED BY <2>3, <3>2, <3>3
  <2>6. Alive' = Alive /\ Messages[h].bytes = Contents(hasher[h])
    BY <2>1, <2>3, <2>4 DEF MessageOf
  <2>7. Promise!AUpdate(h, data)
    BY <2>1, <2>3, <2>5, <2>6, SameValues DEF Promise!AUpdate
  <2> QED BY <2>7 DEF Promise!ANext
<1>5. ASSUME NEW h \in Handle, DoFinalize(h) PROVE Promise!ANext
  <2>1. /\ h \in Alive
        /\ returned' = [by |-> {h}, digest |-> Finalize(hasher[h])]
        /\ hasher' = hasher /\ status' = status
    BY <1>5 DEF DoFinalize
  <2>2. Messages' = Messages /\ Alive' = Alive
    BY <2>1 DEF Messages, Alive
  <2>3. hasher[h] \in Hasher /\ ChainAligned(hasher[h])
        /\ hasher[h].len = Len(Contents(hasher[h])) % LEN_MOD
    BY <2>1, AliveSound DEF Tracks
  <2>4. Finalize(hasher[h]) = Promise!Digest(MessageOf(hasher[h]))
    <3> DEFINE v == hasher[h]
    <3>1. v \in Hasher /\ ChainAligned(v) /\ v.len = Len(Contents(v)) % LEN_MOD
      BY <2>3
    <3> HIDE DEF v
    <3>2. MessageOf(v).iv = v.state.iv /\ MessageOf(v).bytes = Contents(v)
      BY DEF MessageOf
    <3>3. Finalize(v) = Promise!Digest(MessageOf(v))
      BY <3>1, <3>2, OwnSets, FinalizePads, SameValues
    <3> QED BY <3>3 DEF v
  <2>5. Promise!AFinalize(h)
    BY <2>1, <2>2, <2>4, CloneMessage DEF Promise!AFinalize
  <2> QED BY <2>5 DEF Promise!ANext
<1>6. ASSUME NEW h \in Handle, DoReset(h) PROVE Promise!ANext
  <2>1. h \in Alive /\ Becomes(h, Reset(hasher[h]), "live")
    BY <1>6 DEF DoReset
  <2>2. /\ Reset(hasher[h]) \in Hasher
        /\ MessageOf(Reset(hasher[h])) = Promise!Message("H0", << >>)
    BY <2>1, AliveSound, OwnSets, RestartSound, SameValues
       DEF MessageOf, INITIAL_STATE
  <2> DEFINE new == Reset(hasher[h])
  <2>3. new \in Hasher /\ Becomes(h, new, "live") /\ MessageOf(new) = Promise!Message("H0", << >>)
    BY <2>1, <2>2
  <2> HIDE DEF new
  <2>4. /\ Alive' = Alive \cup {h}
        /\ Messages' = [Messages EXCEPT ![h] = MessageOf(new)]
        /\ returned' = Nothing
    BY <2>3, BecomesMaps DEF Statuses
  <2>5. Alive' = Alive
    BY <2>1, <2>4
  <2>6. Promise!ARestart(h, "H0")
    BY <2>1, <2>3, <2>4, <2>5, SameValues DEF Promise!ARestart
  <2> QED BY <2>6 DEF Promise!ANext
<1>7. ASSUME NEW h \in Handle, DoZeroize(h) PROVE Promise!ANext
  <2>1. h \in Alive /\ Becomes(h, Zeroize(hasher[h]), "wiped")
    BY <1>7 DEF DoZeroize
  <2>2. /\ Zeroize(hasher[h]) \in Hasher
        /\ MessageOf(Zeroize(hasher[h])) = Promise!Message("zero", << >>)
    BY <2>1, AliveSound, OwnSets, RestartSound, SameValues
       DEF MessageOf, Clean, ZERO_STATE
  <2> DEFINE new == Zeroize(hasher[h])
  <2>3. /\ new \in Hasher /\ Becomes(h, new, "wiped")
        /\ MessageOf(new) = Promise!Message("zero", << >>)
    BY <2>1, <2>2
  <2> HIDE DEF new
  <2>4. /\ Alive' = Alive \cup {h}
        /\ Messages' = [Messages EXCEPT ![h] = MessageOf(new)]
        /\ returned' = Nothing
    BY <2>3, BecomesMaps DEF Statuses
  <2>5. Alive' = Alive
    BY <2>1, <2>4
  <2>6. Promise!ARestart(h, "zero")
    BY <2>1, <2>3, <2>4, <2>5, SameValues DEF Promise!ARestart
  <2> QED BY <2>6 DEF Promise!ANext
<1>8. ASSUME NEW h \in Handle, DoDrop(h) PROVE Promise!ANext
  <2>1. h \in Alive /\ Becomes(h, Drop(hasher[h]), "dropped")
    BY <1>8 DEF DoDrop
  <2>2. Drop(hasher[h]) \in Hasher
    BY <2>1, AliveSound, OwnSets, DropSound
  <2>3. Promise!ADrop(h)
    BY <2>1, <2>2, BecomesMaps, SameValues
       DEF Statuses, Promise!ADrop, Absent
  <2> QED BY <2>3 DEF Promise!ANext
<1>9. CASE UNCHANGED vars
  <2>1. Messages' = Messages /\ Alive' = Alive /\ returned' = returned
    BY <1>9 DEF vars, Messages, Alive
  <2> QED BY <2>1 DEF Promise!avars
<1> QED BY <1>1, <1>2, <1>3, <1>4, <1>5, <1>6, <1>7, <1>8, <1>9 DEF Next

\* The digest is a function of the absorbed bytes alone: not of how update
\* calls cut them, of earlier messages, clones or finalize calls.
THEOREM ImplementsPromise == Spec => ImplementsStreamingHash
<1>1. Init => Promise!AInit
  <2> SUFFICES ASSUME Init PROVE Promise!AInit
    OBVIOUS
  <2>1. Alive = {}
    BY DEF Init, Alive
  <2>2. Messages = [h \in Handle |-> Promise!Message("zero", << >>)]
    BY <2>1, SameValues DEF Messages, Absent
  <2> QED BY <2>1, <2>2, SameValues DEF Init, Promise!AInit
<1>2. Spec => Promise!ASpec
  BY <1>1, StepRefines, InductiveInvariant, PTL DEF Spec, Promise!ASpec
<1> QED BY <1>2 DEF ImplementsStreamingHash
=============================================================================
