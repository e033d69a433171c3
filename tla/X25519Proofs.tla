---------------------------- MODULE X25519Proofs ----------------------------
(***************************************************************************)
(* Theorems about X25519 for any number of threads, CPUs, scalars, calls   *)
(* and cache resets: which instructions run, that no secret stays behind,  *)
(* and that agreements agree; and about FeatureCache, which every call     *)
(* consults, for any set of features.                                      *)
(***************************************************************************)
EXTENDS X25519, FiniteSetTheorems, SequenceTheorems, TLAPS

TaskSet == {NoTask} \cup {Task(e, at) : e \in Entries, at \in {"cached", "run"}}

\* Whatever the relaxed loads return, populated words, locals and answers are
\* what this CPU has, so what is executed on their account is executable.
DispatchInv ==
  /\ cpu \in Cpu
  /\ CacheTypeOK
  /\ machine = Detect(cpu)
  /\ \A i \in 1 .. Len(writes) : writes[i].cached => writes[i].bits = machine
  /\ \A t \in Thread : pc[t] = "store" => found[t] = machine
  /\ \A t \in Thread : returned[t] \subseteq {machine}
  /\ task \in [Thread -> TaskSet]
  /\ \A t \in Thread : task[t].at = "cached" \/ pc[t] = "idle"
  /\ \A t \in Thread : task[t].at = "run" => returned[t] # {}
  /\ executed \subseteq Executable(cpu) \cap (AnyFeature \cup {"xgetbv", "mrs"})
  /\ calls \in 0 .. MaxCalls

CallSet == [op : {"none", "pair", "agree", "static agree", "static public", "other"},
            peer : Point \cup {NoPoint}]

\* A live pair's share is its scalar's, and an agreement is made of the two
\* shares it is recorded to come from.
Matched(key)  == key.st = "live" => key.public_key = Base(key.secret)
Sound(agreed) == agreed.st = "live" => agreed.bytes = {agreed.own[2], agreed.with[2]}

\* What holds of one thread's keys, given the calls it is inside.
Fits(t) ==
  /\ task[t] = NoTask <=> call[t] = NoCall
  /\ ephemeral[t].st = "making" <=> call[t].op = "pair"
  /\ ephemeral[t].st \in {"making", "live"} => ephemeral[t].secret \in Scalar
  /\ ephemeral[t].st \in {"none", "wiped"} => ephemeral[t].secret = 0
  /\ Matched(ephemeral[t])
  /\ shared[t].st \in {"none", "live", "wiped"}
  /\ shared[t].st \in {"none", "wiped"} => shared[t].bytes = Zero
  /\ Sound(shared[t])

KeyInv ==
  /\ static \in KeySet
  /\ static.st \in {"none", "wiped"} => static.secret = 0
  /\ ephemeral \in [Thread -> KeySet]
  /\ call \in [Thread -> CallSet]
  /\ shared = [t \in Thread |-> shared[t]]
  /\ \A t \in Thread : Fits(t)

IInv == DispatchInv /\ KeyInv

-----------------------------------------------------------------------------
\* A probe reports none but the features the library knows.
LEMMA DetectIsKnown ==
  ASSUME NEW c
  PROVE  Detect(c) \subseteq AnyFeature
  BY DEF Detect, DetectX86, DetectArm, AnyFeature, X86Features

\* What a probe reports, and what it executes itself, this CPU executes.
LEMMA DetectIsExecutable ==
  ASSUME NEW c \in Cpu
  PROVE  /\ Detect(c) \subseteq Executable(c)
         /\ ProbeExecutes(c) \subseteq Executable(c) \cap {"xgetbv", "mrs"}
<1>1. CASE c.arch = "x86_64"
  <2>1. ReadXcr0(c) # {} => "OSXSAVE" \in c.leaf1 /\ ReadXcr0(c) = c.xcr0
    BY DEF ReadXcr0
  <2>2. YmmEnabled(c) => "OSXSAVE" \in c.leaf1 /\ {"sse", "ymm"} \subseteq c.xcr0
    BY <2>1 DEF YmmEnabled
  <2>3. Avx512Enabled(c) => YmmEnabled(c) /\ XCR0_AVX512 \subseteq c.xcr0
    BY <2>1 DEF Avx512Enabled, YmmEnabled
  <2>4. Detect(c) \subseteq Executable(c)
    BY <1>1, <2>2, <2>3 DEF Detect, DetectX86, Executable, X86Features
  <2>5. ProbeExecutes(c) \subseteq Executable(c) \cap {"xgetbv", "mrs"}
    BY <1>1 DEF ProbeExecutes, Executable
  <2> QED BY <2>4, <2>5
<1>2. CASE c.arch = "aarch64"
  BY <1>2 DEF Detect, DetectArm, ProbeExecutes, Executable
<1> QED BY <1>1, <1>2, CpuAssumption

\* No routine uses an instruction outside the features it was chosen by.
LEMMA ExecutesWhatIsReported ==
  ASSUME NEW features, NEW entry \in Entries
  PROVE  Executes(entry, features) \subseteq features
<1>1. entry \in {"compress_blocks", "x25519", "x25519_base", "features"}
  BY DEF Entries
<1>2. CASE entry = "compress_blocks"
  BY <1>2 DEF Executes, CompressBlocks
<1>3. CASE entry = "features"
  BY <1>3 DEF Executes
<1>4. CASE entry \in {"x25519", "x25519_base"}
  BY <1>4 DEF Executes, Uses, Variant, ArmVariant
<1> QED BY <1>1, <1>2, <1>3, <1>4

\* A store adds one word to the modification order and keeps the others.
LEMMA AppendWord ==
  ASSUME NEW S, NEW s \in Seq(S), NEW w \in S
  PROVE  /\ Append(s, w) \in Seq(S) /\ Len(Append(s, w)) = Len(s) + 1
         /\ \A i \in 1 .. Len(s) : Append(s, w)[i] = s[i]
         /\ Append(s, w)[Len(s) + 1] = w
OBVIOUS

-----------------------------------------------------------------------------
\* Entering, consulting, leaving and clearing the cache keep the dispatch
\* invariant; each also says what becomes of the tasks.
LEMMA EnterKeeps ==
  ASSUME DispatchInv, NEW t \in Thread, NEW entry, Enter(t, entry)
  PROVE  /\ DispatchInv'
         /\ task[t] = NoTask /\ task'[t] # NoTask
         /\ \A u \in Thread : u # t => task'[u] = task[u]
<1> USE DEF DispatchInv, Enter, cacheVars
<1>1. Entries' = Entries
  BY DEF Entries
<1>2. Task(entry, "cached") \in TaskSet /\ TaskSet' = TaskSet
  BY <1>1 DEF TaskSet
<1>3. /\ task' \in [Thread -> TaskSet']
      /\ task'[t] = Task(entry, "cached")
      /\ \A u \in Thread : u # t => task'[u] = task[u]
  BY <1>2
<1>4. Task(entry, "cached") # NoTask /\ Task(entry, "cached").at = "cached"
  BY DEF Task, NoTask
<1>5. calls' \in 0 .. MaxCalls
  BY CallAssumption
<1>6. CacheTypeOK'
  BY DEF CacheTypeOK
<1> QED BY <1>3, <1>4, <1>5, <1>6

\* A load that finds a populated word, or the store of a probe, answers with
\* the machine's own features.
LEMMA ConsultKeeps ==
  ASSUME DispatchInv, NEW t \in Thread, Consult(t)
  PROVE  /\ DispatchInv'
         /\ \A u \in Thread : task'[u] = NoTask <=> task[u] = NoTask
<1> USE DEF DispatchInv
<1>1. cpu' = cpu /\ calls' = calls /\ Entries' = Entries /\ TaskSet' = TaskSet
  BY DEF Consult, Entries, TaskSet
<1>2. task[t] # NoTask /\ task[t] \in TaskSet /\ task[t].at = "cached"
  BY DEF Consult, NoTask, Task
<1>3. PICK e \in Entries : task[t] = Task(e, "cached")
  BY <1>2 DEF TaskSet, Task, NoTask
<1>4. Task(e, "run") \in TaskSet /\ Task(e, "run") # NoTask
  BY DEF TaskSet, Task, NoTask
<1>5. ASSUME task' = [task EXCEPT ![t].at = "run"]
      PROVE  /\ task' \in [Thread -> TaskSet]
             /\ task'[t] = Task(e, "run")
             /\ \A u \in Thread : u # t => task'[u] = task[u]
             /\ \A u \in Thread : task'[u] = NoTask <=> task[u] = NoTask
  <2>1. [task[t] EXCEPT !.at = "run"] = Task(e, "run")
    BY <1>3 DEF Task
  <2>2. task' = [task EXCEPT ![t] = Task(e, "run")]
    BY <1>5, <2>1
  <2> QED BY <1>2, <1>4, <2>2
<1>6. CASE Hit(t) /\ task' = [task EXCEPT ![t].at = "run"] /\ executed' = executed
  <2>1. PICK i \in view[t] .. Len(writes) :
          /\ writes[i].cached
          /\ view' = [view EXCEPT ![t] = i]
          /\ returned' = [returned EXCEPT ![t] = {writes[i].bits}]
    BY <1>6 DEF Hit
  <2>2. i \in 1 .. Len(writes) /\ writes[i].bits = machine
    BY <2>1 DEF CacheTypeOK
  <2>3. UNCHANGED << machine, writes, pc, found, probes, resets >>
    BY <1>6 DEF Hit
  <2>4. CacheTypeOK'
    BY <2>1, <2>2, <2>3 DEF CacheTypeOK
  <2>5. returned'[t] = {machine} /\ \A u \in Thread : u # t => returned'[u] = returned[u]
    BY <2>1, <2>2 DEF CacheTypeOK
  <2>6. pc[t] = "idle"
    BY <1>6 DEF Hit
  <2>7. /\ \A u \in Thread : task'[u].at = "cached" \/ pc'[u] = "idle"
        /\ \A u \in Thread : task'[u].at = "run" => returned'[u] # {}
    BY <1>5, <1>6, <2>3, <2>5, <2>6
  <2>8. \A u \in Thread : returned'[u] \subseteq {machine}
    BY <2>5
  <2> QED BY <1>1, <1>5, <1>6, <2>3, <2>4, <2>7, <2>8
<1>7. CASE Store(t) /\ task' = [task EXCEPT ![t].at = "run"] /\ executed' = executed
  <2>1. /\ pc[t] = "store" /\ found[t] = machine
        /\ view' = [view EXCEPT ![t] = Len(writes) + 1]
        /\ returned' = [returned EXCEPT ![t] = {machine}]
        /\ pc' = [pc EXCEPT ![t] = "idle"]
        /\ UNCHANGED << machine, found, probes, resets >>
    BY <1>7 DEF Store, Publish
  <2>2. PICK w \in WordSet : w.bits = machine /\ writes' = Append(writes, w)
    <3>1. writes' = Append(writes, Word(TRUE, machine))
      BY <1>7, <2>1 DEF Store, Publish
    <3>2. Word(TRUE, machine) \in WordSet /\ Word(TRUE, machine).bits = machine
      BY DEF Word, WordSet, CacheTypeOK
    <3> QED BY <3>1, <3>2
  <2>3. /\ writes' \in Seq(WordSet) /\ Len(writes') = Len(writes) + 1
        /\ \A i \in 1 .. Len(writes) : writes'[i] = writes[i]
        /\ writes'[Len(writes) + 1] = w
    <3>1. writes \in Seq(WordSet)
      BY DEF CacheTypeOK
    <3> QED BY <3>1, <2>2, AppendWord
  <2>4. \A i \in 1 .. Len(writes') : writes'[i].cached => writes'[i].bits = machine'
    <3>1. Len(writes) \in Nat /\ machine' = machine
      BY <2>1 DEF CacheTypeOK
    <3> QED BY <3>1, <2>2, <2>3
  <2>5. CacheTypeOK'
    <3>1. Len(writes) \in Nat /\ view' \in [Thread -> Nat \ {0}]
      BY <2>1 DEF CacheTypeOK
    <3>2. \A u \in Thread : view'[u] <= Len(writes')
      BY <2>1, <2>3, <3>1 DEF CacheTypeOK
    <3> QED BY <2>1, <2>3, <3>1, <3>2 DEF CacheTypeOK
  <2>6. /\ returned'[t] = {machine} /\ pc'[t] = "idle"
        /\ \A u \in Thread : u # t => returned'[u] = returned[u] /\ pc'[u] = pc[u]
    BY <2>1 DEF CacheTypeOK
  <2>7. /\ \A u \in Thread : task'[u].at = "cached" \/ pc'[u] = "idle"
        /\ \A u \in Thread : task'[u].at = "run" => returned'[u] # {}
    <3>1. \A u \in Thread : u # t => /\ task'[u].at = task[u].at /\ pc'[u] = pc[u]
                                     /\ returned'[u] = returned[u]
      BY <1>5, <1>7, <2>6
    <3>2. pc'[t] = "idle" /\ returned'[t] # {}
      BY <2>6
    <3> QED BY <3>1, <3>2
  <2>8. /\ \A u \in Thread : returned'[u] \subseteq {machine}
        /\ \A u \in Thread : pc'[u] = "store" => found'[u] = machine
    BY <2>1, <2>6
  <2> QED BY <1>1, <1>5, <1>7, <2>1, <2>4, <2>5, <2>7, <2>8
<1>8. CASE Miss(t) /\ task' = task /\ executed' = executed
  <2>1. PICK i \in view[t] .. Len(writes) :
          ~writes[i].cached /\ view' = [view EXCEPT ![t] = i]
    BY <1>8 DEF Miss
  <2>2. /\ pc' = [pc EXCEPT ![t] = "probe"]
        /\ UNCHANGED << machine, writes, found, returned, probes, resets >>
    BY <1>8 DEF Miss
  <2>3. CacheTypeOK'
    BY <2>1, <2>2 DEF CacheTypeOK
  <2>4. pc'[t] = "probe" /\ \A u \in Thread : u # t => pc'[u] = pc[u]
    BY <2>2 DEF CacheTypeOK
  <2> QED BY <1>1, <1>2, <1>8, <2>2, <2>3, <2>4
<1>9. CASE Probe(t) /\ task' = task /\ executed' = executed \cup ProbeExecutes(cpu)
  <2>1. /\ found' = [found EXCEPT ![t] = machine]
        /\ probes' = [probes EXCEPT ![t] = @ + 1]
        /\ pc' = [pc EXCEPT ![t] = "store"]
        /\ UNCHANGED << machine, writes, view, returned, resets >>
    BY <1>9 DEF Probe
  <2>2. CacheTypeOK'
    BY <2>1 DEF CacheTypeOK
  <2>3. /\ found'[t] = machine /\ pc'[t] = "store"
        /\ \A u \in Thread : u # t => pc'[u] = pc[u] /\ found'[u] = found[u]
    BY <2>1 DEF CacheTypeOK
  <2>4. executed' \subseteq Executable(cpu) \cap (AnyFeature \cup {"xgetbv", "mrs"})
    BY <1>9, DetectIsExecutable
  <2> QED BY <1>1, <1>2, <1>9, <2>1, <2>2, <2>3, <2>4
<1> QED BY <1>6, <1>7, <1>8, <1>9 DEF Consult

\* The routine runs on the answer of its own cached() call.
LEMMA LeaveKeeps ==
  ASSUME DispatchInv, NEW t \in Thread, Leave(t)
  PROVE  /\ DispatchInv'
         /\ task'[t] = NoTask
         /\ \A u \in Thread : u # t => task'[u] = task[u]
<1> USE DEF DispatchInv, Leave, cacheVars
<1>1. Entries' = Entries /\ TaskSet' = TaskSet
  BY DEF Entries, TaskSet
<1>2. task[t].entry \in Entries
  BY DEF TaskSet, Task, NoTask
<1>3. PICK features \in returned[t] :
        executed' = executed \cup Executes(task[t].entry, features)
  OBVIOUS
<1>4. features = Detect(cpu) /\ features \subseteq AnyFeature
  BY <1>3, DetectIsKnown
<1>5. executed' \subseteq Executable(cpu) \cap (AnyFeature \cup {"xgetbv", "mrs"})
  BY <1>2, <1>3, <1>4, ExecutesWhatIsReported, DetectIsExecutable
<1>6. /\ task' \in [Thread -> TaskSet']
      /\ task'[t] = NoTask
      /\ \A u \in Thread : u # t => task'[u] = task[u]
  BY <1>1 DEF TaskSet
<1>7. NoTask.at = "none" /\ pc[t] = "idle"
  BY DEF NoTask, Task
<1>8. CacheTypeOK'
  BY DEF CacheTypeOK
<1> QED BY <1>5, <1>6, <1>7, <1>8

\* Clearing the cache stores an empty word, which claims nothing.
LEMMA ResetKeeps ==
  ASSUME DispatchInv, NEW t \in Thread, ResetCache(t)
  PROVE  DispatchInv' /\ task' = task
<1> USE DEF DispatchInv
<1>1. /\ writes' = Append(writes, EmptyWord)
      /\ view' = [view EXCEPT ![t] = Len(writes) + 1]
      /\ resets' = resets + 1
      /\ UNCHANGED << machine, pc, found, returned, probes, cpu, task, executed, calls >>
  BY DEF ResetCache, Reset, Publish
<1>2. EmptyWord \in WordSet /\ ~EmptyWord.cached
  BY DEF EmptyWord, Word, WordSet
<1>3. /\ writes' \in Seq(WordSet) /\ Len(writes') = Len(writes) + 1
      /\ \A i \in 1 .. Len(writes) : writes'[i] = writes[i]
      /\ writes'[Len(writes) + 1] = EmptyWord
  BY <1>1, <1>2 DEF CacheTypeOK
<1>4. \A i \in 1 .. Len(writes') : writes'[i].cached => writes'[i].bits = machine'
  BY <1>1, <1>2, <1>3 DEF CacheTypeOK
<1>5. CacheTypeOK'
  BY <1>1, <1>3 DEF CacheTypeOK
<1>6. TaskSet' = TaskSet
  BY <1>1 DEF TaskSet, Entries
<1> QED BY <1>1, <1>4, <1>5, <1>6

-----------------------------------------------------------------------------
\* A fresh key store holds no secret.
LEMMA InitIInv == Init => IInv
<1> SUFFICES ASSUME Init PROVE IInv
  OBVIOUS
<1> USE DEF Init, DispatchInit
<1>1. EmptyWord \in WordSet /\ ~EmptyWord.cached
  BY DEF EmptyWord, Word, WordSet
<1>2. /\ writes \in Seq(WordSet) /\ Len(writes) = 1
      /\ \A i \in 1 .. Len(writes) : ~writes[i].cached
  BY <1>1 DEF CacheInit
<1>3. CacheTypeOK
  BY <1>2 DEF CacheInit, CacheTypeOK
<1>4. DispatchInv
  BY <1>2, <1>3, CallAssumption DEF DispatchInv, CacheInit, TaskSet, NoTask, Task
<1>5. KeyInv
  BY DEF KeyInv, KeySet, Key, CallSet, Call, NoCall, Agreed, NoAgreed, Zero,
         Fits, Matched, Sound
<1> QED BY <1>4, <1>5 DEF IInv

\* What is left of a key that is dropped or wiped.
LEMMA ErasedKeys ==
  ASSUME NEW key \in KeySet
  PROVE  /\ Dropped(key) \in KeySet /\ Dropped(key).st = "none" /\ Dropped(key).secret = 0
         /\ Zeroized(key) \in KeySet /\ Zeroized(key).st = "wiped" /\ Zeroized(key).secret = 0
BY DEF KeySet, Key, Dropped, Zeroized

\* An agreement is refused or made of the two shares.
LEMMA ResultSound ==
  ASSUME NEW k, NEW p
  PROVE  LET r == Result(Mult(k, p), Base(k), p)
         IN  /\ r.st \in {"none", "live"}
             /\ r.st = "none" => r.bytes = Zero
             /\ Sound(r)
<1>1. CASE p = LowOrder
  BY <1>1 DEF Result, Mult, Zero, NoAgreed, Agreed, Sound
<1>2. CASE p # LowOrder
  <2>1. Mult(k, p) = {Base(k)[2], p[2]} /\ Mult(k, p) # Zero
    BY <1>2 DEF Mult, Base, Zero
  <2> QED BY <2>1 DEF Result, Agreed, Sound
<1> QED BY <1>1, <1>2

\* A step of one thread is judged by that thread's keys alone.
LEMMA OneThread ==
  ASSUME KeyInv, NEW t \in Thread,
         ephemeral' \in [Thread -> KeySet],
         call' \in [Thread -> CallSet],
         shared' = [u \in Thread |-> shared'[u]],
         static' = static,
         \A u \in Thread : u # t => /\ ephemeral'[u] = ephemeral[u]
                                    /\ call'[u] = call[u]
                                    /\ shared'[u] = shared[u]
                                    /\ (task'[u] = NoTask <=> task[u] = NoTask),
         Fits(t)'
  PROVE  KeyInv'
<1>1. ASSUME NEW u \in Thread, u # t PROVE Fits(u)'
  BY <1>1 DEF KeyInv, Fits, Matched, Sound
<1>2. \A u \in Thread : Fits(u)'
  BY <1>1
<1>3. static' \in KeySet /\ (static'.st \in {"none", "wiped"} => static'.secret = 0)
  BY DEF KeyInv
<1> QED BY <1>2, <1>3 DEF KeyInv

\* A step outside every dispatched call.
LEMMA DispatchIdle ==
  ASSUME DispatchInv, UNCHANGED << cpu, cacheVars, task, executed, calls >>
  PROVE  DispatchInv'
<1>1. Entries' = Entries /\ TaskSet' = TaskSet
  BY DEF Entries, TaskSet
<1>2. CacheTypeOK'
  BY DEF DispatchInv, cacheVars, CacheTypeOK
<1> QED BY <1>1, <1>2 DEF DispatchInv, cacheVars

\* Making a key: the fill, and the routine that writes the share.
LEMMA MakingKeeps ==
  ASSUME IInv, NEW t \in Thread
  PROVE  /\ \A b \in Scalar : FillFails(t, b) \/ FromEntropy(t, b) => IInv'
         /\ PairMade(t) => IInv'
<1> USE DEF IInv
<1>0. /\ ephemeral \in [Thread -> KeySet] /\ call \in [Thread -> CallSet]
      /\ shared = [u \in Thread |-> shared[u]] /\ Fits(t)
  BY DEF KeyInv
<1>1. ASSUME NEW b \in Scalar, FillFails(t, b) PROVE IInv'
  <2>1. DispatchInv'
    BY <1>1, DispatchIdle DEF FillFails
  <2>2. Key("making", b, NoPoint) \in KeySet
    BY DEF Key, KeySet
  <2>3. PICK key \in KeySet : /\ key.st = "none" /\ key.secret = 0
                             /\ ephemeral' = [ephemeral EXCEPT ![t] = key]
    BY <1>1, <2>2, ErasedKeys DEF FillFails
  <2>4. UNCHANGED << task, static, shared, call >>
    BY <1>1 DEF FillFails
  <2>5. Fits(t)'
    BY <1>0, <1>1, <2>3, <2>4 DEF Fits, FillFails, NoCall, Call, Matched, Sound
  <2> QED BY <1>0, <2>1, <2>3, <2>4, <2>5, OneThread
<1>2. ASSUME NEW b \in Scalar, FromEntropy(t, b) PROVE IInv'
  <2>1. /\ DispatchInv' /\ task'[t] # NoTask
        /\ \A u \in Thread : u # t => task'[u] = task[u]
    BY <1>2, EnterKeeps DEF FromEntropy
  <2>2. Filled(b) \in KeySet /\ Filled(b).st = "making" /\ Filled(b).secret = b
    BY DEF Filled, Key, KeySet
  <2>3. Call("pair", NoPoint) \in CallSet /\ Call("pair", NoPoint).op = "pair"
    BY DEF Call, CallSet
  <2>4. Call("pair", NoPoint) # NoCall
    BY DEF Call, NoCall
  <2>5. /\ ephemeral' = [ephemeral EXCEPT ![t] = Filled(b)]
        /\ call' = [call EXCEPT ![t] = Call("pair", NoPoint)]
        /\ UNCHANGED << static, shared >>
    BY <1>2 DEF FromEntropy
  <2>6. Fits(t)'
    BY <1>0, <2>1, <2>2, <2>3, <2>4, <2>5 DEF Fits, Matched, Sound
  <2> QED BY <1>0, <2>1, <2>2, <2>3, <2>5, <2>6, OneThread
<1>3. ASSUME PairMade(t) PROVE IInv'
  <2>1. /\ DispatchInv' /\ task'[t] = NoTask
        /\ \A u \in Thread : u # t => task'[u] = task[u]
    BY <1>3, LeaveKeeps DEF PairMade
  <2> DEFINE k == ephemeral[t].secret
             key == Key("live", k, Base(k))
  <2>2. k \in Scalar
    BY <1>0, <1>3 DEF PairMade, Fits
  <2>3. key \in KeySet /\ key.st = "live" /\ key.secret = k /\ key.public_key = Base(k)
    BY <2>2 DEF Key, KeySet, Point
  <2>4. NoCall \in CallSet /\ NoCall.op = "none"
    BY DEF Call, NoCall, CallSet
  <2>5. /\ ephemeral' = [ephemeral EXCEPT ![t] = key]
        /\ call' = [call EXCEPT ![t] = NoCall]
        /\ UNCHANGED << static, shared >>
    BY <1>3 DEF PairMade
  <2> HIDE DEF k, key
  <2>6. Fits(t)'
    BY <1>0, <2>1, <2>2, <2>3, <2>4, <2>5 DEF Fits, Matched, Sound
  <2> QED BY <1>0, <2>1, <2>3, <2>4, <2>5, <2>6, OneThread
<1> QED BY <1>1, <1>2, <1>3

\* Erasing keys in place, without a dispatched call.
LEMMA ErasingKeeps ==
  ASSUME IInv, NEW t \in Thread,
         \/ ZeroizePair(t) \/ DropPair(t) \/ ZeroizeShared(t) \/ DropShared(t)
  PROVE  IInv'
<1> USE DEF IInv
<1>1. /\ ephemeral \in [Thread -> KeySet] /\ call \in [Thread -> CallSet]
      /\ shared = [u \in Thread |-> shared[u]] /\ Fits(t)
  BY DEF KeyInv
<1>2. DispatchInv'
  BY DispatchIdle DEF ZeroizePair, DropPair, ZeroizeShared, DropShared
<1>3. CASE ZeroizePair(t) \/ DropPair(t)
  <2>1. UNCHANGED << task, static, shared, call >> /\ call[t].op = "none"
    BY <1>3 DEF ZeroizePair, DropPair, NoCall, Call
  <2>2. PICK key \in KeySet : /\ key.st \in {"none", "wiped"} /\ key.secret = 0
                             /\ ephemeral' = [ephemeral EXCEPT ![t] = key]
    BY <1>1, <1>3, ErasedKeys DEF ZeroizePair, DropPair
  <2>3. Fits(t)'
    BY <1>1, <2>1, <2>2 DEF Fits, Matched, Sound
  <2> QED BY <1>1, <1>2, <2>1, <2>2, <2>3, OneThread
<1>4. CASE ZeroizeShared(t) \/ DropShared(t)
  <2>1. UNCHANGED << task, static, ephemeral, call >>
    BY <1>4 DEF ZeroizeShared, DropShared
  <2>2. PICK agreed : /\ agreed.st \in {"none", "wiped"} /\ agreed.bytes = Zero
                      /\ shared' = [shared EXCEPT ![t] = agreed]
    BY <1>4 DEF ZeroizeShared, DropShared, NoAgreed, Agreed
  <2>3. Fits(t)'
    BY <1>1, <2>1, <2>2 DEF Fits, Matched, Sound
  <2> QED BY <1>1, <1>2, <2>1, <2>2, <2>3, OneThread
<1> QED BY <1>3, <1>4

\* The life of the static key.
LEMMA StaticKeeps ==
  ASSUME IInv,
         \/ \E b \in Scalar : ImportStatic(b)
         \/ ZeroizeStatic \/ DropStatic
  PROVE  IInv'
<1> USE DEF IInv
<1>1. DispatchInv'
  BY DispatchIdle DEF ImportStatic, ZeroizeStatic, DropStatic
<1>2. UNCHANGED << task, ephemeral, shared, call >>
  BY DEF ImportStatic, ZeroizeStatic, DropStatic
<1>3. static' \in KeySet /\ (static'.st \in {"none", "wiped"} => static'.secret = 0)
  <2>1. static \in KeySet
    BY DEF KeyInv
  <2>2. ASSUME NEW b \in Scalar
        PROVE  Key("live", b, NoPoint) \in KeySet /\ Key("live", b, NoPoint).st = "live"
    BY DEF Key, KeySet
  <2> QED BY <2>1, <2>2, ErasedKeys DEF ImportStatic, ZeroizeStatic, DropStatic
<1>4. \A t \in Thread : Fits(t)'
  BY <1>2 DEF KeyInv, Fits, Matched, Sound
<1> QED BY <1>1, <1>2, <1>3, <1>4 DEF KeyInv

\* Entering a call that borrows or consumes a key, or uses none.
LEMMA EnteringKeeps ==
  ASSUME IInv, NEW t \in Thread,
         \/ \E p \in Point : Agree(t, p) \/ StaticAgree(t, p)
         \/ StaticPublicKey(t) \/ Other(t)
  PROVE  IInv'
<1> USE DEF IInv
<1>1. /\ ephemeral \in [Thread -> KeySet] /\ call \in [Thread -> CallSet]
      /\ shared = [u \in Thread |-> shared[u]] /\ Fits(t)
  BY DEF KeyInv
<1>2. PICK entry : Enter(t, entry)
  BY DEF Agree, StaticAgree, StaticPublicKey, Other
<1>3. /\ DispatchInv' /\ task[t] = NoTask /\ task'[t] # NoTask
      /\ \A u \in Thread : u # t => task'[u] = task[u]
  BY <1>2, EnterKeeps
<1>4. UNCHANGED << static, ephemeral, shared >> /\ call[t] = NoCall
  BY DEF Agree, StaticAgree, StaticPublicKey, Other
<1>5. PICK op \in {"agree", "static agree", "static public", "other"},
           p \in Point \cup {NoPoint} : call' = [call EXCEPT ![t] = Call(op, p)]
  BY DEF Agree, StaticAgree, StaticPublicKey, Other
<1>6. Call(op, p) \in CallSet /\ Call(op, p) # NoCall /\ Call(op, p).op # "pair"
  BY DEF Call, NoCall, CallSet
<1>7. NoCall.op = "none"
  BY DEF NoCall, Call
<1>8. Fits(t)'
  BY <1>1, <1>3, <1>4, <1>5, <1>6, <1>7 DEF Fits, Matched, Sound
<1> QED BY <1>1, <1>3, <1>4, <1>5, <1>6, <1>8, OneThread

\* Leaving one: agree returns a sound agreement or refuses, and the
\* ephemeral key does not outlive it.
LEMMA LeavingKeeps ==
  ASSUME IInv, NEW t \in Thread,
         AgreeDone(t) \/ StaticAgreeDone(t) \/ StaticPublicKeyDone(t) \/ OtherDone(t)
  PROVE  IInv'
<1> USE DEF IInv
<1>1. /\ ephemeral \in [Thread -> KeySet] /\ call \in [Thread -> CallSet]
      /\ shared = [u \in Thread |-> shared[u]] /\ Fits(t)
  BY DEF KeyInv
<1>2. /\ DispatchInv' /\ task'[t] = NoTask
      /\ \A u \in Thread : u # t => task'[u] = task[u]
  BY LeaveKeeps DEF AgreeDone, StaticAgreeDone, StaticPublicKeyDone, OtherDone
<1>3. call' = [call EXCEPT ![t] = NoCall] /\ static' = static /\ call[t].op # "pair"
  BY DEF AgreeDone, StaticAgreeDone, StaticPublicKeyDone, OtherDone
<1>4. NoCall \in CallSet /\ NoCall.op = "none"
  BY DEF Call, NoCall, CallSet
<1>5. CASE AgreeDone(t)
  <2> DEFINE key == ephemeral[t]
             own == IF key.st = "live" THEN key.public_key ELSE Base(key.secret)
             r   == Result(Mult(key.secret, call[t].peer), own, call[t].peer)
  <2>1. own = Base(key.secret)
    BY <1>1 DEF Fits, Matched
  <2>2. /\ r.st \in {"none", "live"}
        /\ r.st = "none" => r.bytes = Zero
        /\ Sound(r)
    BY <2>1, ResultSound
  <2>3. /\ shared' = [shared EXCEPT ![t] = r]
        /\ ephemeral' = [ephemeral EXCEPT ![t] = Dropped(key)]
    BY <1>5 DEF AgreeDone
  <2>4. Dropped(key) \in KeySet /\ Dropped(key).st = "none" /\ Dropped(key).secret = 0
    BY <1>1, ErasedKeys
  <2> HIDE DEF key, own, r
  <2>5. Fits(t)'
    BY <1>1, <1>2, <1>3, <1>4, <2>2, <2>3, <2>4 DEF Fits, Matched, Sound
  <2> QED BY <1>1, <1>2, <1>3, <1>4, <2>3, <2>4, <2>5, OneThread
<1>6. CASE StaticAgreeDone(t)
  <2> DEFINE r == Result(Mult(static.secret, call[t].peer), Base(static.secret), call[t].peer)
  <2>1. /\ r.st \in {"none", "live"}
        /\ r.st = "none" => r.bytes = Zero
        /\ Sound(r)
    BY ResultSound
  <2>2. shared' = [shared EXCEPT ![t] = r] /\ ephemeral' = ephemeral
    BY <1>6 DEF StaticAgreeDone
  <2> HIDE DEF r
  <2>3. Fits(t)'
    BY <1>1, <1>2, <1>3, <1>4, <2>1, <2>2 DEF Fits, Matched, Sound
  <2> QED BY <1>1, <1>2, <1>3, <1>4, <2>2, <2>3, OneThread
<1>7. CASE StaticPublicKeyDone(t) \/ OtherDone(t)
  <2>1. UNCHANGED << ephemeral, shared >>
    BY <1>7 DEF StaticPublicKeyDone, OtherDone
  <2>2. Fits(t)'
    BY <1>1, <1>2, <1>3, <1>4, <2>1 DEF Fits, Matched, Sound
  <2> QED BY <1>1, <1>2, <1>3, <1>4, <2>1, <2>2, OneThread
<1> QED BY <1>5, <1>6, <1>7

\* Steps of a cached() call and clearings of the cache touch no key.
LEMMA KeysRest ==
  ASSUME IInv, NEW t \in Thread, UNCHANGED keyVars, Consult(t) \/ ResetCache(t)
  PROVE  IInv'
<1> USE DEF IInv
<1>1. DispatchInv' /\ \A u \in Thread : (task'[u] = NoTask <=> task[u] = NoTask)
  BY ConsultKeeps, ResetKeeps
<1>2. UNCHANGED << static, ephemeral, shared, call >>
  BY DEF keyVars
<1>3. \A u \in Thread : Fits(u)'
  BY <1>1, <1>2 DEF KeyInv, Fits, Matched, Sound
<1> QED BY <1>1, <1>2, <1>3 DEF KeyInv

-----------------------------------------------------------------------------
\* Every step keeps the invariant.
LEMMA NextKeeps == IInv /\ [Next]_vars => IInv'
<1> SUFFICES ASSUME IInv, [Next]_vars PROVE IInv'
  OBVIOUS
<1>1. ASSUME NEW t \in Thread, Proceed(t) PROVE IInv'
  BY <1>1, KeysRest, MakingKeeps, LeavingKeeps DEF Proceed
<1>2. ASSUME NEW t \in Thread, Start(t) PROVE IInv'
  BY <1>2, MakingKeeps, EnteringKeeps, ErasingKeeps, KeysRest DEF Start
<1>3. ASSUME \/ \E b \in Scalar : ImportStatic(b)
             \/ ZeroizeStatic \/ DropStatic
      PROVE  IInv'
  BY <1>3, StaticKeeps
<1>4. CASE UNCHANGED vars
  <2>1. DispatchInv'
    BY <1>4, DispatchIdle DEF IInv, vars
  <2>2. UNCHANGED << task, static, ephemeral, shared, call >>
    BY <1>4 DEF vars, keyVars
  <2>3. \A t \in Thread : Fits(t)'
    BY <2>2 DEF IInv, KeyInv, Fits, Matched, Sound
  <2> QED BY <2>1, <2>2, <2>3 DEF IInv, KeyInv
<1> QED BY <1>1, <1>2, <1>3, <1>4 DEF Next

\* The invariant holds in every reachable state.
THEOREM Inductive == Spec => []IInv
BY InitIInv, NextKeeps, PTL DEF Spec

\* The variables of keys, calls and cache keep their types, and a thread is
\* inside a key operation exactly while it is inside a dispatched routine.
THEOREM TypeCorrect == Spec => []TypeOK
<1>1. IInv => TypeOK
  <2> SUFFICES ASSUME IInv PROVE TypeOK
    OBVIOUS
  <2>1. \A t \in Thread : ephemeral[t].st = "making" <=> call[t].op = "pair"
    BY DEF IInv, KeyInv, Fits
  <2>2. \A t \in Thread : /\ shared[t].st \in {"none", "live", "wiped"}
                         /\ (task[t] = NoTask <=> call[t] = NoCall)
    BY DEF IInv, KeyInv, Fits
  <2>3. \A t \in Thread : task[t] \in TaskSet
    BY DEF IInv, DispatchInv
  <2> QED BY <2>1, <2>2, <2>3 DEF IInv, DispatchInv, KeyInv, TypeOK, TaskSet
<1> QED BY <1>1, Inductive, PTL

\* No probe, no routine and no caller ever executes an instruction that the
\* CPU and its operating system do not support, for any number of threads,
\* resets, calls and stale loads.
THEOREM InstructionsSupported == Spec => []NoIllegalInstruction
<1>1. IInv => NoIllegalInstruction
  BY DEF IInv, DispatchInv, NoIllegalInstruction
<1> QED BY <1>1, Inductive, PTL

\* No dropped, zeroized, consumed or half-made key leaves its scalar behind.
THEOREM SecretsAreErased == Spec => []SecretsErased
<1>1. IInv => SecretsErased
  BY DEF IInv, KeyInv, Fits, SecretsErased
<1> QED BY <1>1, Inductive, PTL

\* Both sides of an agreement hold the same secret, and it is never zero.
THEOREM AgreementsHold == Spec => []AgreementHolds
<1>1. IInv => AgreementHolds
  <2> SUFFICES ASSUME IInv, NEW t \in Thread, NEW u \in Thread, shared[t].st = "live"
               PROVE  /\ shared[t].bytes # Zero
                      /\ /\ shared[u].st = "live"
                         /\ shared[t].own = shared[u].with
                         /\ shared[u].own = shared[t].with
                         => shared[t].bytes = shared[u].bytes
    BY DEF AgreementHolds
  <2>1. Sound(shared[t]) /\ Sound(shared[u])
    BY DEF IInv, KeyInv, Fits
  <2>2. shared[t].bytes = {shared[t].own[2], shared[t].with[2]}
    BY <2>1 DEF Sound
  <2>3. shared[u].st = "live" => shared[u].bytes = {shared[u].own[2], shared[u].with[2]}
    BY <2>1 DEF Sound
  <2> QED BY <2>2, <2>3 DEF Zero
<1> QED BY <1>1, Inductive, PTL

-----------------------------------------------------------------------------
\* The steps of a key operation other than the one inside cached() leave the
\* cache word, the views and the locals of cached() alone.
LEMMA StepsOfTheCache == [Next]_vars => [CacheNext]_cacheVars
<1> SUFFICES ASSUME [Next]_vars PROVE CacheNext \/ UNCHANGED cacheVars
  BY DEF cacheVars, cacheVars
<1>1. ASSUME NEW t \in Thread, Consult(t) PROVE CacheNext
  BY <1>1 DEF Consult, CacheNext
<1>2. ASSUME NEW t \in Thread, ResetCache(t) PROVE CacheNext
  BY <1>2 DEF ResetCache, CacheNext
<1>3. CASE UNCHANGED vars
  BY <1>3 DEF vars
<1> QED
  BY <1>1, <1>2, <1>3 DEF Next, FillFails, FromEntropy, PairMade, ZeroizePair,
     DropPair, ImportStatic, ZeroizeStatic, DropStatic, Agree, StaticAgree,
     StaticPublicKey, AgreeDone, StaticAgreeDone, StaticPublicKeyDone,
     ZeroizeShared, DropShared, Other, OtherDone, Enter, Leave, Proceed, Start

\* Whatever key operations do around it, the cache they consult is the one of
\* FeatureCache: what is proved of it below holds inside the whole system.
THEOREM CacheImplemented == Spec => CacheSpec
<1>1. Init => CacheInit
  BY DEF Init, DispatchInit
<1> QED BY <1>1, StepsOfTheCache, PTL DEF Spec, CacheSpec

-----------------------------------------------------------------------------
(***************************************************************************)
(* The cache on its own, for any number of features.                       *)
(***************************************************************************)
\* The empty words among the first k stores: every probe follows the reading
\* of one, and a thread reads none twice.
Empties(w, k) == {i \in 1 .. k : ~w[i].cached}
Misses(w, k)  == Cardinality(Empties(w, k))

\* Populated words, locals and results all hold what the CPU has.
Truthful ==
  /\ \A i \in 1 .. Len(writes) : writes[i].cached => writes[i].bits = machine
  /\ \A t \in Thread : pc[t] = "store" => found[t] = machine
  /\ NeverDisagree

\* A thread's probes are covered by the empty words strictly before its view;
\* inside cached() the empty word it has just read is one more.
Covered(t) ==
  /\ pc[t] # "store" => probes[t] <= Misses(writes, view[t] - 1)
  /\ pc[t] = "store" => probes[t] <= Misses(writes, view[t])
  /\ pc[t] # "idle"  => ~writes[view[t]].cached

CacheInv == /\ CacheTypeOK
            /\ Truthful
            /\ Misses(writes, Len(writes)) = 1 + resets
            /\ \A t \in Thread : Covered(t)

-----------------------------------------------------------------------------
\* A prefix has finitely many empty words, so they can be counted.
LEMMA EmptiesFinite ==
  ASSUME NEW w, NEW k \in Nat
  PROVE  IsFiniteSet(Empties(w, k)) /\ Misses(w, k) \in Nat
<1>1. IsFiniteSet(1 .. k)
  BY FS_Interval
<1>2. Empties(w, k) \in SUBSET (1 .. k)
  BY DEF Empties
<1>3. IsFiniteSet(Empties(w, k))
  BY <1>1, <1>2, FS_Subset
<1> QED BY <1>3, FS_CardinalityType DEF Misses

\* Longer prefixes have no fewer empty words.
LEMMA MissesMonotone ==
  ASSUME NEW w, NEW j \in Nat, NEW k \in Nat, j <= k
  PROVE  Misses(w, j) <= Misses(w, k)
<1>1. Empties(w, j) \in SUBSET Empties(w, k)
  BY DEF Empties
<1> QED BY <1>1, EmptiesFinite, FS_Subset DEF Misses

\* One more store counts if it is empty.
LEMMA MissesStep ==
  ASSUME NEW w, NEW k \in Nat \ {0}
  PROVE  Misses(w, k) = IF w[k].cached THEN Misses(w, k - 1)
                                       ELSE Misses(w, k - 1) + 1
<1>1. k - 1 \in Nat
  OBVIOUS
<1>2. IsFiniteSet(Empties(w, k - 1))
  BY <1>1, EmptiesFinite
<1>3. CASE w[k].cached
  <2>1. Empties(w, k) = Empties(w, k - 1)
    BY <1>3 DEF Empties
  <2> QED BY <1>3, <2>1 DEF Misses
<1>4. CASE ~w[k].cached
  <2>1. Empties(w, k) = Empties(w, k - 1) \cup {k}
    BY <1>4 DEF Empties
  <2>2. k \notin Empties(w, k - 1)
    BY DEF Empties
  <2>3. Cardinality(Empties(w, k - 1) \cup {k}) = Cardinality(Empties(w, k - 1)) + 1
    BY <1>2, <2>2, FS_AddElement
  <2> QED BY <1>4, <2>1, <2>3 DEF Misses
<1> QED BY <1>3, <1>4

\* A store leaves the count of every older prefix alone.
LEMMA MissesOfAppend ==
  ASSUME NEW w \in Seq(WordSet), NEW x \in WordSet, NEW k \in 0 .. Len(w)
  PROVE  Misses(Append(w, x), k) = Misses(w, k)
<1>1. \A i \in 1 .. k : Append(w, x)[i] = w[i]
  OBVIOUS
<1>2. Empties(Append(w, x), k) = Empties(w, k)
  BY <1>1 DEF Empties
<1> QED BY <1>2 DEF Misses

-----------------------------------------------------------------------------
\* The invariant holds of the single empty word every process starts with.
LEMMA CacheInitially == CacheInit => CacheInv
<1> SUFFICES ASSUME CacheInit PROVE CacheInv
  OBVIOUS
<1> USE DEF CacheInit
<1>1. EmptyWord \in WordSet /\ EmptyWord.cached = FALSE
  BY DEF EmptyWord, Word, WordSet
<1>2. writes \in Seq(WordSet) /\ Len(writes) = 1 /\ writes[1] = EmptyWord
  BY <1>1
<1>3. CacheTypeOK
  BY <1>2 DEF CacheTypeOK
<1>4. Truthful
  BY <1>1, <1>2 DEF Truthful, NeverDisagree
<1>5. Misses(writes, 0) = 0
  <2>1. Empties(writes, 0) = {}
    BY DEF Empties
  <2> QED BY <2>1, FS_EmptySet DEF Misses
<1>6. Misses(writes, 1) = 1
  <2>1. Misses(writes, 1) = IF writes[1].cached THEN Misses(writes, 1 - 1)
                                                ELSE Misses(writes, 1 - 1) + 1
    BY MissesStep
  <2> QED BY <1>1, <1>2, <1>5, <2>1
<1>7. \A t \in Thread : Covered(t)
  BY <1>5 DEF Covered
<1> QED BY <1>2, <1>3, <1>4, <1>6, <1>7 DEF CacheInv

\* What a store does to the count and to the other threads.
LEMMA PublishKeeps ==
  ASSUME CacheInv, NEW t \in Thread, NEW x \in WordSet, Publish(t, x)
  PROVE  LET n == Len(writes)
         IN  /\ writes' \in Seq(WordSet) /\ Len(writes') = n + 1
             /\ \A i \in 1 .. n : writes'[i] = writes[i]
             /\ writes'[n + 1] = x
             /\ view' \in [Thread -> Nat \ {0}]
             /\ view'[t] = n + 1
             /\ \A u \in Thread : u # t => view'[u] = view[u]
             /\ \A u \in Thread : view'[u] <= n + 1
             /\ Misses(writes', n) = Misses(writes, n)
             /\ Misses(writes', n + 1) =
                  IF x.cached THEN Misses(writes, n) ELSE Misses(writes, n) + 1
             /\ \A u \in Thread :
                  /\ Misses(writes', view[u]) = Misses(writes, view[u])
                  /\ Misses(writes', view[u] - 1) = Misses(writes, view[u] - 1)
<1> DEFINE n == Len(writes)
<1>1. /\ writes \in Seq(WordSet) /\ n \in Nat
      /\ view \in [Thread -> Nat \ {0}]
      /\ \A u \in Thread : view[u] <= n
  BY DEF CacheInv, CacheTypeOK
<1>2. writes' = Append(writes, x) /\ view' = [view EXCEPT ![t] = n + 1]
  BY DEF Publish
<1>3. /\ writes' \in Seq(WordSet) /\ Len(writes') = n + 1
      /\ \A i \in 1 .. n : writes'[i] = writes[i]
      /\ writes'[n + 1] = x
  BY <1>1, <1>2
<1>4. /\ view' \in [Thread -> Nat \ {0}]
      /\ view'[t] = n + 1
      /\ \A u \in Thread : u # t => view'[u] = view[u]
      /\ \A u \in Thread : view'[u] <= n + 1
  BY <1>1, <1>2
<1>5. ASSUME NEW k \in 0 .. n PROVE Misses(writes', k) = Misses(writes, k)
  BY <1>1, <1>2, MissesOfAppend
<1>6. Misses(writes', n + 1) =
        IF x.cached THEN Misses(writes, n) ELSE Misses(writes, n) + 1
  <2>1. n + 1 \in Nat \ {0} /\ (n + 1) - 1 = n /\ n \in 0 .. n
    BY <1>1
  <2>2. Misses(writes', n + 1) =
          IF writes'[n + 1].cached THEN Misses(writes', (n + 1) - 1)
                                   ELSE Misses(writes', (n + 1) - 1) + 1
    BY <2>1, MissesStep
  <2> QED BY <1>3, <1>5, <2>1, <2>2
<1>7. ASSUME NEW u \in Thread PROVE view[u] \in 0 .. n /\ view[u] - 1 \in 0 .. n
  BY <1>1
<1>8. n \in 0 .. n
  BY <1>1
<1> HIDE DEF n
<1> QED BY <1>3, <1>4, <1>5, <1>6, <1>7, <1>8 DEF n

\* Every step of cached() and reset_cache() keeps the invariant.
LEMMA CacheSteps == CacheInv /\ [CacheNext]_cacheVars => CacheInv'
<1> SUFFICES ASSUME CacheInv, [CacheNext]_cacheVars PROVE CacheInv'
  OBVIOUS
<1>0. /\ writes \in Seq(WordSet) /\ Len(writes) \in Nat
      /\ machine \in SUBSET Feature
      /\ view \in [Thread -> Nat \ {0}]
      /\ \A t \in Thread : view[t] <= Len(writes)
      /\ pc \in [Thread -> {"idle", "probe", "store"}]
      /\ found \in [Thread -> SUBSET Feature]
      /\ returned \in [Thread -> SUBSET SUBSET Feature]
      /\ probes \in [Thread -> Nat]
      /\ resets \in Nat
  BY DEF CacheInv, CacheTypeOK
<1>1. ASSUME NEW t \in Thread, Hit(t) PROVE CacheInv'
  <2>1. PICK i \in view[t] .. Len(writes) :
          /\ pc[t] = "idle" /\ writes[i].cached
          /\ view' = [view EXCEPT ![t] = i]
          /\ returned' = [returned EXCEPT ![t] = {writes[i].bits}]
          /\ UNCHANGED << machine, writes, pc, found, probes, resets >>
    BY <1>1 DEF Hit
  <2>2. i \in 1 .. Len(writes) /\ i \in Nat \ {0} /\ i - 1 \in Nat
        /\ view[t] - 1 \in Nat /\ view[t] - 1 <= i - 1
    BY <1>0, <2>1
  <2>3. writes[i].bits = machine /\ writes[i].bits \in SUBSET Feature
    BY <1>0, <2>1, <2>2 DEF CacheInv, Truthful, WordSet
  <2>4. CacheTypeOK'
    BY <1>0, <2>1, <2>2, <2>3 DEF CacheTypeOK
  <2>5. Truthful'
    BY <1>0, <2>1, <2>3 DEF CacheInv, Truthful, NeverDisagree
  <2>6. Covered(t)'
    <3>1. probes[t] <= Misses(writes, view[t] - 1)
      BY <2>1 DEF CacheInv, Covered
    <3>2. Misses(writes, view[t] - 1) <= Misses(writes, i - 1)
          /\ Misses(writes, view[t] - 1) \in Nat /\ Misses(writes, i - 1) \in Nat
      BY <2>2, MissesMonotone, EmptiesFinite
    <3>3. probes[t] <= Misses(writes, i - 1)
      BY <1>0, <3>1, <3>2
    <3> QED BY <1>0, <2>1, <3>3 DEF Covered
  <2>7. ASSUME NEW u \in Thread, u # t PROVE Covered(u)'
    BY <1>0, <2>1, <2>7 DEF CacheInv, Covered
  <2> QED BY <2>1, <2>4, <2>5, <2>6, <2>7 DEF CacheInv
<1>2. ASSUME NEW t \in Thread, Miss(t) PROVE CacheInv'
  <2>1. PICK i \in view[t] .. Len(writes) :
          /\ pc[t] = "idle" /\ ~writes[i].cached
          /\ view' = [view EXCEPT ![t] = i]
          /\ pc' = [pc EXCEPT ![t] = "probe"]
          /\ UNCHANGED << machine, writes, found, returned, probes, resets >>
    BY <1>2 DEF Miss
  <2>2. i \in 1 .. Len(writes) /\ i \in Nat \ {0} /\ i - 1 \in Nat
        /\ view[t] - 1 \in Nat /\ view[t] - 1 <= i - 1
    BY <1>0, <2>1
  <2>3. CacheTypeOK'
    BY <1>0, <2>1, <2>2 DEF CacheTypeOK
  <2>4. Truthful'
    BY <1>0, <2>1 DEF CacheInv, Truthful, NeverDisagree
  <2>5. Covered(t)'
    <3>1. probes[t] <= Misses(writes, view[t] - 1)
      BY <2>1 DEF CacheInv, Covered
    <3>2. Misses(writes, view[t] - 1) <= Misses(writes, i - 1)
          /\ Misses(writes, view[t] - 1) \in Nat /\ Misses(writes, i - 1) \in Nat
      BY <2>2, MissesMonotone, EmptiesFinite
    <3>3. probes[t] <= Misses(writes, i - 1)
      BY <1>0, <3>1, <3>2
    <3> QED BY <1>0, <2>1, <3>3 DEF Covered
  <2>6. ASSUME NEW u \in Thread, u # t PROVE Covered(u)'
    BY <1>0, <2>1, <2>6 DEF CacheInv, Covered
  <2> QED BY <2>1, <2>3, <2>4, <2>5, <2>6 DEF CacheInv
<1>3. ASSUME NEW t \in Thread, Probe(t) PROVE CacheInv'
  <2>1. /\ pc[t] = "probe"
        /\ found' = [found EXCEPT ![t] = machine]
        /\ probes' = [probes EXCEPT ![t] = probes[t] + 1]
        /\ pc' = [pc EXCEPT ![t] = "store"]
        /\ UNCHANGED << machine, writes, view, returned, resets >>
    BY <1>3 DEF Probe
  <2>2. CacheTypeOK'
    BY <1>0, <2>1 DEF CacheTypeOK
  <2>3. Truthful'
    BY <1>0, <2>1 DEF CacheInv, Truthful, NeverDisagree
  <2>4. Covered(t)'
    <3>1. probes[t] <= Misses(writes, view[t] - 1) /\ ~writes[view[t]].cached
      BY <2>1 DEF CacheInv, Covered
    <3>2. Misses(writes, view[t]) = Misses(writes, view[t] - 1) + 1
      <4>1. view[t] \in Nat \ {0}
        BY <1>0
      <4> QED BY <3>1, <4>1, MissesStep
    <3>3. Misses(writes, view[t] - 1) \in Nat
      <4>1. view[t] - 1 \in Nat
        BY <1>0
      <4> QED BY <4>1, EmptiesFinite
    <3>4. probes[t] + 1 <= Misses(writes, view[t])
      BY <1>0, <3>1, <3>2, <3>3
    <3> QED BY <1>0, <2>1, <3>1, <3>4 DEF Covered
  <2>5. ASSUME NEW u \in Thread, u # t PROVE Covered(u)'
    BY <1>0, <2>1, <2>5 DEF CacheInv, Covered
  <2> QED BY <2>1, <2>2, <2>3, <2>4, <2>5 DEF CacheInv
<1>4. ASSUME NEW t \in Thread, Store(t) PROVE CacheInv'
  <2> DEFINE x == Word(TRUE, found[t])   n == Len(writes)
  <2>1. /\ pc[t] = "store" /\ Publish(t, x)
        /\ returned' = [returned EXCEPT ![t] = {found[t]}]
        /\ pc' = [pc EXCEPT ![t] = "idle"]
        /\ UNCHANGED << machine, found, probes, resets >>
    BY <1>4 DEF Store
  <2>2. x \in WordSet /\ x.cached = TRUE /\ x.bits = found[t]
    BY <1>0 DEF Word, WordSet
  <2>3. found[t] = machine
    BY <2>1 DEF CacheInv, Truthful
  <2> HIDE DEF x
  <2>4. /\ writes' \in Seq(WordSet) /\ Len(writes') = n + 1
        /\ \A i \in 1 .. n : writes'[i] = writes[i]
        /\ writes'[n + 1] = x
        /\ view' \in [Thread -> Nat \ {0}]
        /\ view'[t] = n + 1
        /\ \A u \in Thread : u # t => view'[u] = view[u]
        /\ \A u \in Thread : view'[u] <= n + 1
        /\ Misses(writes', n) = Misses(writes, n)
        /\ Misses(writes', n + 1) = Misses(writes, n)
        /\ \A u \in Thread :
             /\ Misses(writes', view[u]) = Misses(writes, view[u])
             /\ Misses(writes', view[u] - 1) = Misses(writes, view[u] - 1)
    BY <2>1, <2>2, PublishKeeps
  <2>5. CacheTypeOK'
    <3>1. returned' \in [Thread -> SUBSET SUBSET Feature]
      BY <1>0, <2>1
    <3>2. pc' \in [Thread -> {"idle", "probe", "store"}]
      BY <1>0, <2>1
    <3>3. \A u \in Thread : view'[u] <= Len(writes')
      BY <2>4
    <3> QED BY <1>0, <2>1, <2>4, <3>1, <3>2, <3>3 DEF CacheTypeOK
  <2>6. Truthful'
    <3>1. ASSUME NEW i \in 1 .. n + 1, writes'[i].cached
          PROVE  writes'[i].bits = machine
      <4>1. CASE i = n + 1
        BY <2>2, <2>3, <2>4, <4>1
      <4>2. CASE i # n + 1
        <5>1. i \in 1 .. n
          BY <1>0, <4>2
        <5> QED BY <2>4, <3>1, <5>1 DEF CacheInv, Truthful
      <4> QED BY <4>1, <4>2
    <3> QED BY <1>0, <2>1, <2>3, <2>4, <3>1 DEF CacheInv, Truthful, NeverDisagree
  <2>7. Covered(t)'
    <3>1. probes[t] <= Misses(writes, view[t])
      BY <2>1 DEF CacheInv, Covered
    <3>2. /\ Misses(writes, view[t]) <= Misses(writes, n)
          /\ Misses(writes, view[t]) \in Nat /\ Misses(writes, n) \in Nat
      <4>1. view[t] \in Nat /\ view[t] <= n /\ n \in Nat
        BY <1>0
      <4> QED BY <4>1, MissesMonotone, EmptiesFinite
    <3>3. probes[t] <= Misses(writes', n)
      BY <1>0, <2>4, <3>1, <3>2
    <3>4. view'[t] - 1 = n
      BY <1>0, <2>4
    <3>5. pc'[t] = "idle" /\ probes'[t] = probes[t]
      BY <1>0, <2>1
    <3> QED BY <3>3, <3>4, <3>5 DEF Covered
  <2>8. ASSUME NEW u \in Thread, u # t PROVE Covered(u)'
    <3>1. pc'[u] = pc[u] /\ probes'[u] = probes[u] /\ view'[u] = view[u]
      BY <1>0, <2>1, <2>4, <2>8
    <3>2. writes'[view[u]] = writes[view[u]]
      BY <1>0, <2>4
    <3> QED BY <2>4, <3>1, <3>2 DEF CacheInv, Covered
  <2> QED BY <2>1, <2>4, <2>5, <2>6, <2>7, <2>8 DEF CacheInv
<1>5. ASSUME NEW t \in Thread, Reset(t) PROVE CacheInv'
  <2> DEFINE x == EmptyWord   n == Len(writes)
  <2>1. /\ pc[t] = "idle" /\ Publish(t, x) /\ resets' = resets + 1
        /\ UNCHANGED << machine, pc, found, returned, probes >>
    BY <1>5 DEF Reset
  <2>2. x \in WordSet /\ x.cached = FALSE
    BY DEF EmptyWord, Word, WordSet
  <2> HIDE DEF x
  <2>4. /\ writes' \in Seq(WordSet) /\ Len(writes') = n + 1
        /\ \A i \in 1 .. n : writes'[i] = writes[i]
        /\ writes'[n + 1] = x
        /\ view' \in [Thread -> Nat \ {0}]
        /\ view'[t] = n + 1
        /\ \A u \in Thread : u # t => view'[u] = view[u]
        /\ \A u \in Thread : view'[u] <= n + 1
        /\ Misses(writes', n) = Misses(writes, n)
        /\ Misses(writes', n + 1) = Misses(writes, n) + 1
        /\ \A u \in Thread :
             /\ Misses(writes', view[u]) = Misses(writes, view[u])
             /\ Misses(writes', view[u] - 1) = Misses(writes, view[u] - 1)
    BY <2>1, <2>2, PublishKeeps
  <2>5. CacheTypeOK'
    BY <1>0, <2>1, <2>4 DEF CacheTypeOK
  <2>6. Truthful'
    <3>1. ASSUME NEW i \in 1 .. n + 1, writes'[i].cached
          PROVE  writes'[i].bits = machine
      <4>1. i # n + 1
        BY <2>2, <2>4, <3>1
      <4>2. i \in 1 .. n
        BY <1>0, <4>1
      <4> QED BY <2>4, <3>1, <4>2 DEF CacheInv, Truthful
    <3> QED BY <1>0, <2>1, <2>4, <3>1 DEF CacheInv, Truthful, NeverDisagree
  <2>7. Covered(t)'
    <3>1. probes[t] <= Misses(writes, view[t] - 1)
      BY <2>1 DEF CacheInv, Covered
    <3>2. /\ Misses(writes, view[t] - 1) <= Misses(writes, n)
          /\ Misses(writes, view[t] - 1) \in Nat /\ Misses(writes, n) \in Nat
      <4>1. view[t] - 1 \in Nat /\ view[t] - 1 <= n /\ n \in Nat
        BY <1>0
      <4> QED BY <4>1, MissesMonotone, EmptiesFinite
    <3>3. probes[t] <= Misses(writes', n)
      BY <1>0, <2>4, <3>1, <3>2
    <3>4. view'[t] - 1 = n
      BY <1>0, <2>4
    <3> QED BY <2>1, <3>3, <3>4 DEF Covered
  <2>8. ASSUME NEW u \in Thread, u # t PROVE Covered(u)'
    <3>1. pc'[u] = pc[u] /\ probes'[u] = probes[u] /\ view'[u] = view[u]
      BY <1>0, <2>1, <2>4, <2>8
    <3>2. writes'[view[u]] = writes[view[u]]
      BY <1>0, <2>4
    <3> QED BY <2>4, <3>1, <3>2 DEF CacheInv, Covered
  <2>9. (Misses(writes, Len(writes)) = 1 + resets)'
    <3>1. Misses(writes, n) = 1 + resets
      BY DEF CacheInv
    <3> QED BY <1>0, <2>1, <2>4, <3>1
  <2> QED BY <2>5, <2>6, <2>7, <2>8, <2>9 DEF CacheInv
<1>6. CASE UNCHANGED cacheVars
  BY <1>6 DEF cacheVars, CacheInv, CacheTypeOK, Truthful, NeverDisagree, Covered
<1> QED BY <1>1, <1>2, <1>3, <1>4, <1>5, <1>6 DEF CacheNext

\* The invariant holds throughout.
LEMMA CacheInvariance == CacheSpec => []CacheInv
  BY CacheInitially, CacheSteps, PTL DEF CacheSpec

-----------------------------------------------------------------------------
\* The cache word, the views and the locals of cached() keep their types, and
\* no thread has seen a store that was not made.
THEOREM CacheTypeCorrect == CacheSpec => []CacheTypeOK
  BY CacheInvariance, PTL DEF CacheInv

\* Racing initialisations and resets never make cached() return anything but
\* what the CPU has, for any number of threads.
THEOREM CallersAgree == CacheSpec => []NeverDisagree
  BY CacheInvariance, PTL DEF CacheInv, Truthful

\* A thread probes at most once plus once per reset, for any number of
\* threads and any staleness the relaxed loads allow.
THEOREM ProbesAreBounded == CacheSpec => []ProbesBounded
<1>1. CacheInv => ProbesBounded
  <2> SUFFICES ASSUME CacheInv, NEW t \in Thread PROVE probes[t] <= 1 + resets
    BY DEF ProbesBounded
  <2> DEFINE n == Len(writes)   v == view[t]
  <2>1. v \in Nat \ {0} /\ v - 1 \in Nat /\ v <= n /\ n \in Nat
        /\ v - 1 <= n /\ probes[t] \in Nat /\ resets \in Nat
    BY DEF CacheInv, CacheTypeOK
  <2>2. Misses(writes, n) = 1 + resets
    BY DEF CacheInv
  <2>3. probes[t] <= Misses(writes, v) \/ probes[t] <= Misses(writes, v - 1)
    BY DEF CacheInv, Covered
  <2> HIDE DEF n, v
  <2>4. /\ Misses(writes, v) <= Misses(writes, n)
        /\ Misses(writes, v - 1) <= Misses(writes, n)
        /\ Misses(writes, v) \in Nat /\ Misses(writes, v - 1) \in Nat
    BY <2>1, MissesMonotone, EmptiesFinite
  <2> QED BY <2>1, <2>2, <2>3, <2>4
<1> QED BY <1>1, CacheInvariance, PTL
=============================================================================
