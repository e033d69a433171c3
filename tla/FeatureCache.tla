---------------------------- MODULE FeatureCache ----------------------------
(***************************************************************************)
(* The process-wide cache behind Features::cached and reset_cache          *)
(* (crates/fastcrypto-x86/src/detect.rs; the same protocol guards the two  *)
(* caches of crates/fastcrypto-aarch64): a relaxed load, on a miss a probe *)
(* of the CPU and a relaxed store, with nothing in between held or locked. *)
(*                                                                         *)
(* The atomic word is its modification order, the sequence of its stores.  *)
(* A relaxed load may return any store that is not older than the newest   *)
(* one its thread has seen; accesses to the one word are coherent, so      *)
(* stores may be taken in the order they execute.                          *)
(***************************************************************************)
EXTENDS Integers, Sequences, FiniteSets

CONSTANTS Thread,       \* the threads of the process
          Feature,      \* the feature bits
          MaxResets     \* bound on reset_cache calls

ASSUME BoundAssumption == MaxResets \in Nat

VARIABLES machine,      \* what the CPU has; it never changes
          writes,       \* the stores to CACHE in modification order
          view,         \* view[t]: the newest store thread t has seen
          pc,           \* where thread t is inside cached()
          found,        \* found[t]: local f of cached()
          returned,     \* returned[t]: the results of t's last call, at most one
          probes,       \* probes[t]: how often t ran detect()
          resets        \* how often the cache was cleared

cacheVars == << machine, writes, view, pc, found, returned, probes, resets >>

\* A cache word: bit 31 (CACHED) and the feature bits below it.
Word(cached, bits) == [cached |-> cached, bits |-> bits]
EmptyWord == Word(FALSE, {})

CacheInit == /\ machine \in SUBSET Feature
        /\ writes = << EmptyWord >>
        /\ view = [t \in Thread |-> 1]
        /\ pc = [t \in Thread |-> "idle"]
        /\ found = [t \in Thread |-> {}]
        /\ returned = [t \in Thread |-> {}]
        /\ probes = [t \in Thread |-> 0]
        /\ resets = 0

\* Thread t stores word w; it can never again read an older one.
Publish(t, w) == /\ writes' = Append(writes, w)
                 /\ view' = [view EXCEPT ![t] = Len(writes) + 1]

\* Slip checked by a mutant run: the CACHED bit is not masked off.
Hit_Unmasked(t) ==
  /\ pc[t] = "idle"
  /\ \E i \in view[t] .. Len(writes) :
       /\ writes[i].cached
       /\ view' = [view EXCEPT ![t] = i]
       /\ returned' = [returned EXCEPT ![t] = {writes[i].bits \cup {"CACHED"}}]
  /\ UNCHANGED << machine, writes, pc, found, probes, resets >>

\* cached() finds a populated word and returns its feature bits.
Hit(t) ==
  /\ pc[t] = "idle"
  /\ \E i \in view[t] .. Len(writes) :
       /\ writes[i].cached
       /\ view' = [view EXCEPT ![t] = i]
       /\ returned' = [returned EXCEPT ![t] = {writes[i].bits}]
  /\ UNCHANGED << machine, writes, pc, found, probes, resets >>

\* cached() finds the word empty.
Miss(t) ==
  /\ pc[t] = "idle"
  /\ \E i \in view[t] .. Len(writes) :
       /\ ~writes[i].cached
       /\ view' = [view EXCEPT ![t] = i]
  /\ pc' = [pc EXCEPT ![t] = "probe"]
  /\ UNCHANGED << machine, writes, found, returned, probes, resets >>

\* Slip checked by a mutant run: an initialisation flag that reset_cache
\* does not clear: whoever does not get to probe spins.
Probe_Once(t) ==
  /\ pc[t] = "probe"
  /\ IF \A u \in Thread : probes[u] = 0
     THEN /\ found' = [found EXCEPT ![t] = machine]
          /\ probes' = [probes EXCEPT ![t] = @ + 1]
          /\ pc' = [pc EXCEPT ![t] = "store"]
     ELSE UNCHANGED << found, probes, pc >>
  /\ UNCHANGED << machine, writes, view, returned, resets >>

\* detect()
Probe(t) ==
  /\ pc[t] = "probe"
  /\ found' = [found EXCEPT ![t] = machine]
  /\ probes' = [probes EXCEPT ![t] = @ + 1]
  /\ pc' = [pc EXCEPT ![t] = "store"]
  /\ UNCHANGED << machine, writes, view, returned, resets >>

\* Slip checked by a mutant run: the word is stored without its CACHED bit,
\* which only an all-zero probe would show.
Store_Unmarked(t) ==
  /\ pc[t] = "store"
  /\ Publish(t, Word(found[t] # {}, found[t]))
  /\ returned' = [returned EXCEPT ![t] = {found[t]}]
  /\ pc' = [pc EXCEPT ![t] = "idle"]
  /\ UNCHANGED << machine, found, probes, resets >>

\* The store of f.bits | CACHED, and the return of f.
Store(t) ==
  /\ pc[t] = "store"
  /\ Publish(t, Word(TRUE, found[t]))
  /\ returned' = [returned EXCEPT ![t] = {found[t]}]
  /\ pc' = [pc EXCEPT ![t] = "idle"]
  /\ UNCHANGED << machine, found, probes, resets >>

\* Slip checked by a mutant run: clearing the bits but not CACHED.
Reset_KeepsMark(t) ==
  /\ pc[t] = "idle"
  /\ resets < MaxResets
  /\ Publish(t, Word(TRUE, {}))
  /\ resets' = resets + 1
  /\ UNCHANGED << machine, pc, found, returned, probes >>

\* reset_cache(), also while other threads are inside cached().
Reset(t) ==
  /\ pc[t] = "idle"
  /\ resets < MaxResets
  /\ Publish(t, EmptyWord)
  /\ resets' = resets + 1
  /\ UNCHANGED << machine, pc, found, returned, probes >>

CacheNext == \E t \in Thread :
          Hit(t) \/ Miss(t) \/ Probe(t) \/ Store(t) \/ Reset(t)

CacheSpec == CacheInit /\ [][CacheNext]_cacheVars

\* A thread that found the word empty is scheduled until its call returns.
Fairness == \A t \in Thread : WF_cacheVars(Probe(t) \/ Store(t))

FairSpec == CacheSpec /\ Fairness

(***************************************************************************)
(* Properties.                                                             *)
(***************************************************************************)
WordSet == [cached : BOOLEAN, bits : SUBSET Feature]

\* The variables have their types, and no view is ahead of the stores.
CacheTypeOK ==
  /\ machine \in SUBSET Feature
  /\ writes \in Seq(WordSet)
  /\ view \in [Thread -> Nat \ {0}]
  /\ \A t \in Thread : view[t] <= Len(writes)
  /\ pc \in [Thread -> {"idle", "probe", "store"}]
  /\ found \in [Thread -> SUBSET Feature]
  /\ returned \in [Thread -> SUBSET SUBSET Feature]
  /\ probes \in [Thread -> Nat]
  /\ resets \in Nat

\* The module doc, "racing initialisations may recompute but can never
\* disagree": no call returns anything but what the CPU has, whichever old
\* word it read and whoever reset the cache meanwhile.  Every accelerated
\* path rests on it.
NeverDisagree == \A t \in Thread : returned[t] \subseteq {machine}

\* Concurrent callers may each probe, but a thread that stored its probe
\* never reads an older empty word: it probes once, and once more for each
\* reset at most, however stale its loads are.
ProbesBounded == \A t \in Thread : probes[t] <= 1 + resets

\* A call that probes returns, wherever the other threads are stopped and
\* however often the cache is cleared under it: with "no initialisation flag"
\* (the doc of cached()) nobody waits for anybody.
EveryProbeReturns == \A t \in Thread : pc[t] # "idle" ~> pc[t] = "idle"

\* The doc of the aarch64 Features::cached: "probing at most once per
\* process", in the absence of resets.
ProbesOncePerProcess ==
  resets = 0 => \A t, u \in Thread : t # u => probes[t] + probes[u] <= 1
=============================================================================
