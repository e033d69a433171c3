------------------------------ MODULE Dispatch ------------------------------
(***************************************************************************)
(* The calls that pick an implementation by CPU feature and run it:        *)
(* compress_blocks and x25519 / x25519_base of crates/fastcrypto-x86,      *)
(* x25519 / x25519_base of crates/fastcrypto-aarch64, and a caller that    *)
(* asks for the features and uses what they report.  Every call consults   *)
(* the process-wide cache of FeatureCache first; nothing is remembered     *)
(* from one call to the next.                                              *)
(*                                                                         *)
(* This module has the steps of a call; X25519 composes them with the keys *)
(* and states the system and its properties.                               *)
(***************************************************************************)
EXTENDS CpuFeatures, FeatureCache

CONSTANTS Cpu,          \* the CPUs it may run on
          MaxCalls      \* bound on dispatched calls

ASSUME CallAssumption == MaxCalls \in Nat

\* The library is built for these two architectures.
ASSUME CpuAssumption == \A c \in Cpu : c.arch \in {"x86_64", "aarch64"}

VARIABLES cpu,          \* the CPU of this process
          task,         \* task[t]: the dispatched call thread t is inside
          executed,     \* the instructions beyond the baseline executed so far
          calls         \* how many calls were made

Task(entry, at) == [entry |-> entry, at |-> at]
NoTask == Task("none", "none")

\* On AArch64 SHA-256 is portable and its Features cache guards no code.
Entries == IF cpu.arch = "x86_64"
           THEN {"compress_blocks", "x25519", "x25519_base", "features"}
           ELSE {"x25519", "x25519_base"}

\* Feature is AnyFeature or more: the cache holds what this CPU's probe reports.
DispatchInit == /\ cpu \in Cpu
                /\ CacheInit
                /\ machine = Detect(cpu)
                /\ task = [t \in Thread |-> NoTask]
                /\ executed = {}
                /\ calls = 0

\* SHA-NI when the CPU has it, the portable rounds when not.
CompressBlocks(features) == {f \in {"sha_ni"} : f \in features}

\* Slip checked by a mutant run: either extension is taken for both.
Variant_EitherFeature(features) ==
  IF features \cap {"bmi2", "adx"} # {} THEN "adx" ELSE "baseline"

\* The routine x25519 and x25519_base run on x86_64.
Variant(features) ==
  IF {"bmi2", "adx"} \subseteq features THEN "adx" ELSE "baseline"

\* The routine they run on AArch64.
ArmVariant(features) ==
  IF "wide_multiplier" \in features THEN "wide_multiplier" ELSE "standard"

\* The instructions beyond the baseline a routine is assembled from.
Uses(variant) == IF variant = "adx" THEN {"bmi2", "adx"} ELSE {}

\* The instructions an entry point executes once cached() has answered.
Executes(entry, features) ==
  CASE entry = "compress_blocks"     -> CompressBlocks(features)
    [] entry = "features"            -> features
    [] entry \in {"x25519", "x25519_base"} ->
         Uses(IF cpu.arch = "x86_64" THEN Variant(features) ELSE ArmVariant(features))

\* Thread t enters a dispatched call.
Enter(t, entry) ==
  /\ task[t] = NoTask
  /\ calls < MaxCalls
  /\ entry \in Entries
  /\ calls' = calls + 1
  /\ task' = [task EXCEPT ![t] = Task(entry, "cached")]
  /\ UNCHANGED << cpu, cacheVars, executed >>

\* One step of its cached(): the answer is at hand after a hit or a store.
Consult(t) ==
  /\ task[t].at = "cached"
  /\ \/ /\ Hit(t) \/ Store(t)
        /\ task' = [task EXCEPT ![t].at = "run"]
        /\ UNCHANGED executed
     \/ /\ Miss(t)
        /\ UNCHANGED << task, executed >>
     \/ /\ Probe(t)
        /\ executed' = executed \cup ProbeExecutes(cpu)
        /\ UNCHANGED task
  /\ UNCHANGED << cpu, calls >>

\* The chosen routine runs and the call returns.
Leave(t) ==
  /\ task[t].at = "run"
  /\ \E features \in returned[t] :
       executed' = executed \cup Executes(task[t].entry, features)
  /\ task' = [task EXCEPT ![t] = NoTask]
  /\ UNCHANGED << cpu, cacheVars, calls >>

\* reset_cache(), between two calls of t and in the middle of any other's.
ResetCache(t) ==
  /\ task[t] = NoTask
  /\ Reset(t)
  /\ UNCHANGED << cpu, task, executed, calls >>
=============================================================================
