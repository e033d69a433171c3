------------------------------ MODULE MCX25519 ------------------------------
(***************************************************************************)
(* A small instance of X25519: CPUs that differ where the probes branch.   *)
(***************************************************************************)
EXTENDS X25519, TLC

\* A Haswell with BMI2 and no ADX whose kernel has not enabled XSAVE; a later
\* CPU with SHA, BMI2 and ADX whose kernel has no AVX-512 state; Neoverse V1
\* under a kernel that emulates the ID registers.
MCCpu == {
  X86Cpu({"aes_ni", "pclmulqdq"}, {"bmi2", "avx2"}, {}),
  X86Cpu({"OSXSAVE", "aes_ni", "pclmulqdq"},
         {"sha_ni", "bmi2", "adx", "avx2", "vaes", "vpclmulqdq", "avx512f"},
         {"sse", "ymm"}),
  ArmCpu({"CPUID"}, "ARM", "NeoverseV1") }

\* Two keys that clamp differently, from each other and from all zeros.
MCScalar == {2, 4}

\* Histories that decide nothing any more: the probe counters, the local of a
\* cached() that has stored it, an answer that has been used.
MCView == << cpu, machine, writes, view, pc, resets, task, executed, calls, keyVars,
             [t \in Thread |-> IF pc[t] = "store" THEN found[t] ELSE {}],
             [t \in Thread |-> IF task[t].at = "run" THEN returned[t] ELSE {}] >>

MCSymmetry == Permutations(Thread)
=============================================================================
