---------------------------- MODULE CpuFeatures -----------------------------
(***************************************************************************)
(* What the probes read from a CPU, what they report of it, and what the   *)
(* CPU really executes.  The probes are Features::detect of                *)
(* crates/fastcrypto-x86/src/detect.rs and detect of                       *)
(* crates/fastcrypto-aarch64/src/x25519.rs; a feature is named after its   *)
(* accessor.                                                               *)
(***************************************************************************)
EXTENDS Integers

X86Features == {"sha_ni", "aes_ni", "pclmulqdq", "avx2", "vaes",
                "vpclmulqdq", "avx512f", "bmi2", "adx"}
ArmFeatures == {"wide_multiplier"}
AnyFeature  == X86Features \cup ArmFeatures

\* An x86_64 CPU is the CPUID bits of leaf 1 and of leaf 7 and the state
\* components enabled in XCR0, which without OSXSAVE has never been written.
X86Cpu(leaf1, leaf7, xcr0) ==
  [arch |-> "x86_64", leaf1 |-> leaf1, leaf7 |-> leaf7, xcr0 |-> xcr0]

\* An AArch64 CPU is what the kernel says in AT_HWCAP and its MIDR_EL1.
ArmCpu(hwcap, implementer, part) ==
  [arch |-> "aarch64", hwcap |-> hwcap, implementer |-> implementer, part |-> part]

(***************************************************************************)
(* The probes.                                                             *)
(***************************************************************************)
XCR0_AVX512 == {"opmask", "zmm_hi256", "hi16_zmm"}

\* XCR0 as the probe sees it: not read unless OSXSAVE is set.
ReadXcr0(cpu) == IF "OSXSAVE" \in cpu.leaf1 THEN cpu.xcr0 ELSE {}

YmmEnabled(cpu)    == {"sse", "ymm"} \subseteq ReadXcr0(cpu)
Avx512Enabled(cpu) == YmmEnabled(cpu) /\ XCR0_AVX512 \subseteq ReadXcr0(cpu)

DetectX86(cpu) ==
       {f \in {"pclmulqdq", "aes_ni"} : f \in cpu.leaf1}
  \cup {f \in {"sha_ni", "bmi2", "adx"} : f \in cpu.leaf7}
  \cup {f \in {"avx2", "vaes", "vpclmulqdq"} : f \in cpu.leaf7 /\ YmmEnabled(cpu)}
  \cup {f \in {"avx512f"} : f \in cpu.leaf7 /\ Avx512Enabled(cpu)}

WIDE_MULTIPLIER_PARTS == {"NeoverseV1", "NeoverseV2", "NeoverseV3"}

DetectArm(cpu) ==
  {f \in ArmFeatures : /\ "CPUID" \in cpu.hwcap
                       /\ cpu.implementer = "ARM"
                       /\ cpu.part \in WIDE_MULTIPLIER_PARTS}

Detect(cpu) == IF cpu.arch = "x86_64" THEN DetectX86(cpu) ELSE DetectArm(cpu)

\* The instructions beyond the baseline that a probe itself executes.
ProbeExecutes(cpu) ==
  IF cpu.arch = "x86_64" THEN {i \in {"xgetbv"} : "OSXSAVE" \in cpu.leaf1}
                         ELSE {i \in {"mrs"} : "CPUID" \in cpu.hwcap}

(***************************************************************************)
(* The architectures: the features whose instructions run to completion,   *)
(* and the two privileged-looking reads the probes make.  Integer          *)
(* extensions need only the CPU, vector state needs the operating system.  *)
(* Assumed of x86_64: leaf 7 exists and is true of the CPU (detect() reads *)
(* it without asking for the maximum leaf), and every CPU with the SHA     *)
(* extensions also has SSSE3 and SSE4.1.                                   *)
(***************************************************************************)
Executable(cpu) ==
  CASE cpu.arch = "x86_64" ->
         LET xsave == "OSXSAVE" \in cpu.leaf1
             ymm   == xsave /\ {"sse", "ymm"} \subseteq cpu.xcr0
             zmm   == ymm /\ XCR0_AVX512 \subseteq cpu.xcr0
         IN  {i \in X86Features \cup {"xgetbv"} :
                CASE i = "xgetbv"                         -> xsave
                  [] i \in {"aes_ni", "pclmulqdq"}        -> i \in cpu.leaf1
                  [] i \in {"sha_ni", "bmi2", "adx"}      -> i \in cpu.leaf7
                  [] i \in {"avx2", "vaes", "vpclmulqdq"} -> i \in cpu.leaf7 /\ ymm
                  [] i = "avx512f"                        -> i \in cpu.leaf7 /\ zmm}
    [] cpu.arch = "aarch64" ->
         ArmFeatures \cup {i \in {"mrs"} : "CPUID" \in cpu.hwcap}
=============================================================================
