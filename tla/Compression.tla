----------------------------- MODULE Compression -----------------------------
(***************************************************************************)
(* A chaining state driven over the blocks of a message by calls of a      *)
(* compressor, each call over one or more blocks: the portable code, or    *)
(* for SHA-256 the SHA-NI code, chosen anew for every call as the          *)
(* dispatching compress_blocks of fastcrypto-x86 does.  A step is one      *)
(* invocation of a round macro.  Beside it runs the function of FIPS 180-4 *)
(* (ref, a history variable).                                              *)
(***************************************************************************)
EXTENDS ShaNi

CONSTANT Message        \* records: hash, its padded blocks of bytes, digest

ASSUME MessageAssumption ==
  \A m \in Message :
    /\ m.hash \in DOMAIN Hash
    /\ m.blocks \in Seq([1 .. 2 * Hash[m.hash].fn.w -> 0 .. 255])
    /\ m.blocks # << >>

VARIABLES msg,          \* the message
          chain,        \* the chaining state the caller holds
          done,         \* blocks already compressed
          left,         \* blocks left in the present call
          cpu,          \* the locals of the present call
          at,           \* rounds done of the present block
          ref           \* the same block in FIPS 180-4: chain, v and W

vars == << msg, chain, done, left, cpu, at, ref >>

Fn == Hash[msg.hash].fn
Idle == [backend |-> "none", s |-> << >>]

RefBlock(c, n) == [chain |-> c, v |-> c, W |-> BeWords(Fn, msg.blocks[n])]

Init == /\ msg \in Message
        /\ chain = Hash[msg.hash].iv
        /\ done = 0
        /\ left = 0
        /\ cpu = Idle
        /\ at = 0
        /\ ref = RefBlock(Hash[msg.hash].iv, 1)

\* A call over the next n blocks, its locals set up by s.
Call(backend, n, s) == /\ cpu = Idle
                       /\ n <= Len(msg.blocks) - done
                       /\ left' = n
                       /\ cpu' = [backend |-> backend, s |-> s]
                       /\ UNCHANGED << msg, chain, done, at, ref >>

CallPortable(n) ==
  Call("portable", n, Loaded(Fn, chain, msg.blocks[done + 1]))
CallShaNi(n) ==
  /\ msg.hash = "Sha256"
  /\ Call("sha_ni", n, NiLoaded(Packed(chain), msg.blocks[done + 1]))

\* n rounds of the present block, the reference in step.
Step(backend, n, s, r) ==
  /\ cpu.backend = backend
  /\ at < Fn.rounds
  /\ at' = at + n
  /\ cpu' = [cpu EXCEPT !.s = s]
  /\ ref' = r
  /\ UNCHANGED << msg, chain, done, left >>

PortableRound ==
  Step("portable", 1, IF at < 16 THEN Rounded(Fn, cpu.s, at)
                      ELSE RoundedExtending(Fn, cpu.s, at),
       FipsRound(Fn, ref, at + 1))
ShaNiRounds ==
  Step("sha_ni", 4, NiGroup(cpu.s, at \div 4), FipsRounds4(Fn, ref, at + 1))

\* The block ends; the call goes on with locals s or returns.
EndBlock(backend, c, s) ==
  /\ cpu.backend = backend
  /\ at = Fn.rounds
  /\ at' = 0
  /\ done' = done + 1
  /\ left' = left - 1
  /\ chain' = c
  /\ cpu' = IF left = 1 THEN Idle ELSE [cpu EXCEPT !.s = s]
  /\ LET sum == AddWords(Fn, ref.chain, ref.v)
     IN  ref' = IF done + 1 < Len(msg.blocks) THEN RefBlock(sum, done + 2)
                ELSE [chain |-> sum, v |-> sum, W |-> << >>]
  /\ UNCHANGED msg

PortableEnd ==
  LET sum == FeedForward(Fn, chain, cpu.s)
  IN  EndBlock("portable", sum, Loaded(Fn, sum, msg.blocks[done + 2]))

\* The state stays in its two vectors until the whole call is over.
ShaNiEnd ==
  LET sum == NiFeedForward(cpu.s)
  IN  EndBlock("sha_ni", IF left = 1 THEN Unpacked(sum) ELSE chain,
               NiLoaded(sum, msg.blocks[done + 2]))

Next == \/ \E n \in 1 .. Len(msg.blocks) : CallPortable(n) \/ CallShaNi(n)
        \/ PortableRound
        \/ PortableEnd
        \/ ShaNiRounds
        \/ ShaNiEnd

Spec == Init /\ [][Next]_vars

(***************************************************************************)
(* Properties.                                                             *)
(***************************************************************************)
\* Between any two round macros the variables under their present names, or
\* the lanes of the two vectors, are the variables a to h of FIPS 180-4 after
\* as many rounds.
RoundsAgree ==
  /\ cpu.backend = "portable" => ref.v = [i \in 1 .. 8 |-> cpu.s.v[Named(at, i - 1)]]
  /\ cpu.backend = "sha_ni" => ref.v = Unpacked(cpu.s)

\* No schedule word is overwritten before its last use: whatever part of the
\* schedule the code still holds is the latest part, each word in its slot.
ScheduleAgrees ==
  LET known == Len(ref.W)
  IN  /\ cpu.backend = "portable" =>
           \A i \in known - 15 .. known : cpu.s.w[(i - 1) % 16] = ref.W[i]
      /\ cpu.backend = "sha_ni" =>
           \A i \in known - 15 .. known :
             cpu.s.w[((i - 1) \div 4) % 5][(i - 1) % 4] = ref.W[i]

\* Between calls the chaining state is that of FIPS 180-4, whichever code
\* compressed which of the blocks and however many in one call.
ChainAgrees == cpu = Idle => chain = ref.chain

\* The published vectors: constants, initial vectors, rotation amounts and
\* truncation of the three hash functions.
KnownAnswers ==
  done = Len(msg.blocks) => SubSeq(chain, 1, Len(msg.digest)) = msg.digest
=============================================================================
