------------------------------- MODULE X25519 -------------------------------
(***************************************************************************)
(* X25519 key agreement (crates/fastcrypto/src/x25519.rs) over the         *)
(* dispatched routines: one StaticSecret shared by all threads, and for    *)
(* each thread one EphemeralSecret and one SharedSecret.  A key operation  *)
(* is a call that enters a routine, consults the feature cache and         *)
(* leaves; other threads run between these steps.                          *)
(*                                                                         *)
(* The routines are external: x25519(k, p) and x25519_base(k) clamp the    *)
(* scalar and are commutative, and a point of small order gives zero.      *)
(***************************************************************************)
EXTENDS Dispatch

CONSTANTS Scalar        \* the 32-byte strings in use, as numbers

ASSUME ScalarAssumption == Scalar \subseteq Nat \ {0}

VARIABLES static,       \* the StaticSecret and the memory it leaves
          ephemeral,    \* ephemeral[t]: the EphemeralSecret of t
          shared,       \* shared[t]: the SharedSecret of t
          call          \* call[t]: the key operation t is inside

keyVars == << static, ephemeral, shared, call >>
vars    == << cpu, cacheVars, task, executed, calls, keyVars >>

(***************************************************************************)
(* The external contract.  Two strings that differ in a clamped bit are    *)
(* the same key.                                                           *)
(***************************************************************************)
Zero     == {}
Clamp(k) == k \div 2
Base(k)  == << "multiple", Clamp(k) >>
LowOrder == << "low order", 0 >>
NoPoint  == << "none", 0 >>
Point    == {LowOrder} \cup {Base(k) : k \in Scalar}
Mult(k, p) == IF p = LowOrder THEN Zero ELSE {Clamp(k), p[2]}

(***************************************************************************)
(* Objects.  "wiped" is an object its owner zeroized and still holds;      *)
(* "none" is what remains in memory after a drop.                          *)
(***************************************************************************)
Key(st, secret, public_key) == [st |-> st, secret |-> secret, public_key |-> public_key]

\* own and with only record which agreement the bytes came from.
Agreed(st, bytes, own, with) == [st |-> st, bytes |-> bytes, own |-> own, with |-> with]
NoAgreed == Agreed("none", Zero, NoPoint, NoPoint)

Call(op, peer) == [op |-> op, peer |-> peer]
NoCall == Call("none", NoPoint)

\* Drop of both secret types: the scalar is cleared.  (The share stays in
\* memory; it is public and not recorded.)
Dropped(key) == Key("none", 0, NoPoint)

\* Zeroize, called by an owner that keeps the object.
Zeroized(key) == [key EXCEPT !.st = "wiped", !.secret = 0]

\* A pair whose scalar is in place and whose share x25519_base will write.
Filled(b) == Key("making", b, NoPoint)

Init == /\ DispatchInit
        /\ static = Key("none", 0, NoPoint)
        /\ ephemeral = [t \in Thread |-> Key("none", 0, NoPoint)]
        /\ shared = [t \in Thread |-> NoAgreed]
        /\ call = [t \in Thread |-> NoCall]

(***************************************************************************)
(* Making and dropping keys.                                               *)
(***************************************************************************)
\* Slip checked by a mutant run: the half-written key is forgotten.
FillFails_Forgets(t, b) ==
  /\ call[t] = NoCall /\ ephemeral[t].st = "none"
  /\ ephemeral' = [ephemeral EXCEPT ![t] = Key("none", b, NoPoint)]
  /\ UNCHANGED << cpu, cacheVars, task, executed, calls, static, shared, call >>

\* from_entropy whose fill fails after writing b: the pair is dropped.
FillFails(t, b) ==
  /\ call[t] = NoCall /\ ephemeral[t].st = "none"
  /\ ephemeral' = [ephemeral EXCEPT ![t] = Dropped(Key("making", b, NoPoint))]
  /\ UNCHANGED << cpu, cacheVars, task, executed, calls, static, shared, call >>

\* from_entropy whose fill writes b, up to the call of x25519_base; and
\* from_bytes, whose caller brings b (the caller's own copy is not modelled).
FromEntropy(t, b) ==
  /\ call[t] = NoCall /\ ephemeral[t].st = "none"
  /\ Enter(t, "x25519_base")
  /\ ephemeral' = [ephemeral EXCEPT ![t] = Filled(b)]
  /\ call' = [call EXCEPT ![t] = Call("pair", NoPoint)]
  /\ UNCHANGED << static, shared >>

\* x25519_base writes the public share and the pair is handed out.
PairMade(t) ==
  /\ call[t].op = "pair"
  /\ Leave(t)
  /\ LET secret == ephemeral[t].secret
     IN  ephemeral' = [ephemeral EXCEPT ![t] = Key("live", secret, Base(secret))]
  /\ call' = [call EXCEPT ![t] = NoCall]
  /\ UNCHANGED << static, shared >>

ZeroizePair(t) ==
  /\ call[t] = NoCall /\ ephemeral[t].st = "live"
  /\ ephemeral' = [ephemeral EXCEPT ![t] = Zeroized(@)]
  /\ UNCHANGED << cpu, cacheVars, task, executed, calls, static, shared, call >>

DropPair(t) ==
  /\ call[t] = NoCall /\ ephemeral[t].st \in {"live", "wiped"}
  /\ ephemeral' = [ephemeral EXCEPT ![t] = Dropped(@)]
  /\ UNCHANGED << cpu, cacheVars, task, executed, calls, static, shared, call >>

\* StaticSecret::from_bytes.
ImportStatic(b) ==
  /\ static.st = "none"
  /\ static' = Key("live", b, NoPoint)
  /\ UNCHANGED << cpu, cacheVars, task, executed, calls, ephemeral, shared, call >>

\* Exclusive access: no thread is inside a call that borrows the key.
Unborrowed == \A t \in Thread : call[t].op \notin {"static public", "static agree"}

ZeroizeStatic ==
  /\ static.st = "live" /\ Unborrowed
  /\ static' = Zeroized(static)
  /\ UNCHANGED << cpu, cacheVars, task, executed, calls, ephemeral, shared, call >>

DropStatic ==
  /\ static.st \in {"live", "wiped"} /\ Unborrowed
  /\ static' = Dropped(static)
  /\ UNCHANGED << cpu, cacheVars, task, executed, calls, ephemeral, shared, call >>

(***************************************************************************)
(* Agreement.                                                              *)
(***************************************************************************)
\* agree(self, peer_public_key) of the ephemeral key.
Agree(t, p) ==
  /\ call[t] = NoCall /\ ephemeral[t].st \in {"live", "wiped"} /\ shared[t].st = "none"
  /\ Enter(t, "x25519")
  /\ call' = [call EXCEPT ![t] = Call("agree", p)]
  /\ UNCHANGED << static, ephemeral, shared >>

\* agree(&self, peer_public_key) of the static key.
StaticAgree(t, p) ==
  /\ call[t] = NoCall /\ static.st \in {"live", "wiped"} /\ shared[t].st = "none"
  /\ Enter(t, "x25519")
  /\ call' = [call EXCEPT ![t] = Call("static agree", p)]
  /\ UNCHANGED << static, ephemeral, shared >>

\* public_key() of the static key.
StaticPublicKey(t) ==
  /\ call[t] = NoCall /\ static.st \in {"live", "wiped"}
  /\ Enter(t, "x25519_base")
  /\ call' = [call EXCEPT ![t] = Call("static public", NoPoint)]
  /\ UNCHANGED << static, ephemeral, shared >>

\* Slip checked by a mutant run: no output check.
Result_Unchecked(bytes, own, with) == Agreed("live", bytes, own, with)

\* What agree returns: an all-zero output is refused and dropped.
Result(bytes, own, with) ==
  IF bytes = Zero THEN NoAgreed ELSE Agreed("live", bytes, own, with)

\* The ephemeral key is dropped when agree returns.  A pair its owner had
\* zeroized agrees under the all-zero scalar, which is not its share's.
AgreeDone(t) ==
  /\ call[t].op = "agree"
  /\ Leave(t)
  /\ LET key == ephemeral[t]
         own == IF key.st = "live" THEN key.public_key ELSE Base(key.secret)
     IN  shared' = [shared EXCEPT ![t] =
                      Result(Mult(key.secret, call[t].peer), own, call[t].peer)]
  /\ ephemeral' = [ephemeral EXCEPT ![t] = Dropped(@)]
  /\ call' = [call EXCEPT ![t] = NoCall]
  /\ UNCHANGED static

StaticAgreeDone(t) ==
  /\ call[t].op = "static agree"
  /\ Leave(t)
  /\ shared' = [shared EXCEPT ![t] =
                  Result(Mult(static.secret, call[t].peer), Base(static.secret), call[t].peer)]
  /\ call' = [call EXCEPT ![t] = NoCall]
  /\ UNCHANGED << static, ephemeral >>

StaticPublicKeyDone(t) ==
  /\ call[t].op = "static public"
  /\ Leave(t)
  /\ call' = [call EXCEPT ![t] = NoCall]
  /\ UNCHANGED << static, ephemeral, shared >>

ZeroizeShared(t) ==
  /\ call[t] = NoCall /\ shared[t].st = "live"
  /\ shared' = [shared EXCEPT ![t] = [NoAgreed EXCEPT !.st = "wiped"]]
  /\ UNCHANGED << cpu, cacheVars, task, executed, calls, static, ephemeral, call >>

DropShared(t) ==
  /\ call[t] = NoCall /\ shared[t].st \in {"live", "wiped"}
  /\ shared' = [shared EXCEPT ![t] = NoAgreed]
  /\ UNCHANGED << cpu, cacheVars, task, executed, calls, static, ephemeral, call >>

(***************************************************************************)
(* Calls that use no key, and the system.                                  *)
(***************************************************************************)
\* compress_blocks, or a caller that acts on the reported features.
Other(t) == /\ call[t] = NoCall
            /\ \E entry \in {"compress_blocks", "features"} : Enter(t, entry)
            /\ call' = [call EXCEPT ![t] = Call("other", NoPoint)]
            /\ UNCHANGED << static, ephemeral, shared >>

OtherDone(t) == /\ call[t].op = "other"
                /\ Leave(t)
                /\ call' = [call EXCEPT ![t] = NoCall]
                /\ UNCHANGED << static, ephemeral, shared >>

\* The next step of the call thread t is inside.
Proceed(t) == \/ Consult(t) /\ UNCHANGED keyVars
              \/ PairMade(t) \/ AgreeDone(t) \/ StaticAgreeDone(t)
              \/ StaticPublicKeyDone(t) \/ OtherDone(t)

\* Thread t starts something, or does something that takes one step.
Start(t) ==
  \/ \E b \in Scalar : FillFails(t, b) \/ FromEntropy(t, b)
  \/ \E p \in Point : Agree(t, p) \/ StaticAgree(t, p)
  \/ StaticPublicKey(t) \/ Other(t)
  \/ ZeroizePair(t) \/ DropPair(t) \/ ZeroizeShared(t) \/ DropShared(t)
  \/ call[t] = NoCall /\ ResetCache(t) /\ UNCHANGED keyVars

Next == \/ \E t \in Thread : Proceed(t) \/ Start(t)
        \/ \E b \in Scalar : ImportStatic(b)
        \/ ZeroizeStatic \/ DropStatic

Spec == Init /\ [][Next]_vars

(***************************************************************************)
(* Properties.                                                             *)
(***************************************************************************)
KeySet == [st : {"none", "making", "live", "wiped"}, secret : Scalar \cup {0},
           public_key : Point \cup {NoPoint}]

\* Types; a thread is inside a key operation exactly while inside a routine.
TypeOK ==
  /\ cpu \in Cpu
  /\ CacheTypeOK
  /\ \A t \in Thread :
       /\ task[t] \in {NoTask} \cup {Task(e, at) : e \in Entries, at \in {"cached", "run"}}
       /\ task[t].at = "cached" \/ pc[t] = "idle"
       /\ task[t].at = "run" => returned[t] # {}
       /\ task[t] = NoTask <=> call[t] = NoCall
  /\ static \in KeySet /\ ephemeral \in [Thread -> KeySet]
  /\ \A t \in Thread : ephemeral[t].st = "making" <=> call[t].op = "pair"
  /\ \A t \in Thread : shared[t].st \in {"none", "live", "wiped"}
  /\ executed \subseteq AnyFeature \cup {"xgetbv", "mrs"}
  /\ calls \in 0 .. MaxCalls

\* crates/fastcrypto/src/dispatch.rs: "there is no path where an instruction
\* runs without its feature bit being verified first".  Whatever old word a
\* relaxed load returned and whoever cleared the cache, no probe, no routine
\* and no caller that trusts the report executes what this CPU and its
\* operating system do not support.
NoIllegalInstruction == executed \subseteq Executable(cpu)

\* No dropped or zeroized object leaves a scalar or an agreed secret in its
\* memory: not the key that agree consumed, not the key half-written by a
\* failing fill, not the agreement that was refused.
SecretsErased ==
  /\ static.st \in {"none", "wiped"} => static.secret = 0
  /\ \A t \in Thread :
       /\ ephemeral[t].st \in {"none", "wiped"} => ephemeral[t].secret = 0
       /\ shared[t].st \in {"none", "wiped"} => shared[t].bytes = Zero

\* Two threads that agreed with each other's public keys hold the same
\* secret, and no secret in use is the all-zero one of a non-contributory
\* peer, whatever variants computed them and whichever keys were static.
AgreementHolds ==
  \A t, u \in Thread :
    shared[t].st = "live" =>
      /\ shared[t].bytes # Zero
      /\ /\ shared[u].st = "live"
         /\ shared[t].own = shared[u].with
         /\ shared[u].own = shared[t].with
         => shared[t].bytes = shared[u].bytes
=============================================================================
