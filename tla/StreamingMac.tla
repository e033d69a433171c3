---------------------------- MODULE StreamingMac ----------------------------
(***************************************************************************)
(* What an incremental MAC promises: an instance is its key block and the  *)
(* message absorbed since it was keyed or reset; finalize returns the      *)
(* RFC 2104 tag of the two, verify accepts that tag and no other, a clone  *)
(* carries both and then goes its own way, reset forgets the message and   *)
(* keeps the key.                                                          *)
(***************************************************************************)
EXTENDS Fips198

CONSTANTS Handle,       \* the instances of the program
          Keys,         \* the keys one may be created with
          Chunks,       \* the inputs one update call may pass
          MaxLen        \* bound on the message bytes of one instance

VARIABLES mac,          \* mac[h]: key block and message of instance h
          alive,        \* the instances that exist
          returned      \* what the last call returned

avars == << mac, alive, returned >>

NoKey    == << >>
Keyed(k, msg) == [k0 |-> k, bytes |-> msg]
Nothing  == [by |-> {}, tag |-> ZERO_STATE, accepted |-> {}]

AInit == /\ mac = [h \in Handle |-> Keyed(NoKey, << >>)]
         /\ alive = {}
         /\ returned = Nothing

AStart(h, m) == /\ h \notin alive
                /\ alive' = alive \cup {h}
                /\ mac' = [mac EXCEPT ![h] = m]
                /\ returned' = Nothing

AClone(h, g) == g \in alive /\ AStart(h, mac[g])

AUpdate(h, data) ==
  /\ h \in alive
  /\ Len(mac[h].bytes) + Len(data) <= MaxLen
  /\ mac' = [mac EXCEPT ![h].bytes = @ \o data]
  /\ returned' = Nothing
  /\ UNCHANGED alive

\* A zeroized instance has no key; its tags begin from no initial vector.
ATag(h, tag) == IF mac[h].k0 = NoKey THEN tag.iv = "zero"
                                     ELSE tag = Tag(mac[h].k0, mac[h].bytes)

AFinalize(h) == /\ h \in alive
                /\ returned'.by = {h}
                /\ returned'.accepted = {}
                /\ ATag(h, returned'.tag)
                /\ UNCHANGED << mac, alive >>

\* The tag presented is the one returned'.tag names.
AVerify(h) == /\ h \in alive
              /\ returned'.by = {h}
              /\ mac[h].k0 # NoKey =>
                   returned'.accepted =
                     {returned'.tag = Tag(mac[h].k0, mac[h].bytes)}
              /\ UNCHANGED << mac, alive >>

\* A new message under key block k0: the present one, or none.
ARestart(h, k0) == /\ h \in alive
                   /\ mac' = [mac EXCEPT ![h] = Keyed(k0, << >>)]
                   /\ returned' = Nothing
                   /\ UNCHANGED alive

ADrop(h) == /\ h \in alive
            /\ alive' = alive \ {h}
            /\ mac' = [mac EXCEPT ![h] = Keyed(NoKey, << >>)]
            /\ returned' = Nothing

ANext == \E h \in Handle :
           \/ \E key \in Keys : AStart(h, Keyed(K0(key), << >>))
           \/ \E g \in Handle : AClone(h, g)
           \/ \E data \in Chunks : AUpdate(h, data)
           \/ AFinalize(h)
           \/ AVerify(h)
           \/ ARestart(h, mac[h].k0)
           \/ ARestart(h, NoKey)
           \/ ADrop(h)

ASpec == AInit /\ [][ANext]_avars
=============================================================================
