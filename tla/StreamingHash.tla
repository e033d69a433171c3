---------------------------- MODULE StreamingHash ----------------------------
(***************************************************************************)
(* What the incremental hasher promises: a handle is the message absorbed  *)
(* so far, finalize returns the FIPS 180-4 digest of that message and      *)
(* changes nothing, a clone evolves on its own, reset starts an empty      *)
(* message.  No block buffer, no counters, no call boundaries.             *)
(***************************************************************************)
EXTENDS Fips180

CONSTANTS Handle,       \* the hashers of the program
          Chunks,       \* the inputs one update call may pass
          MaxLen        \* bound on the bytes one handle absorbs

VARIABLES msg,          \* msg[h]: initial vector and message of handle h
          alive,        \* the handles that exist
          returned      \* what the last call returned

avars == << msg, alive, returned >>

Nothing == [by |-> {}, digest |-> ZERO_STATE]

AInit == /\ msg = [h \in Handle |-> Message("zero", << >>)]
         /\ alive = {}
         /\ returned = Nothing

\* A new handle holds message m.
AStart(h, m) == /\ h \notin alive
                /\ alive' = alive \cup {h}
                /\ msg' = [msg EXCEPT ![h] = m]
                /\ returned' = Nothing

ACreate(h)   == AStart(h, Message("H0", << >>))
AClone(h, g) == g \in alive /\ AStart(h, msg[g])

AUpdate(h, data) ==
  /\ h \in alive
  /\ Len(msg[h].bytes) + Len(data) <= MaxLen
  /\ msg' = [msg EXCEPT ![h].bytes = @ \o data]
  /\ returned' = Nothing
  /\ UNCHANGED alive

AFinalize(h) == /\ h \in alive
                /\ returned' = [by |-> {h}, digest |-> Digest(msg[h])]
                /\ UNCHANGED << msg, alive >>

ARestart(h, iv) == /\ h \in alive
                   /\ msg' = [msg EXCEPT ![h] = Message(iv, << >>)]
                   /\ returned' = Nothing
                   /\ UNCHANGED alive

ADrop(h) == /\ h \in alive
            /\ alive' = alive \ {h}
            /\ msg' = [msg EXCEPT ![h] = Message("zero", << >>)]
            /\ returned' = Nothing

ANext == \E h \in Handle :
           \/ ACreate(h)
           \/ \E g \in Handle : AClone(h, g)
           \/ \E data \in Chunks : AUpdate(h, data)
           \/ AFinalize(h)
           \/ ARestart(h, "H0")
           \/ ARestart(h, "zero")
           \/ ADrop(h)

ASpec == AInit /\ [][ANext]_avars
=============================================================================
