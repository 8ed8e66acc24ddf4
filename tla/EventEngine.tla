----------------------------- MODULE EventEngine -----------------------------
(* What a discrete-event engine promises whoever schedules on it: events run *)
(* in the order of their keys, and nobody can schedule into the past.  Swarm *)
(* and Simulator are shown to implement it.                                  *)
EXTENDS EventQueue

VARIABLES
  queue,    \* keys of the pending events
  now,      \* time stamp of the event last run
  current,  \* uid of the event last run
  uid       \* next uid to hand out

vars == <<queue, now, current, uid>>

Key == [ts : Nat, uid : Nat]

(* What scheduling and cancelling turn the keys of base into. *)
Rescheduled(base) ==
  /\ uid' \in Nat /\ uid' >= uid
  /\ queue' \subseteq Key
  /\ \A k \in queue' \ base : k.ts >= now' /\ uid <= k.uid /\ k.uid < uid'
  /\ \A j, k \in queue' : j.uid = k.uid => j = k

Init ==
  /\ now = 0
  /\ current = 0
  /\ uid \in Nat \ {0}
  /\ queue \subseteq Key
  /\ \A k \in queue : 0 < k.uid /\ k.uid < uid
  /\ \A j, k \in queue : j.uid = k.uid => j = k

(* The next event runs and may schedule and cancel others. *)
Run == \E k \in queue :
  /\ IsNext(k, queue)
  /\ now' = k.ts
  /\ current' = k.uid
  /\ Rescheduled(queue \ {k})

(* Somebody schedules or cancels between two events. *)
Plan ==
  /\ UNCHANGED <<now, current>>
  /\ Rescheduled(queue)

Next == Run \/ Plan

Spec == Init /\ [][Next]_vars

-----------------------------------------------------------------------------
TypeOK ==
  /\ now \in Nat
  /\ current \in Nat
  /\ uid \in Nat
  /\ queue \subseteq Key

(* Every pending event is still to come, and the next uid is fresh: the      *)
(* order in which events were scheduled is never lost.                       *)
NothingOverdue ==
  /\ current < uid
  /\ \A k \in queue : ~ HasPassed(k, now, current) /\ k.uid < uid

(* Keys of the events run only grow: the clock never goes back, and two      *)
(* events of the same instant run in the order they were scheduled.          *)
Advances == \/ now' > now
            \/ now' = now /\ current' >= current

InOrder == [][Advances]_vars
=============================================================================
