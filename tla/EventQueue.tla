----------------------------- MODULE EventQueue -----------------------------
(* Keys of ns-3's event queue and the questions asked of them.  An event is  *)
(* a record with at least a time stamp ts (Scheduler::EventKey::m_ts) and a  *)
(* sequence number uid (m_uid); a queue is a set of events with distinct     *)
(* uids, which is what the std::map of MapScheduler holds.                   *)
EXTENDS Integers

(* Faulty: a queue ordered by time stamp alone, whose ties go to the      *)
(* youngest event.                                                           *)
LifoBefore(e, f) == \/ e.ts < f.ts
                    \/ e.ts = f.ts /\ e.uid > f.uid

(* operator< of Scheduler::EventKey: time first, then the order of scheduling. *)
Before(e, f) == \/ e.ts < f.ts
                \/ e.ts = f.ts /\ e.uid < f.uid

(* MapScheduler::RemoveNext takes the first key of the map. *)
IsNext(e, queue) == /\ e \in queue
                    /\ \A f \in queue \ {e} : Before(e, f)

(* DefaultSimulatorImpl::IsExpired of an id that is not a destroy event and  *)
(* not cancelled: its key is not after the key of the event being run.       *)
HasPassed(key, now, current) == \/ key.ts < now
                                \/ key.ts = now /\ key.uid <= current
=============================================================================
