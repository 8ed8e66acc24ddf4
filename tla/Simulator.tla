------------------------------ MODULE Simulator ------------------------------
(* DefaultSimulatorImpl with a MapScheduler: the engine under the program,   *)
(* used by one main thread, whose handlers call back into it, while other    *)
(* threads hand events in through ScheduleWithContext.  A step of the main   *)
(* thread is one call, or one pass of it through code another thread can     *)
(* come between.                                                             *)
EXTENDS EventQueue, FiniteSets, Sequences

CONSTANTS
  Delays,     \* delays that events are scheduled with
  MaxEvents,  \* bound on the events made
  FirstUid,   \* m_uid as the constructor leaves it
  DestroyUid  \* the uid that stands for an event at destruction

ASSUME SimulatorAssumption ==
  /\ Delays \subseteq Nat
  /\ MaxEvents \in Nat
  /\ {FirstUid, DestroyUid} \subseteq Nat \ {0} /\ DestroyUid < FirstUid

VARIABLES
  pc,             \* where the main thread is
  events,         \* m_events: [ts, uid, impl], impl the number of the EventImpl
  now, current,   \* m_currentTs, m_currentUid
  uid,            \* m_uid
  stop,           \* m_stop
  unscheduled,    \* m_unscheduledEvents
  foreign,        \* m_eventsWithContext: [delay, impl], oldest first
  foreignEmpty,   \* m_eventsWithContextEmpty
  swapped,        \* the local list of ProcessEventsWithContext
  destroyEvents,  \* m_destroyEvents: numbers of EventImpls
  ids,            \* the EventIds that were returned to callers
  cancelled,      \* EventImpls with m_cancel
  made,           \* how many EventImpls there are
  over,           \* those run, passed over, removed or disposed of (history)
  fault           \* "none", or the assertion that ended the program

clock == <<now, current>>
lists == <<foreign, foreignEmpty, swapped>>
vars == <<pc, events, clock, uid, stop, unscheduled, lists, destroyEvents, ids,
          cancelled, made, over, fault>>

Init ==
  /\ pc = "outside"
  /\ events = {}
  /\ now = 0 /\ current = 0
  /\ uid = FirstUid
  /\ stop = FALSE
  /\ unscheduled = 0
  /\ foreign = << >> /\ foreignEmpty = TRUE /\ swapped = << >>
  /\ destroyEvents = << >>
  /\ ids = {}
  /\ cancelled = {}
  /\ made = 0
  /\ over = {}
  /\ fault = "none"

(* The main thread can call the engine outside of Run and from a handler.    *)
Calls == fault = "none" /\ pc \in {"outside", "handler", "destroy handler"}
Impl == made + 1
New == made < MaxEvents /\ made' = Impl

-----------------------------------------------------------------------------
(* Identifiers.                                                              *)

Pending(impl) == \E i \in DOMAIN destroyEvents : destroyEvents[i] = impl

(* Faulty: an event is not over until its handler has returned. *)
LateIsExpired(id) ==
  IF id.uid = DestroyUid THEN id.impl \in cancelled \/ ~ Pending(id.impl)
  ELSE id.ts < now \/ (id.ts = now /\ id.uid < current) \/ id.impl \in cancelled

IsExpired(id) ==
  IF id.uid = DestroyUid THEN id.impl \in cancelled \/ ~ Pending(id.impl)
  ELSE HasPassed(id, now, current) \/ id.impl \in cancelled

-----------------------------------------------------------------------------
(* Calls of the main thread.                                                 *)

(* Schedule; ScheduleNow is the delay zero.  ScheduleWithContext does the    *)
(* same but returns no identifier.                                           *)
Schedule(delay, return) ==
  LET event == [ts |-> now + delay, uid |-> uid, impl |-> Impl] IN
  /\ Calls /\ New
  /\ events' = events \cup {event}
  /\ ids' = IF return THEN ids \cup {event} ELSE ids
  /\ uid' = uid + 1
  /\ unscheduled' = unscheduled + 1
  /\ UNCHANGED <<pc, clock, stop, lists, destroyEvents, cancelled, over, fault>>

ScheduleDestroy ==
  /\ Calls /\ New
  /\ destroyEvents' = Append(destroyEvents, Impl)
  /\ ids' = ids \cup {[ts |-> now, uid |-> DestroyUid, impl |-> Impl]}
  /\ uid' = uid + 1
  /\ UNCHANGED <<pc, events, clock, stop, unscheduled, lists, cancelled, over, fault>>

(* Cancel leaves the event where it is. *)
Cancel(id) ==
  /\ Calls /\ ~ IsExpired(id)
  /\ cancelled' = cancelled \cup {id.impl}
  /\ UNCHANGED <<pc, events, clock, uid, stop, unscheduled, lists, destroyEvents, ids,
                 made, over, fault>>

(* Faulty: the event is taken out but still counted. *)
UncountedRemove(id) ==
  /\ Calls /\ ~ IsExpired(id) /\ id.uid # DestroyUid
  /\ events' = events \ {id}
  /\ cancelled' = cancelled \cup {id.impl}
  /\ over' = over \cup {id.impl}
  /\ UNCHANGED <<pc, clock, uid, stop, unscheduled, lists, destroyEvents, ids, made, fault>>

(* Remove of an event in the queue, which MapScheduler asserts to find. *)
Remove(id) ==
  /\ Calls /\ ~ IsExpired(id) /\ id.uid # DestroyUid
  /\ events' = events \ {id}
  /\ cancelled' = cancelled \cup {id.impl}
  /\ unscheduled' = unscheduled - 1
  /\ over' = over \cup {id.impl}
  /\ fault' = IF id \in events THEN "none" ELSE "not found"
  /\ UNCHANGED <<pc, clock, uid, stop, lists, destroyEvents, ids, made>>

(* The list without its k-th element. *)
Without(list, k) == SubSeq(list, 1, k - 1) \o SubSeq(list, k + 1, Len(list))

(* Remove of an event at destruction, cancelled or not. *)
RemoveDestroy(id) ==
  /\ Calls /\ id.uid = DestroyUid
  /\ \E k \in DOMAIN destroyEvents :
       /\ destroyEvents[k] = id.impl
       /\ destroyEvents' = Without(destroyEvents, k)
  /\ over' = over \cup {id.impl}
  /\ UNCHANGED <<pc, events, clock, uid, stop, unscheduled, lists, ids, cancelled, made, fault>>

Stop ==
  /\ Calls
  /\ stop' = TRUE
  /\ UNCHANGED <<pc, events, clock, uid, unscheduled, lists, destroyEvents, ids,
                 cancelled, made, over, fault>>

(* ScheduleWithContext called by another thread; the time is added later. *)
ForeignSchedule(delay) ==
  /\ fault = "none" /\ pc # "disposed" /\ New
  /\ foreign' = Append(foreign, [delay |-> delay, impl |-> Impl])
  /\ foreignEmpty' = FALSE
  /\ UNCHANGED <<pc, events, clock, uid, stop, unscheduled, swapped, destroyEvents, ids,
                 cancelled, over, fault>>

-----------------------------------------------------------------------------
(* Run.                                                                      *)

(* m_stop is reset after the first pass through ProcessEventsWithContext,    *)
(* which neither reads nor sets it.                                          *)
Run ==
  /\ fault = "none" /\ pc = "outside"
  /\ stop' = FALSE
  /\ pc' = "process"
  /\ UNCHANGED <<events, clock, uid, unscheduled, lists, destroyEvents, ids, cancelled,
                 made, over, fault>>

(* The body of the loop up to the handler, which a cancelled event skips. *)
ProcessOneEvent ==
  /\ fault = "none" /\ pc = "loop" /\ ~ stop
  /\ \E e \in events :
       /\ IsNext(e, events)
       /\ fault' = IF e.ts >= now THEN "none" ELSE "past"
       /\ events' = events \ {e}
       /\ now' = e.ts /\ current' = e.uid
       /\ over' = over \cup {e.impl}
       /\ pc' = IF e.impl \in cancelled THEN "process" ELSE "handler"
  /\ unscheduled' = unscheduled - 1
  /\ UNCHANGED <<uid, stop, lists, destroyEvents, ids, cancelled, made>>

Return ==
  /\ fault = "none" /\ pc = "handler"
  /\ pc' = "process"
  /\ UNCHANGED <<events, clock, uid, stop, unscheduled, lists, destroyEvents, ids,
                 cancelled, made, over, fault>>

(* ProcessEventsWithContext reads the flag without the mutex. *)
Skip ==
  /\ fault = "none" /\ pc = "process" /\ foreignEmpty
  /\ pc' = "loop"
  /\ UNCHANGED <<events, clock, uid, stop, unscheduled, lists, destroyEvents, ids,
                 cancelled, made, over, fault>>

(* The section it does under the mutex. *)
Swap ==
  /\ fault = "none" /\ pc = "process" /\ ~ foreignEmpty
  /\ swapped' = foreign /\ foreign' = << >>
  /\ foreignEmpty' = TRUE
  /\ pc' = "insert"
  /\ UNCHANGED <<events, clock, uid, stop, unscheduled, destroyEvents, ids, cancelled,
                 made, over, fault>>

(* Faulty: the time is that of the event, not relative to now. *)
AbsoluteArrivals ==
  {[ts |-> swapped[i].delay, uid |-> uid + i - 1, impl |-> swapped[i].impl] : i \in DOMAIN swapped}

Arrivals ==
  {[ts |-> now + swapped[i].delay, uid |-> uid + i - 1, impl |-> swapped[i].impl] :
     i \in DOMAIN swapped}

(* The loop after it, which touches nothing that other threads do. *)
Insert ==
  /\ fault = "none" /\ pc = "insert"
  /\ events' = events \cup Arrivals
  /\ uid' = uid + Len(swapped)
  /\ unscheduled' = unscheduled + Len(swapped)
  /\ swapped' = << >>
  /\ pc' = "loop"
  /\ UNCHANGED <<clock, stop, foreign, foreignEmpty, destroyEvents, ids, cancelled, made,
                 over, fault>>

(* The loop ends; the assertion after it looks at the queue alone. *)
Leave ==
  /\ fault = "none" /\ pc = "loop" /\ (stop \/ events = {})
  /\ fault' = IF events = {} /\ unscheduled # 0 THEN "lost events" ELSE "none"
  /\ pc' = "outside"
  /\ UNCHANGED <<events, clock, uid, stop, unscheduled, lists, destroyEvents, ids,
                 cancelled, made, over>>

-----------------------------------------------------------------------------
(* Destroy.                                                                  *)

Destroy ==
  /\ fault = "none" /\ pc = "outside"
  /\ pc' = "destroy"
  /\ UNCHANGED <<events, clock, uid, stop, unscheduled, lists, destroyEvents, ids,
                 cancelled, made, over, fault>>

DestroyNext ==
  /\ fault = "none" /\ pc = "destroy" /\ destroyEvents # << >>
  /\ destroyEvents' = Tail(destroyEvents)
  /\ over' = over \cup {Head(destroyEvents)}
  /\ pc' = IF Head(destroyEvents) \in cancelled THEN "destroy" ELSE "destroy handler"
  /\ UNCHANGED <<events, clock, uid, stop, unscheduled, lists, ids, cancelled, made, fault>>

DestroyReturn ==
  /\ fault = "none" /\ pc = "destroy handler"
  /\ pc' = "destroy"
  /\ UNCHANGED <<events, clock, uid, stop, unscheduled, lists, destroyEvents, ids,
                 cancelled, made, over, fault>>

(* DoDispose takes over what other threads have handed in and drops all. *)
Dispose ==
  /\ fault = "none" /\ pc = "destroy" /\ destroyEvents = << >>
  /\ events' = {}
  /\ uid' = uid + Len(foreign)
  /\ unscheduled' = unscheduled + Len(foreign)
  /\ foreign' = << >> /\ foreignEmpty' = TRUE
  /\ over' = 1 .. made
  /\ pc' = "disposed"
  /\ UNCHANGED <<clock, stop, swapped, destroyEvents, ids, cancelled, made, fault>>

Gone == (fault # "none" \/ pc = "disposed") /\ UNCHANGED vars

Next ==
  \/ \E d \in Delays : ForeignSchedule(d) \/ \E return \in BOOLEAN : Schedule(d, return)
  \/ \E id \in ids : Cancel(id) \/ Remove(id) \/ RemoveDestroy(id)
  \/ ScheduleDestroy \/ Stop
  \/ Run \/ ProcessOneEvent \/ Return \/ Skip \/ Swap \/ Insert \/ Leave
  \/ Destroy \/ DestroyNext \/ DestroyReturn \/ Dispose \/ Gone

Spec == Init /\ [][Next]_vars

-----------------------------------------------------------------------------
(* Properties.                                                               *)

Event == [ts : Nat, uid : Nat, impl : Nat]
HandedIn == [delay : Nat, impl : Nat]

TypeOK ==
  /\ pc \in {"outside", "process", "insert", "loop", "handler", "destroy",
             "destroy handler", "disposed"}
  /\ events \subseteq Event /\ ids \subseteq Event
  /\ now \in Nat /\ current \in Nat /\ uid \in Nat
  /\ stop \in BOOLEAN /\ foreignEmpty \in BOOLEAN
  /\ unscheduled \in Int /\ made \in Nat
  /\ foreign \in Seq(HandedIn) /\ swapped \in Seq(HandedIn)
  /\ destroyEvents \in Seq(Nat)
  /\ cancelled \subseteq 1 .. made /\ over \subseteq 1 .. made
  /\ fault \in {"none", "past", "not found", "lost events"}

(* No assertion of the engine fails: no event lies in the past, Remove finds *)
(* every event that IsExpired lets through, and no event got lost.           *)
NoFault == fault = "none"

(* IsExpired, which compares an identifier with the clock and never looks at *)
(* the queue, knows which events are still to run.                           *)
Queue == {e.impl : e \in events}
ExpiredIsOver == pc # "disposed" =>
  \A id \in ids :
    IsExpired(id) <=> ~ (id.impl \in Queue \/ Pending(id.impl)) \/ id.impl \in cancelled

(* Every event is in exactly one place: it is neither lost nor run twice, on *)
(* its way from another thread too.                                          *)
Impls(list) == {list[i].impl : i \in DOMAIN list}
AtEnd == {destroyEvents[i] : i \in DOMAIN destroyEvents}
Once(list) == \A i, j \in DOMAIN list : list[i] = list[j] => i = j
OnceImpl(list) == \A i, j \in DOMAIN list : list[i].impl = list[j].impl => i = j
Accounted ==
  /\ Queue \cup Impls(foreign) \cup Impls(swapped) \cup AtEnd \cup over = 1 .. made
  /\ Queue \cap (Impls(foreign) \cup Impls(swapped) \cup AtEnd \cup over) = {}
  /\ Impls(foreign) \cap (Impls(swapped) \cup AtEnd \cup over) = {}
  /\ Impls(swapped) \cap (AtEnd \cup over) = {}
  /\ AtEnd \cap over = {}
  /\ \A e, f \in events : e.impl = f.impl => e = f
  /\ OnceImpl(foreign) /\ OnceImpl(swapped) /\ Once(destroyEvents)

(* m_unscheduledEvents counts the events in the queue. *)
Counted ==
  /\ IsFiniteSet(events)
  /\ pc # "disposed" => unscheduled = Cardinality(events)

(* Simulator keeps the promises of a discrete-event engine, with events of   *)
(* other threads and with events taken out of the queue.                     *)
Keys == {[ts |-> e.ts, uid |-> e.uid] : e \in events}
Engine == INSTANCE EventEngine WITH queue <- Keys
EngineSpec == Engine!Spec

(* Every pending event is still to come, under a uid of its own. *)
Ordered ==
  /\ current < uid /\ FirstUid <= uid
  /\ \A e \in events : /\ ~ HasPassed(e, now, current)
                       /\ FirstUid <= e.uid /\ e.uid < uid
  /\ \A e, f \in events : e.uid = f.uid => e = f

(* An identifier is that of one event, in the queue under its key until it   *)
(* has passed or was taken out.                                              *)
IdTrue(id) ==
  /\ id.impl \in 1 .. made /\ id.impl \notin Impls(foreign) \cup Impls(swapped)
  /\ id.uid = DestroyUid => id.impl \notin Queue
  /\ id.uid # DestroyUid =>
       /\ id.impl \notin AtEnd
       /\ id \in events \/ HasPassed(id, now, current) \/ id.impl \in cancelled
       /\ \A e \in events : e.impl = id.impl => e = id

(* The flag that is read without the mutex never hides what is in the list.  *)
NoneHidden == foreignEmpty <=> foreign = << >>

(* The state of the engine behind its assertions. *)
SimulatorInv ==
  /\ TypeOK /\ NoFault /\ Accounted /\ Counted /\ Ordered /\ NoneHidden
  /\ pc # "disposed" => \A id \in ids : IdTrue(id)
  /\ pc # "insert" => swapped = << >>
=============================================================================
