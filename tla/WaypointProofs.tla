---------------------------- MODULE WaypointProofs ----------------------------
(* Where the mobility model is between two Calculates, for any positions,    *)
(* intervals and times at which somebody reads.                              *)
EXTENDS Waypoint, FiniteSetTheorems, TLAPS

-----------------------------------------------------------------------------
(* The three forms of the mobility model.                                    *)

(* At rest at p since before t; a node that has not been updated yet still   *)
(* has its first waypoint ahead.                                             *)
Resting(t, p, next) ==
  [current |-> [time |-> t, pos |-> Whole(p)], next |-> WaypointAt(next, p),
   waypoints |-> << >>, velocity |-> Whole(0)]

(* At rest, with a waypoint that Calculate has added. *)
Planned ==
  [current |-> [time |-> from.time, pos |-> Whole(from.pos)],
   next |-> WaypointAt(-Second, from.pos), waypoints |-> <<to>>, velocity |-> Whole(0)]

(* The span of a leg: it starts a second before the program did. *)
Span == to.time + Second

(* Where on the leg the node is at t. *)
OnTheWay(t) == Fraction(from.pos * Span + (to.pos - from.pos) * (t + Second), Span)

Moving(t) ==
  [current |-> [time |-> t, pos |-> OnTheWay(t)], next |-> to,
   waypoints |-> << >>, velocity |-> Fraction(to.pos - from.pos, Span)]

Rests ==
  /\ to.time <= now
  /\ \/ \E t \in 0 .. now : mobility = Resting(t, to.pos, -Second)
     \/ to.time = 0 /\ mobility = Resting(0, to.pos, 0)

Travels ==
  /\ nextCalc = to.time /\ updates = {to.time}
  /\ to.time = from.time + CalculateInterval /\ now \in from.time .. to.time
  /\ mobility = Planned \/ \E t \in from.time .. now : mobility = Moving(t)

(* What the last read returned: the waypoint left behind, a place on the way *)
(* no later than now, or the waypoint ahead once it is reached.              *)
ReadWas ==
  \/ read.pos = Whole(from.pos)
  \/ \E t \in from.time .. now : t <= to.time /\ read.pos = OnTheWay(t)
  \/ Rests /\ read.pos = Whole(to.pos)

Types ==
  /\ now \in 0 .. MaxTime /\ nextCalc \in Nat /\ now <= nextCalc /\ aborted = FALSE
  /\ from \in [time : Nat, pos : Positions] /\ to \in [time : Nat, pos : Positions]
  /\ updates \subseteq {to.time} /\ (to.time \in updates => now <= to.time)

IInv == Types /\ (Rests \/ Travels) /\ ReadWas

LEMMA Constants ==
  /\ CalculateInterval \in Nat \ {0} /\ Second \in Nat \ {0}
  /\ StartTime \in Nat /\ MaxTime \in Nat /\ Positions \subseteq Int
BY WaypointAssumption

LEMMA TypeFacts ==
  ASSUME Types
  PROVE  /\ now \in Nat
         /\ from.time \in Nat /\ from.pos \in Positions /\ from.pos \in Int
         /\ to.time \in Nat /\ to.pos \in Positions /\ to.pos \in Int
         /\ Span \in Nat \ {0}
<1>1. now \in Nat /\ from.time \in Nat /\ to.time \in Nat
  BY Constants DEF Types
<1>2. from.pos \in Positions /\ to.pos \in Positions
  BY DEF Types
<1>3. from.pos \in Int /\ to.pos \in Int
  BY <1>2, Constants
<1>4. Span \in Nat \ {0}
  BY <1>1, Constants DEF Span
<1> QED
  BY <1>1, <1>2, <1>3, <1>4

-----------------------------------------------------------------------------
(* Update, form by form.                                                     *)

LEMMA UpdateResting ==
  ASSUME Types, Rests
  PROVE  Update(mobility) = Resting(now, to.pos, -Second)
<1> DEFINE m == mobility
<1>1. now \in Nat /\ Second \in Nat \ {0} /\ m.waypoints = << >>
  BY Constants DEF Types, Rests, Resting
<1>2. Ahead(m) = {}
  BY <1>1 DEF Ahead
<1>3. CASE \E t \in 0 .. now : m = Resting(t, to.pos, -Second)
  <2>1. PICK t \in 0 .. now : m = Resting(t, to.pos, -Second)
    BY <1>3
  <2>2. m.current.time = t /\ m.next.time = -Second
    BY <2>1 DEF Resting, WaypointAt
  <2>3. ~(now < m.current.time) /\ ~(now < m.next.time) /\ ~(m.current.time <= m.next.time)
    BY <1>1, <2>1, <2>2
  <2>4. Update(m) = [m EXCEPT !.current.time = now]
    BY <1>1, <1>2, <2>3 DEF Update
  <2> QED
    BY <2>1, <2>4 DEF Resting
<1>4. CASE to.time = 0 /\ m = Resting(0, to.pos, 0)
  <2>1. m.current.time = 0 /\ m.next.time = 0 /\ m.next.pos = to.pos
    BY <1>4 DEF Resting, WaypointAt
  <2>2. Update(m) = Arrive(m, m.next)
    BY <1>1, <1>2, <2>1 DEF Update
  <2> QED
    BY <2>1, <2>2 DEF Arrive, Resting
<1> QED
  BY <1>3, <1>4 DEF Rests

(* Following the leg from any place on it leads to the place for now. *)
LEMMA FollowMoving ==
  ASSUME Types, NEW t \in {-Second} \cup Nat, t <= now,
         NEW c, NEW w,
         c.time = t, c.pos = OnTheWay(t) \/ (t = -Second /\ c.pos = Whole(from.pos)),
         w = [current |-> c, next |-> to, waypoints |-> << >>,
              velocity |-> Fraction(to.pos - from.pos, Span)],
         w = Moving(t) \/ t < now
  PROVE  Follow(w) = Moving(now)
<1> DEFINE v == to.pos - from.pos
<1>1. /\ now \in Nat /\ t \in Int /\ Second \in Nat \ {0}
      /\ from.pos \in Int /\ to.pos \in Int /\ v \in Int /\ Span \in Nat \ {0}
  BY TypeFacts, Constants
<1>2. w.velocity.num = v /\ w.velocity.den = Span /\ w.current = c
  BY DEF Fraction
<1>3. CASE now > t
  <2>1. Follow(w) =
          [w EXCEPT !.current =
             [time |-> now,
              pos |-> Fraction(c.pos.num * (Span \div c.pos.den) + v * (now - t), Span)]]
    BY <1>2, <1>3 DEF Follow
  <2>2. c.pos.num * (Span \div c.pos.den) + v * (now - t) = from.pos * Span + v * (now + Second)
    <3>1. CASE c.pos = OnTheWay(t)
      <4>1. c.pos.num = from.pos * Span + v * (t + Second) /\ c.pos.den = Span
        BY <3>1 DEF OnTheWay, Fraction
      <4>2. Span \div Span = 1
        BY <1>1
      <4>3. from.pos * Span \in Int /\ v * (t + Second) \in Int /\ v * (now - t) \in Int
        BY <1>1
      <4>4. c.pos.num * (Span \div c.pos.den) = from.pos * Span + v * (t + Second)
        BY <4>1, <4>2, <4>3
      <4>5. v * (t + Second) + v * (now - t) = v * (now + Second)
        BY <1>1
      <4> QED BY <4>3, <4>4, <4>5
    <3>2. CASE t = -Second /\ c.pos = Whole(from.pos)
      <4>1. c.pos.num = from.pos /\ c.pos.den = 1
        BY <3>2 DEF Whole, Fraction
      <4>2. Span \div 1 = Span
        BY <1>1
      <4>3. now - t = now + Second
        BY <1>1, <3>2
      <4> QED BY <4>1, <4>2, <4>3
    <3> QED BY <3>1, <3>2
  <2> QED
    BY <2>1, <2>2 DEF Moving, OnTheWay
<1>4. CASE ~(now > t)
  <2>1. t = now /\ w = Moving(t)
    BY <1>1, <1>4
  <2>2. Follow(w) = w
    BY <1>2, <1>4 DEF Follow
  <2> QED
    BY <2>1, <2>2
<1> QED
  BY <1>3, <1>4

(* A node on its way is at the place for now, or rests at the waypoint. *)
LEMMA UpdateTravelling ==
  ASSUME Types, Travels
  PROVE  /\ now < to.time => Update(mobility) = Moving(now)
         /\ now = to.time => Update(mobility) = Resting(now, to.pos, -Second)
<1> DEFINE m == mobility
<1>1. /\ now \in Nat /\ Second \in Nat \ {0} /\ to.time \in Nat /\ from.time \in Nat
      /\ from.time <= now
      /\ to = WaypointAt(to.time, to.pos)
  BY Constants DEF Types, Travels, WaypointAt
<1>2. CASE m = Planned
  <2>1. /\ m.current.time = from.time /\ m.next.time = -Second /\ m.next.pos = from.pos
        /\ m.waypoints = <<to>>
    BY <1>2 DEF Planned, WaypointAt
  <2>2. ~(now < m.current.time) /\ ~(now < m.next.time) /\ m.waypoints # << >>
    BY <1>1, <2>1
  <2>3. ASSUME now < to.time PROVE Update(m) = Moving(now)
    <3>1. Ahead(m) = {1}
      BY <1>1, <2>1, <2>3 DEF Ahead
    <3>2. Min(Ahead(m)) = 1
      BY <3>1 DEF Min
    <3>3. Update(m) = Follow(Leg(m, 1))
      BY <2>2, <3>1, <3>2 DEF Update
    <3> DEFINE c == [time |-> -Second, pos |-> Whole(from.pos)]
    <3>4. Leg(m, 1) = [current |-> c, next |-> to, waypoints |-> << >>,
                       velocity |-> Fraction(to.pos - from.pos, Span)]
      <4>1. SubSeq(m.waypoints, 2, Len(m.waypoints)) = << >>
        BY <2>1
      <4>2. m.waypoints[1] = to
        BY <2>1
      <4>3. to.time - (-Second) = Span
        BY <1>1 DEF Span
      <4> QED BY <2>1, <4>1, <4>2, <4>3 DEF Leg
    <3>5. -Second <= now /\ -Second < now
      BY <1>1
    <3> HIDE DEF m
    <3>6. c.time = -Second /\ c.pos = Whole(from.pos)
      OBVIOUS
    <3> HIDE DEF c
    <3> QED
      BY <3>3, <3>4, <3>5, <3>6, FollowMoving
  <2>4. ASSUME now = to.time PROVE Update(m) = Resting(now, to.pos, -Second)
    <3>1. Ahead(m) = {}
      BY <1>1, <2>1, <2>4 DEF Ahead
    <3>2. Update(m) = Arrive(m, to)
      BY <2>1, <2>2, <3>1 DEF Update
    <3> QED
      BY <3>2 DEF Arrive, Resting
  <2> QED
    BY <2>3, <2>4
<1>3. ASSUME NEW t \in from.time .. now, m = Moving(t)
      PROVE  /\ now < to.time => Update(m) = Moving(now)
             /\ now = to.time => Update(m) = Resting(now, to.pos, -Second)
  <2>1. m.current.time = t /\ m.next = to /\ m.waypoints = << >> /\ m.current.pos = OnTheWay(t)
    BY <1>3 DEF Moving
  <2>2. ~(now < m.current.time) /\ t \in Nat /\ t <= now
    BY <1>1, <2>1
  <2>3. ASSUME now < to.time PROVE Update(m) = Moving(now)
    <3>1. Update(m) = Follow(m)
      BY <2>1, <2>2, <2>3 DEF Update
    <3>2. m = [current |-> m.current, next |-> to, waypoints |-> << >>,
               velocity |-> Fraction(to.pos - from.pos, Span)]
      BY <1>3 DEF Moving
    <3> HIDE DEF m
    <3> QED
      BY <1>3, <2>1, <2>2, <3>1, <3>2, FollowMoving
  <2>4. ASSUME now = to.time PROVE Update(m) = Resting(now, to.pos, -Second)
    <3>1. Ahead(m) = {} /\ m.current.time <= m.next.time
      BY <1>1, <2>1, <2>2, <2>4 DEF Ahead
    <3>2. Update(m) = Arrive(m, to)
      BY <1>1, <2>1, <2>2, <2>4, <3>1 DEF Update
    <3> QED
      BY <3>2 DEF Arrive, Resting
  <2> QED
    BY <2>3, <2>4
<1> QED
  BY <1>2, <1>3 DEF Travels

-----------------------------------------------------------------------------
(* The steps.                                                                *)

(* Whoever makes the model look at the time leaves it in form.               *)
LEMMA UpdateKeepsForm ==
  ASSUME Types, Rests \/ Travels, mobility' = Update(mobility),
         UNCHANGED <<now, nextCalc, from, to>>,
         updates' = updates \/ (now = to.time /\ updates' = {})
  PROVE  /\ (Rests \/ Travels)'
         /\ Rests => Rests'
         /\ Rests' => mobility'.current.pos = Whole(to.pos)
         /\ ~Rests' => mobility'.current.pos = OnTheWay(now) /\ from.time <= now /\ now <= to.time
<1>1. now \in Nat /\ to.time \in Nat /\ from.time \in Nat
  BY Constants DEF Types
<1>2. ASSUME mobility' = Resting(now, to.pos, -Second), to.time <= now
      PROVE  Rests' /\ mobility'.current.pos = Whole(to.pos)
  BY <1>1, <1>2 DEF Rests, Resting
<1>3. CASE Rests
  <2>1. mobility' = Resting(now, to.pos, -Second) /\ to.time <= now
    BY <1>3, UpdateResting DEF Rests
  <2> QED
    BY <1>2, <2>1
<1>4. CASE Travels /\ now < to.time
  <2>1. mobility' = Moving(now) /\ updates' = updates
    BY <1>1, <1>4, UpdateTravelling
  <2>2. Moving(now)' = Moving(now)
    BY DEF Moving, OnTheWay, Span
  <2>3. from.time <= now /\ now \in from.time .. now
    BY <1>1, <1>4 DEF Travels
  <2>4. Travels'
    BY <1>1, <1>4, <2>1, <2>2, <2>3 DEF Travels, Moving, OnTheWay, Span
  <2>5. ~Rests /\ ~Rests'
    BY <1>1, <1>4 DEF Rests
  <2>6. mobility'.current.pos = OnTheWay(now)
    BY <2>1 DEF Moving
  <2> QED
    BY <1>1, <1>4, <2>3, <2>4, <2>5, <2>6
<1>5. CASE Travels /\ ~(now < to.time)
  <2>1. now = to.time
    BY <1>1, <1>5 DEF Travels
  <2>2. mobility' = Resting(now, to.pos, -Second) /\ to.time <= now
    BY <1>1, <1>5, <2>1, UpdateTravelling
  <2> QED
    BY <1>2, <2>2
<1> QED
  BY <1>3, <1>4, <1>5

LEMMA WaypointInit == Init => IInv
<1> SUFFICES ASSUME NEW p \in Positions,
                    now = 0,
                    mobility = Resting(0, p, 0),
                    updates = {0} /\ nextCalc = StartTime /\ aborted = FALSE,
                    from = WaypointAt(0, p) /\ to = from,
                    read = [time |-> 0, pos |-> Whole(p)]
             PROVE  IInv
  BY DEF Init, Resting
<1>1. from \in [time : Nat, pos : Positions] /\ to.time = 0 /\ to.pos = p
  BY DEF WaypointAt
<1>2. Types
  BY <1>1, Constants DEF Types
<1>3. Rests
  BY <1>1, Constants DEF Rests
<1>4. ReadWas
  BY <1>1 DEF ReadWas
<1> QED
  BY <1>2, <1>3, <1>4 DEF IInv

LEMMA UpdateEventStep ==
  ASSUME IInv, UpdateEvent
  PROVE  IInv'
<1>1. /\ mobility' = Update(mobility) /\ now \in updates /\ updates' = updates \ {now}
      /\ UNCHANGED <<now, nextCalc, aborted, from, to, read>>
  BY DEF UpdateEvent
<1>2. now = to.time /\ updates' = {}
  BY <1>1 DEF IInv, Types
<1>3. (Rests \/ Travels)' /\ (Rests => Rests')
  BY <1>1, <1>2, UpdateKeepsForm DEF IInv
<1>4. Types'
  BY <1>1, <1>2 DEF IInv, Types
<1>5. ReadWas'
  <2>1. CASE read.pos = Whole(from.pos)
    BY <1>1, <2>1 DEF ReadWas
  <2>2. CASE \E t \in from.time .. now : t <= to.time /\ read.pos = OnTheWay(t)
    BY <1>1, <2>2 DEF ReadWas, OnTheWay, Span
  <2>3. CASE Rests /\ read.pos = Whole(to.pos)
    BY <1>1, <1>3, <2>3 DEF ReadWas
  <2> QED
    BY <2>1, <2>2, <2>3 DEF IInv, ReadWas
<1> QED
  BY <1>3, <1>4, <1>5 DEF IInv

LEMMA GetPositionStep ==
  ASSUME IInv, GetPosition
  PROVE  IInv'
<1>1. /\ mobility' = Update(mobility) /\ read' = mobility'.current
      /\ UNCHANGED <<now, updates, nextCalc, aborted, from, to>>
  BY DEF GetPosition
<1>2. /\ (Rests \/ Travels)'
      /\ Rests' => mobility'.current.pos = Whole(to.pos)
      /\ ~Rests' => mobility'.current.pos = OnTheWay(now) /\ from.time <= now /\ now <= to.time
  BY <1>1, UpdateKeepsForm DEF IInv
<1>3. Types'
  BY <1>1 DEF IInv, Types
<1>4. ReadWas'
  <2>1. CASE Rests'
    BY <1>1, <1>2, <2>1 DEF ReadWas
  <2>2. CASE ~Rests'
    <3>1. now \in from.time .. now
      BY <1>2, <2>2 DEF IInv, Types
    <3> QED
      BY <1>1, <1>2, <2>2, <3>1 DEF ReadWas, OnTheWay, Span
  <2> QED
    BY <2>1, <2>2
<1> QED
  BY <1>2, <1>3, <1>4 DEF IInv

(* Where Calculate runs, the Update of its time has been. *)
LEMMA CalculateRests ==
  ASSUME IInv, now = nextCalc, now \notin updates
  PROVE  Rests /\ updates = {}
BY DEF IInv, Types, Travels, Rests

LEMMA CalculateStep ==
  ASSUME IInv, NEW p \in Positions, Calculate(p)
  PROVE  IInv'
<1> DEFINE m == Update(mobility)
<1>1. Rests /\ updates = {} /\ now = nextCalc
  BY CalculateRests DEF Calculate
<1>2. m = Resting(now, to.pos, -Second)
  BY <1>1, UpdateResting DEF IInv
<1>3. m.waypoints = << >> /\ m.current.pos = Whole(to.pos)
  BY <1>2 DEF Resting
<1>4. /\ aborted' = FALSE
      /\ mobility' = [m EXCEPT !.waypoints = Append(@, WaypointAt(Later, p))]
      /\ read' = m.current /\ from' = WaypointAt(now, to.pos) /\ to' = WaypointAt(Later, p)
      /\ updates' = {Later} /\ nextCalc' = Later /\ now' = now
  BY <1>1, <1>3 DEF Calculate, Later
<1>5. now \in Nat /\ Later \in Nat /\ now <= Later /\ Later = now + CalculateInterval
      /\ to.pos \in Positions
  BY Constants DEF IInv, Types, Later
<1>6. from'.time = now /\ from'.pos = to.pos /\ to'.time = Later /\ to'.pos = p
  BY <1>4 DEF WaypointAt
<1>7. mobility' = Planned'
  BY <1>2, <1>4, <1>6 DEF Planned, Resting, WaypointAt
<1>8. Travels'
  <2>1. now' \in from'.time .. to'.time
    BY <1>4, <1>5, <1>6
  <2> QED
    BY <1>4, <1>5, <1>6, <1>7, <2>1 DEF Travels
<1>9. Types'
  BY <1>4, <1>5, <1>6 DEF IInv, Types, WaypointAt
<1>10. ReadWas'
  BY <1>3, <1>4, <1>6 DEF ReadWas
<1> QED
  BY <1>8, <1>9, <1>10 DEF IInv

LEMMA TickStep ==
  ASSUME IInv, Tick
  PROVE  IInv'
<1>1. /\ now < MaxTime /\ now \notin updates /\ now # nextCalc /\ now' = now + 1
      /\ UNCHANGED <<mobility, updates, nextCalc, aborted, from, to, read>>
  BY DEF Tick
<1>2. now \in Nat /\ to.time \in Nat /\ from.time \in Nat /\ MaxTime \in Nat
  BY Constants DEF IInv, Types
<1>3. Types'
  BY <1>1, <1>2 DEF IInv, Types
<1>4. 0 .. now \subseteq 0 .. now' /\ from.time .. now \subseteq from.time .. now'
  BY <1>1, <1>2
<1>5. Rests => Rests'
  BY <1>1, <1>2, <1>4 DEF Rests
<1>6. ASSUME Travels PROVE Travels'
  <2>1. now' \in from.time .. to.time
    BY <1>1, <1>2, <1>6 DEF IInv, Types, Travels
  <2>2. mobility = Planned \/ \E t \in from.time .. now' : mobility = Moving(t)
    BY <1>4, <1>6 DEF Travels
  <2> QED
    BY <1>1, <1>6, <2>1, <2>2 DEF Travels, Planned, Moving, OnTheWay, Span
<1>7. ReadWas'
  <2>1. CASE read.pos = Whole(from.pos)
    BY <1>1, <2>1 DEF ReadWas
  <2>2. CASE \E t \in from.time .. now : t <= to.time /\ read.pos = OnTheWay(t)
    <3>1. \E t \in from.time .. now' : t <= to.time /\ read.pos = OnTheWay(t)
      BY <1>4, <2>2
    <3> QED BY <1>1, <3>1 DEF ReadWas, OnTheWay, Span
  <2>3. CASE Rests /\ read.pos = Whole(to.pos)
    BY <1>1, <1>5, <2>3 DEF ReadWas
  <2> QED
    BY <2>1, <2>2, <2>3 DEF IInv, ReadWas
<1> QED
  BY <1>3, <1>5, <1>6, <1>7 DEF IInv

LEMMA WaypointStep == IInv /\ [Next]_vars => IInv'
<1> SUFFICES ASSUME IInv, [Next]_vars PROVE IInv'
  OBVIOUS
<1>1. CASE UpdateEvent
  BY <1>1, UpdateEventStep
<1>2. CASE \E p \in Positions : Calculate(p)
  BY <1>2, CalculateStep
<1>3. CASE GetPosition
  BY <1>3, GetPositionStep
<1>4. CASE Tick
  BY <1>4, TickStep
<1>5. CASE UNCHANGED vars
  BY <1>5 DEF vars, IInv, Types, Rests, Travels, ReadWas, Planned, Moving, OnTheWay, Span
<1> QED
  BY <1>1, <1>2, <1>3, <1>4, <1>5 DEF Next

LEMMA WaypointIInv == Spec => []IInv
BY WaypointInit, WaypointStep, PTL DEF Spec

-----------------------------------------------------------------------------
(* What the forms say of the positions read.                                 *)

(* The place on the way is between the ends, and nearer to the waypoint      *)
(* ahead the later it is.                                                    *)
LEMMA WayUp ==
  ASSUME Types, NEW s \in Nat, NEW t \in Nat, s <= t, t <= to.time, from.pos <= to.pos
  PROVE  /\ AtMost(Whole(from.pos), OnTheWay(t)) /\ AtMost(OnTheWay(t), Whole(to.pos))
         /\ AtMost(OnTheWay(s), OnTheWay(t))
<1> DEFINE v == to.pos - from.pos
           a == from.pos * Span
<1>1. /\ from.pos \in Int /\ to.pos \in Int /\ to.time \in Nat /\ v \in Nat
      /\ Span \in Nat \ {0} /\ Span = to.time + Second /\ Second \in Nat
  BY TypeFacts, Constants DEF Span
<1>2. a \in Int /\ v * Span \in Nat /\ a + v * Span = to.pos * Span
  BY <1>1
<1>3. v * (s + Second) \in Nat /\ v * (t + Second) \in Nat
  BY <1>1
<1>4. v * (s + Second) <= v * (t + Second)
  BY <1>1
<1>5. v * (t + Second) <= v * Span
  BY <1>1
<1>6. /\ OnTheWay(s).num = a + v * (s + Second) /\ OnTheWay(s).den = Span
      /\ OnTheWay(t).num = a + v * (t + Second) /\ OnTheWay(t).den = Span
  BY DEF OnTheWay, Fraction
<1>7. AtMost(Whole(from.pos), OnTheWay(t))
  BY <1>1, <1>2, <1>3, <1>6 DEF AtMost, Whole, Fraction
<1>8. AtMost(OnTheWay(t), Whole(to.pos))
  BY <1>1, <1>2, <1>3, <1>5, <1>6 DEF AtMost, Whole, Fraction
<1>9. (a + v * (s + Second)) * Span <= (a + v * (t + Second)) * Span
  <2> DEFINE x == a + v * (s + Second)
             y == a + v * (t + Second)
  <2>1. x \in Int /\ y \in Int /\ x <= y
    BY <1>2, <1>3, <1>4
  <2> HIDE DEF x, y
  <2>2. x * Span <= y * Span
    BY <1>1, <2>1
  <2> QED BY <2>2 DEF x, y
<1>10. AtMost(OnTheWay(s), OnTheWay(t))
  BY <1>6, <1>9 DEF AtMost
<1> QED
  BY <1>7, <1>8, <1>10

LEMMA WayDown ==
  ASSUME Types, NEW s \in Nat, NEW t \in Nat, s <= t, t <= to.time, to.pos <= from.pos
  PROVE  /\ AtMost(Whole(to.pos), OnTheWay(t)) /\ AtMost(OnTheWay(t), Whole(from.pos))
         /\ AtMost(OnTheWay(t), OnTheWay(s))
<1> DEFINE v == from.pos - to.pos
           a == from.pos * Span
<1>1. /\ from.pos \in Int /\ to.pos \in Int /\ to.time \in Nat /\ v \in Nat
      /\ Span \in Nat \ {0} /\ Span = to.time + Second /\ Second \in Nat
  BY TypeFacts, Constants DEF Span
<1>2. a \in Int /\ v * Span \in Nat /\ a - v * Span = to.pos * Span
  BY <1>1
<1>3. v * (s + Second) \in Nat /\ v * (t + Second) \in Nat
  BY <1>1
<1>4. v * (s + Second) <= v * (t + Second)
  BY <1>1
<1>5. v * (t + Second) <= v * Span
  BY <1>1
<1>6. /\ OnTheWay(s).num = a - v * (s + Second) /\ OnTheWay(s).den = Span
      /\ OnTheWay(t).num = a - v * (t + Second) /\ OnTheWay(t).den = Span
  <2>1. ASSUME NEW r \in Nat PROVE (to.pos - from.pos) * (r + Second) = -(v * (r + Second))
    BY <1>1
  <2> QED
    BY <1>2, <1>3, <2>1 DEF OnTheWay, Fraction
<1>7. AtMost(OnTheWay(t), Whole(from.pos))
  BY <1>1, <1>2, <1>3, <1>6 DEF AtMost, Whole, Fraction
<1>8. AtMost(Whole(to.pos), OnTheWay(t))
  BY <1>1, <1>2, <1>3, <1>5, <1>6 DEF AtMost, Whole, Fraction
<1>9. (a - v * (t + Second)) * Span <= (a - v * (s + Second)) * Span
  <2> DEFINE x == a - v * (s + Second)
             y == a - v * (t + Second)
  <2>1. x \in Int /\ y \in Int /\ y <= x
    BY <1>2, <1>3, <1>4
  <2> HIDE DEF x, y
  <2>2. y * Span <= x * Span
    BY <1>1, <2>1
  <2> QED BY <2>2 DEF x, y
<1>10. AtMost(OnTheWay(t), OnTheWay(s))
  BY <1>6, <1>9 DEF AtMost
<1> QED
  BY <1>7, <1>8, <1>10

LEMMA WholeOrder ==
  ASSUME NEW x \in Int, NEW y \in Int, x <= y
  PROVE  AtMost(Whole(x), Whole(y))
BY DEF AtMost, Whole, Fraction

LEMMA IInvIntegrates == IInv => IntegratesExactly
<1> SUFFICES ASSUME IInv, now = nextCalc, now \notin updates
             PROVE  Same(Update(mobility).current.pos, Whole(to.pos))
  BY DEF IntegratesExactly
<1>1. Update(mobility).current.pos = Whole(to.pos)
  BY CalculateRests, UpdateResting DEF IInv, Resting
<1> QED
  BY <1>1 DEF Same

LEMMA IInvOnLeg == IInv => OnLeg
<1> SUFFICES ASSUME IInv PROVE OnLeg
  OBVIOUS
<1>1. from.pos \in Int /\ to.pos \in Int /\ from.time \in Nat /\ now \in Nat
  BY TypeFacts DEF IInv
<1>2. AtMost(Whole(from.pos), Whole(from.pos)) /\ AtMost(Whole(to.pos), Whole(to.pos))
  BY <1>1, WholeOrder
<1>3. CASE from.pos <= to.pos
  <2>1. AtMost(Whole(from.pos), Whole(to.pos))
    BY <1>1, <1>3, WholeOrder
  <2>2. \A t \in from.time .. now : t <= to.time =>
          AtMost(Whole(from.pos), OnTheWay(t)) /\ AtMost(OnTheWay(t), Whole(to.pos))
    BY <1>1, <1>3, WayUp DEF IInv
  <2> QED
    BY <1>2, <2>1, <2>2 DEF IInv, ReadWas, OnLeg
<1>4. CASE to.pos <= from.pos
  <2>1. AtMost(Whole(to.pos), Whole(from.pos))
    BY <1>1, <1>4, WholeOrder
  <2>2. \A t \in from.time .. now : t <= to.time =>
          AtMost(Whole(to.pos), OnTheWay(t)) /\ AtMost(OnTheWay(t), Whole(from.pos))
    BY <1>1, <1>4, WayDown DEF IInv
  <2> QED
    BY <1>2, <2>1, <2>2 DEF IInv, ReadWas, OnLeg
<1> QED
  BY <1>1, <1>3, <1>4

LEMMA IInvOneAhead == IInv => TypeOK /\ OneAhead
<1> SUFFICES ASSUME IInv PROVE TypeOK /\ OneAhead
  OBVIOUS
<1>1. /\ now \in Nat /\ from.time \in Nat /\ from.pos \in Positions
      /\ to.time \in Nat /\ to.pos \in Positions /\ Span \in Nat \ {0}
  BY TypeFacts DEF IInv
<1>2. to \in [time : Nat, pos : Positions] /\ to = WaypointAt(to.time, to.pos)
  BY DEF IInv, Types, WaypointAt
<1>3. /\ mobility.current.time \in Nat /\ mobility.current.pos.den > 0
      /\ mobility.next.time \in Nat \cup {-Second} /\ mobility.next.pos \in Positions
      /\ mobility.waypoints \in Seq([time : Nat, pos : Positions])
      /\ Len(mobility.waypoints) <= 1
      /\ mobility.velocity.den > 0
  <2>1. CASE \E t \in Nat, n \in {0, -Second} : mobility = Resting(t, to.pos, n)
    BY <1>1, <2>1 DEF Resting, WaypointAt, Whole, Fraction
  <2>2. CASE mobility = Planned
    BY <1>1, <1>2, <2>2 DEF Planned, WaypointAt, Whole, Fraction
  <2>3. CASE \E t \in Nat : mobility = Moving(t)
    BY <1>1, <1>2, <2>3 DEF Moving, OnTheWay, Fraction
  <2> QED
    BY <1>1, <2>1, <2>2, <2>3 DEF IInv, Rests, Travels
<1>4. Cardinality(updates) <= 1
  <2>1. updates = {} \/ updates = {to.time}
    BY DEF IInv, Types
  <2>2. Cardinality({}) = 0 /\ Cardinality({to.time}) = 1
    BY FS_EmptySet, FS_Singleton, Zenon
  <2> QED
    BY <2>1, <2>2
<1>5. now \in 0 .. MaxTime /\ nextCalc \in Nat /\ aborted = FALSE /\ updates \subseteq Nat
  BY <1>1 DEF IInv, Types
<1> QED
  BY <1>3, <1>4, <1>5 DEF TypeOK, OneAhead

(* One read after another on the same leg. *)
LEMMA IInvApproaches ==
  ASSUME IInv, IInv', [Next]_vars, to' = to
  PROVE  \/ AtMost(read.pos, read'.pos) /\ AtMost(read'.pos, Whole(to.pos))
         \/ AtMost(Whole(to.pos), read'.pos) /\ AtMost(read'.pos, read.pos)
<1>1. /\ from.pos \in Int /\ to.pos \in Int /\ from.time \in Nat /\ to.time \in Nat
      /\ now \in Nat
  BY TypeFacts DEF IInv
<1>2. ASSUME NEW p \in Positions, Calculate(p) PROVE FALSE
  <2>1. Rests /\ to'.time = now + CalculateInterval
    BY <1>2, CalculateRests DEF Calculate, Later, WaypointAt
  <2> QED
    BY <1>1, <2>1, Constants DEF Rests
<1>3. OnLeg
  BY IInvOnLeg
<1>4. AtMost(Whole(to.pos), Whole(to.pos))
  BY <1>1, WholeOrder
<1>5. CASE read' = read
  <2>1. read.pos.num \in Int /\ read.pos.den \in Int
    <3>1. CASE read.pos = Whole(from.pos) \/ read.pos = Whole(to.pos)
      BY <1>1, <3>1 DEF Whole, Fraction
    <3>2. CASE \E t \in from.time .. now : read.pos = OnTheWay(t)
      <4>1. PICK t \in from.time .. now : read.pos = OnTheWay(t)
        BY <3>2
      <4>2. Span \in Nat /\ Second \in Nat /\ t \in Nat
        BY <1>1, TypeFacts, Constants DEF IInv
      <4>3. from.pos * Span + (to.pos - from.pos) * (t + Second) \in Int
        BY <1>1, <4>2
      <4> QED BY <4>1, <4>2, <4>3 DEF OnTheWay, Fraction
    <3> QED BY <3>1, <3>2 DEF IInv, ReadWas
  <2>2. AtMost(read.pos, read.pos)
    BY <2>1 DEF AtMost
  <2> QED
    BY <1>3, <1>5, <2>2 DEF OnLeg
<1>6. CASE GetPosition
  <2>1. /\ read' = mobility'.current /\ mobility' = Update(mobility)
        /\ UNCHANGED <<now, updates, nextCalc, aborted, from, to>>
    BY <1>6 DEF GetPosition
  <2>2. /\ Rests => Rests'
        /\ Rests' => read'.pos = Whole(to.pos)
        /\ ~Rests' => read'.pos = OnTheWay(now) /\ from.time <= now /\ now <= to.time
    BY <2>1, UpdateKeepsForm DEF IInv
  <2>3. CASE Rests'
    BY <1>3, <1>4, <2>2, <2>3 DEF OnLeg
  <2>4. CASE ~Rests'
    <3>1. read'.pos = OnTheWay(now) /\ from.time <= now /\ now <= to.time /\ ~Rests
      BY <2>2, <2>4
    <3>2. read.pos = Whole(from.pos) \/ \E t \in from.time .. now : read.pos = OnTheWay(t)
      BY <3>1 DEF IInv, ReadWas
    <3>3. CASE from.pos <= to.pos
      <4>1. /\ AtMost(Whole(from.pos), OnTheWay(now)) /\ AtMost(OnTheWay(now), Whole(to.pos))
            /\ \A t \in from.time .. now : AtMost(OnTheWay(t), OnTheWay(now))
        BY <1>1, <3>1, <3>3, WayUp DEF IInv
      <4> QED BY <3>1, <3>2, <4>1
    <3>4. CASE to.pos <= from.pos
      <4>1. /\ AtMost(Whole(to.pos), OnTheWay(now)) /\ AtMost(OnTheWay(now), Whole(from.pos))
            /\ \A t \in from.time .. now : AtMost(OnTheWay(now), OnTheWay(t))
        BY <1>1, <3>1, <3>4, WayDown DEF IInv
      <4> QED BY <3>1, <3>2, <4>1
    <3> QED BY <1>1, <3>3, <3>4
  <2> QED BY <2>3, <2>4
<1> QED
  BY <1>2, <1>5, <1>6 DEF Next, UpdateEvent, Tick, vars

-----------------------------------------------------------------------------
(* The theorems.                                                             *)

(* Calculate always finds the node at the waypoint it set one interval ago,  *)
(* although the leg to it was begun a second before the program.             *)
THEOREM WaypointIntegrates == Spec => []IntegratesExactly
BY WaypointIInv, IInvIntegrates, PTL

(* AddWaypoint never aborts, never divides by a zero span, and no position   *)
(* is read off the leg.                                                      *)
THEOREM WaypointInvariant == Spec => []WaypointInv
<1>1. IInv => WaypointInv
  BY IInvOnLeg, IInvOneAhead DEF WaypointInv
<1> QED
  BY <1>1, WaypointIInv, PTL

(* Positions read on one leg come nearer and nearer to its waypoint. *)
THEOREM WaypointApproaches == Spec => Approaches
<1>1. IInv /\ IInv' /\ [Next]_vars =>
        [(to' = to /\ now > to.time - CalculateInterval) =>
           \/ AtMost(read.pos, read'.pos) /\ AtMost(read'.pos, Whole(to.pos))
           \/ AtMost(Whole(to.pos), read'.pos) /\ AtMost(read'.pos, read.pos)]_vars
  BY IInvApproaches
<1> QED
  BY <1>1, WaypointIInv, PTL DEF Spec, Approaches
=============================================================================
