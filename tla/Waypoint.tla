------------------------------- MODULE Waypoint -------------------------------
(* The WaypointMobilityModel of one node (waypoint-mobility-model.cc) as the *)
(* UAV application uses it: main gives it an initial position, Calculate     *)
(* reads the position and adds the waypoint of the next Calculate, and logs, *)
(* beacons and receptions read the position at any time.  One coordinate,    *)
(* integer at waypoints and a fraction between them.                         *)
EXTENDS Keyframes, FiniteSetsExt, Sequences

CONSTANTS
  Positions,          \* positions of waypoints, integers
  CalculateInterval,  \* m_calculateInterval, in ticks
  StartTime,          \* time of the first Calculate, in ticks
  Second,             \* ticks in a second
  MaxTime             \* bound on the time

ASSUME WaypointAssumption ==
  /\ Positions \subseteq Int /\ Positions # {}
  /\ {CalculateInterval, Second} \subseteq Nat \ {0}
  /\ {StartTime, MaxTime} \subseteq Nat

WaypointAt(t, p) == [time |-> t, pos |-> p]

VARIABLES
  now,       \* Simulator::Now ()
  mobility,  \* m_current, m_next, m_waypoints, m_velocity
  updates,   \* times at which AddWaypoint has scheduled an Update
  nextCalc,  \* time of m_calculateEvent
  aborted,   \* AddWaypoint has aborted the program
  from, to,  \* where and when the last Calculate ran, the waypoint it added (history)
  read       \* the last position read, and when (history)

vars == <<now, mobility, updates, nextCalc, aborted, from, to, read>>

(* main: Install calls SetPosition, which with InitialPositionIsWaypoint     *)
(* becomes the first AddWaypoint.                                            *)
Init ==
  \E p \in Positions :
    /\ now = 0
    /\ mobility = [current |-> [time |-> 0, pos |-> Whole(p)], next |-> WaypointAt(0, p),
                   waypoints |-> << >>, velocity |-> Whole(0)]
    /\ updates = {0}
    /\ nextCalc = StartTime
    /\ aborted = FALSE
    /\ from = WaypointAt(0, p) /\ to = from
    /\ read = [time |-> 0, pos |-> Whole(p)]

-----------------------------------------------------------------------------
(* Update                                                                    *)

(* Faulty: the time of the position is not brought up to date. *)
StaleFollow(m) ==
  LET v == m.velocity
      c == m.current IN
  IF now > c.time
    THEN [m EXCEPT !.current.pos =
            Fraction(c.pos.num * (v.den \div c.pos.den) + v.num * (now - c.time), v.den)]
    ELSE m

(* Follow the velocity up to now; a fraction keeps the span of its leg. *)
Follow(m) ==
  LET v == m.velocity
      c == m.current IN
  IF now > c.time
    THEN [m EXCEPT !.current =
            [time |-> now,
             pos |-> Fraction(c.pos.num * (v.den \div c.pos.den) + v.num * (now - c.time), v.den)]]
    ELSE m

(* The waypoints still ahead of now, by index. *)
Ahead(m) == {i \in DOMAIN m.waypoints : m.waypoints[i].time > now}

(* Faulty: the velocity is not divided by the time span. *)
HastyLeg(m, i) ==
  LET a == IF i = 1 THEN m.next ELSE m.waypoints[i - 1]
      b == m.waypoints[i] IN
  [current |-> [time |-> a.time, pos |-> Whole(a.pos)], next |-> b,
   waypoints |-> SubSeq(m.waypoints, i + 1, Len(m.waypoints)),
   velocity |-> Whole(b.pos - a.pos)]

(* Leave the waypoint before index i and head for waypoint i. *)
Leg(m, i) ==
  LET a == IF i = 1 THEN m.next ELSE m.waypoints[i - 1]
      b == m.waypoints[i] IN
  [current |-> [time |-> a.time, pos |-> Whole(a.pos)], next |-> b,
   waypoints |-> SubSeq(m.waypoints, i + 1, Len(m.waypoints)),
   velocity |-> Fraction(b.pos - a.pos, b.time - a.time)]

(* Faulty: the position is left where the last Update put it. *)
DriftingArrive(m, b) ==
  [m EXCEPT !.current.time = now, !.next = WaypointAt(-Second, b.pos), !.waypoints = << >>,
            !.velocity = Whole(0)]

(* The last waypoint b is reached: stay there.  The time of m_next becomes   *)
(* -1 s "to make sure this doesn't happen more than once".                   *)
Arrive(m, b) ==
  [current |-> [time |-> now, pos |-> Whole(b.pos)], next |-> WaypointAt(-Second, b.pos),
   waypoints |-> << >>, velocity |-> Whole(0)]

(* Update; the loop over the waypoints in closed form. *)
Update(m) ==
  IF now < m.current.time THEN m
  ELSE IF now < m.next.time THEN Follow(m)
  ELSE IF Ahead(m) # {} THEN Follow(Leg(m, Min(Ahead(m))))
  ELSE IF m.waypoints # << >> THEN Arrive(m, m.waypoints[Len(m.waypoints)])
  ELSE IF m.current.time <= m.next.time THEN Arrive(m, m.next)
  ELSE [m EXCEPT !.current.time = now]

-----------------------------------------------------------------------------
(* The callers.                                                              *)

(* The Update that AddWaypoint scheduled for the time of its waypoint. *)
UpdateEvent ==
  /\ ~aborted /\ now \in updates
  /\ mobility' = Update(mobility)
  /\ updates' = updates \ {now}
  /\ UNCHANGED <<now, nextCalc, aborted, from, to, read>>

Later == now + CalculateInterval

(* Calculate of uav.cc reads the position and adds a waypoint; the Update of *)
(* that time was scheduled just before it and comes first.                   *)
Calculate(p) ==
  /\ ~aborted /\ now = nextCalc /\ now \notin updates /\ Later <= MaxTime
  /\ LET m == Update(mobility)
         w == WaypointAt(Later, p)
         ascending == m.waypoints = << >> \/ m.waypoints[Len(m.waypoints)].time < w.time IN
     /\ aborted' = ~ascending
     /\ mobility' = IF ascending THEN [m EXCEPT !.waypoints = Append(@, w)] ELSE m
     /\ read' = m.current
     /\ from' = WaypointAt(now, to.pos) /\ to' = w
  /\ updates' = updates \cup {Later}
  /\ nextCalc' = now + CalculateInterval
  /\ UNCHANGED now

(* GetPosition, from LogPositions, Send or HandleRead. *)
GetPosition ==
  /\ ~aborted
  /\ mobility' = Update(mobility)
  /\ read' = mobility'.current
  /\ UNCHANGED <<now, updates, nextCalc, aborted, from, to>>

(* Time passes when nothing is due. *)
Tick ==
  /\ ~aborted /\ now < MaxTime /\ now \notin updates /\ now # nextCalc
  /\ now' = now + 1
  /\ UNCHANGED <<mobility, updates, nextCalc, aborted, from, to, read>>

Next == UpdateEvent \/ (\E p \in Positions : Calculate(p)) \/ GetPosition \/ Tick

Spec == Init /\ [][Next]_vars

-----------------------------------------------------------------------------
(* Correctness.                                                              *)

(* Every variable has its type; a velocity never has a zero time span, which *)
(* Update asserts.                                                           *)
TypeOK ==
  /\ now \in 0 .. MaxTime /\ nextCalc \in Nat /\ aborted \in BOOLEAN
  /\ updates \subseteq Nat
  /\ mobility.current.time \in Nat /\ mobility.current.pos.den > 0
  /\ mobility.next.time \in Nat \cup {-Second} /\ mobility.next.pos \in Positions
  /\ mobility.waypoints \in Seq([time : Nat, pos : Positions])
  /\ mobility.velocity.den > 0

(* Calculate finds the node exactly at the waypoint it set one interval      *)
(* before: its integration neither lags behind nor drifts.                   *)
IntegratesExactly ==
  (now = nextCalc /\ now \notin updates) => Same(Update(mobility).current.pos, Whole(to.pos))

(* A waypoint has always been used up before the next one is added, so the   *)
(* abort of AddWaypoint is out of reach.                                     *)
OneAhead == ~aborted /\ Len(mobility.waypoints) <= 1 /\ Cardinality(updates) <= 1

(* A position read is between the waypoint left behind and the one ahead. *)
OnLeg ==
  \/ AtMost(Whole(from.pos), read.pos) /\ AtMost(read.pos, Whole(to.pos))
  \/ AtMost(Whole(to.pos), read.pos) /\ AtMost(read.pos, Whole(from.pos))

(* The waypoints and the positions read on the way along them. *)
WaypointInv == TypeOK /\ OneAhead /\ OnLeg

(* Between two Calculates, later reads are never farther from the waypoint   *)
(* ahead than earlier ones.                                                  *)
Approaches ==
  [][(to' = to /\ now > to.time - CalculateInterval) =>
       \/ AtMost(read.pos, read'.pos) /\ AtMost(read'.pos, Whole(to.pos))
       \/ AtMost(Whole(to.pos), read'.pos) /\ AtMost(read'.pos, read.pos)]_vars
=============================================================================
