-------------------------------- MODULE Swarm --------------------------------
(* The UAV swarm of scratch/non-ideal: one central and several peripheral    *)
(* nodes, each running the UAV application (uav.cc) under main.cc, driven by *)
(* ns-3's single event loop.  A step is one event of that loop or the        *)
(* arrival of one beacon.  Positions and velocities are abstracted to what   *)
(* the control depends on: at rest, moving, or no longer a finite number.    *)
EXTENDS EventQueue, FiniteSets, Sequences

CONSTANTS
  Peripherals,        \* s_Parameters.peripheralNodes
  PacketInterval,     \* s_Parameters.packetInterval, in ticks
  CalculateInterval,  \* s_Parameters.calculateInterval, in ticks
  LogInterval,        \* the 50 ms between two position logs, in ticks
  ClientStart,        \* the 1 s start time of the peripherals, in ticks
  AttackDelay,        \* the 15 s between start and Cyberattack, in ticks
  Duration,           \* s_Parameters.duration, in ticks
  CyberAttack,        \* what ShouldDoCyberAttack() is compiled to return
  MaxUid              \* bound on m_uid, above what Duration lets it reach

ASSUME SwarmAssumption ==
  /\ Peripherals \in Nat
  /\ {PacketInterval, CalculateInterval, LogInterval} \subseteq Nat \ {0}
  /\ {ClientStart, AttackDelay, Duration, MaxUid} \subseteq Nat
  /\ CyberAttack \in BOOLEAN

Nodes == 0 .. Peripherals
Central == 0
Attacker == 1          \* address 10.1.1.2, the first peripheral

CENTRAL == "central"        \* VIRTUAL_FORCES_CENTRAL_POSITION
PERIPHERAL == "peripheral"  \* VIRTUAL_FORCES_POSITION
Roles == {CENTRAL, PERIPHERAL}

Rest == "rest"      \* m_velocity is exactly zero
Moving == "moving"  \* m_velocity is finite
Bad == "bad"        \* a component of m_velocity is infinite or NaN
Velocities == {Rest, Moving, Bad}

(* UAVData as the receiver keeps it.  bad says the position is not finite;   *)
(* seq is not on the wire, it tells the model which beacon this is (0: the   *)
(* map m_swarmData has no entry).                                            *)
Beacon == [seq : Nat, role : Roles, bad : BOOLEAN]
NoBeacon == [seq |-> 0, role |-> PERIPHERAL, bad |-> FALSE]

Kinds == {"init", "start", "send", "calc", "log", "stop", "attack"}
Event == [ts : Nat, uid : Nat, kind : Kinds, node : Nodes]

VARIABLES
  queue,      \* DefaultSimulatorImpl::m_events
  now,        \* m_currentTs
  current,    \* m_currentUid
  uid,        \* m_uid, the next to hand out
  phase,      \* "run" inside Simulator::Run, "stop" once m_stop, "done" after main's flush
  fault,      \* "none", or why the process died
  bound,      \* nodes whose m_socket is bound with HandleRead installed
  role,       \* m_uavType
  vel,        \* m_velocity
  swarmData,  \* m_swarmData: swarmData[n][p] is what n knows of p
  sendCount,  \* m_packetSendCount
  recvCount,  \* m_packetRecvCount
  sendEvent,  \* key of m_sendEvent
  net,        \* net[s][d]: beacons of s on their way to d, oldest first
  csv,        \* lines of the positions file
  csvOpen,    \* s_csvFile is not null
  collided    \* nodes that have divided by a zero distance (history)

engine == <<queue, now, current, uid>>
file == <<csv, csvOpen>>
radio == <<swarmData, recvCount, net>>
vars == <<engine, phase, fault, bound, role, vel, radio, sendCount, sendEvent,
          file, collided>>

-----------------------------------------------------------------------------
(* The event loop.                                                           *)

(* Faulty: the delay taken for the time of the event. *)
RelativeScheduled(e, delay, kind, node, i) ==
  [ts |-> delay, uid |-> uid + i, kind |-> kind, node |-> node]

(* Simulator::Schedule (delay, ...) called while event e runs; i counts the  *)
(* calls the handler made before this one.                                   *)
Scheduled(e, delay, kind, node, i) ==
  [ts |-> e.ts + delay, uid |-> uid + i, kind |-> kind, node |-> node]

(* ProcessOneEvent takes e off the queue, advances the clock and invokes the *)
(* handler, which leaves the events of new in the queue.                     *)
Dispatch(e, new, count) ==
  /\ phase = "run" /\ fault = "none" /\ uid < MaxUid
  /\ IsNext(e, queue)
  /\ now' = e.ts
  /\ current' = e.uid
  /\ uid' = uid + count
  /\ queue' = (queue \ {e}) \cup new

(* The queue Run finds: nodes.Create scheduled Node::Initialize for each     *)
(* node, then main scheduled Simulator::Stop and LogPositions.               *)
FirstUid == 4

(* Faulty: the first log only after one interval. *)
LateSetup ==
  {[ts |-> 0, uid |-> FirstUid + n, kind |-> "init", node |-> n] : n \in Nodes}
    \cup {[ts |-> Duration, uid |-> FirstUid + Peripherals + 1, kind |-> "stop", node |-> Central],
          [ts |-> LogInterval, uid |-> FirstUid + Peripherals + 2, kind |-> "log", node |-> Central]}

Setup ==
  {[ts |-> 0, uid |-> FirstUid + n, kind |-> "init", node |-> n] : n \in Nodes}
    \cup {[ts |-> Duration, uid |-> FirstUid + Peripherals + 1, kind |-> "stop", node |-> Central],
          [ts |-> 0, uid |-> FirstUid + Peripherals + 2, kind |-> "log", node |-> Central]}

Init ==
  /\ queue = Setup
  /\ now = 0
  /\ current = 0
  /\ uid = FirstUid + Peripherals + 3
  /\ phase = "run"
  /\ fault = "none"
  /\ bound = {}
  /\ role = [n \in Nodes |-> IF n = Central THEN CENTRAL ELSE PERIPHERAL]
  /\ vel = [n \in Nodes |-> Rest]
  /\ swarmData = [n \in Nodes |-> [p \in Nodes |-> NoBeacon]]
  /\ sendCount = [n \in Nodes |-> [p \in Nodes |-> 0]]
  /\ recvCount = [n \in Nodes |-> [p \in Nodes |-> 0]]
  /\ sendEvent = [n \in Nodes |-> [ts |-> 0, uid |-> 0]]
  /\ net = [s \in Nodes |-> [d \in Nodes |-> << >>]]
  /\ csv = << >>
  /\ csvOpen = FALSE
  /\ collided = {}

-----------------------------------------------------------------------------
(* main.cc: the positions file.                                              *)

(* SetColor writes through s_csvFile without looking whether it is null. *)
SetColor(e) ==
  /\ csv' = IF csvOpen THEN Append(csv, [kind |-> "color", time |-> e.ts]) ELSE csv
  /\ fault' = IF csvOpen THEN fault ELSE "null stream"
  /\ UNCHANGED csvOpen

(* LogPositions opens the file the first time, writes one row per node and   *)
(* schedules itself again.                                                   *)
LogPositions(e) ==
  /\ e.kind = "log"
  /\ Dispatch(e, {Scheduled(e, LogInterval, "log", Central, 0)}, 1)
  /\ csvOpen' = TRUE
  /\ csv' = Append(csv, [kind |-> "frame", time |-> e.ts])
  /\ UNCHANGED <<phase, fault, bound, role, vel, radio, sendCount, sendEvent, collided>>

(* Simulator::Stop only raises m_stop; Run leaves its loop after the event. *)
Stop(e) ==
  /\ e.kind = "stop"
  /\ Dispatch(e, {}, 0)
  /\ phase' = "stop"
  /\ UNCHANGED <<fault, bound, role, vel, radio, sendCount, sendEvent, file, collided>>

(* After Run and Destroy, main flushes and closes the file. *)
Finish ==
  /\ phase = "stop"
  /\ phase' = "done"
  /\ fault' = IF csvOpen THEN fault ELSE "null stream"
  /\ csvOpen' = FALSE
  /\ UNCHANGED <<engine, bound, role, vel, radio, sendCount, sendEvent, csv, collided>>

-----------------------------------------------------------------------------
(* application.cc and uav.cc: the application of one node.                   *)

(* Times given to ApplicationContainer::Start. *)
StartTime(n) == IF n = Central THEN 0 ELSE ClientStart

(* Application::DoInitialize schedules StartApplication; no stop time is set. *)
Initialize(e) ==
  /\ e.kind = "init"
  /\ Dispatch(e, {Scheduled(e, StartTime(e.node), "start", e.node, 0)}, 1)
  /\ UNCHANGED <<phase, fault, bound, role, vel, radio, sendCount, sendEvent, file, collided>>

(* The test of StartApplication that arms the attack. *)
Armed(n) == CyberAttack /\ n = Attacker

(* Faulty: the central node, which never moves, left without Calculate. *)
IdleStartEvents(e) ==
  {Scheduled(e, 0, "send", e.node, 0)}
    \cup IF e.node = Central THEN {} ELSE {Scheduled(e, 0, "calc", e.node, 1)}

(* The events StartApplication schedules: the first Send and Calculate at    *)
(* once, and the attack on the armed node.                                   *)
StartEvents(e) ==
  {Scheduled(e, 0, "send", e.node, 0), Scheduled(e, 0, "calc", e.node, 1)}
    \cup IF Armed(e.node) THEN {Scheduled(e, AttackDelay, "attack", e.node, 2)} ELSE {}

(* StartApplication binds the socket, starts both chains of events and       *)
(* colours the central node.                                                 *)
StartApplication(e) ==
  /\ e.kind = "start"
  /\ Dispatch(e, StartEvents(e), IF Armed(e.node) THEN 3 ELSE 2)
  /\ bound' = bound \cup {e.node}
  /\ sendEvent' = [sendEvent EXCEPT ![e.node] = [ts |-> e.ts, uid |-> uid]]
  /\ IF role[e.node] = CENTRAL THEN SetColor(e) ELSE UNCHANGED <<file, fault>>
  /\ UNCHANGED <<phase, role, vel, radio, sendCount, collided>>

(* HandleRead keeps the beacon as the whole truth about its sender and never *)
(* looks at its own beacons.                                                 *)
HandleRead(d, s, beacon) ==
  IF s = d THEN UNCHANGED <<swarmData, recvCount>>
  ELSE /\ recvCount' = [recvCount EXCEPT ![d][s] = @ + 1]
       /\ swarmData' = [swarmData EXCEPT ![d][s] = beacon]

(* What Send puts in the payload for its next beacon to p. *)
BeaconOf(n, p) == [seq |-> sendCount[n][p] + 1, role |-> role[n], bad |-> vel[n] = Bad]

(* Send asserts that the previous event is over, then sends to every address *)
(* of the swarm.  The test meant to skip the node's own address compares an  *)
(* Ipv4Address with an InetSocketAddress and never holds, so the node counts *)
(* a beacon to itself, which loops back at once into HandleRead and is       *)
(* dropped there.                                                            *)
Send(e) ==
  LET n == e.node IN
  /\ e.kind = "send"
  /\ Dispatch(e, {Scheduled(e, PacketInterval, "send", n, 0)}, 1)
  /\ fault' = IF HasPassed(sendEvent[n], e.ts, e.uid) THEN fault ELSE "assert"
  /\ sendEvent' = [sendEvent EXCEPT ![n] = [ts |-> e.ts + PacketInterval, uid |-> uid]]
  /\ sendCount' = [sendCount EXCEPT ![n] = [p \in Nodes |-> sendCount[n][p] + 1]]
  /\ net' = [net EXCEPT ![n] = [p \in Nodes |->
               IF p = n THEN net[n][p] ELSE Append(net[n][p], BeaconOf(n, p))]]
  /\ HandleRead(n, n, BeaconOf(n, n))
  /\ UNCHANGED <<phase, bound, role, vel, file, collided>>

(* The entries of m_swarmData that exert a force on n: only a peripheral     *)
(* node feels any, from central and peripheral nodes alike.                  *)
Forces(n) == {p \in Nodes : role[n] = PERIPHERAL /\ swarmData[n][p].seq > 0}

(* One integration step.  A zero distance to an entry (hit), an entry whose  *)
(* position is not finite, or a velocity already lost makes every product    *)
(* NaN; otherwise a node that has felt a force keeps a finite velocity.      *)
Integrate(n, hit) ==
  IF vel[n] = Bad \/ hit \/ \E p \in Forces(n) : swarmData[n][p].bad THEN Bad
  ELSE IF vel[n] = Rest /\ Forces(n) = {} THEN Rest
  ELSE Moving

Calculate(e) ==
  LET n == e.node IN
  /\ e.kind = "calc"
  /\ Dispatch(e, {Scheduled(e, CalculateInterval, "calc", n, 0)}, 1)
  /\ \E hit \in BOOLEAN :
       /\ hit => Forces(n) # {}
       /\ vel' = [vel EXCEPT ![n] = Integrate(n, hit)]
       /\ collided' = IF hit THEN collided \cup {n} ELSE collided
  /\ UNCHANGED <<phase, fault, bound, role, radio, sendCount, sendEvent, file>>

(* The armed node starts to announce itself as the central one. *)
Cyberattack(e) ==
  /\ e.kind = "attack"
  /\ Dispatch(e, {}, 0)
  /\ role' = [role EXCEPT ![e.node] = CENTRAL]
  /\ SetColor(e)
  /\ UNCHANGED <<phase, bound, vel, radio, sendCount, sendEvent, collided>>

(* Faulty: a beacon delivered twice. *)
DuplicatingArrival(link, i) == SubSeq(link, i, Len(link))

(* Faulty: beacons that overtake each other. *)
OvertakingArrival(link, i) == SubSeq(link, 1, i - 1) \o SubSeq(link, i + 1, Len(link))

(* What is left of a link once its i-th beacon has arrived.  That the lower  *)
(* layers lose and delay beacons but keep their order is an assumption; for  *)
(* address resolution, the one layer that stores packets, ArpCache shows it. *)
AfterArrival(link, i) == SubSeq(link, i + 1, Len(link))

(* A beacon of s reaches d, whose UDP layer drops it unless d has bound its  *)
(* socket.                                                                   *)
Deliver(s, d) ==
  /\ phase = "run" /\ fault = "none"
  /\ \E i \in DOMAIN net[s][d] :
       /\ net' = [net EXCEPT ![s][d] = AfterArrival(@, i)]
       /\ IF d \in bound THEN HandleRead(d, s, net[s][d][i])
          ELSE UNCHANGED <<swarmData, recvCount>>
  /\ UNCHANGED <<engine, phase, fault, bound, role, vel, sendCount, sendEvent,
                 file, collided>>

-----------------------------------------------------------------------------
RunEvent == \E e \in queue :
  \/ Initialize(e) \/ StartApplication(e) \/ Send(e) \/ Calculate(e)
  \/ Cyberattack(e) \/ LogPositions(e) \/ Stop(e)

Step == RunEvent \/ Finish \/ \E s, d \in Nodes : Deliver(s, d)

(* The process has ended, has died, or has used up the uids of the model,    *)
(* which Terminates shows never to be the case.                              *)
Terminated ==
  /\ phase = "done" \/ fault # "none" \/ uid >= MaxUid
  /\ UNCHANGED vars

Next == Step \/ Terminated

Spec == Init /\ [][Next]_vars

(* The loop of Simulator::Run keeps taking events as long as there are any. *)
FairSpec == Spec /\ WF_vars(Step)
-----------------------------------------------------------------------------
(* Properties.                                                               *)

Links == [Nodes -> [Nodes -> Seq(Beacon)]]
Counts == [Nodes -> [Nodes -> Nat]]
Lines == [kind : {"frame", "color"}, time : Nat]

TypeOK ==
  /\ queue \subseteq Event
  /\ now \in Nat /\ current \in Nat /\ uid \in Nat
  /\ phase \in {"run", "stop", "done"}
  /\ fault \in {"none", "null stream", "assert"}
  /\ bound \subseteq Nodes
  /\ collided \subseteq Nodes
  /\ role \in [Nodes -> Roles]
  /\ vel \in [Nodes -> Velocities]
  /\ swarmData \in [Nodes -> [Nodes -> Beacon]]
  /\ sendCount \in Counts /\ recvCount \in Counts
  /\ sendEvent \in [Nodes -> [ts : Nat, uid : Nat]]
  /\ net \in Links
  /\ csv \in Seq(Lines)
  /\ csvOpen \in BOOLEAN

(* The process never dies: SetColor and main's final flush always find the   *)
(* positions file open although nothing but the order of events at time zero *)
(* opens it before they run, and the assertion at the head of Send holds.    *)
(* Only a duration of zero ends Run before the first log, so that the flush  *)
(* has no stream.                                                            *)
NoFault == fault = "none" \/ (Duration = 0 /\ phase = "done")

(* Each started node has exactly one pending Send and one pending Calculate, *)
(* and a node not yet started has none: the two self-scheduling chains are   *)
(* neither lost nor doubled, whatever else schedules events.                 *)
Pending(kind, n) == {e \in queue : e.kind = kind /\ e.node = n}
OneChain == \A n \in Nodes : \A kind \in {"send", "calc"} :
  IF n \in bound THEN \E e \in queue : Pending(kind, n) = {e}
  ELSE Pending(kind, n) = {}

(* The node started as central never moves and never gets a position that is *)
(* not finite, whatever beacons it hears: it is the anchor the others are    *)
(* attracted to and the error of a run is measured from.                     *)
CentralAnchored == vel[Central] = Rest

(* No node believes anything of itself: an entry of its own would lie at     *)
(* distance zero and destroy its velocity.                                   *)
NoSelfEntry == \A n \in Nodes : swarmData[n][n] = NoBeacon /\ recvCount[n][n] = 0

(* A node never counts more beacons of a peer than the peer counts as sent   *)
(* to it, and what it knows is the latest of those it counted.               *)
Conserved == \A n, p \in Nodes :
  /\ recvCount[n][p] <= swarmData[n][p].seq
  /\ swarmData[n][p].seq <= sendCount[p][n]
  /\ swarmData[n][p].seq > 0 => recvCount[n][p] > 0

(* Lost positions spread by beacons only: a node whose velocity is not       *)
(* finite either divided by a zero distance itself or still has the lost     *)
(* position of a peer in its swarm data.                                     *)
BadHasSource == \A n \in Nodes :
  vel[n] = Bad => \/ n \in collided
                  \/ \E p \in Nodes \ {n} : swarmData[n][p].bad /\ vel[p] = Bad

(* When main has closed the file it holds one frame for every log instant    *)
(* before the duration and none at it, although both events are due there,   *)
(* and its lines are in the order of time, no two frames at one.             *)
FrameTimes == {csv[i].time : i \in {j \in DOMAIN csv : csv[j].kind = "frame"}}
InTime(x, y) ==
  /\ x.time <= y.time
  /\ x.kind = "frame" /\ y.kind = "frame" => x.time < y.time
FramesComplete == phase = "done" =>
  /\ FrameTimes = {t \in 0 .. Duration - 1 : t % LogInterval = 0}
  /\ \A i, j \in DOMAIN csv : i < j => InTime(csv[i], csv[j])

(* What a node knows of a peer only ever gets newer. *)
Fresher == \A n, p \in Nodes : swarmData'[n][p].seq >= swarmData[n][p].seq
KnowledgeMonotone == [][Fresher]_vars

(* The simulation ends although every handler schedules its successor. *)
Terminates == <>(phase = "done")

(* The swarm keeps the promises of a discrete-event engine. *)
Keys == {[ts |-> e.ts, uid |-> e.uid] : e \in queue}
Engine == INSTANCE EventEngine WITH queue <- Keys
EngineSpec == Engine!Spec
-----------------------------------------------------------------------------
(* The inductive invariant behind the safety properties.                     *)

(* Every pending event is still to come, under a uid of its own. *)
Ordered ==
  /\ current < uid
  /\ \A e \in queue : ~ HasPassed(e, now, current) /\ e.uid < uid
  /\ \A e, f \in queue : e.uid = f.uid => e = f

(* The chain of self-scheduling events an event belongs to. *)
Chain(e) == IF e.kind \in {"init", "start"} THEN "boot" ELSE e.kind

(* Every node has at most one event of each chain: it is being started until *)
(* it is bound, and sends and calculates from then on.                       *)
Chains ==
  /\ \A e, f \in queue : /\ Chain(e) = Chain(f) /\ e.node = f.node
                         /\ Chain(e) \in {"boot", "send", "calc"}
                         => e = f
  /\ \A e \in queue : /\ Chain(e) = "boot" => e.node \notin bound
                      /\ Chain(e) \in {"send", "calc"} => e.node \in bound
  /\ \A n \in bound : \A kind \in {"send", "calc"} :
       \E e \in queue : e.kind = kind /\ e.node = n

(* The first log, due before every event that writes to the file and before  *)
(* the end, unless that is at once.                                          *)
LeadsWriters(l) ==
  /\ l.kind = "log" /\ l.ts = 0
  /\ \A e \in queue : /\ e.kind = "start" => l.uid < e.uid
                      /\ e.kind # "attack"
                      /\ e.kind = "stop" => e.ts > 0 \/ Duration = 0

(* It is still to come as long as the file is closed. *)
LogFirst == ~ csvOpen =>
  \/ phase = "run" /\ \E l \in queue : LeadsWriters(l)
  \/ phase = "stop" /\ Duration = 0
  \/ phase = "done"

(* m_sendEvent always identifies the pending Send. *)
SendEventCurrent == \A e \in queue :
  e.kind = "send" => sendEvent[e.node] = [ts |-> e.ts, uid |-> e.uid]

(* The inductive invariant of the event loop. *)
LoopInv == TypeOK /\ Ordered /\ Chains /\ SendEventCurrent /\ LogFirst /\ NoFault

(* The beacons on a link are those its receiver has not yet heard of, oldest *)
(* first, none invented: a late beacon cannot undo a newer one although      *)
(* UAVData carries no sequence number to tell them apart.                    *)
InFlight == \A s, d \in Nodes :
  /\ s = d => net[s][d] = << >>
  /\ \A i \in DOMAIN net[s][d] : /\ swarmData[d][s].seq < net[s][d][i].seq
                                 /\ net[s][d][i].seq <= sendCount[s][d]
  /\ \A i, j \in DOMAIN net[s][d] : i < j => net[s][d][i].seq < net[s][d][j].seq

(* What is said of a sender was true when it was said and still is: roles    *)
(* and velocities are lost once and for all.                                 *)
Truthful(b, s) ==
  /\ b.role = CENTRAL => role[s] = CENTRAL
  /\ b.bad => vel[s] = Bad
Truth == \A s, d \in Nodes :
  /\ swarmData[d][s].seq > 0 => Truthful(swarmData[d][s], s)
  /\ \A i \in DOMAIN net[s][d] : Truthful(net[s][d][i], s)

(* A lost position is never announced as a sound one later: whatever follows *)
(* a bad beacon of s on its way to d is bad.                                 *)
BadStays == \A s, d \in Nodes : \A i \in DOMAIN net[s][d] :
  /\ swarmData[d][s].bad => net[s][d][i].bad
  /\ \A j \in DOMAIN net[s][d] : i < j /\ net[s][d][i].bad => net[s][d][j].bad

(* The inductive invariant of the radio: beacons are conserved, ordered and  *)
(* true, no node believes anything of itself and the central node stays at   *)
(* rest, the anchor the error of a run is measured from.                     *)
RadioInv ==
  /\ role[Central] = CENTRAL /\ CentralAnchored
  /\ NoSelfEntry /\ Conserved /\ InFlight /\ Truth /\ BadStays
  /\ \A n, p \in Nodes : swarmData[n][p].seq = 0 => ~ swarmData[n][p].bad
==============================================================================
