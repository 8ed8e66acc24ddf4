----------------------------- MODULE SwarmProofs -----------------------------
(* Proofs about the swarm of any size, with any intervals and duration.      *)
EXTENDS Swarm, SequenceTheorems, TLAPS

-----------------------------------------------------------------------------
(* Types.                                                                    *)

LEMMA Constants ==
  /\ Peripherals \in Nat /\ Central \in Nodes
  /\ PacketInterval \in Nat \ {0} /\ CalculateInterval \in Nat \ {0}
  /\ LogInterval \in Nat \ {0}
  /\ PacketInterval \in Nat /\ CalculateInterval \in Nat
  /\ LogInterval \in Nat /\ Duration \in Nat
  /\ ClientStart \in Nat /\ AttackDelay \in Nat /\ MaxUid \in Nat
  /\ CyberAttack \in BOOLEAN
BY SwarmAssumption DEF Nodes, Central

LEMMA KindsOfEvents ==
  /\ "init" \in Kinds /\ "start" \in Kinds /\ "send" \in Kinds /\ "calc" \in Kinds
  /\ "log" \in Kinds /\ "stop" \in Kinds /\ "attack" \in Kinds
BY DEF Kinds

(* What a handler schedules is a well-formed event. *)
LEMMA ScheduledType ==
  ASSUME NEW e \in Event, NEW delay \in Nat, NEW kind \in Kinds, NEW node \in Nodes,
         NEW i \in Nat, uid \in Nat
  PROVE  /\ Scheduled(e, delay, kind, node, i) \in Event
         /\ Scheduled(e, delay, kind, node, i).ts = e.ts + delay
         /\ Scheduled(e, delay, kind, node, i).uid = uid + i
         /\ Scheduled(e, delay, kind, node, i).kind = kind
         /\ Scheduled(e, delay, kind, node, i).node = node
BY DEF Scheduled, Event

LEMMA DispatchType ==
  ASSUME TypeOK, NEW e \in queue, NEW new \in SUBSET Event, NEW count \in Nat,
         Dispatch(e, new, count)
  PROVE  queue' \subseteq Event /\ now' \in Nat /\ current' \in Nat /\ uid' \in Nat
BY DEF TypeOK, Dispatch, Event

(* TypeOK with its abbreviations expanded. *)
LEMMA TypeFacts ==
  ASSUME TypeOK
  PROVE  /\ \A e \in queue : e \in Event /\ e.node \in Nodes /\ e.kind \in Kinds
                            /\ e.ts \in Nat /\ e.uid \in Nat
         /\ now \in Nat /\ current \in Nat /\ uid \in Nat
         /\ sendCount \in [Nodes -> [Nodes -> Nat]]
         /\ recvCount \in [Nodes -> [Nodes -> Nat]]
         /\ net \in [Nodes -> [Nodes -> Seq(Beacon)]]
         /\ swarmData \in [Nodes -> [Nodes -> Beacon]]
         /\ role \in [Nodes -> Roles]
         /\ vel \in [Nodes -> Velocities]
         /\ sendEvent \in [Nodes -> [ts : Nat, uid : Nat]]
<1>1. queue \subseteq Event
  BY DEF TypeOK
<1>2. \A e \in queue : e \in Event /\ e.node \in Nodes /\ e.kind \in Kinds
                      /\ e.ts \in Nat /\ e.uid \in Nat
  BY <1>1 DEF Event
<1> QED
  BY <1>2 DEF TypeOK, Counts, Links

LEMMA BeaconType ==
  ASSUME TypeOK, NEW n \in Nodes, NEW p \in Nodes
  PROVE  BeaconOf(n, p) \in Beacon
<1>1. sendCount[n][p] + 1 \in Nat /\ role[n] \in Roles
  BY TypeFacts
<1>2. (vel[n] = Bad) \in BOOLEAN
  OBVIOUS
<1> QED
  BY <1>1, <1>2 DEF BeaconOf, Beacon

(* A link keeps its type, and its order, when a beacon arrives. *)
LEMMA ArrivalLink ==
  ASSUME NEW T, NEW link \in Seq(T), NEW i \in DOMAIN link
  PROVE  /\ AfterArrival(link, i) \in Seq(T)
         /\ DOMAIN AfterArrival(link, i) = 1 .. Len(link) - i
         /\ \A j \in 1 .. Len(link) - i :
              i + j \in DOMAIN link /\ AfterArrival(link, i)[j] = link[i + j]
BY DEF AfterArrival

LEMMA TypeInit == Init => TypeOK
<1> SUFFICES ASSUME Init PROVE TypeOK
  OBVIOUS
<1>1. queue \subseteq Event
  BY Constants DEF Init, Setup, FirstUid, Event, Kinds, Nodes
<1>2. NoBeacon \in Beacon
  BY DEF NoBeacon, Beacon, Roles
<1>3. swarmData \in [Nodes -> [Nodes -> Beacon]]
  BY <1>2 DEF Init
<1>4. sendCount \in Counts /\ recvCount \in Counts
  BY DEF Init, Counts
<1>5. net \in Links /\ csv \in Seq(Lines)
  BY EmptySeq DEF Init, Links
<1>6. role \in [Nodes -> Roles] /\ vel \in [Nodes -> Velocities]
  BY DEF Init, Roles, Velocities
<1>7. sendEvent \in [Nodes -> [ts : Nat, uid : Nat]]
  BY DEF Init
<1>8. now \in Nat /\ current \in Nat /\ uid \in Nat
  BY Constants DEF Init, FirstUid
<1>9. phase = "run" /\ fault = "none" /\ bound = {} /\ collided = {} /\ csvOpen = FALSE
  BY DEF Init
<1> QED
  BY <1>1, <1>3, <1>4, <1>5, <1>6, <1>7, <1>8, <1>9 DEF TypeOK

LEMMA TypeSetColor ==
  ASSUME TypeOK, NEW e \in Event, SetColor(e)
  PROVE  csv' \in Seq(Lines) /\ csvOpen' \in BOOLEAN
         /\ fault' \in {"none", "null stream", "assert"}
<1>1. [kind |-> "color", time |-> e.ts] \in Lines
  BY DEF Event, Lines
<1>2. Append(csv, [kind |-> "color", time |-> e.ts]) \in Seq(Lines)
  BY <1>1, AppendProperties DEF TypeOK
<1> QED
  BY <1>2 DEF SetColor, TypeOK

LEMMA TypeStep == TypeOK /\ [Next]_vars => TypeOK'
<1> SUFFICES ASSUME TypeOK, [Next]_vars PROVE TypeOK'
  OBVIOUS
<1>a. \A e \in queue : e \in Event /\ e.node \in Nodes /\ e.ts \in Nat /\ e.uid \in Nat
  BY TypeFacts
<1>b. uid \in Nat
  BY TypeFacts
<1>c. /\ sendCount \in [Nodes -> [Nodes -> Nat]]
      /\ recvCount \in [Nodes -> [Nodes -> Nat]]
      /\ net \in [Nodes -> [Nodes -> Seq(Beacon)]]
      /\ swarmData \in [Nodes -> [Nodes -> Beacon]]
      /\ sendEvent \in [Nodes -> [ts : Nat, uid : Nat]]
  BY TypeFacts
<1>1. ASSUME NEW e \in queue, Initialize(e) PROVE TypeOK'
  <2>1. StartTime(e.node) \in Nat
    BY Constants DEF StartTime
  <2>2. Scheduled(e, StartTime(e.node), "start", e.node, 0) \in Event
    BY <1>a, <1>b, <2>1, Constants, ScheduledType, KindsOfEvents
  <2>3. queue' \subseteq Event /\ now' \in Nat /\ current' \in Nat /\ uid' \in Nat
    BY <1>1, <2>2, DispatchType DEF Initialize
  <2> QED
    BY <1>1, <2>3 DEF Initialize, TypeOK, radio, file
<1>2. ASSUME NEW e \in queue, StartApplication(e) PROVE TypeOK'
  <2>1. /\ Scheduled(e, 0, "send", e.node, 0) \in Event
        /\ Scheduled(e, 0, "calc", e.node, 1) \in Event
        /\ Scheduled(e, AttackDelay, "attack", e.node, 2) \in Event
    BY <1>a, <1>b, Constants, ScheduledType, KindsOfEvents
  <2>2. StartEvents(e) \subseteq Event
    BY <2>1 DEF StartEvents
  <2>3. queue' \subseteq Event /\ now' \in Nat /\ current' \in Nat /\ uid' \in Nat
    BY <1>2, <2>2, DispatchType DEF StartApplication
  <2>4. csv' \in Seq(Lines) /\ csvOpen' \in BOOLEAN
        /\ fault' \in {"none", "null stream", "assert"}
    BY <1>2, <1>a, TypeSetColor DEF StartApplication, file, TypeOK
  <2>5. bound' \subseteq Nodes /\ sendEvent' \in [Nodes -> [ts : Nat, uid : Nat]]
    BY <1>2, <1>a, <1>b DEF StartApplication, TypeOK
  <2> QED
    BY <1>2, <2>3, <2>4, <2>5 DEF StartApplication, TypeOK, radio
<1>3. ASSUME NEW e \in queue, Send(e) PROVE TypeOK'
  <2>2. Scheduled(e, PacketInterval, "send", e.node, 0) \in Event
    BY <1>a, <1>b, Constants, ScheduledType, KindsOfEvents
  <2>3. queue' \subseteq Event /\ now' \in Nat /\ current' \in Nat /\ uid' \in Nat
    BY <1>3, <2>2, DispatchType DEF Send
  <2>4. fault' \in {"none", "null stream", "assert"}
    BY <1>3 DEF Send, TypeOK
  <2>a. sendEvent' \in [Nodes -> [ts : Nat, uid : Nat]]
    <3>1. [ts |-> e.ts + PacketInterval, uid |-> uid] \in [ts : Nat, uid : Nat]
      BY <1>a, <1>b, Constants
    <3> QED
      BY <1>3, <1>c, <3>1 DEF Send
  <2>5. sendCount' \in Counts
    <3>1. [p \in Nodes |-> sendCount[e.node][p] + 1] \in [Nodes -> Nat]
      <4>1. \A p \in Nodes : sendCount[e.node][p] \in Nat
        BY <1>a, <1>c
      <4> QED
        BY <4>1
    <3> QED
      BY <1>3, <1>c, <3>1 DEF Send, Counts
  <2>6. \A p \in Nodes : Append(net[e.node][p], BeaconOf(e.node, p)) \in Seq(Beacon)
    BY <1>a, <1>c, BeaconType, AppendProperties
  <2>7. net' \in Links
    <3>1. [p \in Nodes |-> IF p = e.node THEN net[e.node][p]
                           ELSE Append(net[e.node][p], BeaconOf(e.node, p))]
            \in [Nodes -> Seq(Beacon)]
      BY <1>a, <1>c, <2>6
    <3> QED
      BY <1>3, <1>c, <3>1 DEF Send, Links
  <2> QED
    BY <1>3, <2>3, <2>4, <2>a, <2>5, <2>7 DEF Send, HandleRead, TypeOK, file
<1>4. ASSUME NEW e \in queue, Calculate(e) PROVE TypeOK'
  <2>2. Scheduled(e, CalculateInterval, "calc", e.node, 0) \in Event
    BY <1>a, <1>b, Constants, ScheduledType, KindsOfEvents
  <2>3. queue' \subseteq Event /\ now' \in Nat /\ current' \in Nat /\ uid' \in Nat
    BY <1>4, <2>2, DispatchType DEF Calculate
  <2>4. \A hit \in BOOLEAN : Integrate(e.node, hit) \in Velocities
    BY DEF Integrate, Velocities
  <2>5. vel' \in [Nodes -> Velocities] /\ collided' \subseteq Nodes
    BY <1>4, <1>a, <2>4 DEF Calculate, TypeOK
  <2> QED
    BY <1>4, <2>3, <2>5 DEF Calculate, TypeOK, radio, file
<1>5. ASSUME NEW e \in queue, Cyberattack(e) PROVE TypeOK'
  <2>3. queue' \subseteq Event /\ now' \in Nat /\ current' \in Nat /\ uid' \in Nat
    BY <1>5, DispatchType DEF Cyberattack
  <2>4. csv' \in Seq(Lines) /\ csvOpen' \in BOOLEAN
        /\ fault' \in {"none", "null stream", "assert"}
    BY <1>5, <1>a, TypeSetColor DEF Cyberattack
  <2>5. role' \in [Nodes -> Roles]
    BY <1>5, <1>a DEF Cyberattack, TypeOK, Roles
  <2> QED
    BY <1>5, <2>3, <2>4, <2>5 DEF Cyberattack, TypeOK, radio
<1>6. ASSUME NEW e \in queue, LogPositions(e) PROVE TypeOK'
  <2>2. Scheduled(e, LogInterval, "log", Central, 0) \in Event
    BY <1>a, <1>b, Constants, ScheduledType, KindsOfEvents
  <2>3. queue' \subseteq Event /\ now' \in Nat /\ current' \in Nat /\ uid' \in Nat
    BY <1>6, <2>2, DispatchType DEF LogPositions
  <2>4. csv' \in Seq(Lines)
    <3>1. [kind |-> "frame", time |-> e.ts] \in Lines
      BY <1>a DEF Lines
    <3>2. csv \in Seq(Lines)
      BY DEF TypeOK
    <3> QED
      BY <1>6, <3>1, <3>2, AppendProperties DEF LogPositions
  <2> QED
    BY <1>6, <2>3, <2>4 DEF LogPositions, TypeOK, radio
<1>7. ASSUME NEW e \in queue, Stop(e) PROVE TypeOK'
  <2>3. queue' \subseteq Event /\ now' \in Nat /\ current' \in Nat /\ uid' \in Nat
    BY <1>7, DispatchType DEF Stop
  <2> QED
    BY <1>7, <2>3 DEF Stop, TypeOK, radio, file
<1>8. ASSUME Finish PROVE TypeOK'
  BY <1>8 DEF Finish, TypeOK, engine, radio
<1>9. ASSUME NEW s \in Nodes, NEW d \in Nodes, Deliver(s, d) PROVE TypeOK'
  <2>1. PICK i \in DOMAIN net[s][d] :
          /\ net' = [net EXCEPT ![s][d] = AfterArrival(@, i)]
          /\ IF d \in bound THEN HandleRead(d, s, net[s][d][i])
             ELSE UNCHANGED <<swarmData, recvCount>>
    BY <1>9 DEF Deliver
  <2>2. net[s][d] \in Seq(Beacon) /\ net[s][d][i] \in Beacon
    <3>1. net[s][d] \in Seq(Beacon)
      BY <1>c
    <3> QED
      BY <3>1, ElementOfSeq
  <2>3. AfterArrival(net[s][d], i) \in Seq(Beacon)
    BY <2>2, ArrivalLink
  <2>4. net' \in Links
    BY <1>c, <2>1, <2>3 DEF Links
  <2>5. swarmData' \in [Nodes -> [Nodes -> Beacon]] /\ recvCount' \in Counts
    <3>1. recvCount[d][s] + 1 \in Nat
      <4>1. recvCount[d][s] \in Nat
        BY <1>c
      <4> QED
        BY <4>1
    <3>2. CASE UNCHANGED <<swarmData, recvCount>>
      BY <1>c, <3>2 DEF Counts
    <3>3. CASE /\ recvCount' = [recvCount EXCEPT ![d][s] = @ + 1]
               /\ swarmData' = [swarmData EXCEPT ![d][s] = net[s][d][i]]
      <4>1. swarmData' \in [Nodes -> [Nodes -> Beacon]]
        BY <1>c, <2>2, <3>3
      <4>2. recvCount' \in [Nodes -> [Nodes -> Nat]]
        BY <1>c, <3>1, <3>3
      <4> QED
        BY <4>1, <4>2 DEF Counts
    <3> QED
      BY <2>1, <3>2, <3>3 DEF HandleRead
  <2> QED
    BY <1>9, <2>4, <2>5 DEF Deliver, TypeOK, engine, file
<1>10. ASSUME UNCHANGED vars PROVE TypeOK'
  BY <1>10 DEF vars, engine, file, radio, TypeOK
<1> QED
  BY <1>1, <1>2, <1>3, <1>4, <1>5, <1>6, <1>7, <1>8, <1>9, <1>10
     DEF Next, Step, RunEvent, Terminated

(* The variables of a swarm of any size keep their types. *)
THEOREM SwarmTypeCorrect == Spec => []TypeOK
BY TypeInit, TypeStep, PTL DEF Spec

-----------------------------------------------------------------------------
(* The event loop: one shape for all handlers.                               *)

(* The events the handler of e schedules, and how many. *)
Follow(e) ==
  IF e.kind = "init" THEN {Scheduled(e, StartTime(e.node), "start", e.node, 0)}
  ELSE IF e.kind = "start" THEN StartEvents(e)
  ELSE IF e.kind = "send" THEN {Scheduled(e, PacketInterval, "send", e.node, 0)}
  ELSE IF e.kind = "calc" THEN {Scheduled(e, CalculateInterval, "calc", e.node, 0)}
  ELSE IF e.kind = "log" THEN {Scheduled(e, LogInterval, "log", Central, 0)}
  ELSE {}

FollowCount(e) ==
  IF e.kind = "start" THEN (IF Armed(e.node) THEN 3 ELSE 2)
  ELSE IF e.kind \in {"init", "send", "calc", "log"} THEN 1
  ELSE 0

LEMMA EventShape ==
  ASSUME NEW e \in queue,
         \/ Initialize(e) \/ StartApplication(e) \/ Send(e) \/ Calculate(e)
         \/ Cyberattack(e) \/ LogPositions(e) \/ Stop(e)
  PROVE  Dispatch(e, Follow(e), FollowCount(e))
<1>1. CASE Initialize(e)
  BY <1>1 DEF Initialize, Follow, FollowCount
<1>2. CASE StartApplication(e)
  BY <1>2 DEF StartApplication, Follow, FollowCount
<1>3. CASE Send(e)
  BY <1>3 DEF Send, Follow, FollowCount
<1>4. CASE Calculate(e)
  BY <1>4 DEF Calculate, Follow, FollowCount
<1>5. CASE Cyberattack(e)
  BY <1>5 DEF Cyberattack, Follow, FollowCount
<1>6. CASE LogPositions(e)
  BY <1>6 DEF LogPositions, Follow, FollowCount
<1>7. CASE Stop(e)
  BY <1>7 DEF Stop, Follow, FollowCount
<1> QED
  BY <1>1, <1>2, <1>3, <1>4, <1>5, <1>6, <1>7

(* What a handler schedules is not in the past, has fresh uids of its own,   *)
(* and continues the chain of its own node.                                  *)
FollowKinds == [init |-> {"start"}, start |-> {"send", "calc", "attack"},
                send |-> {"send"}, calc |-> {"calc"}, log |-> {"log"},
                stop |-> {}, attack |-> {}]

LEMMA FollowFacts ==
  ASSUME TypeOK, NEW e \in queue
  PROVE  /\ Follow(e) \subseteq Event
         /\ FollowCount(e) \in Nat
         /\ \A k \in Follow(e) : /\ k.ts >= e.ts
                                 /\ uid <= k.uid /\ k.uid < uid + FollowCount(e)
                                 /\ k.kind \in FollowKinds[e.kind]
                                 /\ e.kind # "log" => k.node = e.node
         /\ \A j, k \in Follow(e) : j.uid = k.uid \/ j.kind = k.kind => j = k
<1>1. /\ e \in Event /\ e.node \in Nodes /\ e.ts \in Nat /\ e.uid \in Nat /\ uid \in Nat
      /\ e.kind \in Kinds
  BY TypeFacts
<1>2. StartTime(e.node) \in Nat
  BY Constants DEF StartTime
<1>3. FollowCount(e) \in Nat
  BY DEF FollowCount
<1>4. CASE e.kind = "init"
  <2> DEFINE k == Scheduled(e, StartTime(e.node), "start", e.node, 0)
  <2>1. k \in Event /\ k.ts = e.ts + StartTime(e.node) /\ k.uid = uid + 0
        /\ k.kind = "start" /\ k.node = e.node
    BY <1>1, <1>2, KindsOfEvents DEF Scheduled, Event
  <2>2. Follow(e) = {k} /\ FollowCount(e) = 1
    BY <1>4 DEF Follow, FollowCount
  <2> HIDE DEF k
  <2> QED
    BY <1>1, <1>2, <1>4, <2>1, <2>2 DEF FollowKinds
<1>5. CASE e.kind = "start"
  <2> DEFINE s == Scheduled(e, 0, "send", e.node, 0)
             c == Scheduled(e, 0, "calc", e.node, 1)
             a == Scheduled(e, AttackDelay, "attack", e.node, 2)
  <2>1. s \in Event /\ s.ts = e.ts /\ s.uid = uid /\ s.kind = "send" /\ s.node = e.node
    BY <1>1, KindsOfEvents DEF Scheduled, Event
  <2>2. c \in Event /\ c.ts = e.ts /\ c.uid = uid + 1 /\ c.kind = "calc" /\ c.node = e.node
    BY <1>1, KindsOfEvents DEF Scheduled, Event
  <2>3. a \in Event /\ a.ts = e.ts + AttackDelay /\ a.uid = uid + 2 /\ a.kind = "attack"
        /\ a.node = e.node
    BY <1>1, Constants, KindsOfEvents DEF Scheduled, Event
  <2>4. /\ Follow(e) = {s, c} \cup IF Armed(e.node) THEN {a} ELSE {}
        /\ FollowCount(e) = IF Armed(e.node) THEN 3 ELSE 2
    BY <1>5 DEF Follow, FollowCount, StartEvents
  <2> HIDE DEF s, c, a
  <2>5. CASE Armed(e.node)
    <3>1. Follow(e) = {s, c, a} /\ FollowCount(e) = 3
      BY <2>4, <2>5
    <3>2. \A k \in Follow(e) : k \in Event /\ k.ts >= e.ts /\ uid <= k.uid /\ k.uid < uid + 3
                             /\ k.node = e.node
      BY <1>1, <2>1, <2>2, <2>3, <3>1, Constants
    <3>3. \A j, k \in Follow(e) : j.uid = k.uid \/ j.kind = k.kind => j = k
      BY <1>1, <2>1, <2>2, <2>3, <3>1
    <3> QED
      BY <1>5, <2>1, <2>2, <2>3, <3>1, <3>2, <3>3 DEF FollowKinds
  <2>6. CASE ~ Armed(e.node)
    <3>1. Follow(e) = {s, c} /\ FollowCount(e) = 2
      BY <2>4, <2>6
    <3>2. \A k \in Follow(e) : k \in Event /\ k.ts >= e.ts /\ uid <= k.uid /\ k.uid < uid + 2
                             /\ k.node = e.node
      BY <1>1, <2>1, <2>2, <3>1
    <3>3. \A j, k \in Follow(e) : j.uid = k.uid \/ j.kind = k.kind => j = k
      BY <1>1, <2>1, <2>2, <3>1
    <3> QED
      BY <1>5, <2>1, <2>2, <3>1, <3>2, <3>3 DEF FollowKinds
  <2> QED
    BY <2>5, <2>6
<1>6. CASE e.kind = "send"
  <2> DEFINE k == Scheduled(e, PacketInterval, "send", e.node, 0)
  <2>1. k \in Event /\ k.ts = e.ts + PacketInterval /\ k.uid = uid + 0
        /\ k.kind = "send" /\ k.node = e.node
    BY <1>1, Constants, KindsOfEvents DEF Scheduled, Event
  <2>2. Follow(e) = {k} /\ FollowCount(e) = 1
    BY <1>6 DEF Follow, FollowCount
  <2> HIDE DEF k
  <2> QED
    BY <1>1, <1>6, <2>1, <2>2, Constants DEF FollowKinds
<1>7. CASE e.kind = "calc"
  <2> DEFINE k == Scheduled(e, CalculateInterval, "calc", e.node, 0)
  <2>1. k \in Event /\ k.ts = e.ts + CalculateInterval /\ k.uid = uid + 0
        /\ k.kind = "calc" /\ k.node = e.node
    BY <1>1, Constants, KindsOfEvents DEF Scheduled, Event
  <2>2. Follow(e) = {k} /\ FollowCount(e) = 1
    BY <1>7 DEF Follow, FollowCount
  <2> HIDE DEF k
  <2> QED
    BY <1>1, <1>7, <2>1, <2>2, Constants DEF FollowKinds
<1>8. CASE e.kind = "log"
  <2> DEFINE k == Scheduled(e, LogInterval, "log", Central, 0)
  <2>1. k \in Event /\ k.ts = e.ts + LogInterval /\ k.uid = uid + 0 /\ k.kind = "log"
    BY <1>1, Constants, KindsOfEvents DEF Scheduled, Event
  <2>2. Follow(e) = {k} /\ FollowCount(e) = 1
    BY <1>8 DEF Follow, FollowCount
  <2> HIDE DEF k
  <2> QED
    BY <1>1, <1>8, <2>1, <2>2, Constants DEF FollowKinds
<1>9. CASE e.kind \in {"stop", "attack"}
  BY <1>3, <1>9 DEF Follow
<1> QED
  BY <1>1, <1>4, <1>5, <1>6, <1>7, <1>8, <1>9 DEF Kinds

(* The kinds that follow each other, one by one. *)
LEMMA FollowKind ==
  ASSUME TypeOK, NEW e \in queue, NEW k \in Follow(e)
  PROVE  /\ e.kind = "init" => k.kind = "start"
         /\ e.kind = "start" => k.kind \in {"send", "calc", "attack"}
         /\ e.kind \in {"send", "calc", "log"} => k.kind = e.kind
         /\ e.kind \notin {"stop", "attack"}
<1>1. k.kind \in FollowKinds[e.kind]
  BY FollowFacts
<1>2. e.kind \in Kinds
  BY TypeFacts
<1> QED
  BY <1>1, <1>2 DEF FollowKinds, Kinds

(* Taking the first event and scheduling ahead keeps the queue in order. *)
LEMMA OrderedStep ==
  ASSUME TypeOK, Ordered, NEW e \in queue, Dispatch(e, Follow(e), FollowCount(e))
  PROVE  Ordered'
<1>1. /\ now' = e.ts /\ current' = e.uid /\ uid' = uid + FollowCount(e)
      /\ queue' = (queue \ {e}) \cup Follow(e)
      /\ \A f \in queue \ {e} : Before(e, f)
  BY DEF Dispatch, IsNext
<1>2. /\ \A f \in queue : f.ts \in Nat /\ f.uid \in Nat /\ f.uid < uid
      /\ uid \in Nat /\ FollowCount(e) \in Nat
  BY TypeFacts, FollowFacts DEF Ordered
<1>3. \A k \in Follow(e) : /\ k.ts \in Nat /\ k.uid \in Nat /\ k.ts >= e.ts
                           /\ uid <= k.uid /\ k.uid < uid'
  BY <1>1, FollowFacts DEF Event
<1>4. current' < uid'
  BY <1>1, <1>2
<1>5. ASSUME NEW f \in queue' PROVE ~ HasPassed(f, now', current') /\ f.uid < uid'
  <2>1. CASE f \in queue \ {e}
    BY <1>1, <1>2, <2>1 DEF Before, HasPassed
  <2>2. CASE f \in Follow(e)
    BY <1>1, <1>2, <1>3, <2>2 DEF HasPassed
  <2> QED
    BY <1>1, <2>1, <2>2
<1>6. ASSUME NEW f \in queue', NEW g \in queue', f.uid = g.uid PROVE f = g
  <2>1. CASE f \in queue /\ g \in queue
    BY <1>6, <2>1 DEF Ordered
  <2>2. CASE f \in Follow(e) /\ g \in Follow(e)
    BY <1>6, <2>2, FollowFacts
  <2>3. CASE f \in queue /\ g \in Follow(e)
    BY <1>2, <1>3, <1>6, <2>3
  <2>4. CASE f \in Follow(e) /\ g \in queue
    BY <1>2, <1>3, <1>6, <2>4
  <2> QED
    BY <1>1, <2>1, <2>2, <2>3, <2>4
<1> QED
  BY <1>4, <1>5, <1>6 DEF Ordered

(* A chain once started goes on. *)
LEMMA FollowExists ==
  ASSUME NEW e \in queue
  PROVE  /\ e.kind \in {"send", "calc"} => \E k \in Follow(e) : k.kind = e.kind /\ k.node = e.node
         /\ e.kind = "start" => \A kind \in {"send", "calc"} :
              \E k \in Follow(e) : k.kind = kind /\ k.node = e.node
<1>1. CASE e.kind = "send"
  <2>1. Scheduled(e, PacketInterval, "send", e.node, 0) \in Follow(e)
    BY <1>1 DEF Follow
  <2> QED
    BY <1>1, <2>1 DEF Scheduled
<1>2. CASE e.kind = "calc"
  <2>1. Scheduled(e, CalculateInterval, "calc", e.node, 0) \in Follow(e)
    BY <1>2 DEF Follow
  <2> QED
    BY <1>2, <2>1 DEF Scheduled
<1>3. CASE e.kind = "start"
  <2>1. /\ Scheduled(e, 0, "send", e.node, 0) \in Follow(e)
        /\ Scheduled(e, 0, "calc", e.node, 1) \in Follow(e)
    BY <1>3 DEF Follow, StartEvents
  <2> QED
    BY <1>3, <2>1 DEF Scheduled
<1> QED
  BY <1>1, <1>2, <1>3

LEMMA ChainKind ==
  ASSUME NEW e, e.kind \in Kinds
  PROVE  /\ Chain(e) = "boot" <=> e.kind \in {"init", "start"}
         /\ e.kind \notin {"init", "start"} => Chain(e) = e.kind
         /\ Chain(e) \in {"send", "calc"} => Chain(e) = e.kind
BY DEF Chain, Kinds

(* Each handler replaces its event by at most one event of the same chain,   *)
(* and only StartApplication moves a node from one chain to the others.      *)
LEMMA ChainsStep ==
  ASSUME TypeOK, Chains, NEW e \in queue, Dispatch(e, Follow(e), FollowCount(e)),
         bound' = IF e.kind = "start" THEN bound \cup {e.node} ELSE bound
  PROVE  Chains'
<1>1. queue' = (queue \ {e}) \cup Follow(e)
  BY DEF Dispatch
<1>2. \A f, g \in queue : /\ Chain(f) = Chain(g) /\ f.node = g.node
                          /\ Chain(f) \in {"boot", "send", "calc"}
                          => f = g
  BY DEF Chains
<1>3. \A f \in queue : /\ Chain(f) = "boot" => f.node \notin bound
                       /\ Chain(f) \in {"send", "calc"} => f.node \in bound
  BY DEF Chains
<1>4. \A h \in Follow(e) : /\ e.kind # "log" => h.node = e.node
                           /\ e.kind = "init" => h.kind = "start"
                           /\ e.kind = "start" => h.kind \in {"send", "calc", "attack"}
                           /\ e.kind \in {"send", "calc", "log"} => h.kind = e.kind
                           /\ e.kind \in {"init", "start", "send", "calc", "log"}
  <2> TAKE h \in Follow(e)
  <2>1. e.kind \in Kinds /\ e.kind \notin {"stop", "attack"}
    BY FollowKind, TypeFacts
  <2> QED
    BY <2>1, FollowKind, FollowFacts DEF Kinds
<1>k. /\ \A f \in queue : f.kind \in Kinds
      /\ \A k \in Follow(e) : k.kind \in Kinds
  BY TypeFacts, FollowFacts DEF Event
<1>5. ASSUME NEW f \in queue \ {e}, NEW k \in Follow(e), Chain(f) = Chain(k),
             f.node = k.node, Chain(k) \in {"boot", "send", "calc"}
      PROVE  FALSE
  <2>1. CASE e.kind \in {"init", "send", "calc"}
    <3>1. Chain(k) = Chain(e) /\ k.node = e.node
      <4>1. CASE e.kind = "init"
        <5>1. k.kind = "start" /\ k.node = e.node
          BY <1>4, <4>1
        <5> QED
          BY <4>1, <5>1 DEF Chain
      <4>2. CASE e.kind \in {"send", "calc"}
        <5>1. k.kind = e.kind /\ k.node = e.node
          BY <1>4, <4>2
        <5> QED
          BY <5>1 DEF Chain
      <4> QED
        BY <2>1, <4>1, <4>2
    <3> QED
      BY <1>2, <1>5, <3>1
  <2>2. CASE e.kind = "start"
    <3>1. Chain(e) = "boot" /\ Chain(f) \in {"send", "calc"} /\ f.node = e.node
      <4>1. k.kind \in {"send", "calc", "attack"} /\ k.node = e.node
        BY <1>4, <2>2
      <4>2. Chain(k) = k.kind
        BY <4>1 DEF Chain
      <4>3. Chain(e) = "boot"
        BY <2>2 DEF Chain
      <4> QED
        BY <1>5, <4>1, <4>2, <4>3
    <3> QED
      BY <1>3, <3>1
  <2>3. CASE e.kind = "log"
    <3>1. k.kind = "log"
      BY <1>4, <2>3
    <3> QED
      BY <1>5, <3>1 DEF Chain
  <2> QED
    BY <1>4, <2>1, <2>2, <2>3
<1>6. ASSUME NEW f \in queue', NEW g \in queue', Chain(f) = Chain(g), f.node = g.node,
             Chain(f) \in {"boot", "send", "calc"}
      PROVE  f = g
  <2>1. CASE f \in Follow(e) /\ g \in Follow(e)
    <3>1. f.kind = g.kind
      <4>1. CASE e.kind = "start"
        <5>1. f.kind \in {"send", "calc", "attack"} /\ g.kind \in {"send", "calc", "attack"}
          BY <1>4, <2>1, <4>1
        <5> QED
          BY <1>6, <5>1 DEF Chain
      <4>2. CASE e.kind # "start"
        BY <1>4, <2>1, <4>2
      <4> QED
        BY <4>1, <4>2
    <3> QED
      BY <2>1, <3>1, FollowFacts
  <2> QED
    BY <1>1, <1>2, <1>5, <1>6, <2>1
<1>7. ASSUME NEW f \in queue'
      PROVE  /\ Chain(f) = "boot" => f.node \notin bound'
             /\ Chain(f) \in {"send", "calc"} => f.node \in bound'
  <2>1. CASE f \in queue \ {e}
    <3>1. ASSUME Chain(f) = "boot", e.kind = "start" PROVE f.node # e.node
      <4>1. Chain(e) = "boot"
        BY <3>1 DEF Chain
      <4> QED
        BY <1>2, <2>1, <3>1, <4>1
    <3>2. CASE e.kind = "start"
      BY <1>3, <2>1, <3>1, <3>2
    <3>3. CASE e.kind # "start"
      BY <1>3, <2>1, <3>3
    <3> QED
      BY <3>2, <3>3
  <2>2. CASE f \in Follow(e)
    <3>1. CASE e.kind = "init"
      <4>1. f.kind = "start" /\ f.node = e.node
        BY <1>4, <2>2, <3>1
      <4>2. e.node \notin bound /\ bound' = bound
        BY <1>3, <3>1 DEF Chain
      <4> QED
        BY <4>1, <4>2 DEF Chain
    <3>2. CASE e.kind = "start"
      <4>1. f.kind \in {"send", "calc", "attack"} /\ f.node = e.node
        BY <1>4, <2>2, <3>2
      <4> QED
        BY <3>2, <4>1 DEF Chain
    <3>3. CASE e.kind \in {"send", "calc"}
      <4>1. f.kind = e.kind /\ f.node = e.node
        BY <1>4, <2>2, <3>3
      <4>2. Chain(f) = e.kind /\ Chain(e) = e.kind /\ bound' = bound
        BY <3>3, <4>1 DEF Chain
      <4> QED
        BY <1>3, <3>3, <4>1, <4>2
    <3>4. CASE e.kind = "log"
      <4>1. f.kind = "log"
        BY <1>4, <2>2, <3>4
      <4> QED
        BY <4>1 DEF Chain
    <3> QED
      BY <1>4, <2>2, <3>1, <3>2, <3>3, <3>4
  <2> QED
    BY <1>1, <2>1, <2>2
<1>8. ASSUME NEW n \in bound', NEW kind \in {"send", "calc"}
      PROVE  \E f \in queue' : f.kind = kind /\ f.node = n
  <2>1. CASE n \in bound
    <3>1. PICK f \in queue : f.kind = kind /\ f.node = n
      BY <2>1 DEF Chains
    <3>2. CASE f = e
      BY <1>1, <3>1, <3>2, FollowExists
    <3> QED
      BY <1>1, <3>1, <3>2
  <2>2. CASE e.kind = "start" /\ n = e.node
    BY <1>1, <2>2, FollowExists
  <2> QED
    BY <2>1, <2>2
<1> QED
  BY <1>6, <1>7, <1>8 DEF Chains

(* Until the first log has run, it stays ahead of all who need the file. *)
LEMMA LogFirstStep ==
  ASSUME TypeOK, Ordered, LogFirst, NEW e \in queue,
         Dispatch(e, Follow(e), FollowCount(e)), ~ csvOpen
  PROVE  /\ e.kind \in {"init", "send", "calc", "log"} \/ (e.kind = "stop" /\ Duration = 0)
         /\ phase' = (IF e.kind = "stop" THEN "stop" ELSE phase)
            /\ csvOpen' = (IF e.kind = "log" THEN TRUE ELSE csvOpen) => LogFirst'
<1>1. /\ phase = "run" /\ queue' = (queue \ {e}) \cup Follow(e)
      /\ \A f \in queue \ {e} : Before(e, f)
  BY DEF Dispatch, IsNext
<1>7. PICK l \in queue : LeadsWriters(l)
  BY <1>1 DEF LogFirst
<1>2. /\ l.kind = "log" /\ l.ts = 0
      /\ \A f \in queue : /\ f.kind = "start" => l.uid < f.uid
                          /\ f.kind # "attack"
                          /\ f.kind = "stop" => f.ts > 0 \/ Duration = 0
  BY <1>7 DEF LeadsWriters
<1>3. /\ \A f \in queue : f.kind \in Kinds /\ f.ts \in Nat /\ f.uid \in Nat /\ f.uid < uid
      /\ uid \in Nat
  BY TypeFacts DEF Ordered
<1>4. e.kind # "start" /\ (e.kind = "stop" => Duration = 0) /\ e.kind # "attack"
  BY <1>1, <1>2, <1>3 DEF Before
<1>5. e.kind \in {"init", "send", "calc", "log"} \/ (e.kind = "stop" /\ Duration = 0)
  BY <1>3, <1>4 DEF Kinds
<1>6. ASSUME phase' = IF e.kind = "stop" THEN "stop" ELSE phase,
             csvOpen' = IF e.kind = "log" THEN TRUE ELSE csvOpen
      PROVE  LogFirst'
  <2>1. CASE e.kind = "log"
    BY <1>6, <2>1 DEF LogFirst
  <2>3. CASE e.kind = "stop"
    BY <1>4, <1>6, <2>3 DEF LogFirst
  <2>2. CASE e.kind # "log" /\ e.kind # "stop"
    <3>1. l \in queue'
      BY <1>1, <1>2, <2>2
    <3>2. ASSUME NEW f \in Follow(e)
          PROVE  /\ f.kind = "start" => l.uid < f.uid
                 /\ f.kind # "attack"
                 /\ f.kind = "stop" => f.ts > 0 \/ Duration = 0
      <4>1. f.kind \in {"start", "send", "calc"}
        BY <1>5, <2>2, FollowKind
      <4>2. uid <= f.uid /\ f.uid \in Nat
        BY FollowFacts DEF Event
      <4> QED
        BY <1>3, <4>1, <4>2
    <3>3. LeadsWriters(l)'
      BY <1>1, <1>2, <3>2 DEF LeadsWriters
    <3> QED
      BY <1>1, <1>6, <2>2, <3>1, <3>3 DEF LogFirst
  <2> QED
    BY <2>1, <2>2, <2>3
<1> QED
  BY <1>5, <1>6

(* The key kept in m_sendEvent is that of the one pending Send. *)
LEMMA SendEventStep ==
  ASSUME TypeOK, Chains, SendEventCurrent, NEW e \in queue,
         Dispatch(e, Follow(e), FollowCount(e)),
         sendEvent' = IF e.kind = "start"
                        THEN [sendEvent EXCEPT ![e.node] = [ts |-> e.ts, uid |-> uid]]
                      ELSE IF e.kind = "send"
                        THEN [sendEvent EXCEPT ![e.node] = [ts |-> e.ts + PacketInterval, uid |-> uid]]
                      ELSE sendEvent
  PROVE  SendEventCurrent'
<1>1. queue' = (queue \ {e}) \cup Follow(e)
  BY DEF Dispatch
<1>2. /\ sendEvent \in [Nodes -> [ts : Nat, uid : Nat]]
      /\ \A f \in queue : f.node \in Nodes /\ f.ts \in Nat /\ f.kind \in Kinds
      /\ uid \in Nat
  BY TypeFacts
<1>3. ASSUME NEW f \in queue \ {e}, f.kind = "send"
      PROVE  sendEvent'[f.node] = [ts |-> f.ts, uid |-> f.uid]
  <2>1. sendEvent[f.node] = [ts |-> f.ts, uid |-> f.uid]
    BY <1>3 DEF SendEventCurrent
  <2>2. e.kind \in {"start", "send"} => f.node # e.node
    BY <1>3 DEF Chains, Chain
  <2> QED
    BY <1>2, <2>1, <2>2
<1>4. ASSUME NEW f \in Follow(e), f.kind = "send"
      PROVE  sendEvent'[f.node] = [ts |-> f.ts, uid |-> f.uid]
  <2>1. e.kind \in {"start", "send"}
    BY <1>2, <1>4, FollowKind DEF Kinds
  <2>2. CASE e.kind = "start"
    <3>1. f = Scheduled(e, 0, "send", e.node, 0)
      BY <1>4, <2>2 DEF Follow, StartEvents, Scheduled
    <3> QED
      BY <1>2, <2>2, <3>1 DEF Scheduled
  <2>3. CASE e.kind = "send"
    <3>1. f = Scheduled(e, PacketInterval, "send", e.node, 0)
      BY <2>3 DEF Follow
    <3> QED
      BY <1>2, <2>3, <3>1 DEF Scheduled
  <2> QED
    BY <2>1, <2>2, <2>3
<1> QED
  BY <1>1, <1>3, <1>4 DEF SendEventCurrent

LEMMA LoopInit == Init => LoopInv
<1> SUFFICES ASSUME Init PROVE LoopInv
  OBVIOUS
<1>1. TypeOK
  BY TypeInit
<1>2. \A e \in queue :
        \/ \E n \in Nodes : e = [ts |-> 0, uid |-> FirstUid + n, kind |-> "init", node |-> n]
        \/ e = [ts |-> Duration, uid |-> FirstUid + Peripherals + 1, kind |-> "stop", node |-> Central]
        \/ e = [ts |-> 0, uid |-> FirstUid + Peripherals + 2, kind |-> "log", node |-> Central]
  BY DEF Init, Setup
<1>3. /\ now = 0 /\ current = 0 /\ uid = FirstUid + Peripherals + 3 /\ bound = {}
      /\ phase = "run" /\ fault = "none" /\ csvOpen = FALSE
  BY DEF Init
<1>4. Ordered
  BY <1>2, <1>3, Constants DEF Ordered, FirstUid, Nodes, HasPassed
<1>5. \A e \in queue : Chain(e) = "boot" \/ Chain(e) = "stop" \/ Chain(e) = "log"
  BY <1>2 DEF Chain
<1>6. \A e, f \in queue : /\ Chain(e) = Chain(f) /\ e.node = f.node
                          /\ Chain(e) \in {"boot", "send", "calc"}
                          => e = f
  BY <1>2 DEF Chain
<1>7. Chains
  BY <1>3, <1>5, <1>6 DEF Chains
<1>8. SendEventCurrent
  BY <1>2 DEF SendEventCurrent
<1>9. LogFirst
  <2> DEFINE l == [ts |-> 0, uid |-> FirstUid + Peripherals + 2, kind |-> "log", node |-> Central]
  <2>1. l \in queue /\ l.kind = "log" /\ l.ts = 0
    BY DEF Init, Setup
  <2>2. \A e \in queue : /\ e.kind # "start" /\ e.kind # "attack"
                         /\ e.kind = "stop" => e.ts > 0 \/ Duration = 0
    BY <1>2, Constants
  <2>3. LeadsWriters(l)
    BY <2>1, <2>2 DEF LeadsWriters
  <2> QED
    BY <1>3, <2>1, <2>3 DEF LogFirst
<1> QED
  BY <1>1, <1>3, <1>4, <1>7, <1>8, <1>9 DEF LoopInv, NoFault

(* What an event leaves alone, seen from the event loop. *)
LEMMA EventFrame ==
  ASSUME TypeOK, NEW e \in queue,
         \/ Initialize(e) \/ StartApplication(e) \/ Send(e) \/ Calculate(e)
         \/ Cyberattack(e) \/ LogPositions(e) \/ Stop(e)
  PROVE  /\ bound' = IF e.kind = "start" THEN bound \cup {e.node} ELSE bound
         /\ sendEvent' = IF e.kind = "start"
                           THEN [sendEvent EXCEPT ![e.node] = [ts |-> e.ts, uid |-> uid]]
                         ELSE IF e.kind = "send"
                           THEN [sendEvent EXCEPT ![e.node] = [ts |-> e.ts + PacketInterval, uid |-> uid]]
                         ELSE sendEvent
         /\ csvOpen' = IF e.kind = "log" THEN TRUE ELSE csvOpen
         /\ phase' = IF e.kind = "stop" THEN "stop" ELSE phase
         /\ fault' # fault =>
              \/ e.kind = "send" /\ ~ HasPassed(sendEvent[e.node], e.ts, e.uid)
              \/ e.kind \in {"start", "attack"} /\ ~ csvOpen
<1>1. CASE Initialize(e)
  BY <1>1 DEF Initialize, file
<1>2. CASE StartApplication(e)
  BY <1>2 DEF StartApplication, SetColor, file
<1>3. CASE Send(e)
  BY <1>3 DEF Send, file
<1>4. CASE Calculate(e)
  BY <1>4 DEF Calculate, file
<1>5. CASE Cyberattack(e)
  BY <1>5 DEF Cyberattack, SetColor, file
<1>6. CASE LogPositions(e)
  BY <1>6 DEF LogPositions
<1>7. CASE Stop(e)
  BY <1>7 DEF Stop, file
<1> QED
  BY <1>1, <1>2, <1>3, <1>4, <1>5, <1>6, <1>7

LEMMA LoopEvent ==
  ASSUME LoopInv, TypeOK', NEW e \in queue,
         \/ Initialize(e) \/ StartApplication(e) \/ Send(e) \/ Calculate(e)
         \/ Cyberattack(e) \/ LogPositions(e) \/ Stop(e)
  PROVE  LoopInv'
<1>2. Dispatch(e, Follow(e), FollowCount(e))
  BY EventShape DEF LoopInv
<1>1. TypeOK /\ Ordered /\ Chains /\ SendEventCurrent /\ LogFirst /\ fault = "none"
  BY <1>2 DEF LoopInv, Dispatch
<1>3. Ordered'
  BY <1>1, <1>2, OrderedStep
<1>4. Chains'
  BY <1>1, <1>2, EventFrame, ChainsStep
<1>5. SendEventCurrent'
  BY <1>1, <1>2, EventFrame, SendEventStep
<1>6. LogFirst'
  <2>1. CASE csvOpen
    BY <1>1, <2>1, EventFrame DEF LogFirst
  <2>2. CASE ~ csvOpen
    <3>2. /\ phase' = IF e.kind = "stop" THEN "stop" ELSE phase
          /\ csvOpen' = IF e.kind = "log" THEN TRUE ELSE csvOpen
      BY <1>1, EventFrame
    <3> QED
      BY <1>1, <1>2, <2>2, <3>2, LogFirstStep
  <2> QED
    BY <2>1, <2>2
<1>7. NoFault'
  <2>1. ASSUME e.kind = "send" PROVE HasPassed(sendEvent[e.node], e.ts, e.uid)
    <3>1. sendEvent[e.node] = [ts |-> e.ts, uid |-> e.uid]
      BY <1>1, <2>1 DEF SendEventCurrent
    <3>2. e.uid \in Nat /\ e.ts \in Nat
      BY <1>1, TypeFacts
    <3> QED
      BY <3>1, <3>2 DEF HasPassed
  <2>2. ASSUME ~ csvOpen PROVE e.kind \notin {"start", "attack"}
    BY <1>1, <1>2, <2>2, LogFirstStep
  <2> QED
    BY <1>1, <2>1, <2>2, EventFrame DEF NoFault
<1> QED
  BY <1>3, <1>4, <1>5, <1>6, <1>7 DEF LoopInv

LEMMA LoopStep == LoopInv /\ [Next]_vars => LoopInv'
<1> SUFFICES ASSUME LoopInv, [Next]_vars PROVE LoopInv'
  OBVIOUS
<1>1. TypeOK'
  BY TypeStep DEF LoopInv
<1>2. ASSUME NEW e \in queue,
             \/ Initialize(e) \/ StartApplication(e) \/ Send(e) \/ Calculate(e)
             \/ Cyberattack(e) \/ LogPositions(e) \/ Stop(e)
      PROVE  LoopInv'
  BY <1>1, <1>2, LoopEvent
<1>3. CASE Finish
  <2>1. /\ UNCHANGED <<queue, now, current, uid, bound, sendEvent>>
        /\ phase = "stop" /\ phase' = "done"
        /\ fault' = IF csvOpen THEN fault ELSE "null stream"
    BY <1>3 DEF Finish, engine
  <2>2. csvOpen \/ Duration = 0
    BY <2>1 DEF LoopInv, LogFirst
  <2>3. NoFault'
    BY <2>1, <2>2 DEF LoopInv, NoFault
  <2>4. LogFirst'
    BY <2>1 DEF LogFirst
  <2>5. Ordered' /\ Chains' /\ SendEventCurrent'
    BY <2>1 DEF LoopInv, Ordered, Chains, SendEventCurrent
  <2> QED
    BY <1>1, <2>3, <2>4, <2>5 DEF LoopInv
<1>4. ASSUME UNCHANGED <<queue, now, current, uid, bound, sendEvent, phase, fault, csvOpen>>
      PROVE  LoopInv'
  <2>1. Ordered' /\ Chains' /\ SendEventCurrent' /\ LogFirst' /\ NoFault'
    BY <1>4 DEF LoopInv, Ordered, Chains, SendEventCurrent, LogFirst, LeadsWriters, NoFault
  <2> QED
    BY <1>1, <2>1 DEF LoopInv
<1>5. CASE \E s, d \in Nodes : Deliver(s, d)
  BY <1>4, <1>5 DEF Deliver, engine, file
<1>6. CASE UNCHANGED vars
  BY <1>4, <1>6 DEF vars, engine, file
<1> QED
  BY <1>2, <1>3, <1>5, <1>6 DEF Next, Step, RunEvent, Terminated

(* The loop invariant holds in every reachable state. *)
THEOREM SwarmLoop == Spec => []LoopInv
BY LoopInit, LoopStep, PTL DEF Spec

(* The process never dies: SetColor never meets a null stream, the final     *)
(* flush only if the duration is zero, and the assertion at the head of Send *)
(* holds.                                                                    *)
THEOREM SwarmNoFault == Spec => []NoFault
<1>1. LoopInv => NoFault
  BY DEF LoopInv
<1> QED
  BY <1>1, SwarmLoop, PTL

(* The Send and Calculate chains of a started node are neither lost nor      *)
(* doubled.                                                                  *)
THEOREM SwarmOneChain == Spec => []OneChain
<1>1. LoopInv => OneChain
  <2> SUFFICES ASSUME LoopInv, NEW n \in Nodes, NEW kind \in {"send", "calc"}
               PROVE  IF n \in bound THEN \E e \in queue : Pending(kind, n) = {e}
                      ELSE Pending(kind, n) = {}
    BY DEF OneChain
  <2>1. \A e \in queue : e.kind = kind => Chain(e) = kind
    BY DEF Chain
  <2>2. \A e, f \in queue : /\ e.kind = kind /\ f.kind = kind /\ e.node = n /\ f.node = n
                            => e = f
    BY <2>1 DEF LoopInv, Chains
  <2>3. CASE n \in bound
    <3>1. PICK e \in queue : e.kind = kind /\ e.node = n
      BY <2>3 DEF LoopInv, Chains
    <3>2. Pending(kind, n) = {e}
      BY <2>2, <3>1 DEF Pending
    <3> QED
      BY <2>3, <3>2
  <2>4. CASE n \notin bound
    <3>1. \A e \in queue : e.kind = kind => e.node # n
      BY <2>1, <2>4 DEF LoopInv, Chains
    <3> QED
      BY <2>4, <3>1 DEF Pending
  <2> QED
    BY <2>3, <2>4
<1> QED
  BY <1>1, SwarmLoop, PTL

-----------------------------------------------------------------------------
(* The swarm implements the engine: key by key, its queue is the engine's.   *)

KeyOf(e) == [ts |-> e.ts, uid |-> e.uid]

LEMMA RefineInit == Init => Engine!Init
<1> SUFFICES ASSUME Init PROVE Engine!Init
  OBVIOUS
<1>1. TypeOK /\ Ordered
  BY LoopInit DEF LoopInv
<1>2. \A e \in queue : e.ts \in Nat /\ e.uid \in Nat /\ 0 < e.uid
  BY TypeFacts, <1>1, Constants DEF Init, Setup, FirstUid, Nodes
<1>3. \A k \in Keys : \E e \in queue : k = KeyOf(e)
  BY DEF Keys, KeyOf
<1>4. now = 0 /\ current = 0 /\ uid \in Nat \ {0}
  BY Constants DEF Init, FirstUid
<1>5. Keys \subseteq Engine!Key
  BY <1>2 DEF Keys, Engine!Key
<1>6. \A k \in Keys : 0 < k.uid /\ k.uid < uid
  BY <1>1, <1>2, <1>3 DEF Ordered, KeyOf
<1>7. \A j, k \in Keys : j.uid = k.uid => j = k
  BY <1>1, <1>3 DEF Ordered, KeyOf
<1> QED
  BY <1>4, <1>5, <1>6, <1>7 DEF Engine!Init

LEMMA RefineEvent ==
  ASSUME LoopInv, LoopInv', NEW e \in queue,
         \/ Initialize(e) \/ StartApplication(e) \/ Send(e) \/ Calculate(e)
         \/ Cyberattack(e) \/ LogPositions(e) \/ Stop(e)
  PROVE  Engine!Run
<1> DEFINE k == KeyOf(e)
<1>1. /\ \A f \in queue \ {e} : Before(e, f)
      /\ now' = e.ts /\ current' = e.uid /\ uid' = uid + FollowCount(e)
      /\ queue' = (queue \ {e}) \cup Follow(e)
  BY EventShape DEF Dispatch, IsNext
<1>2. TypeOK /\ TypeOK' /\ Ordered /\ Ordered'
  BY DEF LoopInv
<1>3. /\ \A f \in queue : f.ts \in Nat /\ f.uid \in Nat
      /\ \A f \in queue' : f.ts \in Nat /\ f.uid \in Nat
      /\ uid \in Nat /\ FollowCount(e) \in Nat
  <2>1. queue \subseteq Event /\ queue' \subseteq Event
    BY <1>2 DEF TypeOK
  <2> QED
    BY <1>2, <2>1, FollowFacts, TypeFacts DEF Event
<1>4. /\ \A j \in Keys : \E f \in queue : j = KeyOf(f)
      /\ \A j \in Keys' : \E f \in queue' : j = KeyOf(f)
      /\ \A f \in queue : KeyOf(f) \in Keys
  BY DEF Keys, KeyOf
<1>5. k \in Keys /\ k.ts = e.ts /\ k.uid = e.uid
  BY <1>4 DEF KeyOf
<1>6. Engine!IsNext(k, Keys)
  <2>1. ASSUME NEW j \in Keys \ {k} PROVE Engine!Before(k, j)
    <3>1. PICK f \in queue : j = KeyOf(f)
      BY <1>4
    <3>2. Before(e, f)
      BY <1>1, <2>1, <3>1
    <3> QED
      BY <3>1, <3>2 DEF Before, Engine!Before, KeyOf
  <2> QED
    BY <1>5, <2>1 DEF Engine!IsNext
<1>7. uid' \in Nat /\ uid' >= uid
  BY <1>1, <1>3
<1>8. Keys' \subseteq Engine!Key
  BY <1>3, <1>4 DEF KeyOf, Engine!Key
<1>9. ASSUME NEW j \in Keys' \ (Keys \ {k})
      PROVE  j.ts >= now' /\ uid <= j.uid /\ j.uid < uid'
  <2>1. PICK f \in queue' : j = KeyOf(f)
    BY <1>4
  <2>2. f \in Follow(e)
    <3>1. ASSUME f \in queue \ {e} PROVE FALSE
      <4>1. j \in Keys
        BY <1>4, <2>1, <3>1
      <4>2. j = k
        BY <1>9, <4>1
      <4>3. f.uid = e.uid
        BY <2>1, <4>2 DEF KeyOf
      <4> QED
        BY <1>2, <3>1, <4>3 DEF Ordered
    <3> QED
      BY <1>1, <3>1
  <2> QED
    BY <1>1, <1>2, <2>1, <2>2, FollowFacts DEF KeyOf
<1>10. \A i, j \in Keys' : i.uid = j.uid => i = j
  BY <1>2, <1>4 DEF Ordered, KeyOf
<1>11. Engine!Rescheduled(Keys \ {k})
  BY <1>7, <1>8, <1>9, <1>10 DEF Engine!Rescheduled
<1> HIDE DEF k
<1> QED
  BY <1>1, <1>5, <1>6, <1>11 DEF Engine!Run

LEMMA RefineStep == LoopInv /\ LoopInv' /\ [Next]_vars => [Engine!Next]_Engine!vars
<1> SUFFICES ASSUME LoopInv, LoopInv', [Next]_vars PROVE [Engine!Next]_Engine!vars
  OBVIOUS
<1>1. ASSUME NEW e \in queue,
             \/ Initialize(e) \/ StartApplication(e) \/ Send(e) \/ Calculate(e)
             \/ Cyberattack(e) \/ LogPositions(e) \/ Stop(e)
      PROVE  Engine!Next
  BY <1>1, RefineEvent DEF Engine!Next
<1>2. ASSUME UNCHANGED engine PROVE UNCHANGED Engine!vars
  BY <1>2 DEF engine, Engine!vars, Keys
<1>3. CASE Finish \/ (\E s, d \in Nodes : Deliver(s, d)) \/ UNCHANGED vars
  BY <1>2, <1>3 DEF Finish, Deliver, vars
<1> QED
  BY <1>1, <1>3 DEF Next, Step, RunEvent, Terminated

(* The swarm keeps the promises of a discrete-event engine, and with it the  *)
(* order of events that SimulatorProofs derives from them.                   *)
THEOREM SwarmImplementsEngine == Spec => EngineSpec
BY RefineInit, RefineStep, SwarmLoop, PTL DEF Spec, EngineSpec, Engine!Spec

-----------------------------------------------------------------------------
(* What the nodes know of each other, with any delay and loss on the way.    *)

(* What holds between a sender and a receiver: k and r are what the receiver *)
(* knows and has counted, link what is on its way, sent what the sender has  *)
(* counted, ro and ve its role and velocity.                                 *)
PairInv(k, r, link, sent, ro, ve) ==
  /\ r <= k.seq /\ k.seq <= sent /\ (k.seq > 0 => r > 0)
  /\ k.seq = 0 => ~ k.bad
  /\ k.seq > 0 /\ k.role = CENTRAL => ro = CENTRAL
  /\ k.bad => ve = Bad
  /\ \A i \in DOMAIN link : /\ k.seq < link[i].seq /\ link[i].seq <= sent
                            /\ link[i].role = CENTRAL => ro = CENTRAL
                            /\ link[i].bad => ve = Bad
                            /\ k.bad => link[i].bad
  /\ \A i, j \in DOMAIN link : i < j => /\ link[i].seq < link[j].seq
                                        /\ link[i].bad => link[j].bad

(* Pairs(s, d) is PairInv of the current state. *)
Pairs(s, d) ==
  PairInv(swarmData[d][s], recvCount[d][s], net[s][d], sendCount[s][d], role[s], vel[s])

(* A node is not its own peer. *)
SelfInv(n) == swarmData[n][n] = NoBeacon /\ recvCount[n][n] = 0 /\ net[n][n] = << >>

(* RadioInv, pair by pair, and the source of what is bad. *)
PairwiseInv ==
  /\ role[Central] = CENTRAL /\ vel[Central] = Rest
  /\ \A n \in Nodes : SelfInv(n)
  /\ \A s, d \in Nodes : Pairs(s, d)
  /\ BadHasSource

LEMMA RadioByPairs == PairwiseInv => RadioInv
<1> SUFFICES ASSUME PairwiseInv PROVE RadioInv
  OBVIOUS
<1>1. CentralAnchored /\ NoSelfEntry
  BY DEF PairwiseInv, CentralAnchored, NoSelfEntry, SelfInv
<1>2. Conserved
  BY DEF PairwiseInv, Conserved, Pairs, PairInv
<1>3. InFlight
  <2> SUFFICES ASSUME NEW s \in Nodes, NEW d \in Nodes
               PROVE  /\ s = d => net[s][d] = << >>
                      /\ \A i \in DOMAIN net[s][d] :
                           /\ swarmData[d][s].seq < net[s][d][i].seq
                           /\ net[s][d][i].seq <= sendCount[s][d]
                      /\ \A i, j \in DOMAIN net[s][d] :
                           i < j => net[s][d][i].seq < net[s][d][j].seq
    BY DEF InFlight
  <2>1. Pairs(s, d) /\ SelfInv(s)
    BY DEF PairwiseInv
  <2> QED
    BY <2>1 DEF Pairs, PairInv, SelfInv
<1>4. Truth
  BY DEF PairwiseInv, Truth, Truthful, Pairs, PairInv
<1>5. BadStays
  <2> SUFFICES ASSUME NEW s \in Nodes, NEW d \in Nodes, NEW i \in DOMAIN net[s][d]
               PROVE  /\ swarmData[d][s].bad => net[s][d][i].bad
                      /\ \A j \in DOMAIN net[s][d] :
                           i < j /\ net[s][d][i].bad => net[s][d][j].bad
    BY DEF BadStays
  <2>1. Pairs(s, d)
    BY DEF PairwiseInv
  <2> QED
    BY <2>1 DEF Pairs, PairInv
<1>6. \A n, p \in Nodes : swarmData[n][p].seq = 0 => ~ swarmData[n][p].bad
  BY DEF PairwiseInv, Pairs, PairInv
<1> QED
  BY <1>1, <1>2, <1>3, <1>4, <1>5, <1>6 DEF PairwiseInv, RadioInv

-----------------------------------------------------------------------------
(* What may happen to a pair.                                                *)

(* The sender takes a role or loses its velocity. *)
LEMMA PairGrows ==
  ASSUME NEW k, NEW r, NEW link, NEW sent, NEW ro, NEW ve, NEW ro2, NEW ve2,
         PairInv(k, r, link, sent, ro, ve),
         ro = CENTRAL => ro2 = CENTRAL, ve = Bad => ve2 = Bad
  PROVE  PairInv(k, r, link, sent, ro2, ve2)
BY DEF PairInv

(* A beacon is sent. *)
LEMMA PairSends ==
  ASSUME NEW k \in Beacon, NEW r \in Nat, NEW link \in Seq(Beacon), NEW sent \in Nat,
         NEW ro, NEW ve, NEW b \in Beacon,
         PairInv(k, r, link, sent, ro, ve),
         b.seq = sent + 1, b.role = CENTRAL => ro = CENTRAL, b.bad <=> ve = Bad
  PROVE  PairInv(k, r, Append(link, b), sent + 1, ro, ve)
<1> DEFINE new == Append(link, b)
<1>1. /\ new \in Seq(Beacon) /\ DOMAIN new = 1 .. Len(link) + 1 /\ Len(link) \in Nat
      /\ DOMAIN link = 1 .. Len(link)
      /\ \A i \in 1 .. Len(link) : new[i] = link[i]
      /\ new[Len(link) + 1] = b
  BY AppendProperties
<1>2. k.seq \in Nat /\ \A i \in DOMAIN link : link[i].seq \in Nat
  <2>1. \A i \in DOMAIN link : link[i] \in Beacon
    BY ElementOfSeq
  <2> QED
    BY <2>1 DEF Beacon
<1> HIDE DEF new
<1>3. \A i \in DOMAIN new : \/ i \in DOMAIN link /\ new[i] = link[i]
                            \/ i = Len(link) + 1 /\ new[i] = b
  BY <1>1
<1>4. \A i \in DOMAIN new : /\ k.seq < new[i].seq /\ new[i].seq <= sent + 1
                            /\ new[i].role = CENTRAL => ro = CENTRAL
                            /\ new[i].bad => ve = Bad
                            /\ k.bad => new[i].bad
  BY <1>2, <1>3 DEF PairInv
<1>5. \A i, j \in DOMAIN new : i < j => /\ new[i].seq < new[j].seq
                                        /\ new[i].bad => new[j].bad
  <2> SUFFICES ASSUME NEW i \in DOMAIN new, NEW j \in DOMAIN new, i < j
               PROVE  new[i].seq < new[j].seq /\ (new[i].bad => new[j].bad)
    OBVIOUS
  <2>1. i \in DOMAIN link /\ new[i] = link[i]
    BY <1>1
  <2>2. CASE j \in DOMAIN link /\ new[j] = link[j]
    BY <2>1, <2>2 DEF PairInv
  <2>3. CASE new[j] = b
    BY <1>2, <2>1, <2>3 DEF PairInv
  <2> QED
    BY <1>3, <2>2, <2>3
<1>6. PairInv(k, r, new, sent + 1, ro, ve)
  BY <1>2, <1>4, <1>5 DEF PairInv
<1> QED
  BY <1>6 DEF new

(* The i-th beacon arrives, or arrives in vain. *)
LEMMA PairArrives ==
  ASSUME NEW k \in Beacon, NEW r \in Nat, NEW link \in Seq(Beacon), NEW sent \in Nat,
         NEW ro, NEW ve, NEW i \in DOMAIN link,
         PairInv(k, r, link, sent, ro, ve)
  PROVE  /\ PairInv(link[i], r + 1, AfterArrival(link, i), sent, ro, ve)
         /\ PairInv(k, r, AfterArrival(link, i), sent, ro, ve)
         /\ k.seq < link[i].seq
         /\ k.bad => link[i].bad
<1> DEFINE rest == AfterArrival(link, i)
<1>1. /\ DOMAIN rest = 1 .. Len(link) - i
      /\ \A j \in DOMAIN rest : i + j \in DOMAIN link /\ rest[j] = link[i + j]
  BY ArrivalLink
<1>2. i \in Nat /\ Len(link) \in Nat
  BY LenProperties
<1>3. k.seq \in Nat /\ \A j \in DOMAIN link : link[j].seq \in Nat
  <2>1. \A j \in DOMAIN link : link[j] \in Beacon
    BY ElementOfSeq
  <2> QED
    BY <2>1 DEF Beacon
<1> HIDE DEF rest
<1>4. \A j \in DOMAIN rest : j \in Nat /\ i < i + j
  BY <1>1, <1>2
<1>5. \A j, l \in DOMAIN rest : j < l => i + j < i + l
  BY <1>2, <1>4
<1>6. \A j, l \in DOMAIN rest : j < l => /\ rest[j].seq < rest[l].seq
                                         /\ rest[j].bad => rest[l].bad
  BY <1>1, <1>5 DEF PairInv
<1>7. \A j \in DOMAIN rest : /\ link[i].seq < rest[j].seq /\ k.seq < rest[j].seq
                             /\ rest[j].seq <= sent
                             /\ rest[j].role = CENTRAL => ro = CENTRAL
                             /\ rest[j].bad => ve = Bad
                             /\ link[i].bad => rest[j].bad
                             /\ k.bad => rest[j].bad
  BY <1>1, <1>4 DEF PairInv
<1>8. PairInv(k, r, rest, sent, ro, ve)
  BY <1>6, <1>7 DEF PairInv
<1>9. k.seq < link[i].seq /\ (k.bad => link[i].bad)
  BY DEF PairInv
<1>10. PairInv(link[i], r + 1, rest, sent, ro, ve)
  BY <1>3, <1>6, <1>7, <1>9 DEF PairInv
<1> QED
  BY <1>8, <1>9, <1>10 DEF rest

-----------------------------------------------------------------------------
(* The steps.                                                                *)

LEMMA RadioInit == Init => PairwiseInv
<1> SUFFICES ASSUME Init PROVE PairwiseInv
  OBVIOUS
<1>1. \A n, p \in Nodes : /\ swarmData[n][p] = NoBeacon /\ recvCount[n][p] = 0
                          /\ sendCount[n][p] = 0 /\ net[n][p] = << >>
  BY DEF Init
<1>2. DOMAIN << >> = {}
  OBVIOUS
<1>3. ASSUME NEW s \in Nodes, NEW d \in Nodes PROVE Pairs(s, d)
  BY <1>1, <1>2 DEF Pairs, PairInv, NoBeacon
<1>4. \A n \in Nodes : SelfInv(n)
  BY <1>1 DEF SelfInv
<1>5. role[Central] = CENTRAL /\ vel[Central] = Rest
  BY Constants DEF Init
<1>6. BadHasSource
  BY DEF Init, BadHasSource, Rest, Bad
<1> QED
  BY <1>3, <1>4, <1>5, <1>6 DEF PairwiseInv

(* Events that neither send nor receive. *)
LEMMA RadioQuiet ==
  ASSUME PairwiseInv, UNCHANGED <<swarmData, recvCount, net, sendCount>>,
         \A n \in Nodes : /\ role[n] = CENTRAL => role'[n] = CENTRAL
                          /\ vel[n] = Bad => vel'[n] = Bad,
         vel'[Central] = Rest, BadHasSource'
  PROVE  PairwiseInv'
<1>1. ASSUME NEW s \in Nodes, NEW d \in Nodes PROVE Pairs(s, d)'
  <2>1. Pairs(s, d)
    BY DEF PairwiseInv
  <2> QED
    BY <2>1, PairGrows DEF Pairs
<1>2. \A n \in Nodes : SelfInv(n)'
  BY DEF PairwiseInv, SelfInv
<1>3. role'[Central] = CENTRAL
  BY Constants DEF PairwiseInv
<1> QED
  BY <1>1, <1>2, <1>3 DEF PairwiseInv

(* Events that change no more than the roles of the nodes. *)
LEMMA RadioStill ==
  ASSUME PairwiseInv, UNCHANGED <<swarmData, recvCount, net, sendCount, vel, collided>>,
         \A n \in Nodes : role[n] = CENTRAL => role'[n] = CENTRAL
  PROVE  PairwiseInv'
<1>1. BadHasSource'
  BY DEF PairwiseInv, BadHasSource
<1>2. vel'[Central] = Rest
  BY DEF PairwiseInv
<1> QED
  BY <1>1, <1>2, RadioQuiet

LEMMA RadioCalculate ==
  ASSUME TypeOK, PairwiseInv, NEW e \in queue, Calculate(e)
  PROVE  PairwiseInv'
<1> DEFINE n == e.node
<1>1. n \in Nodes /\ vel \in [Nodes -> Velocities] /\ role \in [Nodes -> Roles]
  BY TypeFacts
<1>2. PICK hit \in BOOLEAN :
        /\ hit => Forces(n) # {}
        /\ vel' = [vel EXCEPT ![n] = Integrate(n, hit)]
        /\ collided' = IF hit THEN collided \cup {n} ELSE collided
  BY DEF Calculate
<1>3. UNCHANGED <<swarmData, recvCount, net, sendCount, role>>
  BY DEF Calculate, radio
<1> HIDE DEF n
<1>4. /\ vel'[n] = Integrate(n, hit)
      /\ \A m \in Nodes \ {n} : vel'[m] = vel[m]
  BY <1>1, <1>2
<1>5. vel[n] = Bad => vel'[n] = Bad
  BY <1>4 DEF Integrate
<1>6. \A m \in Nodes : vel[m] = Bad => vel'[m] = Bad
  BY <1>4, <1>5
<1>7. vel'[Central] = Rest
  <2>1. CASE n = Central
    <3>1. Forces(n) = {} /\ vel[n] = Rest
      BY <2>1, Constants DEF Forces, PairwiseInv, CENTRAL, PERIPHERAL
    <3>2. hit = FALSE
      BY <1>2, <3>1
    <3> QED
      BY <1>4, <2>1, <3>1, <3>2 DEF Integrate, Rest, Bad
  <2>2. CASE n # Central
    BY <1>4, <2>2, Constants DEF PairwiseInv
  <2> QED
    BY <2>1, <2>2
<1>8. BadHasSource'
  <2> SUFFICES ASSUME NEW m \in Nodes, vel'[m] = Bad
               PROVE  \/ m \in collided'
                      \/ \E p \in Nodes \ {m} : swarmData'[m][p].bad /\ vel'[p] = Bad
    BY DEF BadHasSource
  <2>1. CASE vel[m] = Bad
    <3>1. \/ m \in collided
          \/ \E p \in Nodes \ {m} : swarmData[m][p].bad /\ vel[p] = Bad
      BY <2>1 DEF PairwiseInv, BadHasSource
    <3>2. collided \subseteq collided'
      BY <1>2
    <3> QED
      BY <1>3, <1>6, <3>1, <3>2
  <2>2. CASE vel[m] # Bad
    <3>1. m = n
      BY <1>4, <2>2
    <3>2. hit \/ \E p \in Forces(n) : swarmData[n][p].bad
      BY <1>4, <2>2, <3>1 DEF Integrate, Rest, Moving, Bad
    <3>3. CASE hit
      BY <1>2, <3>1, <3>3
    <3>4. ASSUME NEW p \in Forces(n), swarmData[n][p].bad
          PROVE  p \in Nodes \ {n} /\ vel[p] = Bad
      <4>1. p \in Nodes /\ swarmData[n][p].seq > 0
        BY DEF Forces
      <4>2. p # n
        BY <1>1, <4>1 DEF PairwiseInv, SelfInv, NoBeacon
      <4>3. Pairs(p, n)
        BY <1>1, <4>1 DEF PairwiseInv
      <4> QED
        BY <3>4, <4>1, <4>2, <4>3 DEF Pairs, PairInv
    <3> QED
      BY <1>3, <1>6, <3>1, <3>2, <3>3, <3>4
  <2> QED
    BY <2>1, <2>2
<1> QED
  BY <1>3, <1>6, <1>7, <1>8, RadioQuiet

LEMMA RadioSend ==
  ASSUME TypeOK, PairwiseInv, NEW e \in queue, Send(e)
  PROVE  PairwiseInv'
<1> DEFINE n == e.node
           b(p) == BeaconOf(n, p)
<1>1. n \in Nodes /\ net \in [Nodes -> [Nodes -> Seq(Beacon)]]
      /\ sendCount \in [Nodes -> [Nodes -> Nat]]
  BY TypeFacts
<1>2. /\ sendCount' = [sendCount EXCEPT ![n] = [p \in Nodes |-> sendCount[n][p] + 1]]
      /\ net' = [net EXCEPT ![n] = [p \in Nodes |->
                   IF p = n THEN net[n][p] ELSE Append(net[n][p], b(p))]]
      /\ UNCHANGED <<swarmData, recvCount, role, vel, collided>>
  BY DEF Send, HandleRead
<1> HIDE DEF n, b
<1>3. ASSUME NEW s \in Nodes, NEW d \in Nodes PROVE Pairs(s, d)'
  <2>1. Pairs(s, d)
    BY DEF PairwiseInv
  <2>2. CASE s # n
    <3>1. sendCount'[s][d] = sendCount[s][d] /\ net'[s][d] = net[s][d]
      BY <1>1, <1>2, <2>2
    <3> QED
      BY <1>2, <2>1, <3>1 DEF Pairs
  <2>3. CASE s = n /\ d = n
    <3>1. net'[s][d] = << >>
      <4>1. net'[s][d] = net[s][d]
        BY <1>1, <1>2, <2>3
      <4> QED
        BY <4>1, <2>3 DEF PairwiseInv, SelfInv
    <3>2. swarmData'[d][s] = NoBeacon /\ recvCount'[d][s] = 0
      BY <1>2, <2>3 DEF PairwiseInv, SelfInv
    <3>3. sendCount'[s][d] \in Nat
      <4>1. sendCount'[s][d] = sendCount[s][d] + 1 /\ sendCount[s][d] \in Nat
        BY <1>1, <1>2, <2>3
      <4> QED
        BY <4>1
    <3>4. DOMAIN << >> = {}
      OBVIOUS
    <3> QED
      BY <3>1, <3>2, <3>3, <3>4 DEF Pairs, PairInv, NoBeacon
  <2>4. CASE s = n /\ d # n
    <3>1. sendCount'[s][d] = sendCount[s][d] + 1 /\ net'[s][d] = Append(net[s][d], b(d))
      BY <1>1, <1>2, <2>4
    <3>2. /\ swarmData[d][s] \in Beacon /\ recvCount[d][s] \in Nat
          /\ net[s][d] \in Seq(Beacon) /\ sendCount[s][d] \in Nat
      BY TypeFacts
    <3>3. b(d) \in Beacon
      BY <1>1, BeaconType DEF b
    <3>4. /\ b(d).seq = sendCount[s][d] + 1
          /\ b(d).role = role[s]
          /\ b(d).bad <=> vel[s] = Bad
      BY <2>4 DEF b, BeaconOf
    <3>5. PairInv(swarmData[d][s], recvCount[d][s], Append(net[s][d], b(d)), sendCount[s][d] + 1,
                  role[s], vel[s])
      BY <2>1, <3>2, <3>3, <3>4, PairSends DEF Pairs
    <3> QED
      BY <1>2, <3>1, <3>5 DEF Pairs
  <2> QED
    BY <2>2, <2>3, <2>4
<1>4. ASSUME NEW m \in Nodes PROVE SelfInv(m)'
  <2>1. net'[m][m] = net[m][m]
    BY <1>1, <1>2
  <2> QED
    BY <1>2, <2>1 DEF PairwiseInv, SelfInv
<1>5. BadHasSource'
  BY <1>2 DEF PairwiseInv, BadHasSource
<1> QED
  BY <1>2, <1>3, <1>4, <1>5 DEF PairwiseInv

(* A beacon arrives: what its receiver knows of the sender gets newer, and   *)
(* no less bad.                                                              *)
LEMMA RadioDeliver ==
  ASSUME TypeOK, PairwiseInv, NEW s \in Nodes, NEW d \in Nodes, Deliver(s, d)
  PROVE  PairwiseInv' /\ Fresher
<1>1. PICK i \in DOMAIN net[s][d] :
        /\ net' = [net EXCEPT ![s][d] = AfterArrival(@, i)]
        /\ IF d \in bound THEN HandleRead(d, s, net[s][d][i])
           ELSE UNCHANGED <<swarmData, recvCount>>
  BY DEF Deliver
<1>2. UNCHANGED <<role, vel, sendCount, collided>>
  BY DEF Deliver
<1>3. s # d
  <2>1. DOMAIN << >> = {}
    OBVIOUS
  <2> QED
    BY <1>1, <2>1 DEF PairwiseInv, SelfInv
<1>4. /\ net \in [Nodes -> [Nodes -> Seq(Beacon)]]
      /\ swarmData \in [Nodes -> [Nodes -> Beacon]]
      /\ recvCount \in [Nodes -> [Nodes -> Nat]]
      /\ sendCount \in [Nodes -> [Nodes -> Nat]]
  BY TypeFacts
<1>5. /\ net'[s][d] = AfterArrival(net[s][d], i)
      /\ \A a, c \in Nodes : a # s \/ c # d => net'[a][c] = net[a][c]
  BY <1>1, <1>4
<1>6. \A a, c \in Nodes : a # s \/ c # d =>
        swarmData'[c][a] = swarmData[c][a] /\ recvCount'[c][a] = recvCount[c][a]
  <2>1. CASE UNCHANGED <<swarmData, recvCount>>
    BY <2>1
  <2>2. CASE /\ recvCount' = [recvCount EXCEPT ![d][s] = @ + 1]
             /\ swarmData' = [swarmData EXCEPT ![d][s] = net[s][d][i]]
    BY <1>4, <2>2
  <2> QED
    BY <1>1, <2>1, <2>2 DEF HandleRead
<1>7. \/ swarmData'[d][s] = net[s][d][i] /\ recvCount'[d][s] = recvCount[d][s] + 1
      \/ swarmData'[d][s] = swarmData[d][s] /\ recvCount'[d][s] = recvCount[d][s]
  <2>1. CASE UNCHANGED <<swarmData, recvCount>>
    BY <2>1
  <2>2. CASE /\ recvCount' = [recvCount EXCEPT ![d][s] = @ + 1]
             /\ swarmData' = [swarmData EXCEPT ![d][s] = net[s][d][i]]
    BY <1>4, <2>2
  <2> QED
    BY <1>1, <2>1, <2>2 DEF HandleRead
<1>8. /\ PairInv(net[s][d][i], recvCount[d][s] + 1, AfterArrival(net[s][d], i), sendCount[s][d],
                 role[s], vel[s])
      /\ PairInv(swarmData[d][s], recvCount[d][s], AfterArrival(net[s][d], i), sendCount[s][d],
                 role[s], vel[s])
      /\ swarmData[d][s].seq < net[s][d][i].seq
      /\ swarmData[d][s].bad => net[s][d][i].bad
  <2>1. Pairs(s, d)
    BY DEF PairwiseInv
  <2>2. /\ swarmData[d][s] \in Beacon /\ recvCount[d][s] \in Nat
        /\ net[s][d] \in Seq(Beacon) /\ sendCount[s][d] \in Nat
    BY <1>4
  <2> QED
    BY <2>1, <2>2, PairArrives DEF Pairs
<1>9. ASSUME NEW a \in Nodes, NEW c \in Nodes PROVE Pairs(a, c)'
  <2>1. CASE a = s /\ c = d
    BY <1>2, <1>5, <1>7, <1>8, <2>1 DEF Pairs
  <2>2. CASE a # s \/ c # d
    <3>1. Pairs(a, c)
      BY DEF PairwiseInv
    <3> QED
      BY <1>2, <1>5, <1>6, <2>2, <3>1 DEF Pairs
  <2> QED
    BY <2>1, <2>2
<1>10. \A m \in Nodes : SelfInv(m)'
  BY <1>3, <1>5, <1>6 DEF PairwiseInv, SelfInv
<1>11. \A m, p \in Nodes : swarmData[m][p].bad => swarmData'[m][p].bad
  BY <1>6, <1>7, <1>8
<1>12. BadHasSource'
  BY <1>2, <1>11 DEF PairwiseInv, BadHasSource
<1>13. Fresher
  <2> SUFFICES ASSUME NEW m \in Nodes, NEW p \in Nodes
               PROVE  swarmData'[m][p].seq >= swarmData[m][p].seq
    BY DEF Fresher
  <2>1. swarmData[m][p].seq \in Nat
    BY <1>4 DEF Beacon
  <2>2. CASE m = d /\ p = s
    <3>1. net[s][d][i].seq \in Nat
      <4>1. net[s][d] \in Seq(Beacon)
        BY <1>4
      <4>2. net[s][d][i] \in Beacon
        BY <4>1, ElementOfSeq
      <4> QED
        BY <4>2 DEF Beacon
    <3> QED
      BY <1>7, <1>8, <2>1, <2>2, <3>1
  <2>3. CASE m # d \/ p # s
    BY <1>6, <2>1, <2>3
  <2> QED
    BY <2>2, <2>3
<1> QED
  BY <1>2, <1>9, <1>10, <1>12, <1>13 DEF PairwiseInv

LEMMA RadioStep == TypeOK /\ PairwiseInv /\ [Next]_vars => PairwiseInv' /\ (Fresher \/ UNCHANGED vars)
<1> SUFFICES ASSUME TypeOK, PairwiseInv, [Next]_vars
             PROVE  PairwiseInv' /\ (Fresher \/ UNCHANGED vars)
  OBVIOUS
<1>1. ASSUME UNCHANGED swarmData PROVE Fresher
  <2>1. \A n, p \in Nodes : swarmData[n][p].seq \in Nat
    BY TypeFacts DEF Beacon
  <2> QED
    BY <1>1, <2>1 DEF Fresher
<1>2. ASSUME NEW e \in queue, Initialize(e) \/ StartApplication(e) \/ LogPositions(e) \/ Stop(e)
      PROVE  PairwiseInv' /\ Fresher
  <2>1. UNCHANGED <<radio, sendCount, vel, collided, role>>
    BY <1>2 DEF Initialize, StartApplication, LogPositions, Stop
  <2> QED
    BY <1>1, <2>1, RadioStill DEF radio
<1>3. ASSUME NEW e \in queue, Send(e) PROVE PairwiseInv' /\ Fresher
  <2>1. UNCHANGED swarmData
    BY <1>3 DEF Send, HandleRead
  <2> QED
    BY <1>1, <1>3, <2>1, RadioSend
<1>4. ASSUME NEW e \in queue, Calculate(e) PROVE PairwiseInv' /\ Fresher
  <2>1. UNCHANGED swarmData
    BY <1>4 DEF Calculate, radio
  <2> QED
    BY <1>1, <1>4, <2>1, RadioCalculate
<1>5. ASSUME NEW e \in queue, Cyberattack(e) PROVE PairwiseInv' /\ Fresher
  <2>1. UNCHANGED <<radio, sendCount, vel, collided>> /\ role' = [role EXCEPT ![e.node] = CENTRAL]
    BY <1>5 DEF Cyberattack
  <2>2. \A n \in Nodes : role[n] = CENTRAL => role'[n] = CENTRAL
    BY <2>1, TypeFacts
  <2> QED
    BY <1>1, <2>1, <2>2, RadioStill DEF radio
<1>6. ASSUME NEW s \in Nodes, NEW d \in Nodes, Deliver(s, d) PROVE PairwiseInv' /\ Fresher
  BY <1>6, RadioDeliver
<1>7. CASE Finish
  <2>1. UNCHANGED <<radio, sendCount, vel, collided, role>>
    BY <1>7 DEF Finish
  <2> QED
    BY <1>1, <2>1, RadioStill DEF radio
<1>8. CASE UNCHANGED vars
  BY <1>8, RadioStill DEF vars, radio
<1> QED
  BY <1>2, <1>3, <1>4, <1>5, <1>6, <1>7, <1>8 DEF Next, Step, RunEvent, Terminated

-----------------------------------------------------------------------------
(* The theorems.                                                             *)

LEMMA RadioPairwise == Spec => []PairwiseInv
BY RadioInit, RadioStep, SwarmTypeCorrect, PTL DEF Spec

(* The inductive invariant of the radio holds in every reachable state: what *)
(* nodes know of each other (HandleRead) was sent (Send), in order, and is   *)
(* true.                                                                     *)
THEOREM SwarmRadio == Spec => []RadioInv
BY RadioPairwise, RadioByPairs, PTL

(* A position is lost by a collision of one's own or by a beacon of a peer   *)
(* whose position is lost (Calculate).                                       *)
THEOREM SwarmBadHasSource == Spec => []BadHasSource
<1>1. PairwiseInv => BadHasSource
  BY DEF PairwiseInv
<1> QED
  BY <1>1, RadioPairwise, PTL

(* What a node knows of a peer only ever gets newer, although beacons carry  *)
(* no number (HandleRead).                                                   *)
THEOREM SwarmKnowledgeMonotone == Spec => KnowledgeMonotone
<1>1. TypeOK /\ PairwiseInv /\ [Next]_vars => [Fresher]_vars
  BY RadioStep
<1> QED
  BY <1>1, RadioPairwise, SwarmTypeCorrect, PTL DEF Spec, KnowledgeMonotone

-----------------------------------------------------------------------------
(* The positions file: one frame for every log instant before the end.       *)

(* The log instants, and the event main schedules with Simulator::Stop. *)
Instant(k) == k * LogInterval
StopEvent == [ts |-> Duration, uid |-> FirstUid + Peripherals + 1, kind |-> "stop", node |-> Central]

(* l is the one pending log, the k-th; the logs before it have left their    *)
(* frames, all before the end, and l does not run once the end has been.  At *)
(* the same time the end comes first: main scheduled it before any log.      *)
Logged(l, k) ==
  /\ l \in queue /\ l.kind = "log" /\ \A e \in queue : e.kind = "log" => e = l
  /\ l.ts = Instant(k) /\ l.uid > StopEvent.uid
  /\ FrameTimes = {Instant(i) : i \in 0 .. k - 1}
  /\ \A i \in 0 .. k - 1 : Instant(i) < Duration
  /\ phase # "run" => Duration <= l.ts

Sorted ==
  /\ \A i \in DOMAIN csv : csv[i].time <= now
  /\ \A i, j \in DOMAIN csv : i < j => InTime(csv[i], csv[j])

FramesInv ==
  /\ phase = "run" => StopEvent \in queue /\ \A e \in queue : e.kind = "stop" => e = StopEvent
  /\ \E l \in queue, k \in Nat : Logged(l, k)
  /\ Sorted

LEMMA Instants ==
  ASSUME NEW k \in Nat
  PROVE  /\ Instant(k) \in Nat /\ Instant(k + 1) = Instant(k) + LogInterval
         /\ Instant(k) % LogInterval = 0
<1>1. Instant(k) \in Nat /\ Instant(k + 1) = Instant(k) + LogInterval
  BY Constants DEF Instant
<1>2. Instant(k) % LogInterval = 0
  BY Constants DEF Instant
<1> QED
  BY <1>1, <1>2

(* A time without remainder is a log instant. *)
LEMMA Quotient ==
  ASSUME NEW t \in Nat, t % LogInterval = 0
  PROVE  \E k \in Nat : t = Instant(k)
<1>1. t \div LogInterval \in Nat /\ t = LogInterval * (t \div LogInterval) + (t % LogInterval)
  BY Constants
<1>2. t = Instant(t \div LogInterval)
  BY <1>1, Constants DEF Instant
<1> QED
  BY <1>1, <1>2

LEMMA InstantsRise ==
  ASSUME NEW i \in Nat, NEW k \in Nat
  PROVE  i < k <=> Instant(i) < Instant(k)
<1>1. i <= k => i * LogInterval <= k * LogInterval
  BY Constants
<1>2. i < k => i * LogInterval + LogInterval <= k * LogInterval
  <2>1. i + 1 <= k => (i + 1) * LogInterval <= k * LogInterval
    BY Constants
  <2>2. (i + 1) * LogInterval = i * LogInterval + LogInterval
    BY Constants
  <2> QED BY <2>1, <2>2
<1>3. k <= i => k * LogInterval <= i * LogInterval
  BY Constants
<1>4. i * LogInterval \in Nat /\ k * LogInterval \in Nat
  BY Constants
<1> QED
  BY <1>2, <1>3, <1>4, Constants DEF Instant

(* A line at a time not before now, and a frame later than any other, keeps  *)
(* the file sorted.                                                          *)
LEMMA LineAdded ==
  ASSUME TypeOK, Sorted, NEW t \in Nat, now <= t, now' = t, NEW kd \in {"frame", "color"},
         csv' = Append(csv, [kind |-> kd, time |-> t]),
         kd = "frame" => \A x \in FrameTimes : x < t
  PROVE  Sorted' /\ FrameTimes' = FrameTimes \cup (IF kd = "frame" THEN {t} ELSE {})
<1> DEFINE line == [kind |-> kd, time |-> t]
           n == Len(csv) + 1
<1>1. line \in Lines /\ line.kind = kd /\ line.time = t
  BY DEF Lines
<1>2. csv \in Seq(Lines) /\ now \in Nat /\ csv' = Append(csv, line)
  BY DEF TypeOK
<1> HIDE DEF line
<1>3. /\ DOMAIN csv = 1 .. n - 1 /\ n \in Nat /\ DOMAIN csv' = 1 .. n /\ csv'[n] = line
      /\ \A i \in DOMAIN csv : csv'[i] = csv[i] /\ csv[i] \in Lines
  BY <1>1, <1>2
<1>4. \A i \in DOMAIN csv' : i = n \/ i \in DOMAIN csv
  BY <1>3
<1>5. \A i \in DOMAIN csv : csv[i].time \in Nat /\ csv[i].time <= now
  BY <1>3 DEF Sorted, Lines
<1>6. \A i \in DOMAIN csv' : csv'[i].time <= t
  BY <1>1, <1>2, <1>3, <1>4, <1>5
<1>7. ASSUME NEW i \in DOMAIN csv', NEW j \in DOMAIN csv', i < j
      PROVE  InTime(csv'[i], csv'[j])
  <2>1. CASE j = n
    <3>1. i \in DOMAIN csv /\ csv'[i] = csv[i] /\ csv'[j] = line
      BY <1>3, <1>7, <2>1
    <3>2. csv[i].kind = "frame" => csv[i].time \in FrameTimes
      BY <3>1 DEF FrameTimes
    <3> QED BY <1>1, <1>6, <3>1, <3>2 DEF InTime
  <2>2. CASE j # n
    <3>1. i \in DOMAIN csv /\ j \in DOMAIN csv
      BY <1>3, <1>7, <2>2
    <3> QED BY <1>3, <1>7, <3>1 DEF Sorted
  <2> QED BY <2>1, <2>2
<1>8. FrameTimes' = FrameTimes \cup (IF kd = "frame" THEN {t} ELSE {})
  <2>1. FrameTimes' = {csv'[i].time : i \in {j \in DOMAIN csv' : csv'[j].kind = "frame"}}
    BY DEF FrameTimes
  <2>2. FrameTimes = {csv[i].time : i \in {j \in DOMAIN csv : csv[j].kind = "frame"}}
    BY DEF FrameTimes
  <2>3. \A i \in DOMAIN csv : i \in DOMAIN csv'
    BY <1>3
  <2>4. n \in DOMAIN csv'
    BY <1>3
  <2> HIDE DEF n
  <2> QED BY <1>1, <1>3, <1>4, <2>1, <2>2, <2>3, <2>4
<1> QED
  BY <1>6, <1>7, <1>8 DEF Sorted

(* What an event writes to the file. *)
LEMMA EventLine ==
  ASSUME NEW e \in queue,
         \/ Initialize(e) \/ StartApplication(e) \/ Send(e) \/ Calculate(e)
         \/ Cyberattack(e) \/ LogPositions(e) \/ Stop(e)
  PROVE  /\ e.kind = "log" => csv' = Append(csv, [kind |-> "frame", time |-> e.ts])
         /\ e.kind # "log" => \/ csv' = csv
                              \/ csv' = Append(csv, [kind |-> "color", time |-> e.ts])
<1>1. CASE Initialize(e)
  BY <1>1 DEF Initialize, file
<1>2. CASE StartApplication(e)
  BY <1>2 DEF StartApplication, SetColor, file
<1>3. CASE Send(e)
  BY <1>3 DEF Send, file
<1>4. CASE Calculate(e)
  BY <1>4 DEF Calculate, file
<1>5. CASE Cyberattack(e)
  BY <1>5 DEF Cyberattack, SetColor
<1>6. CASE LogPositions(e)
  BY <1>6 DEF LogPositions
<1>7. CASE Stop(e)
  BY <1>7 DEF Stop, file
<1> QED
  BY <1>1, <1>2, <1>3, <1>4, <1>5, <1>6, <1>7

LEMMA FramesInit == Init => FramesInv
<1> SUFFICES ASSUME Init PROVE FramesInv
  OBVIOUS
<1> DEFINE l == [ts |-> 0, uid |-> FirstUid + Peripherals + 2, kind |-> "log", node |-> Central]
<1>1. \A e \in queue : \/ e.kind = "init" \/ e = StopEvent \/ e = l
  BY DEF Init, Setup, StopEvent
<1>2. StopEvent \in queue /\ l \in queue
  BY DEF Init, Setup, StopEvent
<1>3. phase = "run" /\ csv = << >> /\ DOMAIN csv = {}
  BY DEF Init
<1>4. StopEvent.kind = "stop" /\ l.kind = "log" /\ l.uid > StopEvent.uid
  BY Constants DEF StopEvent, FirstUid
<1>5. l.ts = Instant(0)
  BY Constants DEF Instant
<1>6. FrameTimes = {Instant(i) : i \in 0 .. 0 - 1} /\ 0 .. 0 - 1 = {}
  BY <1>3 DEF FrameTimes
<1> HIDE DEF l
<1>7. Logged(l, 0)
  BY <1>1, <1>2, <1>3, <1>4, <1>5, <1>6 DEF Logged
<1>8. Sorted
  BY <1>3 DEF Sorted
<1> QED
  BY <1>1, <1>2, <1>4, <1>7, <1>8 DEF FramesInv

LEMMA FramesEvent ==
  ASSUME LoopInv, FramesInv, NEW e \in queue,
         \/ Initialize(e) \/ StartApplication(e) \/ Send(e) \/ Calculate(e)
         \/ Cyberattack(e) \/ LogPositions(e) \/ Stop(e)
  PROVE  FramesInv'
<1>1. TypeOK /\ Ordered
  BY DEF LoopInv
<1>2. /\ phase = "run" /\ queue' = (queue \ {e}) \cup Follow(e) /\ now' = e.ts
      /\ \A f \in queue \ {e} : Before(e, f)
  BY EventShape DEF Dispatch, IsNext
<1>3. phase' = IF e.kind = "stop" THEN "stop" ELSE phase
  BY <1>1, EventFrame
<1>4. /\ \A f \in queue : f \in Event /\ f.kind \in Kinds /\ f.ts \in Nat /\ f.uid \in Nat /\ f.uid < uid
      /\ uid \in Nat /\ now \in Nat
  BY <1>1, TypeFacts DEF Ordered
<1>5. now <= e.ts
  BY <1>1, <1>4 DEF Ordered, HasPassed
<1>6. PICK l \in queue, k \in Nat : Logged(l, k)
  BY DEF FramesInv
<1>7. StopEvent \in queue /\ StopEvent.kind = "stop" /\ StopEvent.ts = Duration
      /\ \A f \in queue : f.kind = "stop" => f = StopEvent
  BY <1>2 DEF FramesInv, StopEvent
<1>8. \A f \in Follow(e) : f.kind # "stop" /\ (e.kind # "log" => f.kind # "log")
  BY <1>1, <1>4, FollowKind DEF Kinds
<1>9. /\ l.kind = "log" /\ (\A f \in queue : f.kind = "log" => f = l)
      /\ l.ts = Instant(k) /\ l.uid > StopEvent.uid
      /\ FrameTimes = {Instant(i) : i \in 0 .. k - 1}
      /\ \A i \in 0 .. k - 1 : Instant(i) < Duration
  BY <1>6 DEF Logged
<1>10. Sorted /\ Duration \in Nat
  BY Constants DEF FramesInv
<1>11. phase' = "run" =>
         StopEvent \in queue' /\ \A f \in queue' : f.kind = "stop" => f = StopEvent
  BY <1>2, <1>3, <1>7, <1>8
<1>12. CASE e.kind = "log"
  <2>1. e = l /\ l # StopEvent
    BY <1>7, <1>9, <1>12
  <2>2. l.ts < Duration
    <3>1. Before(l, StopEvent)
      BY <1>2, <1>7, <2>1
    <3> QED BY <1>4, <1>7, <1>9, <3>1 DEF Before
  <2>3. PICK m : m = Scheduled(e, LogInterval, "log", Central, 0) /\ Follow(e) = {m}
    BY <1>12 DEF Follow
  <2>4. m.ts = e.ts + LogInterval /\ m.uid = uid /\ m.kind = "log"
    BY <1>4, <2>3 DEF Scheduled
  <2>5. m \in queue' /\ \A f \in queue' : f.kind = "log" => f = m
    BY <1>2, <1>9, <2>1, <2>3
  <2>6. m.uid > StopEvent.uid
    BY <1>4, <1>7, <2>4
  <2>7. m.ts = Instant(k + 1)
    BY <1>9, <2>1, <2>4, Instants
  <2>13. \A x \in FrameTimes : x < Instant(k)
    <3>1. \A i \in 0 .. k - 1 : i \in Nat /\ i < k
      OBVIOUS
    <3> QED BY <1>9, <3>1, InstantsRise
  <2>8. Sorted' /\ FrameTimes' = FrameTimes \cup {Instant(k)}
    BY <1>1, <1>2, <1>4, <1>5, <1>9, <1>10, <1>12, <2>1, <2>13, EventLine, LineAdded
  <2>9. FrameTimes' = {Instant(i) : i \in 0 .. (k + 1) - 1}
    <3>1. \A i : i \in 0 .. (k + 1) - 1 <=> (i \in 0 .. k - 1 \/ i = k)
      OBVIOUS
    <3> QED BY <1>9, <2>8, <3>1
  <2>10. \A i \in 0 .. (k + 1) - 1 : Instant(i) < Duration
    <3>1. \A i \in 0 .. (k + 1) - 1 : i \in 0 .. k - 1 \/ i = k
      OBVIOUS
    <3> QED BY <1>9, <2>1, <2>2, <3>1
  <2>11. phase' = "run"
    BY <1>2, <1>3, <1>12
  <2>12. Logged(m, k + 1)'
    BY <2>4, <2>5, <2>6, <2>7, <2>9, <2>10, <2>11 DEF Logged, StopEvent, Instant
  <2> QED
    BY <1>11, <2>5, <2>8, <2>12 DEF FramesInv
<1>13. CASE e.kind # "log"
  <2>1. l \in queue' /\ \A f \in queue' : f.kind = "log" => f = l
    BY <1>2, <1>8, <1>9, <1>13
  <2>2. Sorted' /\ FrameTimes' = FrameTimes
    <3>1. CASE csv' = csv
      <4>1. \A i \in DOMAIN csv : csv[i].time \in Nat
        <5>1. csv \in Seq(Lines)
          BY <1>1 DEF TypeOK
        <5>2. \A i \in DOMAIN csv : csv[i] \in Lines
          BY <5>1
        <5> QED BY <5>2 DEF Lines
      <4>2. Sorted'
        BY <1>2, <1>4, <1>5, <1>10, <3>1, <4>1 DEF Sorted
      <4>3. FrameTimes' = FrameTimes
        BY <3>1 DEF FrameTimes
      <4> QED BY <4>2, <4>3
    <3>2. CASE csv' = Append(csv, [kind |-> "color", time |-> e.ts])
      <4>1. Sorted' /\ FrameTimes' = FrameTimes \cup {}
        BY <1>1, <1>2, <1>4, <1>5, <1>10, <3>2, LineAdded
      <4> QED BY <4>1
    <3> QED BY <1>13, <3>1, <3>2, EventLine
  <2>3. phase' # "run" => Duration <= l.ts
    <3>1. SUFFICES ASSUME e.kind = "stop" PROVE Duration <= l.ts
      BY <1>2, <1>3
    <3>2. e = StopEvent /\ l \in queue \ {e}
      BY <1>7, <1>9, <3>1
    <3> QED BY <1>2, <1>4, <1>7, <1>10, <3>2 DEF Before
  <2>4. Logged(l, k)'
    BY <1>9, <2>1, <2>2, <2>3 DEF Logged, StopEvent, Instant
  <2> QED
    BY <1>11, <2>1, <2>2, <2>4 DEF FramesInv
<1> QED
  BY <1>12, <1>13

LEMMA FramesStep == LoopInv /\ FramesInv /\ [Next]_vars => FramesInv'
<1> SUFFICES ASSUME LoopInv, FramesInv, [Next]_vars PROVE FramesInv'
  OBVIOUS
<1>1. ASSUME NEW e \in queue,
             \/ Initialize(e) \/ StartApplication(e) \/ Send(e) \/ Calculate(e)
             \/ Cyberattack(e) \/ LogPositions(e) \/ Stop(e)
      PROVE  FramesInv'
  BY <1>1, FramesEvent
<1>2. ASSUME UNCHANGED <<queue, now, csv>>, phase' = phase \/ (phase = "stop" /\ phase' = "done")
      PROVE  FramesInv'
  <2>1. PICK l \in queue, k \in Nat : Logged(l, k)
    BY DEF FramesInv
  <2>2. FrameTimes' = FrameTimes
    BY <1>2 DEF FrameTimes
  <2>3. Logged(l, k)'
    BY <1>2, <2>1, <2>2 DEF Logged, StopEvent, Instant
  <2>4. Sorted'
    BY <1>2 DEF FramesInv, Sorted
  <2> QED
    BY <1>2, <2>3, <2>4 DEF FramesInv, StopEvent
<1>3. CASE Finish
  BY <1>2, <1>3 DEF Finish, engine
<1>4. CASE \E s, d \in Nodes : Deliver(s, d)
  <2>1. UNCHANGED <<queue, now, csv, phase>>
    BY <1>4 DEF Deliver, engine, file
  <2> QED BY <1>2, <2>1
<1>5. CASE UNCHANGED vars
  <2>1. UNCHANGED <<queue, now, csv, phase>>
    BY <1>5 DEF vars, engine, file
  <2> QED BY <1>2, <2>1
<1> QED
  BY <1>1, <1>3, <1>4, <1>5 DEF Next, Step, RunEvent, Terminated

(* main.cc: whatever the intervals and the duration, the positions file that *)
(* main leaves behind has one frame for every log instant before the end and *)
(* none at it, with all its lines in the order of time and no frame twice.   *)
THEOREM SwarmFramesComplete == Spec => []FramesComplete
<1>1. FramesInv => FramesComplete
  <2> SUFFICES ASSUME FramesInv, phase = "done" PROVE FramesComplete
    BY DEF FramesComplete
  <2>1. PICK l \in queue, k \in Nat : Logged(l, k)
    BY DEF FramesInv
  <2>2. /\ FrameTimes = {Instant(i) : i \in 0 .. k - 1}
        /\ \A i \in 0 .. k - 1 : Instant(i) < Duration
        /\ Duration <= Instant(k) /\ Duration \in Nat
    BY <2>1, Constants DEF Logged
  <2>3. ASSUME NEW t \in FrameTimes PROVE t \in 0 .. Duration - 1 /\ t % LogInterval = 0
    <3>1. PICK i \in 0 .. k - 1 : t = Instant(i)
      BY <2>2
    <3> QED BY <2>2, <3>1, Instants
  <2>4. ASSUME NEW t \in 0 .. Duration - 1, t % LogInterval = 0 PROVE t \in FrameTimes
    <3>1. PICK i \in Nat : t = Instant(i)
      BY <2>2, <2>4, Quotient
    <3>2. Instant(i) < Instant(k)
      BY <2>2, <3>1, Instants
    <3>3. i \in 0 .. k - 1
      BY <3>2, InstantsRise
    <3> QED BY <2>2, <3>1, <3>3
  <2>5. FrameTimes = {t \in 0 .. Duration - 1 : t % LogInterval = 0}
    BY <2>3, <2>4
  <2> QED
    BY <2>5 DEF FramesComplete, FramesInv, Sorted
<1>2. Init => FramesInv
  BY FramesInit
<1>3. LoopInv /\ FramesInv /\ [Next]_vars => FramesInv'
  BY FramesStep
<1> QED
  BY <1>1, <1>2, <1>3, SwarmLoop, PTL DEF Spec
=============================================================================
