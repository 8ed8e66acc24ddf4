------------------------------ MODULE ArpCache ------------------------------
(* Address resolution of one node (arp-l3-protocol.cc, arp-cache.cc), which  *)
(* every beacon passes on its way out.  The node keeps an entry per peer;    *)
(* one timer serves all of them.  Requests and replies travel over a radio   *)
(* may delay them for any time, and so lose them; the jitter before a        *)
(* request is part of that delay.  A peer answers without touching its cache.*)
EXTENDS Integers, Sequences

CONSTANTS
  Peers,             \* the other nodes of the subnet
  WaitReplyTimeout,  \* attribute WaitReplyTimeout, in ticks
  AliveTimeout,      \* attribute AliveTimeout, in ticks
  DeadTimeout,       \* attribute DeadTimeout, in ticks
  MaxRetries,        \* attribute MaxRetries
  PendingQueueSize,  \* attribute PendingQueueSize
  MaxPackets,        \* MaxPackets[p]: bound on the packets handed in for p
  LastSend,          \* bound on the time at which packets are handed in
  MaxOnAir           \* bound on the requests and on the replies under way per peer

ASSUME ArpAssumption ==
  /\ {WaitReplyTimeout, AliveTimeout, DeadTimeout, PendingQueueSize} \subseteq Nat \ {0}
  /\ {MaxRetries, LastSend, MaxOnAir} \subseteq Nat
  /\ MaxPackets \in [Peers -> Nat]

States == {"NONE", "ALIVE", "WAIT_REPLY", "DEAD"}  \* NONE: no entry in m_arpCache

VARIABLES
  now,       \* Simulator::Now ()
  state,     \* state[p]: m_state of the entry of p
  lastSeen,  \* m_lastSeen
  retries,   \* m_retries
  pending,   \* m_pending: numbers of the packets that wait, oldest first
  since,     \* when the entry last became WAIT_REPLY (history)
  timer,     \* m_waitReplyTimer
  requests,  \* requests[p]: requests for p scheduled or on the air
  replies,   \* replies[p]: replies of p on the air
  handed,    \* handed[p]: packets handed to Lookup for p, numbered from 1
  out,       \* out[p]: packets passed on to the device for p (history)
  fault      \* "none", or the assertion or fatal error that ended the program

entries == <<state, lastSeen, retries, pending, since>>
radio == <<requests, replies>>
traffic == <<handed, out>>
vars == <<now, entries, timer, radio, traffic, fault>>

Idle == [running |-> FALSE, due |-> 0]
Due(t) == [running |-> TRUE, due |-> t]

Init ==
  /\ now = 0
  /\ state = [p \in Peers |-> "NONE"]
  /\ lastSeen = [p \in Peers |-> 0]
  /\ retries = [p \in Peers |-> 0]
  /\ pending = [p \in Peers |-> << >>]
  /\ since = [p \in Peers |-> 0]
  /\ timer = Idle
  /\ requests = [p \in Peers |-> 0]
  /\ replies = [p \in Peers |-> 0]
  /\ handed = [p \in Peers |-> 0]
  /\ out = [p \in Peers |-> << >>]
  /\ fault = "none"

-----------------------------------------------------------------------------
(* Entries.                                                                  *)

Timeout(s) == CASE s = "ALIVE" -> AliveTimeout
                [] s = "DEAD" -> DeadTimeout
                [] OTHER -> WaitReplyTimeout

(* Faulty: an entry expires as soon as its timeout is reached. *)
EarlyExpired(p) == state[p] # "NONE" /\ now - lastSeen[p] >= Timeout(state[p])

Expired(p) == state[p] # "NONE" /\ now - lastSeen[p] > Timeout(state[p])

(* Faulty: a waiting entry does not start the timer. *)
LostTimer == timer

(* Faulty: the timer starts anew although it runs. *)
PostponedTimer == Due(now + WaitReplyTimeout)

StartedTimer == IF timer.running THEN timer ELSE Due(now + WaitReplyTimeout)

(* One more request on its way to p; past the bound the radio loses it. *)
Requested(p) == IF requests[p] < MaxOnAir THEN requests[p] + 1 ELSE requests[p]

(* Entry::MarkWaitReply with the first packet that waits, and the request    *)
(* that Lookup schedules with it.  Lookup ends the program before it does    *)
(* that to an expired entry that waits already ("possibly unreachable        *)
(* code"), and the assertion ends it if a packet is already waiting.         *)
MarkWaitReply(p, packet) ==
  /\ state' = [state EXCEPT ![p] = "WAIT_REPLY"]
  /\ pending' = [pending EXCEPT ![p] = Append(@, packet)]
  /\ lastSeen' = [lastSeen EXCEPT ![p] = now]
  /\ since' = [since EXCEPT ![p] = now]
  /\ timer' = StartedTimer
  /\ requests' = [requests EXCEPT ![p] = Requested(p)]
  /\ fault' = IF state[p] = "WAIT_REPLY" THEN "unreachable code"
              ELSE IF pending[p] # << >> THEN "assertion" ELSE "none"
  /\ UNCHANGED <<retries, out>>

(* Faulty: one packet too many waits. *)
WideUpdateWaitReply(p, packet) ==
  IF Len(pending[p]) <= PendingQueueSize THEN Append(pending[p], packet)
  ELSE pending[p]

(* Entry::UpdateWaitReply: a full queue drops the new packet. *)
UpdateWaitReply(p, packet) ==
  IF Len(pending[p]) < PendingQueueSize THEN Append(pending[p], packet)
  ELSE pending[p]

-----------------------------------------------------------------------------
(* Handlers.                                                                 *)

(* ArpL3Protocol::Lookup, called by Ipv4Interface::Send for the next packet  *)
(* to p.  Over a valid dead entry the packet is dropped.                     *)
Lookup(p) ==
  LET packet == handed[p] + 1 IN
  /\ fault = "none" /\ now <= LastSend /\ packet <= MaxPackets[p]
  /\ handed' = [handed EXCEPT ![p] = packet]
  /\ \/ /\ state[p] = "NONE" \/ Expired(p)
        /\ MarkWaitReply(p, packet)
     \/ /\ state[p] = "WAIT_REPLY" /\ ~ Expired(p)
        /\ pending' = [pending EXCEPT ![p] = UpdateWaitReply(p, packet)]
        /\ UNCHANGED <<state, lastSeen, retries, since, timer, requests, out, fault>>
     \/ /\ state[p] = "ALIVE" /\ ~ Expired(p)
        /\ out' = [out EXCEPT ![p] = Append(@, packet)]
        /\ UNCHANGED <<entries, timer, requests, fault>>
     \/ /\ state[p] = "DEAD" /\ ~ Expired(p)
        /\ UNCHANGED <<entries, timer, requests, out, fault>>
  /\ UNCHANGED <<now, replies>>

(* Receive on the side of the peer: a request for its address is answered. *)
ReceiveRequest(p) ==
  /\ fault = "none" /\ requests[p] > 0 /\ replies[p] < MaxOnAir
  /\ requests' = [requests EXCEPT ![p] = @ - 1]
  /\ replies' = [replies EXCEPT ![p] = @ + 1]
  /\ UNCHANGED <<now, entries, timer, traffic, fault>>

(* Faulty: the newest of the waiting packets is sent first. *)
ReversedFlushed(p) ==
  out[p] \o [i \in DOMAIN pending[p] |-> pending[p][Len(pending[p]) + 1 - i]]

(* DequeuePending until it returns nothing. *)
Flushed(p) == out[p] \o pending[p]

(* Receive on the side of the node: MarkAlive and what waited goes out, if   *)
(* the entry is still waiting; any other reply is dropped.                   *)
ReceiveReply(p) ==
  /\ fault = "none" /\ replies[p] > 0
  /\ replies' = [replies EXCEPT ![p] = @ - 1]
  /\ IF state[p] = "WAIT_REPLY"
     THEN /\ state' = [state EXCEPT ![p] = "ALIVE"]
          /\ retries' = [retries EXCEPT ![p] = 0]
          /\ lastSeen' = [lastSeen EXCEPT ![p] = now]
          /\ out' = [out EXCEPT ![p] = Flushed(p)]
          /\ pending' = [pending EXCEPT ![p] = << >>]
          /\ UNCHANGED since
     ELSE UNCHANGED <<entries, out>>
  /\ UNCHANGED <<now, timer, requests, handed, fault>>

Waiting == {p \in Peers : state[p] = "WAIT_REPLY"}

(* Faulty: one retry too many. *)
PatientRetried == {p \in Waiting : retries[p] <= MaxRetries}

Retried == {p \in Waiting : retries[p] < MaxRetries}
GivenUp == Waiting \ Retried

(* HandleWaitReplyTimeout, for every entry at once whenever it began to wait. *)
HandleWaitReplyTimeout ==
  /\ fault = "none" /\ timer.running /\ timer.due = now
  /\ requests' = [p \in Peers |-> IF p \in Retried THEN Requested(p) ELSE requests[p]]
  /\ retries' = [p \in Peers |-> IF p \in Retried THEN retries[p] + 1
                                 ELSE IF p \in GivenUp THEN 0 ELSE retries[p]]
  /\ state' = [p \in Peers |-> IF p \in GivenUp THEN "DEAD" ELSE state[p]]
  /\ lastSeen' = [p \in Peers |-> IF p \in Waiting THEN now ELSE lastSeen[p]]
  /\ pending' = [p \in Peers |-> IF p \in GivenUp THEN << >> ELSE pending[p]]
  /\ timer' = IF Retried # {} THEN Due(now + WaitReplyTimeout) ELSE Idle
  /\ UNCHANGED <<now, since, replies, traffic, fault>>

(* Flush, called back when the link of the device changes. *)
Flush ==
  /\ fault = "none"
  /\ state' = [p \in Peers |-> "NONE"]
  /\ lastSeen' = [p \in Peers |-> 0]
  /\ retries' = [p \in Peers |-> 0]
  /\ pending' = [p \in Peers |-> << >>]
  /\ since' = [p \in Peers |-> 0]
  /\ timer' = Idle
  /\ UNCHANGED <<now, radio, traffic, fault>>

(* The clock moves on to the next event, not past a timer that is due. *)
Tick ==
  /\ fault = "none"
  /\ now < LastSend \/ timer.running
  /\ timer.running => now < timer.due
  /\ now' = now + 1
  /\ UNCHANGED <<entries, timer, radio, traffic, fault>>

End ==
  /\ fault # "none" \/ (now >= LastSend /\ ~ timer.running)
  /\ UNCHANGED vars

Next ==
  \/ \E p \in Peers : Lookup(p) \/ ReceiveRequest(p) \/ ReceiveReply(p)
  \/ HandleWaitReplyTimeout \/ Flush \/ Tick \/ End

Spec == Init /\ [][Next]_vars

(* The event loop never stops while an event is queued. *)
FairSpec == Spec /\ WF_vars(HandleWaitReplyTimeout \/ Tick)

-----------------------------------------------------------------------------
(* Properties.                                                               *)

TypeOK ==
  /\ now \in Nat
  /\ state \in [Peers -> States]
  /\ lastSeen \in [Peers -> Nat] /\ retries \in [Peers -> Nat] /\ since \in [Peers -> Nat]
  /\ requests \in [Peers -> Nat] /\ replies \in [Peers -> Nat]
  /\ handed \in [Peers -> Nat]
  /\ pending \in [Peers -> Seq(Nat)] /\ out \in [Peers -> Seq(Nat)]
  /\ timer \in [running : BOOLEAN, due : Nat]
  /\ fault \in {"none", "unreachable code", "assertion"}

(* Lookup never meets a waiting entry that has expired, the case the source  *)
(* calls possibly unreachable, nor an answered or dead entry that still has  *)
(* packets: every timeout of the shared timer refreshes all waiting entries. *)
NoFault == fault = "none"

(* No entry is left waiting without the timer: it runs as long as any entry  *)
(* waits, whichever entry started it, and is due before the entry expires.   *)
TimerServesAll == \A p \in Waiting :
  timer.running /\ now <= timer.due /\ timer.due <= lastSeen[p] + WaitReplyTimeout

(* Packets are kept for exactly the entries that wait, never more than       *)
(* PendingQueueSize: none is stranded behind an answered or dead entry.      *)
PendingWhileWaiting == \A p \in Peers :
  /\ pending[p] # << >> <=> state[p] = "WAIT_REPLY"
  /\ Len(pending[p]) <= PendingQueueSize

(* However the shared timer falls, a peer is given up after MaxRetries       *)
(* repeated requests and at most one timeout more, not earlier and not later.*)
Patience == \A p \in Waiting :
  /\ retries[p] <= MaxRetries
  /\ timer.due - since[p] >= retries[p] * WaitReplyTimeout
  /\ timer.due - since[p] <= (retries[p] + 1) * WaitReplyTimeout

(* For each destination the packets go out in order and at most once: the    *)
(* promise the swarm relies on, since a beacon carries no sequence number.   *)
LinkOrder == INSTANCE Link
InOrder == LinkOrder!Spec

(* The timer that runs is due within one timeout. *)
TimerAhead == timer.running => now <= timer.due /\ timer.due <= now + WaitReplyTimeout

(* Only a waiting entry has retries to its name. *)
RetriesWhileWaiting == \A p \in Peers : state[p] # "WAIT_REPLY" => retries[p] = 0

(* What waits follows what is out, both in the order of arrival. *)
QueueOrder == \A p \in Peers :
  /\ LinkOrder!Rising(out[p]) /\ LinkOrder!Rising(pending[p])
  /\ \A i \in DOMAIN out[p], j \in DOMAIN pending[p] : out[p][i] < pending[p][j]
  /\ \A i \in DOMAIN out[p] : out[p][i] \in 1 .. handed[p]
  /\ \A j \in DOMAIN pending[p] : pending[p][j] \in 1 .. handed[p]

(* The inductive invariant behind the properties above. *)
ArpInv == /\ TypeOK /\ NoFault /\ TimerServesAll /\ PendingWhileWaiting /\ Patience
          /\ TimerAhead /\ RetriesWhileWaiting /\ QueueOrder

(* A packet that waits is sent or given up in the end, whatever is lost. *)
Resolved == \A p \in Peers : pending[p] # << >> ~> pending[p] = << >>
==============================================================================
