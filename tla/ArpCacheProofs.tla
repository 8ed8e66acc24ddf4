--------------------------- MODULE ArpCacheProofs ---------------------------
(* What address resolution guarantees for any number of peers, any timeouts, *)
(* retry limit and queue size, proved from the inductive invariant ArpInv.   *)
EXTENDS ArpCache, SequenceTheorems, TLAPS

LEMMA InitInv == Init => ArpInv
<1> SUFFICES ASSUME Init PROVE ArpInv
  OBVIOUS
<1> USE DEF Init
<1>1. TypeOK
  BY DEF TypeOK, States, Idle
<1>2. NoFault /\ TimerServesAll /\ PendingWhileWaiting /\ Patience /\ TimerAhead
        /\ RetriesWhileWaiting
  BY ArpAssumption DEF NoFault, TimerServesAll, PendingWhileWaiting, Patience, Waiting,
     TimerAhead, RetriesWhileWaiting, Idle, ArpAssumption
<1>3. QueueOrder
  <2>1. DOMAIN << >> = {}
    OBVIOUS
  <2>2. \A p \in Peers : out[p] = << >> /\ pending[p] = << >>
    OBVIOUS
  <2> HIDE DEF Init
  <2> QED BY <2>1, <2>2 DEF QueueOrder, LinkOrder!Rising
<1> QED BY <1>1, <1>2, <1>3 DEF ArpInv

-----------------------------------------------------------------------------
(* Sequences in order.                                                       *)

(* A number above all others may be added at the end. *)
LEMMA RisingAppend ==
  ASSUME NEW s \in Seq(Nat), NEW n \in Nat, LinkOrder!Rising(s),
         \A i \in DOMAIN s : s[i] < n
  PROVE  LinkOrder!Rising(Append(s, n))
BY DEF LinkOrder!Rising

(* Two ordered sequences, the first below the second, are ordered together. *)
LEMMA RisingConcat ==
  ASSUME NEW s \in Seq(Nat), NEW t \in Seq(Nat), LinkOrder!Rising(s), LinkOrder!Rising(t),
         \A i \in DOMAIN s, j \in DOMAIN t : s[i] < t[j]
  PROVE  LinkOrder!Rising(s \o t)
<1> SUFFICES ASSUME NEW i \in DOMAIN (s \o t), NEW j \in DOMAIN (s \o t), i < j
             PROVE  (s \o t)[i] < (s \o t)[j]
  BY DEF LinkOrder!Rising
<1>1. /\ s \o t \in Seq(Nat) /\ Len(s \o t) = Len(s) + Len(t)
      /\ \A k \in 1 .. Len(s) + Len(t) :
           (s \o t)[k] = IF k <= Len(s) THEN s[k] ELSE t[k - Len(s)]
  BY ConcatProperties
<1> QED BY <1>1 DEF LinkOrder!Rising

(* What holds of the elements of two sequences holds of those of both.       *)
LEMMA RangeConcat ==
  ASSUME NEW s \in Seq(Nat), NEW t \in Seq(Nat), NEW S,
         \A i \in DOMAIN s : s[i] \in S, \A j \in DOMAIN t : t[j] \in S
  PROVE  \A k \in DOMAIN (s \o t) : (s \o t)[k] \in S
<1>1. /\ s \o t \in Seq(Nat) /\ Len(s \o t) = Len(s) + Len(t)
      /\ \A k \in 1 .. Len(s) + Len(t) :
           (s \o t)[k] = IF k <= Len(s) THEN s[k] ELSE t[k - Len(s)]
  BY ConcatProperties
<1> QED BY <1>1

-----------------------------------------------------------------------------
(* Every action preserves the invariant.                                     *)

(* The timer comes before the expiry of every entry that waits. *)
LEMMA WaitingNotExpired ==
  ASSUME ArpInv, NEW p \in Peers, state[p] = "WAIT_REPLY"
  PROVE  ~ Expired(p)
<1>1. now <= timer.due /\ timer.due <= lastSeen[p] + WaitReplyTimeout
  BY DEF ArpInv, TimerServesAll, Waiting
<1>2. now \in Nat /\ timer.due \in Nat /\ lastSeen[p] \in Nat /\ WaitReplyTimeout \in Nat
  BY ArpAssumption DEF ArpInv, TypeOK, ArpAssumption
<1> QED BY <1>1, <1>2 DEF Expired, Timeout

(* The first packet for a peer that is unknown, alive or dead. *)
LEMMA MarkWaitReplyInv ==
  ASSUME ArpInv, NEW p \in Peers, handed' = [handed EXCEPT ![p] = handed[p] + 1],
         state[p] # "WAIT_REPLY", MarkWaitReply(p, handed[p] + 1), UNCHANGED <<now, replies>>
  PROVE  ArpInv'
<1>a. /\ state' = [state EXCEPT ![p] = "WAIT_REPLY"]
      /\ pending' = [pending EXCEPT ![p] = Append(pending[p], handed[p] + 1)]
      /\ lastSeen' = [lastSeen EXCEPT ![p] = now] /\ since' = [since EXCEPT ![p] = now]
      /\ timer' = StartedTimer
      /\ requests' = [requests EXCEPT ![p] = Requested(p)]
      /\ retries' = retries /\ out' = out /\ now' = now /\ replies' = replies
  BY DEF MarkWaitReply
<1>0. /\ TypeOK /\ NoFault /\ TimerServesAll /\ PendingWhileWaiting /\ Patience
      /\ TimerAhead /\ RetriesWhileWaiting /\ QueueOrder
  BY DEF ArpInv
<1>1. /\ WaitReplyTimeout \in Nat \ {0} /\ PendingQueueSize \in Nat \ {0} /\ MaxRetries \in Nat
      /\ MaxOnAir \in Nat
  BY ArpAssumption DEF ArpAssumption
<1>2. pending[p] = << >> /\ retries[p] = 0
  BY <1>0 DEF PendingWhileWaiting, RetriesWhileWaiting
<1>3. pending' = [pending EXCEPT ![p] = <<handed[p] + 1>>]
  BY <1>a, <1>2
<1>4. timer'.running /\ now <= timer'.due /\ timer'.due <= now + WaitReplyTimeout
        /\ timer' \in [running : BOOLEAN, due : Nat]
  <2>1. now \in Nat /\ timer \in [running : BOOLEAN, due : Nat]
    BY <1>0 DEF TypeOK
  <2>2. CASE timer.running
    BY <1>a, <1>0, <2>1, <2>2 DEF StartedTimer, TimerAhead
  <2>3. CASE ~ timer.running
    BY <1>a, <1>1, <2>1, <2>3 DEF StartedTimer, Due
  <2> QED BY <2>2, <2>3
<1>6. NoFault'
  BY <1>2 DEF NoFault, MarkWaitReply
<1>5. TypeOK'
  <2>0. handed \in [Peers -> Nat] /\ requests \in [Peers -> Nat] /\ now \in Nat
    BY <1>0 DEF TypeOK
  <2>1. handed[p] + 1 \in Nat /\ requests[p] \in Nat /\ now \in Nat
    BY <2>0
  <2>2. Requested(p) \in Nat
    BY <1>1, <2>1 DEF Requested
  <2>3. <<handed[p] + 1>> \in Seq(Nat)
    BY <2>1
  <2>4. pending' \in [Peers -> Seq(Nat)]
    BY <1>0, <1>3, <2>3 DEF TypeOK
  <2>5. requests' \in [Peers -> Nat] /\ handed' \in [Peers -> Nat]
    BY <1>a, <1>0, <2>1, <2>2 DEF TypeOK
  <2> QED BY <1>a, <1>0, <1>4, <1>6, <2>1, <2>4, <2>5 DEF TypeOK, States, NoFault
<1>7. TimerServesAll' /\ TimerAhead'
  <2>1. ASSUME NEW q \in Waiting' PROVE timer'.due <= lastSeen'[q] + WaitReplyTimeout
    <3>1. CASE q = p
      BY <1>a, <1>0, <1>4, <3>1 DEF TypeOK
    <3>2. CASE q # p
      <4>1. q \in Waiting /\ lastSeen'[q] = lastSeen[q]
        BY <1>a, <1>0, <3>2 DEF Waiting, TypeOK
      <4>2. timer.running /\ timer.due <= lastSeen[q] + WaitReplyTimeout
        BY <1>a, <1>0, <4>1 DEF TimerServesAll
      <4> QED BY <1>a, <4>1, <4>2 DEF StartedTimer
    <3> QED BY <3>1, <3>2
  <2> QED BY <1>a, <1>4, <2>1 DEF TimerServesAll, TimerAhead
<1>8. PendingWhileWaiting'
  <2> SUFFICES ASSUME NEW q \in Peers
               PROVE  /\ pending'[q] # << >> <=> state'[q] = "WAIT_REPLY"
                      /\ Len(pending'[q]) <= PendingQueueSize
    BY DEF PendingWhileWaiting
  <2>1. CASE q = p
    <3>1. pending'[q] = <<handed[p] + 1>> /\ state'[q] = "WAIT_REPLY"
      BY <1>a, <1>0, <1>3, <2>1 DEF TypeOK
    <3>2. pending'[q] # << >> /\ Len(pending'[q]) = 1
      BY <3>1
    <3> QED BY <1>1, <3>1, <3>2
  <2>2. CASE q # p
    BY <1>a, <1>0, <1>3, <2>2 DEF PendingWhileWaiting, TypeOK
  <2> QED BY <2>1, <2>2
<1>9. Patience'
  <2> SUFFICES ASSUME NEW q \in Waiting'
               PROVE  /\ retries'[q] <= MaxRetries
                      /\ timer'.due - since'[q] >= retries'[q] * WaitReplyTimeout
                      /\ timer'.due - since'[q] <= (retries'[q] + 1) * WaitReplyTimeout
    BY DEF Patience
  <2>1. CASE q = p
    <3>1. retries'[q] = 0 /\ since'[q] = now /\ now \in Nat
      BY <1>a, <1>0, <1>2, <2>1 DEF TypeOK
    <3> QED BY <1>1, <1>4, <3>1
  <2>2. CASE q # p
    <3>1. q \in Waiting /\ since'[q] = since[q] /\ retries'[q] = retries[q]
      BY <1>a, <1>0, <2>2 DEF Waiting, TypeOK
    <3>2. timer' = timer
      BY <1>a, <1>0, <3>1 DEF TimerServesAll, StartedTimer
    <3> QED BY <1>a, <1>0, <3>1, <3>2 DEF Patience
  <2> QED BY <2>1, <2>2
<1>10. RetriesWhileWaiting'
  BY <1>a, <1>0 DEF RetriesWhileWaiting, TypeOK
<1>11. QueueOrder'
  <2> SUFFICES ASSUME NEW q \in Peers
               PROVE  /\ LinkOrder!Rising(out[q]) /\ LinkOrder!Rising(pending'[q])
                      /\ \A i \in DOMAIN out[q], j \in DOMAIN pending'[q] :
                           out[q][i] < pending'[q][j]
                      /\ \A i \in DOMAIN out[q] : out[q][i] \in 1 .. handed'[q]
                      /\ \A j \in DOMAIN pending'[q] : pending'[q][j] \in 1 .. handed'[q]
    BY <1>a DEF QueueOrder
  <2>1. handed[q] \in Nat /\ handed \in [Peers -> Nat] /\ pending \in [Peers -> Seq(Nat)]
    BY <1>a, <1>0 DEF TypeOK
  <2>2. LinkOrder!Rising(out[q]) /\ \A i \in DOMAIN out[q] : out[q][i] \in 1 .. handed[q]
    BY <1>a, <1>0 DEF QueueOrder
  <2>3. CASE q = p
    <3>1. pending'[q] = <<handed[q] + 1>> /\ handed'[q] = handed[q] + 1
      BY <1>3, <2>1, <2>3
    <3>2. DOMAIN pending'[q] = {1} /\ pending'[q][1] = handed[q] + 1
      BY <3>1
    <3>3. LinkOrder!Rising(pending'[q])
      BY <3>2 DEF LinkOrder!Rising
    <3> QED BY <2>1, <2>2, <3>1, <3>2, <3>3
  <2>4. CASE q # p
    BY <1>a, <1>0, <2>1, <2>4 DEF QueueOrder
  <2> QED BY <2>3, <2>4
<1> QED BY <1>5, <1>6, <1>7, <1>8, <1>9, <1>10, <1>11 DEF ArpInv

(* A packet for a peer that is being resolved joins the queue, if it fits. *)
LEMMA UpdateWaitReplyInv ==
  ASSUME ArpInv, NEW p \in Peers, handed' = [handed EXCEPT ![p] = handed[p] + 1],
         state[p] = "WAIT_REPLY",
         pending' = [pending EXCEPT ![p] = UpdateWaitReply(p, handed[p] + 1)],
         UNCHANGED <<now, state, lastSeen, retries, since, timer, radio, out, fault>>
  PROVE  ArpInv'
<1>0. /\ TypeOK /\ NoFault /\ TimerServesAll /\ PendingWhileWaiting /\ Patience
      /\ TimerAhead /\ RetriesWhileWaiting /\ QueueOrder
  BY DEF ArpInv
<1>1. /\ handed \in [Peers -> Nat] /\ pending \in [Peers -> Seq(Nat)]
      /\ out \in [Peers -> Seq(Nat)]
  BY <1>0 DEF TypeOK
<1>2. /\ now' = now /\ state' = state /\ lastSeen' = lastSeen /\ retries' = retries
      /\ since' = since /\ timer' = timer /\ requests' = requests /\ replies' = replies
      /\ out' = out /\ fault' = fault
  BY DEF radio
<1>3. PendingQueueSize \in Nat \ {0}
  BY ArpAssumption DEF ArpAssumption
<1> DEFINE s == pending[p]
           n == handed[p] + 1
<1>4. s \in Seq(Nat) /\ n \in Nat /\ Len(s) \in Nat /\ handed[p] \in Nat
  BY <1>1
<1>5. LinkOrder!Rising(s) /\ \A j \in DOMAIN s : s[j] \in 1 .. handed[p]
  BY <1>0 DEF QueueOrder
<1>6. s # << >> /\ Len(s) <= PendingQueueSize
  BY <1>0 DEF PendingWhileWaiting
<1>7. \/ pending' = pending
      \/ Len(s) < PendingQueueSize /\ pending' = [pending EXCEPT ![p] = Append(s, n)]
  <2>1. CASE Len(s) < PendingQueueSize
    BY <2>1 DEF UpdateWaitReply
  <2>2. CASE ~ (Len(s) < PendingQueueSize)
    <3>1. pending' = [pending EXCEPT ![p] = pending[p]]
      BY <2>2 DEF UpdateWaitReply
    <3> QED BY <1>1, <3>1
  <2> QED BY <2>1, <2>2
<1>8. /\ Append(s, n) \in Seq(Nat) /\ Len(Append(s, n)) = Len(s) + 1
      /\ Append(s, n) # << >>
      /\ DOMAIN Append(s, n) = 1 .. Len(s) + 1 /\ DOMAIN s = 1 .. Len(s)
      /\ \A i \in 1 .. Len(s) : Append(s, n)[i] = s[i]
      /\ Append(s, n)[Len(s) + 1] = n
  BY <1>4
<1>9. LinkOrder!Rising(Append(s, n))
  <2>1. \A i \in DOMAIN s : s[i] < n
    BY <1>4, <1>5
  <2> QED BY <1>4, <1>5, <2>1, RisingAppend
<1> HIDE DEF s, n
<1>10. handed' \in [Peers -> Nat] /\ pending' \in [Peers -> Seq(Nat)]
  <2>1. handed' = [handed EXCEPT ![p] = n]
    BY DEF n
  <2>2. pending' \in [Peers -> Seq(Nat)]
    <3>1. CASE pending' = pending
      BY <1>1, <3>1
    <3>2. CASE pending' = [pending EXCEPT ![p] = Append(s, n)]
      BY <1>1, <1>8, <3>2
    <3> QED BY <1>7, <3>1, <3>2
  <2> QED BY <1>1, <1>4, <2>1, <2>2
<1>11. TypeOK'
  BY <1>0, <1>2, <1>10 DEF TypeOK
<1>12. NoFault' /\ TimerServesAll' /\ TimerAhead' /\ Patience' /\ RetriesWhileWaiting'
  BY <1>0, <1>2 DEF NoFault, TimerServesAll, TimerAhead, Patience, RetriesWhileWaiting, Waiting
<1>13. ASSUME NEW q \in Peers
       PROVE  pending'[q] = pending[q] \/ (q = p /\ pending'[q] = Append(s, n)
                                           /\ Len(s) < PendingQueueSize)
  BY <1>1, <1>7, <1>13
<1>14. PendingWhileWaiting'
  BY <1>0, <1>2, <1>3, <1>4, <1>8, <1>13 DEF PendingWhileWaiting
<1>15. QueueOrder'
  <2> SUFFICES ASSUME NEW q \in Peers
               PROVE  /\ LinkOrder!Rising(out[q]) /\ LinkOrder!Rising(pending'[q])
                      /\ \A i \in DOMAIN out[q], j \in DOMAIN pending'[q] :
                           out[q][i] < pending'[q][j]
                      /\ \A i \in DOMAIN out[q] : out[q][i] \in 1 .. handed'[q]
                      /\ \A j \in DOMAIN pending'[q] : pending'[q][j] \in 1 .. handed'[q]
    BY <1>2 DEF QueueOrder
  <2>1. /\ handed[q] \in Nat /\ handed'[q] \in Nat /\ handed[q] <= handed'[q]
        /\ q = p => handed'[q] = n /\ n = handed[p] + 1
    BY <1>1, <1>4 DEF n
  <2>2. /\ LinkOrder!Rising(out[q]) /\ LinkOrder!Rising(pending[q])
        /\ \A i \in DOMAIN out[q] : out[q][i] \in 1 .. handed[q]
        /\ \A j \in DOMAIN pending[q] : pending[q][j] \in 1 .. handed[q]
        /\ \A i \in DOMAIN out[q], j \in DOMAIN pending[q] : out[q][i] < pending[q][j]
    BY <1>0 DEF QueueOrder
  <2>3. CASE pending'[q] = pending[q]
    BY <2>1, <2>2, <2>3
  <2>4. CASE q = p /\ pending'[q] = Append(s, n)
    <3>1. s = pending[q]
      BY <2>4 DEF s
    <3>2. ASSUME NEW j \in DOMAIN pending'[q]
          PROVE  pending'[q][j] = n \/ \E k \in DOMAIN s : pending'[q][j] = s[k]
      <4>1. j \in 1 .. Len(s) + 1 /\ pending'[q][j] = Append(s, n)[j]
        BY <1>8, <2>4
      <4>2. j \in DOMAIN s \/ j = Len(s) + 1
        BY <1>4, <1>8, <4>1
      <4> QED BY <1>8, <4>1, <4>2
    <3>3. ASSUME NEW j \in DOMAIN pending'[q]
          PROVE  pending'[q][j] \in 1 .. handed'[q]
      <4>1. n \in 1 .. n /\ handed'[q] = n
        BY <1>4, <2>1, <2>4
      <4>2. \A k \in DOMAIN s : s[k] \in 1 .. n
        BY <2>1, <2>2, <2>4, <3>1
      <4> QED BY <3>2, <4>1, <4>2
    <3>4. LinkOrder!Rising(pending'[q])
      BY <1>9, <2>4
    <3>5. ASSUME NEW i \in DOMAIN out[q], NEW j \in DOMAIN pending'[q]
          PROVE  out[q][i] < pending'[q][j]
      <4>1. out[q][i] \in 1 .. handed[q]
        BY <2>2
      <4>2. CASE pending'[q][j] = n
        BY <2>1, <2>4, <4>1, <4>2
      <4>3. CASE \E k \in DOMAIN s : pending'[q][j] = s[k]
        BY <2>2, <3>1, <4>3
      <4> QED BY <3>2, <4>2, <4>3
    <3> QED BY <2>1, <2>2, <3>3, <3>4, <3>5
  <2> QED BY <1>13, <2>3, <2>4
<1> QED BY <1>11, <1>12, <1>14, <1>15 DEF ArpInv

(* A packet for a peer that is alive goes out at once, one for a dead peer   *)
(* is dropped.                                                               *)
LEMMA PassOnInv ==
  ASSUME ArpInv, NEW p \in Peers, handed' = [handed EXCEPT ![p] = handed[p] + 1],
         state[p] # "WAIT_REPLY",
         out' \in {out, [out EXCEPT ![p] = Append(out[p], handed[p] + 1)]},
         UNCHANGED <<now, entries, timer, radio, fault>>
  PROVE  ArpInv'
<1>0. /\ TypeOK /\ NoFault /\ TimerServesAll /\ PendingWhileWaiting /\ Patience
      /\ TimerAhead /\ RetriesWhileWaiting /\ QueueOrder
  BY DEF ArpInv
<1>1. handed \in [Peers -> Nat] /\ out \in [Peers -> Seq(Nat)]
  BY <1>0 DEF TypeOK
<1>2. /\ now' = now /\ state' = state /\ lastSeen' = lastSeen /\ retries' = retries
      /\ since' = since /\ timer' = timer /\ requests' = requests /\ replies' = replies
      /\ pending' = pending /\ fault' = fault
  BY DEF radio, entries
<1> DEFINE s == out[p]
           n == handed[p] + 1
<1>4. s \in Seq(Nat) /\ n \in Nat /\ Len(s) \in Nat /\ handed[p] \in Nat
  BY <1>1
<1>5. LinkOrder!Rising(s) /\ \A j \in DOMAIN s : s[j] \in 1 .. handed[p]
  BY <1>0 DEF QueueOrder
<1>6. pending[p] = << >>
  BY <1>0 DEF PendingWhileWaiting
<1>8. /\ Append(s, n) \in Seq(Nat) /\ Len(Append(s, n)) = Len(s) + 1
      /\ DOMAIN Append(s, n) = 1 .. Len(s) + 1 /\ DOMAIN s = 1 .. Len(s)
      /\ \A i \in 1 .. Len(s) : Append(s, n)[i] = s[i]
      /\ Append(s, n)[Len(s) + 1] = n
  BY <1>4
<1>9. LinkOrder!Rising(Append(s, n))
  <2>1. \A i \in DOMAIN s : s[i] < n
    BY <1>4, <1>5
  <2> QED BY <1>4, <1>5, <2>1, RisingAppend
<1>10. handed' \in [Peers -> Nat] /\ out' \in [Peers -> Seq(Nat)]
  BY <1>1, <1>4, <1>8
<1>13. ASSUME NEW q \in Peers
       PROVE  out'[q] = out[q] \/ (q = p /\ out'[q] = Append(s, n))
  BY <1>1
<1> HIDE DEF s, n
<1>11. TypeOK'
  BY <1>0, <1>2, <1>10 DEF TypeOK
<1>12. /\ NoFault' /\ TimerServesAll' /\ TimerAhead' /\ Patience' /\ RetriesWhileWaiting'
       /\ PendingWhileWaiting'
  BY <1>0, <1>2 DEF NoFault, TimerServesAll, TimerAhead, Patience, RetriesWhileWaiting, Waiting,
     PendingWhileWaiting
<1>15. QueueOrder'
  <2> SUFFICES ASSUME NEW q \in Peers
               PROVE  /\ LinkOrder!Rising(out'[q]) /\ LinkOrder!Rising(pending[q])
                      /\ \A i \in DOMAIN out'[q], j \in DOMAIN pending[q] :
                           out'[q][i] < pending[q][j]
                      /\ \A i \in DOMAIN out'[q] : out'[q][i] \in 1 .. handed'[q]
                      /\ \A j \in DOMAIN pending[q] : pending[q][j] \in 1 .. handed'[q]
    BY <1>2 DEF QueueOrder
  <2>1. /\ handed[q] \in Nat /\ handed'[q] \in Nat /\ handed[q] <= handed'[q]
        /\ q = p => handed'[q] = n /\ n = handed[p] + 1
    BY <1>1, <1>4 DEF n
  <2>2. /\ LinkOrder!Rising(out[q]) /\ LinkOrder!Rising(pending[q])
        /\ \A i \in DOMAIN out[q] : out[q][i] \in 1 .. handed[q]
        /\ \A j \in DOMAIN pending[q] : pending[q][j] \in 1 .. handed[q]
        /\ \A i \in DOMAIN out[q], j \in DOMAIN pending[q] : out[q][i] < pending[q][j]
    BY <1>0 DEF QueueOrder
  <2>3. CASE out'[q] = out[q]
    BY <2>1, <2>2, <2>3
  <2>4. CASE q = p /\ out'[q] = Append(s, n)
    <3>1. s = out[q] /\ DOMAIN pending[q] = {}
      BY <1>6, <2>4 DEF s
    <3>2. ASSUME NEW j \in DOMAIN out'[q]
          PROVE  out'[q][j] = n \/ \E k \in DOMAIN s : out'[q][j] = s[k]
      <4>1. j \in 1 .. Len(s) + 1 /\ out'[q][j] = Append(s, n)[j]
        BY <1>8, <2>4
      <4>2. j \in DOMAIN s \/ j = Len(s) + 1
        BY <1>4, <1>8, <4>1
      <4> QED BY <1>8, <4>1, <4>2
    <3>3. \A j \in DOMAIN out'[q] : out'[q][j] \in 1 .. handed'[q]
      BY <1>4, <1>5, <2>1, <2>4, <3>2
    <3>4. LinkOrder!Rising(out'[q])
      BY <1>9, <2>4
    <3>5. \A j \in DOMAIN pending[q] : FALSE
      BY <3>1
    <3> QED BY <2>1, <2>2, <3>3, <3>4, <3>5
  <2> QED BY <1>13, <2>3, <2>4
<1> QED BY <1>11, <1>12, <1>15 DEF ArpInv

(* The four cases of Lookup. *)
LEMMA LookupInv ==
  ASSUME ArpInv, NEW p \in Peers, Lookup(p)
  PROVE  ArpInv'
<1>1. /\ handed' = [handed EXCEPT ![p] = handed[p] + 1]
      /\ now' = now /\ replies' = replies
  BY DEF Lookup
<1>2. state[p] = "WAIT_REPLY" => ~ Expired(p)
  BY WaitingNotExpired
<1>3. CASE state[p] # "WAIT_REPLY" /\ MarkWaitReply(p, handed[p] + 1)
  BY <1>1, <1>3, MarkWaitReplyInv
<1>4. CASE /\ state[p] = "WAIT_REPLY"
           /\ pending' = [pending EXCEPT ![p] = UpdateWaitReply(p, handed[p] + 1)]
           /\ UNCHANGED <<state, lastSeen, retries, since, timer, requests, out, fault>>
  BY <1>1, <1>4, UpdateWaitReplyInv DEF radio
<1>5. CASE /\ state[p] = "ALIVE"
           /\ out' = [out EXCEPT ![p] = Append(@, handed[p] + 1)]
           /\ UNCHANGED <<entries, timer, requests, fault>>
  BY <1>1, <1>5, PassOnInv DEF radio
<1>6. CASE state[p] = "DEAD" /\ UNCHANGED <<entries, timer, requests, out, fault>>
  BY <1>1, <1>6, PassOnInv DEF radio
<1>7. state[p] = "NONE" => state[p] # "WAIT_REPLY"
  OBVIOUS
<1> QED BY <1>2, <1>3, <1>4, <1>5, <1>6, <1>7 DEF Lookup

(* What travels over the radio does not concern the entries. *)
LEMMA ReceiveRequestInv ==
  ASSUME ArpInv, NEW p \in Peers, ReceiveRequest(p)
  PROVE  ArpInv'
<1>1. /\ requests' = [requests EXCEPT ![p] = requests[p] - 1] /\ requests[p] > 0
      /\ replies' = [replies EXCEPT ![p] = replies[p] + 1]
      /\ UNCHANGED <<now, state, lastSeen, retries, pending, since, timer, handed, out, fault>>
  BY DEF ReceiveRequest, entries, traffic
<1>3. requests \in [Peers -> Nat] /\ replies \in [Peers -> Nat]
  BY DEF ArpInv, TypeOK
<1>4. requests[p] - 1 \in Nat /\ replies[p] + 1 \in Nat
  BY <1>1, <1>3
<1>5. requests' \in [Peers -> Nat] /\ replies' \in [Peers -> Nat]
  BY <1>1, <1>3, <1>4
<1>2. TypeOK'
  BY <1>1, <1>5 DEF ArpInv, TypeOK
<1> QED BY <1>1, <1>2 DEF ArpInv, NoFault, TimerServesAll, PendingWhileWaiting, Patience,
             TimerAhead, RetriesWhileWaiting, QueueOrder, Waiting

(* A reply that nobody waits for is dropped. *)
LEMMA LateReplyInv ==
  ASSUME ArpInv, NEW p \in Peers, ReceiveReply(p), state[p] # "WAIT_REPLY"
  PROVE  ArpInv'
<1>1. /\ replies' = [replies EXCEPT ![p] = replies[p] - 1] /\ replies[p] > 0
      /\ UNCHANGED <<now, state, lastSeen, retries, pending, since, timer, requests, handed,
                     out, fault>>
  BY DEF ReceiveReply, entries
<1>3. replies \in [Peers -> Nat]
  BY DEF ArpInv, TypeOK
<1>4. replies[p] - 1 \in Nat
  BY <1>1, <1>3
<1>5. replies' \in [Peers -> Nat]
  BY <1>1, <1>3, <1>4
<1>2. TypeOK'
  BY <1>1, <1>5 DEF ArpInv, TypeOK
<1> QED BY <1>1, <1>2 DEF ArpInv, NoFault, TimerServesAll, PendingWhileWaiting, Patience,
             TimerAhead, RetriesWhileWaiting, QueueOrder, Waiting

(* The reply that is awaited lets the whole queue out. *)
LEMMA AwaitedReplyInv ==
  ASSUME ArpInv, NEW p \in Peers, ReceiveReply(p), state[p] = "WAIT_REPLY"
  PROVE  ArpInv'
<1>0. /\ TypeOK /\ NoFault /\ TimerServesAll /\ PendingWhileWaiting /\ Patience
      /\ TimerAhead /\ RetriesWhileWaiting /\ QueueOrder
  BY DEF ArpInv
<1>1. /\ replies' = [replies EXCEPT ![p] = replies[p] - 1] /\ replies[p] > 0
      /\ state' = [state EXCEPT ![p] = "ALIVE"] /\ retries' = [retries EXCEPT ![p] = 0]
      /\ lastSeen' = [lastSeen EXCEPT ![p] = now]
      /\ out' = [out EXCEPT ![p] = out[p] \o pending[p]]
      /\ pending' = [pending EXCEPT ![p] = << >>]
      /\ UNCHANGED <<since, now, timer, requests, handed, fault>>
  BY DEF ReceiveReply, Flushed
<1>2. /\ out \in [Peers -> Seq(Nat)] /\ pending \in [Peers -> Seq(Nat)]
      /\ handed \in [Peers -> Nat] /\ now \in Nat
  BY <1>0 DEF TypeOK
<1>3. out[p] \o pending[p] \in Seq(Nat)
  BY <1>2
<1>4. out' \in [Peers -> Seq(Nat)] /\ pending' \in [Peers -> Seq(Nat)]
  BY <1>1, <1>2, <1>3
<1>5. TypeOK'
  <2>3. replies \in [Peers -> Nat] /\ replies[p] > 0
    BY <1>0, <1>1 DEF TypeOK
  <2>1. replies[p] - 1 \in Nat
    BY <2>3
  <2>2. replies' \in [Peers -> Nat]
    BY <1>1, <2>1, <2>3
  <2> QED BY <1>0, <1>1, <1>2, <1>4, <2>2 DEF TypeOK, States
<1>6. ASSUME NEW q \in Peers, q # p
      PROVE  /\ state'[q] = state[q] /\ lastSeen'[q] = lastSeen[q] /\ retries'[q] = retries[q]
             /\ out'[q] = out[q] /\ pending'[q] = pending[q]
  BY <1>0, <1>1, <1>6 DEF TypeOK
<1>7. state'[p] = "ALIVE" /\ retries'[p] = 0 /\ pending'[p] = << >>
      /\ out'[p] = out[p] \o pending[p]
  BY <1>0, <1>1 DEF TypeOK
<1>8. \A q \in Waiting' : q \in Waiting /\ q # p
  BY <1>6, <1>7 DEF Waiting
<1>9. NoFault' /\ TimerAhead'
  BY <1>0, <1>1 DEF NoFault, TimerAhead
<1>10. TimerServesAll'
  BY <1>0, <1>1, <1>6, <1>8 DEF TimerServesAll, Waiting
<1>11. PendingWhileWaiting'
  <2>1. Len(<< >>) = 0 /\ PendingQueueSize >= 0
    BY ArpAssumption DEF ArpAssumption
  <2> QED BY <1>0, <1>6, <1>7, <2>1 DEF PendingWhileWaiting
<1>12. Patience'
  BY <1>0, <1>1, <1>6, <1>8 DEF Patience, Waiting
<1>13. RetriesWhileWaiting'
  BY <1>0, <1>6, <1>7 DEF RetriesWhileWaiting
<1>14. QueueOrder'
  <2> SUFFICES ASSUME NEW q \in Peers
               PROVE  /\ LinkOrder!Rising(out'[q]) /\ LinkOrder!Rising(pending'[q])
                      /\ \A i \in DOMAIN out'[q], j \in DOMAIN pending'[q] :
                           out'[q][i] < pending'[q][j]
                      /\ \A i \in DOMAIN out'[q] : out'[q][i] \in 1 .. handed[q]
                      /\ \A j \in DOMAIN pending'[q] : pending'[q][j] \in 1 .. handed[q]
    BY <1>1 DEF QueueOrder
  <2>1. /\ LinkOrder!Rising(out[q]) /\ LinkOrder!Rising(pending[q])
        /\ \A i \in DOMAIN out[q] : out[q][i] \in 1 .. handed[q]
        /\ \A j \in DOMAIN pending[q] : pending[q][j] \in 1 .. handed[q]
        /\ \A i \in DOMAIN out[q], j \in DOMAIN pending[q] : out[q][i] < pending[q][j]
    BY <1>0 DEF QueueOrder
  <2>2. CASE q # p
    BY <1>6, <2>1, <2>2
  <2>3. CASE q = p
    <3>1. DOMAIN << >> = {}
      OBVIOUS
    <3>2. out[q] \in Seq(Nat) /\ pending[q] \in Seq(Nat)
      BY <1>2
    <3>3. LinkOrder!Rising(out[q] \o pending[q])
      BY <2>1, <3>2, RisingConcat
    <3>4. \A i \in DOMAIN (out[q] \o pending[q]) : (out[q] \o pending[q])[i] \in 1 .. handed[q]
      BY <2>1, <3>2, RangeConcat
    <3>5. out'[q] = out[q] \o pending[q] /\ pending'[q] = << >>
      BY <1>7, <2>3
    <3>6. LinkOrder!Rising(<< >>)
      BY <3>1 DEF LinkOrder!Rising
    <3> QED BY <3>1, <3>3, <3>4, <3>5, <3>6
  <2> QED BY <2>2, <2>3
<1> QED BY <1>5, <1>9, <1>10, <1>11, <1>12, <1>13, <1>14 DEF ArpInv


(* The timer serves every waiting entry at once: repeats or gives up. *)
LEMMA HandleWaitReplyTimeoutInv ==
  ASSUME ArpInv, HandleWaitReplyTimeout
  PROVE  ArpInv'
<1> DEFINE W == WaitReplyTimeout
<1>0. /\ TypeOK /\ NoFault /\ TimerServesAll /\ PendingWhileWaiting /\ Patience
      /\ TimerAhead /\ RetriesWhileWaiting /\ QueueOrder
  BY DEF ArpInv
<1>1. /\ timer.running /\ timer.due = now
      /\ UNCHANGED <<now, since, replies, handed, out, fault>>
      /\ timer' = IF Retried # {} THEN Due(now + W) ELSE Idle
      /\ requests' = [p \in Peers |-> IF p \in Retried THEN Requested(p) ELSE requests[p]]
  BY DEF HandleWaitReplyTimeout, traffic
<1>2. \A p \in Peers :
        /\ retries'[p] = IF p \in Retried THEN retries[p] + 1
                         ELSE IF p \in GivenUp THEN 0 ELSE retries[p]
        /\ state'[p] = IF p \in GivenUp THEN "DEAD" ELSE state[p]
        /\ lastSeen'[p] = IF p \in Waiting THEN now ELSE lastSeen[p]
        /\ pending'[p] = IF p \in GivenUp THEN << >> ELSE pending[p]
  BY DEF HandleWaitReplyTimeout
<1>3. /\ W \in Nat \ {0} /\ MaxRetries \in Nat /\ MaxOnAir \in Nat /\ PendingQueueSize \in Nat
  BY ArpAssumption DEF ArpAssumption
<1>4. now \in Nat
  BY <1>0 DEF TypeOK
<1>5. /\ Retried \subseteq Waiting /\ GivenUp = Waiting \ Retried /\ Waiting \subseteq Peers
      /\ \A p \in Waiting : state[p] = "WAIT_REPLY"
      /\ \A p \in Retried : retries[p] < MaxRetries
  BY DEF Retried, GivenUp, Waiting
<1>6. TypeOK'
  <2>1. requests' \in [Peers -> Nat]
    <3>1. \A p \in Peers : requests[p] \in Nat
      BY <1>0 DEF TypeOK
    <3>2. ASSUME NEW p \in Peers PROVE Requested(p) \in Nat
      <4>1. requests[p] \in Nat /\ requests[p] + 1 \in Nat
        BY <3>1
      <4> QED BY <4>1, Zenon DEF Requested
    <3> QED BY <1>1, <3>1, <3>2
  <2>2. retries' \in [Peers -> Nat]
    <3>1. \A p \in Peers : retries[p] \in Nat
      BY <1>0 DEF TypeOK
    <3>2. retries' = [p \in Peers |-> IF p \in Retried THEN retries[p] + 1
                                      ELSE IF p \in GivenUp THEN 0 ELSE retries[p]]
      BY DEF HandleWaitReplyTimeout
    <3> QED BY <3>1, <3>2
  <2>3. state' \in [Peers -> States]
    <3>1. \A p \in Peers : state[p] \in States
      BY <1>0 DEF TypeOK
    <3>2. state' = [p \in Peers |-> IF p \in GivenUp THEN "DEAD" ELSE state[p]]
      BY DEF HandleWaitReplyTimeout
    <3> QED BY <3>1, <3>2 DEF States
  <2>4. lastSeen' \in [Peers -> Nat]
    <3>1. \A p \in Peers : lastSeen[p] \in Nat
      BY <1>0 DEF TypeOK
    <3>2. lastSeen' = [p \in Peers |-> IF p \in Waiting THEN now ELSE lastSeen[p]]
      BY DEF HandleWaitReplyTimeout
    <3> QED BY <1>4, <3>1, <3>2
  <2>5. pending' \in [Peers -> Seq(Nat)]
    <3>1. \A p \in Peers : pending[p] \in Seq(Nat)
      BY <1>0 DEF TypeOK
    <3>2. pending' = [p \in Peers |-> IF p \in GivenUp THEN << >> ELSE pending[p]]
      BY DEF HandleWaitReplyTimeout
    <3>3. << >> \in Seq(Nat)
      OBVIOUS
    <3> QED BY <3>1, <3>2, <3>3
  <2>6. timer' \in [running : BOOLEAN, due : Nat]
    BY <1>1, <1>3, <1>4 DEF Due, Idle
  <2> QED BY <1>0, <1>1, <2>1, <2>2, <2>3, <2>4, <2>5, <2>6 DEF TypeOK
<1>7. Waiting' = Retried
  BY <1>2, <1>5 DEF Waiting
<1>8. Retried # {} => timer' = Due(now + W)
  BY <1>1
<1>9. NoFault' /\ TimerAhead'
  <2>1. CASE Retried # {}
    BY <1>0, <1>1, <1>3, <1>4, <2>1 DEF NoFault, TimerAhead, Due
  <2>2. CASE Retried = {}
    BY <1>0, <1>1, <2>2 DEF NoFault, TimerAhead, Idle
  <2> QED BY <2>1, <2>2
<1>10. TimerServesAll'
  <2> SUFFICES ASSUME NEW p \in Retried
               PROVE  timer'.running /\ now' <= timer'.due /\ timer'.due <= lastSeen'[p] + W
    BY <1>7 DEF TimerServesAll
  <2>1. lastSeen'[p] = now
    BY <1>2, <1>5
  <2> QED BY <1>1, <1>3, <1>4, <1>8, <2>1 DEF Due
<1>11. PendingWhileWaiting'
  <2> SUFFICES ASSUME NEW p \in Peers
               PROVE  /\ pending'[p] # << >> <=> state'[p] = "WAIT_REPLY"
                      /\ Len(pending'[p]) <= PendingQueueSize
    BY DEF PendingWhileWaiting
  <2>1. Len(<< >>) = 0
    OBVIOUS
  <2> QED BY <1>0, <1>2, <1>3, <2>1 DEF PendingWhileWaiting
<1>12. Patience'
  <2> SUFFICES ASSUME NEW p \in Retried
               PROVE  /\ retries'[p] <= MaxRetries
                      /\ timer'.due - since[p] >= retries'[p] * W
                      /\ timer'.due - since[p] <= (retries'[p] + 1) * W
    BY <1>1, <1>7 DEF Patience
  <2> DEFINE r == retries[p]
  <2>1. retries'[p] = r + 1 /\ r < MaxRetries /\ timer'.due = now + W
    BY <1>2, <1>5, <1>8 DEF Due
  <2>2. now - since[p] >= r * W /\ now - since[p] <= (r + 1) * W
    BY <1>0, <1>1, <1>5 DEF Patience
  <2>3. r \in Nat /\ since[p] \in Nat
    BY <1>0, <1>5 DEF TypeOK
  <2>4. (r + 1) * W = r * W + W /\ (r + 1 + 1) * W = (r + 1) * W + W
        /\ r * W \in Nat /\ (r + 1) * W \in Nat
    BY <1>3, <2>3
  <2> QED BY <1>3, <1>4, <2>1, <2>2, <2>3, <2>4
<1>13. RetriesWhileWaiting'
  BY <1>0, <1>2, <1>5 DEF RetriesWhileWaiting
<1>14. QueueOrder'
  <2> SUFFICES ASSUME NEW p \in Peers
               PROVE  /\ LinkOrder!Rising(out[p]) /\ LinkOrder!Rising(pending'[p])
                      /\ \A i \in DOMAIN out[p], j \in DOMAIN pending'[p] :
                           out[p][i] < pending'[p][j]
                      /\ \A i \in DOMAIN out[p] : out[p][i] \in 1 .. handed[p]
                      /\ \A j \in DOMAIN pending'[p] : pending'[p][j] \in 1 .. handed[p]
    BY <1>1 DEF QueueOrder
  <2>1. DOMAIN << >> = {}
    OBVIOUS
  <2>2. pending'[p] = << >> \/ pending'[p] = pending[p]
    BY <1>2
  <2>3. LinkOrder!Rising(<< >>)
    BY <2>1 DEF LinkOrder!Rising
  <2> QED BY <1>0, <2>1, <2>2, <2>3 DEF QueueOrder
<1> QED BY <1>6, <1>9, <1>10, <1>11, <1>12, <1>13, <1>14 DEF ArpInv

(* After Flush nothing waits. *)
LEMMA FlushInv ==
  ASSUME ArpInv, Flush
  PROVE  ArpInv'
<1>0. TypeOK /\ NoFault /\ QueueOrder
  BY DEF ArpInv
<1>1. /\ UNCHANGED <<now, requests, replies, handed, out, fault>> /\ timer' = Idle
      /\ state' = [p \in Peers |-> "NONE"] /\ lastSeen' = [p \in Peers |-> 0]
      /\ retries' = [p \in Peers |-> 0] /\ since' = [p \in Peers |-> 0]
      /\ pending' = [p \in Peers |-> << >>]
  BY DEF Flush, radio, traffic
<1>2. << >> \in Seq(Nat) /\ DOMAIN << >> = {} /\ Len(<< >>) = 0
  OBVIOUS
<1>3. TypeOK'
  BY <1>0, <1>1, <1>2 DEF TypeOK, States, Idle
<1>4. Waiting' = {}
  BY <1>1 DEF Waiting
<1>5. NoFault' /\ TimerServesAll' /\ Patience' /\ TimerAhead' /\ RetriesWhileWaiting'
  BY <1>0, <1>1, <1>4 DEF NoFault, TimerServesAll, Patience, TimerAhead, RetriesWhileWaiting, Idle
<1>6. PendingWhileWaiting'
  <2>1. PendingQueueSize \in Nat
    BY ArpAssumption DEF ArpAssumption
  <2> QED BY <1>1, <1>2, <2>1 DEF PendingWhileWaiting
<1>7. QueueOrder'
  <2>1. \A p \in Peers : pending'[p] = << >>
    BY <1>1
  <2>2. LinkOrder!Rising(<< >>)
    BY <1>2 DEF LinkOrder!Rising
  <2> QED BY <1>0, <1>1, <1>2, <2>1, <2>2 DEF QueueOrder
<1> QED BY <1>3, <1>5, <1>6, <1>7 DEF ArpInv

(* The clock does not pass a timer that is due. *)
LEMMA TickInv ==
  ASSUME ArpInv, Tick
  PROVE  ArpInv'
<1>0. /\ TypeOK /\ NoFault /\ TimerServesAll /\ PendingWhileWaiting /\ Patience
      /\ TimerAhead /\ RetriesWhileWaiting /\ QueueOrder
  BY DEF ArpInv
<1>1. /\ now' = now + 1 /\ (timer.running => now < timer.due)
      /\ UNCHANGED <<state, lastSeen, retries, pending, since, timer, requests, replies,
                     handed, out, fault>>
  BY DEF Tick, entries, radio, traffic
<1>2. now \in Nat /\ timer.due \in Nat /\ WaitReplyTimeout \in Nat
  BY <1>0, ArpAssumption DEF TypeOK, ArpAssumption
<1>3. TypeOK'
  <2>1. now' \in Nat
    BY <1>1, <1>2
  <2> QED BY <1>0, <1>1, <2>1 DEF TypeOK
<1>4. TimerServesAll' /\ TimerAhead'
  BY <1>0, <1>1, <1>2 DEF TimerServesAll, TimerAhead, Waiting
<1>5. NoFault' /\ PendingWhileWaiting' /\ Patience' /\ RetriesWhileWaiting' /\ QueueOrder'
  BY <1>0, <1>1 DEF NoFault, PendingWhileWaiting, Patience, RetriesWhileWaiting, QueueOrder, Waiting
<1> QED BY <1>3, <1>4, <1>5 DEF ArpInv

LEMMA StutterInv ==
  ASSUME ArpInv, UNCHANGED vars
  PROVE  ArpInv'
BY DEF ArpInv, TypeOK, NoFault, TimerServesAll, PendingWhileWaiting, Patience, TimerAhead,
   RetriesWhileWaiting, QueueOrder, Waiting, vars, entries, radio, traffic

LEMMA StepInv == ArpInv /\ [Next]_vars => ArpInv'
<1> SUFFICES ASSUME ArpInv, [Next]_vars PROVE ArpInv'
  OBVIOUS
<1>1. ASSUME NEW p \in Peers, Lookup(p) PROVE ArpInv'
  BY <1>1, LookupInv
<1>2. ASSUME NEW p \in Peers, ReceiveRequest(p) PROVE ArpInv'
  BY <1>2, ReceiveRequestInv
<1>3. ASSUME NEW p \in Peers, ReceiveReply(p) PROVE ArpInv'
  BY <1>3, LateReplyInv, AwaitedReplyInv
<1>4. CASE HandleWaitReplyTimeout
  BY <1>4, HandleWaitReplyTimeoutInv
<1>5. CASE Flush
  BY <1>5, FlushInv
<1>6. CASE Tick
  BY <1>6, TickInv
<1>7. CASE End \/ UNCHANGED vars
  BY <1>7, StutterInv DEF End
<1> QED BY <1>1, <1>2, <1>3, <1>4, <1>5, <1>6, <1>7 DEF Next


-----------------------------------------------------------------------------
(* The theorems.                                                             *)

(* Every state of address resolution satisfies its inductive invariant.      *)
THEOREM ArpInvariant == Spec => []ArpInv
BY InitInv, StepInv, PTL DEF Spec

(* Entries, timer and queues have their types in every reachable state.      *)
THEOREM ArpTypeCorrect == Spec => []TypeOK
BY ArpInvariant, PTL DEF ArpInv

(* The NS_FATAL_ERROR that Lookup calls possibly unreachable code, and the   *)
(* assertion on the empty queue in MarkWaitReply, are never reached.         *)
THEOREM ArpNeverFaults == Spec => []NoFault
BY ArpInvariant, PTL DEF ArpInv

(* One timer is enough: it runs for every entry that waits, in time.         *)
THEOREM ArpTimerServesAll == Spec => []TimerServesAll
BY ArpInvariant, PTL DEF ArpInv

(* Packets are kept for exactly the entries that wait, at most a queue full. *)
THEOREM ArpPendingWhileWaiting == Spec => []PendingWhileWaiting
BY ArpInvariant, PTL DEF ArpInv

(* A peer is given up after MaxRetries + 1 timeouts, less at most one.       *)
THEOREM ArpPatience == Spec => []Patience
BY ArpInvariant, PTL DEF ArpInv

(* A queue that goes out, or a packet, continues what went out before.       *)
LEMMA StepMove == ArpInv /\ ArpInv' /\ [Next]_vars => [LinkOrder!Next]_<<handed, out>>
<1> SUFFICES ASSUME ArpInv, ArpInv', [Next]_vars,
                    ~ UNCHANGED <<handed, out>>
             PROVE  LinkOrder!Next
  OBVIOUS
<1>1. PICK p \in Peers : Lookup(p) \/ ReceiveReply(p)
  BY DEF Next, vars, traffic, ReceiveRequest, HandleWaitReplyTimeout, Flush, Tick, End
<1>2. /\ handed \in [Peers -> Nat] /\ out \in [Peers -> Seq(Nat)]
      /\ pending \in [Peers -> Seq(Nat)]
  BY DEF ArpInv, TypeOK
<1>3. /\ handed' \in {handed, [handed EXCEPT ![p] = handed[p] + 1]}
      /\ out' \in {out, [out EXCEPT ![p] = Append(out[p], handed[p] + 1)],
                        [out EXCEPT ![p] = out[p] \o pending[p]]}
  <2>1. CASE Lookup(p)
    BY <2>1 DEF Lookup, MarkWaitReply
  <2>2. CASE ReceiveReply(p)
    BY <2>2 DEF ReceiveReply, Flushed
  <2> QED BY <1>1, <2>1, <2>2
<1>4. \A q \in Peers : LinkOrder!Rising(out'[q]) /\ \A i \in DOMAIN out'[q] : out'[q][i] \in 1 .. handed'[q]
  BY DEF ArpInv, QueueOrder
<1>5. \A q \in Peers : handed'[q] \in {handed[q], handed[q] + 1}
  BY <1>2, <1>3
<1>6. ASSUME NEW q \in Peers PROVE LinkOrder!Continues(out[q], out'[q])
  <2> DEFINE s == out[q]
             t == pending[q]
  <2>1. s \in Seq(Nat) /\ t \in Seq(Nat) /\ handed[q] + 1 \in Nat
    BY <1>2
  <2>2. out'[q] \in {s, Append(s, handed[q] + 1), s \o t}
    BY <1>2, <1>3
  <2>3. CASE out'[q] = s
    BY <2>3 DEF LinkOrder!Continues
  <2>4. CASE out'[q] = Append(s, handed[q] + 1)
    <3>1. \A i \in DOMAIN s : i \in DOMAIN Append(s, handed[q] + 1)
                              /\ Append(s, handed[q] + 1)[i] = s[i]
      BY <2>1
    <3> QED BY <2>4, <3>1 DEF LinkOrder!Continues
  <2>5. CASE out'[q] = s \o t
    <3>1. /\ s \o t \in Seq(Nat) /\ Len(s \o t) = Len(s) + Len(t)
          /\ \A i \in 1 .. Len(s) + Len(t) :
               (s \o t)[i] = IF i <= Len(s) THEN s[i] ELSE t[i - Len(s)]
      BY <2>1, ConcatProperties
    <3>2. /\ DOMAIN s = 1 .. Len(s) /\ Len(s) \in Nat /\ Len(t) \in Nat
          /\ DOMAIN (s \o t) = 1 .. Len(s) + Len(t)
      BY <2>1, <3>1
    <3>3. ASSUME NEW i \in DOMAIN s PROVE i \in DOMAIN (s \o t) /\ (s \o t)[i] = s[i]
      <4>1. i \in 1 .. Len(s) + Len(t) /\ i <= Len(s)
        <5>1. \A m, n \in Nat : \A k \in 1 .. m : k \in 1 .. m + n /\ k <= m
          OBVIOUS
        <5> QED BY <3>2, <5>1
      <4> QED BY <3>1, <3>2, <4>1
    <3> QED BY <2>5, <3>3 DEF LinkOrder!Continues
  <2> QED BY <2>2, <2>3, <2>4, <2>5
<1> QED BY <1>4, <1>5, <1>6 DEF LinkOrder!Next, LinkOrder!Move

(* Address resolution is a lossy link that keeps the order: whatever is      *)
(* lost, delayed, retried or given up, the beacons for a peer go out in the  *)
(* order in which the application sent them, none of them twice.             *)
THEOREM ArpKeepsOrder == Spec => InOrder
<1>1. Init => LinkOrder!Init
  BY DEF Init, LinkOrder!Init
<1> QED BY <1>1, InitInv, StepInv, StepMove, PTL DEF Spec, InOrder, LinkOrder!Spec

==============================================================================
