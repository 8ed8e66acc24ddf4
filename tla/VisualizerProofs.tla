-------------------------- MODULE VisualizerProofs --------------------------
(* The kept cursors find what a full search would, in every file.            *)
EXTENDS Visualizer, FiniteSetTheorems, WellFoundedInduction, TLAPS

LEMMA Least ==
  ASSUME NEW T \in SUBSET Nat, T # {}
  PROVE  \E m \in T : \A t \in T : m <= t
<1> DEFINE R == {p \in Nat \X Nat : p[1] < p[2]}
<1>1. IsWellFoundedOn(R, Nat)
  BY NatLessThanWellFounded DEF OpToRel
<1>2. PICK m \in T : \A t \in T : ~ (<<t, m>> \in R)
  <2> HIDE DEF R
  <2> QED BY <1>1, WFMin, Zenon
<1>3. ASSUME NEW t \in T PROVE m <= t
  <2> DEFINE p == <<t, m>>
  <2>1. p \in Nat \X Nat /\ p[1] = t /\ p[2] = m /\ p \notin R
    BY <1>2
  <2>2. ~ (t < m)
    <3> HIDE DEF p
    <3> QED BY <2>1
  <2> QED
    BY <2>2
<1> QED
  BY <1>3

LEMMA Greatest ==
  ASSUME NEW T \in SUBSET Nat, T # {}, NEW n \in Nat, \A t \in T : t <= n
  PROVE  \E m \in T : \A t \in T : t <= m
<1> DEFINE S == {n - t : t \in T}
<1>1. S \in SUBSET Nat
  OBVIOUS
<1>2. S # {}
  <2>1. PICK t \in T : TRUE
    OBVIOUS
  <2>2. n - t \in S
    BY <2>1
  <2> QED BY <2>2
<1>3. PICK m \in S : \A s \in S : m <= s
  <2> HIDE DEF S
  <2> QED BY <1>1, <1>2, Least
<1>4. PICK t \in T : m = n - t
  OBVIOUS
<1>5. \A u \in T : m <= n - u
  BY <1>3
<1>6. \A u \in T : u <= t
  BY <1>4, <1>5
<1> QED
  BY <1>6

-----------------------------------------------------------------------------
(* The inductive invariant.                                                  *)

Sorted == \A i, j \in DOMAIN lines : i < j => lines[i].time <= lines[j].time

(* What a search may start from: a cursor no later than any of the UAV's     *)
(* rows, or on one of them that has passed.                                  *)
Safe(u, cursor, time) ==
  /\ cursor \in DOMAIN lines
  /\ \/ \A i \in Own(u) : cursor <= i
     \/ cursor \in Own(u) /\ lines[cursor].time <= time

(* What a search has found. *)
Surrounds(u, b, a, time) ==
  /\ b = None => \A i \in Own(u) : ~(lines[i].time <= time)
  /\ b # None => /\ b \in Own(u) /\ lines[b].time <= time
                 /\ \A i \in Own(u) : lines[i].time <= time => i <= b
  /\ a = None => \A i \in Own(u) : lines[i].time <= time
  /\ a # None => /\ a \in Own(u) /\ ~(lines[a].time <= time)
                 /\ \A i \in Own(u) : ~(lines[i].time <= time) => a <= i

Found(u, cursor, b, a, time) == cursor \in Own(u) /\ Surrounds(u, b, a, time)

IInv ==
  /\ TypeOK
  /\ Sorted
  /\ \A u \in Known : Safe(u, last[u], now)
  /\ \A u \in Known \ todo : Found(u, last[u], before[u], after[u], now)
  /\ PlayedToEnd

LEMMA RowType == Row \subseteq [time : Nat, ip : Uavs]
BY VisualizerAssumption DEF Row

(* What the type of the lines says of one of them. *)
LEMMA LineFacts ==
  ASSUME lines \in Seq(Row)
  PROVE  /\ Len(lines) \in Nat /\ DOMAIN lines = 1 .. Len(lines)
         /\ \A i \in DOMAIN lines : lines[i].time \in Nat /\ lines[i].ip \in Uavs
         /\ \A i \in DOMAIN lines : lines[i].ip \in Known
         /\ \A u \in Known : Own(u) # {} /\ Own(u) \subseteq 1 .. Len(lines)
         /\ Known \subseteq Nat /\ None \notin DOMAIN lines /\ IsFiniteSet(Known)
<1>1. Len(lines) \in Nat /\ DOMAIN lines = 1 .. Len(lines)
  OBVIOUS
<1>2. \A i \in DOMAIN lines : lines[i] \in Row
  BY <1>1
<1>3. \A i \in DOMAIN lines : lines[i].time \in Nat /\ lines[i].ip \in Uavs
  BY <1>2, RowType
<1>4. Known \subseteq Uavs
  BY <1>3 DEF Known
<1>5. IsFiniteSet(Known) /\ Known \subseteq Nat
  BY <1>4, FS_Subset, VisualizerAssumption
<1>6. \A i \in DOMAIN lines : lines[i].ip \in Known
  BY DEF Known
<1>7. \A u \in Known : Own(u) # {} /\ Own(u) \subseteq 1 .. Len(lines)
  BY <1>1 DEF Known, Own
<1>8. None \notin DOMAIN lines
  BY <1>1 DEF None
<1> QED
  BY <1>1, <1>3, <1>5, <1>6, <1>7, <1>8

(* The invariant gives the three that the runs check. *)
LEMMA InvariantImplies == IInv => PlaybackInv /\ SurroundsNow /\ PlayedToEnd
<1> SUFFICES ASSUME IInv PROVE PlaybackInv /\ SurroundsNow
  BY DEF IInv
<1>1. lines \in Seq(Row) /\ None \notin DOMAIN lines
  BY LineFacts DEF IInv, TypeOK
<1>2. CursorOnOwnRow
  BY DEF IInv, Found, Own, CursorOnOwnRow
<1>3. ASSUME NEW u \in Known \ todo
      PROVE  LET past == {i \in Own(u) : lines[i].time <= now}
                 future == Own(u) \ past IN
             /\ IF past = {} THEN before[u] = None
                ELSE before[u] \in past /\ \A i \in past : i <= before[u]
             /\ IF future = {} THEN after[u] = None
                ELSE after[u] \in future /\ \A i \in future : after[u] <= i
  <2>1. Surrounds(u, before[u], after[u], now)
    BY <1>3 DEF IInv, Found
  <2> DEFINE past == {i \in Own(u) : lines[i].time <= now}
             future == Own(u) \ past
  <2>2. IF past = {} THEN before[u] = None
        ELSE before[u] \in past /\ \A i \in past : i <= before[u]
    <3>1. CASE before[u] = None
      BY <2>1, <3>1 DEF Surrounds
    <3>2. CASE before[u] # None
      BY <2>1, <3>2 DEF Surrounds
    <3> QED BY <3>1, <3>2
  <2>3. IF future = {} THEN after[u] = None
        ELSE after[u] \in future /\ \A i \in future : after[u] <= i
    <3>1. CASE after[u] = None
      BY <2>1, <3>1 DEF Surrounds
    <3>2. CASE after[u] # None
      BY <2>1, <3>2 DEF Surrounds
    <3> QED BY <3>1, <3>2
  <2> QED
    BY <2>2, <2>3
<1>4. SurroundsNow
  BY <1>3 DEF SurroundsNow
<1> QED
  BY <1>2, <1>4 DEF IInv, PlaybackInv

-----------------------------------------------------------------------------
(* One search.                                                               *)

(* The search breaks off at the first row to come, or behind the last line.  *)
LEMMA EndFacts ==
  ASSUME IInv, NEW u \in Known
  PROVE  /\ last[u] \in 1 .. Len(lines)
         /\ End(u) \in last[u] .. Len(lines) + 1
         /\ End(u) = Len(lines) + 1 \/ (End(u) \in Ahead(u) /\ ~Passed(End(u)))
         /\ \A j \in Ahead(u) : j < End(u) => Passed(j)
<1>1. Len(lines) \in Nat /\ last[u] \in 1 .. Len(lines)
  BY LineFacts DEF IInv, TypeOK, Safe
<1> DEFINE T == {i \in Ahead(u) : ~Passed(i)} \cup {Len(lines) + 1}
<1>2. Ahead(u) \subseteq last[u] .. Len(lines)
  BY DEF Ahead
<1>3. T \in SUBSET Nat /\ T # {}
  BY <1>1, <1>2
<1>4. PICK m \in T : \A t \in T : m <= t
  <2> HIDE DEF T
  <2> QED BY <1>3, Least
<1>5. m \in last[u] .. Len(lines) + 1
  BY <1>1, <1>2
<1>6. m = Len(lines) + 1 \/ (m \in Ahead(u) /\ ~Passed(m))
  OBVIOUS
<1>7. ASSUME NEW j \in Ahead(u), j < m PROVE Passed(j)
  <2>1. j \in Nat /\ m \in Nat
    BY <1>1, <1>2, <1>5
  <2>2. j \notin T
    BY <1>4, <1>7, <2>1
  <2> QED BY <2>2
<1> DEFINE P(i) == /\ i = Len(lines) + 1 \/ (i \in Ahead(u) /\ ~Passed(i))
                   /\ \A j \in Ahead(u) : j < i => Passed(j)
<1>8. P(m)
  BY <1>6, <1>7
<1>9. End(u) = CHOOSE i \in last[u] .. Len(lines) + 1 : P(i)
  BY DEF End
<1>10. End(u) \in last[u] .. Len(lines) + 1 /\ P(End(u))
  <2> HIDE DEF P
  <2> QED BY <1>5, <1>8, <1>9
<1> QED
  BY <1>1, <1>10

(* What the search comes by are the UAV's rows that have passed, the ones    *)
(* before the cursor aside, and all that are to come lie ahead of it.        *)
LEMMA SearchSees ==
  ASSUME IInv, NEW u \in Known
  PROVE  LET seen == {i \in Ahead(u) : i < End(u)} IN
         /\ seen \subseteq {i \in Own(u) : Passed(i)}
         /\ \A i \in Own(u) : Passed(i) => i \in seen \/ (last[u] \in seen /\ i < last[u])
         /\ \A i \in Own(u) : ~Passed(i) => i \in Ahead(u)
<1> DEFINE seen == {i \in Ahead(u) : i < End(u)}
<1>1. /\ Len(lines) \in Nat /\ DOMAIN lines = 1 .. Len(lines)
      /\ \A i \in DOMAIN lines : lines[i].time \in Nat
      /\ now \in Nat
  BY LineFacts DEF IInv, TypeOK
<1>2. Own(u) \subseteq 1 .. Len(lines)
  BY <1>1 DEF Own
<1>3. /\ last[u] \in 1 .. Len(lines)
      /\ End(u) \in last[u] .. Len(lines) + 1
      /\ End(u) = Len(lines) + 1 \/ (End(u) \in Ahead(u) /\ ~Passed(End(u)))
      /\ \A j \in Ahead(u) : j < End(u) => Passed(j)
  BY EndFacts
<1>4. \A i \in Own(u) : last[u] <= i => i \in Ahead(u)
  BY <1>1, <1>2, <1>3 DEF Ahead, Own
<1>5. Ahead(u) \subseteq Own(u)
  BY <1>1, <1>3 DEF Ahead, Own
<1>6. seen \subseteq {i \in Own(u) : Passed(i)}
  BY <1>3, <1>5
<1>7. \A i, j \in DOMAIN lines : i <= j /\ Passed(j) => Passed(i)
  <2> SUFFICES ASSUME NEW i \in DOMAIN lines, NEW j \in DOMAIN lines, i <= j, Passed(j)
               PROVE  Passed(i)
    OBVIOUS
  <2>1. i = j \/ i < j
    BY <1>1
  <2>2. lines[i].time <= lines[j].time
    BY <1>1, <2>1 DEF IInv, Sorted
  <2> QED
    BY <1>1, <2>2 DEF Passed
<1>8. ASSUME NEW i \in Own(u), Passed(i), last[u] <= i
      PROVE  i \in seen
  <2>1. i \in Ahead(u) /\ i \in 1 .. Len(lines)
    BY <1>2, <1>4, <1>8
  <2>2. i < End(u)
    <3>1. CASE End(u) = Len(lines) + 1
      BY <1>1, <2>1, <3>1
    <3>2. CASE End(u) \in Ahead(u) /\ ~Passed(End(u))
      <4>1. End(u) \in DOMAIN lines
        BY <1>1, <1>2, <1>5, <3>2
      <4>2. ~ (End(u) <= i)
        BY <1>1, <1>7, <1>8, <2>1, <3>2, <4>1
      <4> QED BY <1>1, <2>1, <4>1, <4>2
    <3> QED BY <1>3, <3>1, <3>2
  <2> QED BY <2>1, <2>2
<1>9. (\A i \in Own(u) : last[u] <= i) \/ (last[u] \in Own(u) /\ Passed(last[u]))
  BY DEF IInv, Safe, Passed
<1>10. ASSUME NEW i \in Own(u), Passed(i)
       PROVE  i \in seen \/ (last[u] \in seen /\ i < last[u])
  <2>1. CASE last[u] <= i
    BY <1>8, <1>10, <2>1
  <2>2. CASE ~ (last[u] <= i)
    <3>1. i < last[u]
      BY <1>2, <1>3, <2>2
    <3>2. last[u] \in Own(u) /\ Passed(last[u]) /\ last[u] <= last[u]
      BY <1>3, <1>9, <2>2
    <3> QED BY <1>8, <3>1, <3>2
  <2> QED BY <2>1, <2>2
<1>11. ASSUME NEW i \in Own(u), ~Passed(i)
       PROVE  i \in Ahead(u)
  <2>1. last[u] <= i
    <3> SUFFICES ASSUME ~ (last[u] <= i) PROVE FALSE
      OBVIOUS
    <3>1. i <= last[u] /\ i \in DOMAIN lines /\ last[u] \in DOMAIN lines
      BY <1>1, <1>2, <1>3
    <3>2. Passed(last[u])
      BY <1>9
    <3> QED BY <1>7, <1>11, <3>1, <3>2
  <2> QED BY <1>4, <2>1
<1> HIDE DEF seen
<1>12. /\ seen \subseteq {i \in Own(u) : Passed(i)}
       /\ \A i \in Own(u) : Passed(i) => i \in seen \/ (last[u] \in seen /\ i < last[u])
       /\ \A i \in Own(u) : ~Passed(i) => i \in Ahead(u)
  BY <1>6, <1>10, <1>11
<1> QED
  BY <1>12 DEF seen

(* A search finds the rows around now and leaves a safe cursor.              *)
LEMMA SearchFinds ==
  ASSUME IInv, NEW u \in Known
  PROVE  /\ Found(u, Resume(u), BeforeIndex(u), AfterIndex(u), now)
         /\ Safe(u, Resume(u), now)
         /\ Resume(u) \in Nat \ {0} /\ BeforeIndex(u) \in Nat /\ AfterIndex(u) \in Nat
<1> DEFINE seen == {i \in Ahead(u) : i < End(u)}
           b == BeforeIndex(u)
           a == AfterIndex(u)
<1>1. /\ Len(lines) \in Nat /\ DOMAIN lines = 1 .. Len(lines)
      /\ now \in Nat /\ Own(u) \subseteq 1 .. Len(lines) /\ Own(u) # {}
  BY LineFacts DEF IInv, TypeOK
<1>2. /\ last[u] \in 1 .. Len(lines)
      /\ End(u) \in last[u] .. Len(lines) + 1
      /\ End(u) = Len(lines) + 1 \/ (End(u) \in Ahead(u) /\ ~Passed(End(u)))
      /\ \A j \in Ahead(u) : j < End(u) => Passed(j)
  BY EndFacts
<1>3. /\ seen \subseteq {i \in Own(u) : Passed(i)}
      /\ \A i \in Own(u) : Passed(i) => i \in seen \/ (last[u] \in seen /\ i < last[u])
      /\ \A i \in Own(u) : ~Passed(i) => i \in Ahead(u)
  BY SearchSees
<1>4. Ahead(u) \subseteq Own(u)
  BY <1>1, <1>2 DEF Ahead, Own
<1>5. /\ b \in Nat
      /\ b = None => \A i \in Own(u) : ~Passed(i)
      /\ b # None => b \in Own(u) /\ Passed(b) /\ \A i \in Own(u) : Passed(i) => i <= b
  <2>1. CASE seen = {}
    <3>1. b = None
      BY <2>1 DEF BeforeIndex
    <3>2. \A i \in Own(u) : ~Passed(i)
      BY <1>3, <2>1
    <3> QED BY <3>1, <3>2 DEF None
  <2>2. CASE seen # {}
    <3>1. seen \in SUBSET Nat /\ \A i \in seen : i <= Len(lines)
      BY <1>1, <1>3
    <3>2. \E i \in seen : \A j \in seen : j <= i
      <4> HIDE DEF seen
      <4> QED BY <1>1, <2>2, <3>1, Greatest
    <3>3. b = CHOOSE i \in seen : \A j \in seen : j <= i
      BY <2>2 DEF BeforeIndex
    <3>4. b \in seen /\ \A j \in seen : j <= b
      <4> HIDE DEF seen, b
      <4> QED BY <3>2, <3>3
    <3>5. b \in Own(u) /\ Passed(b) /\ b \in Nat \ {0}
      <4> HIDE DEF seen, b
      <4> QED BY <1>1, <1>3, <3>4
    <3>6. ASSUME NEW i \in Own(u), Passed(i) PROVE i <= b
      <4> HIDE DEF seen, b
      <4>1. CASE i \in seen
        BY <3>4, <4>1
      <4>2. CASE last[u] \in seen /\ i < last[u]
        BY <1>1, <1>2, <3>4, <3>5, <4>2
      <4> QED BY <1>3, <3>6, <4>1, <4>2
    <3> HIDE DEF seen, b
    <3> QED BY <3>5, <3>6 DEF None
  <2> QED BY <2>1, <2>2
<1>6. /\ a \in Nat
      /\ a = None => \A i \in Own(u) : Passed(i)
      /\ a # None => /\ a \in Own(u) /\ ~Passed(a) /\ a = End(u)
                     /\ \A i \in Own(u) : ~Passed(i) => a <= i
  <2>1. CASE End(u) = Len(lines) + 1
    <3>1. a = None
      BY <1>1, <2>1 DEF AfterIndex
    <3>2. \A i \in Own(u) : i < End(u)
      BY <1>1, <2>1
    <3>3. \A i \in Own(u) : Passed(i)
      BY <1>2, <1>3, <3>2
    <3> QED BY <3>1, <3>3 DEF None
  <2>2. CASE End(u) # Len(lines) + 1
    <3>1. a = End(u)
      BY <1>1, <1>2, <2>2 DEF AfterIndex
    <3>2. a \in Own(u) /\ ~Passed(a) /\ a \in Nat \ {0}
      BY <1>1, <1>2, <1>4, <2>2, <3>1
    <3>3. ASSUME NEW i \in Own(u), ~Passed(i) PROVE a <= i
      <4>1. ~ (i < End(u))
        BY <1>2, <1>3, <3>3
      <4>2. i \in Nat /\ End(u) \in Nat
        BY <1>1, <1>2
      <4> QED BY <3>1, <4>1, <4>2
    <3> HIDE DEF a
    <3> QED BY <3>1, <3>2, <3>3 DEF None
  <2> QED BY <2>1, <2>2
<1>7. Surrounds(u, b, a, now)
  <2> HIDE DEF a, b
  <2> QED BY <1>5, <1>6 DEF Surrounds, Passed
<1>8. /\ Resume(u) \in Own(u)
      /\ Passed(Resume(u)) \/ \A i \in Own(u) : Resume(u) <= i
  <2>1. CASE b # None
    <3>1. Resume(u) = b
      BY <2>1 DEF Resume
    <3> HIDE DEF b
    <3> QED BY <1>5, <2>1, <3>1
  <2>2. CASE b = None
    <3>1. Resume(u) = End(u)
      BY <2>2 DEF Resume
    <3>2. \A i \in Own(u) : ~Passed(i)
      BY <1>5, <2>2
    <3>3. a # None
      BY <1>1, <1>6, <3>2
    <3>4. a \in Own(u) /\ a = End(u) /\ \A i \in Own(u) : a <= i
      BY <1>6, <3>2, <3>3
    <3> HIDE DEF a
    <3> QED BY <3>1, <3>4
  <2> QED BY <2>1, <2>2
<1>9. Resume(u) \in Nat \ {0} /\ Resume(u) \in DOMAIN lines
  BY <1>1, <1>8
<1>10. Safe(u, Resume(u), now)
  BY <1>8, <1>9 DEF Safe, Passed
<1> QED
  BY <1>5, <1>6, <1>7, <1>8, <1>9, <1>10 DEF Found

-----------------------------------------------------------------------------
(* The steps.                                                                *)

LEMMA VisualizerInit == Init => IInv
<1> SUFFICES ASSUME Init PROVE IInv
  OBVIOUS
<1>1. PICK n \in 0 .. MaxRows : lines \in [1 .. n -> Row]
  BY DEF Init, Files
<1>2. lines \in Seq(Row)
  BY <1>1, VisualizerAssumption
<1>3. Sorted
  BY DEF Init, Files, Sorted
<1>4. central \in Known \cup {None}
  <2>1. ASSUME NEW u \in Known PROVE Chosen(u) \in Known
    <3>1. CASE Known = {u}
      BY <3>1 DEF Chosen
    <3>2. CASE Known # {u}
      <4> DEFINE T == Known \ {u}
      <4>1. T \in SUBSET Nat /\ T # {}
        BY <1>2, <2>1, <3>2, LineFacts
      <4>2. \E v \in T : \A w \in T : v <= w
        <5> HIDE DEF T
        <5> QED BY <4>1, Least
      <4>3. Lowest(T) \in T
        <5> HIDE DEF T
        <5> QED BY <4>2 DEF Lowest
      <4>4. Chosen(u) = Lowest(T)
        BY <3>2 DEF Chosen
      <4> QED BY <4>3, <4>4
    <3> QED BY <3>1, <3>2
  <2>2. central \in {Chosen(u) : u \in Known} \cup {None}
    BY DEF Init
  <2> QED BY <2>1, <2>2
<1>5. done = Cardinality({u \in Known \ todo : after[u] = None})
  <2>1. {u \in Known \ todo : after[u] = None} = {}
    BY DEF Init
  <2> QED BY <2>1, FS_EmptySet DEF Init
<1>6. TypeOK
  BY <1>2, <1>4, <1>5 DEF Init, TypeOK, None
<1>7. ASSUME NEW u \in Known PROVE Safe(u, last[u], now)
  <2>1. last[u] = 1
    BY DEF Init
  <2>2. 1 \in DOMAIN lines /\ \A i \in Own(u) : 1 <= i
    BY <1>2, LineFacts
  <2> QED BY <2>1, <2>2 DEF Safe
<1>8. Known \ todo = {} /\ phase # "finished"
  BY DEF Init
<1> QED
  BY <1>3, <1>6, <1>7, <1>8 DEF IInv, PlayedToEnd

(* The search for one UAV. *)
LEMMA SearchStep ==
  ASSUME IInv, NEW u \in todo, Search(u)
  PROVE  IInv'
<1> USE DEF Search
<1>1. u \in Known /\ lines' = lines /\ Known' = Known /\ now' = now
  BY DEF IInv, TypeOK, Known
<1>2. /\ last \in [Known -> Nat \ {0}] /\ before \in [Known -> Nat]
      /\ after \in [Known -> Nat] /\ todo \subseteq Known
      /\ done = Cardinality({v \in Known \ todo : after[v] = None})
  BY DEF IInv, TypeOK
<1>3. /\ last' = [last EXCEPT ![u] = Resume(u)]
      /\ before' = [before EXCEPT ![u] = BeforeIndex(u)]
      /\ after' = [after EXCEPT ![u] = AfterIndex(u)]
      /\ todo' = todo \ {u}
  OBVIOUS
<1>4. /\ Found(u, Resume(u), BeforeIndex(u), AfterIndex(u), now)
      /\ Safe(u, Resume(u), now)
      /\ Resume(u) \in Nat \ {0} /\ BeforeIndex(u) \in Nat /\ AfterIndex(u) \in Nat
  BY <1>1, SearchFinds
<1>5. /\ last'[u] = Resume(u) /\ before'[u] = BeforeIndex(u) /\ after'[u] = AfterIndex(u)
      /\ \A v \in Known \ {u} : last'[v] = last[v] /\ before'[v] = before[v] /\ after'[v] = after[v]
  BY <1>1, <1>2, <1>3
<1>6. done' = Cardinality({v \in Known \ todo' : after'[v] = None})
  <2> DEFINE S == {v \in Known \ todo : after[v] = None}
             T == {v \in Known \ todo' : after'[v] = None}
  <2>1. IsFiniteSet(S) /\ u \notin S
    <3>1. IsFiniteSet(Known) /\ S \in SUBSET Known
      BY LineFacts DEF IInv, TypeOK
    <3> QED BY <3>1, FS_Subset
  <2>2. CASE AfterIndex(u) = None
    <3>1. T = S \cup {u}
      BY <1>1, <1>3, <1>5, <2>2
    <3>2. Cardinality(S \cup {u}) = Cardinality(S) + 1
      <4> HIDE DEF S
      <4> QED BY <2>1, FS_AddElement
    <3> QED BY <1>2, <2>2, <3>1, <3>2
  <2>3. CASE AfterIndex(u) # None
    <3>1. T = S
      BY <1>1, <1>3, <1>5, <2>3
    <3> QED BY <1>2, <2>3, <3>1
  <2> QED BY <2>2, <2>3
<1>7. TypeOK'
  <2>1. last' \in [Known -> Nat \ {0}] /\ before' \in [Known -> Nat] /\ after' \in [Known -> Nat]
    BY <1>2, <1>3, <1>4
  <2> QED BY <1>1, <1>2, <1>3, <1>6, <2>1 DEF IInv, TypeOK
<1>8. Sorted'
  BY <1>1 DEF IInv, Sorted
<1>9. \A v \in Known' : Safe(v, last[v], now)'
  <2> SUFFICES ASSUME NEW v \in Known PROVE Safe(v, last'[v], now)
    BY <1>1 DEF Safe, Own
  <2> QED BY <1>4, <1>5 DEF IInv
<1>10. \A v \in (Known \ todo)' : Found(v, last[v], before[v], after[v], now)'
  <2> SUFFICES ASSUME NEW v \in Known \ todo'
               PROVE  Found(v, last'[v], before'[v], after'[v], now)
    BY <1>1 DEF Found, Surrounds, Own
  <2>1. CASE v = u
    BY <1>4, <1>5, <2>1
  <2>2. CASE v # u
    BY <1>3, <1>5, <2>2 DEF IInv
  <2> QED BY <2>1, <2>2
<1>11. PlayedToEnd'
  BY DEF PlayedToEnd
<1> QED
  BY <1>7, <1>8, <1>9, <1>10, <1>11 DEF IInv

(* Time only goes on. *)
LEMMA NextPassStep ==
  ASSUME IInv, NextPass
  PROVE  IInv'
<1> USE DEF NextPass
<1>1. lines' = lines /\ last' = last /\ Known' = Known /\ todo' = Known
  BY DEF Known
<1>2. now' \in Nat /\ now \in Nat /\ now <= now'
  BY VisualizerAssumption DEF IInv, TypeOK, Elapsed, Deltas
<1>3. done' = Cardinality({u \in Known \ todo' : after'[u] = None})
  <2>1. {u \in Known \ todo' : after'[u] = None} = {}
    BY <1>1
  <2> QED BY <2>1, FS_EmptySet
<1>4. TypeOK'
  BY <1>1, <1>2, <1>3 DEF IInv, TypeOK
<1>5. Sorted'
  BY <1>1 DEF IInv, Sorted
<1>6. \A u \in Known' : Safe(u, last[u], now)'
  <2> SUFFICES ASSUME NEW u \in Known PROVE Safe(u, last[u], now')
    BY <1>1 DEF Safe, Own
  <2>1. Safe(u, last[u], now) /\ lines[last[u]].time \in Nat
    BY LineFacts DEF IInv, Safe, TypeOK
  <2> QED BY <1>2, <2>1 DEF Safe
<1>7. (Known \ todo)' = {}
  BY <1>1
<1>8. PlayedToEnd'
  BY DEF PlayedToEnd
<1> QED
  BY <1>4, <1>5, <1>6, <1>7, <1>8 DEF IInv

(* A count of finished UAVs that is that of all is one of all. *)
LEMMA FinishStep ==
  ASSUME IInv, Finish
  PROVE  IInv'
<1> USE DEF Finish
<1>1. UNCHANGED <<graphOnly, lines, central, last, before, after, todo, done, now>> /\ Known' = Known
  BY DEF Known
<1> DEFINE S == {u \in Known \ todo : after[u] = None}
<1>2. S = Known
  <2>1. todo = {} /\ Cardinality(S) = Cardinality(Known)
    BY DEF IInv, TypeOK, Finishes
  <2>2. IsFiniteSet(Known) /\ S \in SUBSET Known
    BY LineFacts DEF IInv, TypeOK
  <2> HIDE DEF S
  <2> QED BY <2>1, <2>2, FS_Subset
<1>3. ASSUME NEW i \in DOMAIN lines PROVE lines[i].time <= now
  <2> DEFINE u == lines[i].ip
  <2>1. u \in Known /\ i \in Own(u)
    BY LineFacts DEF IInv, TypeOK, Own
  <2>2. u \in Known \ todo /\ after[u] = None
    BY <1>2, <2>1
  <2>3. Surrounds(u, before[u], after[u], now)
    BY <2>2 DEF IInv, Found
  <2> QED BY <2>1, <2>2, <2>3 DEF Surrounds
<1>4. PlayedToEnd'
  BY <1>1, <1>3 DEF PlayedToEnd
<1>5. TypeOK'
  BY <1>1 DEF IInv, TypeOK
<1> QED
  BY <1>1, <1>4, <1>5 DEF IInv, Sorted, Safe, Found, Surrounds, Own

LEMMA QuitStep ==
  ASSUME IInv, Quit
  PROVE  IInv'
<1>1. UNCHANGED <<graphOnly, lines, central, last, before, after, todo, done, now>> /\ Known' = Known
  BY DEF Quit, Known
<1>2. TypeOK'
  BY <1>1 DEF IInv, TypeOK, Quit
<1>3. PlayedToEnd'
  BY <1>1 DEF Quit, PlayedToEnd
<1> QED
  BY <1>1, <1>2, <1>3 DEF IInv, Sorted, Safe, Found, Surrounds, Own

LEMMA VisualizerStep == IInv /\ [Next]_vars => IInv'
<1> SUFFICES ASSUME IInv, [Next]_vars PROVE IInv'
  OBVIOUS
<1>1. CASE \E u \in todo : Search(u)
  BY <1>1, SearchStep
<1>2. CASE NextPass
  BY <1>2, NextPassStep
<1>3. CASE Finish
  BY <1>3, FinishStep
<1>4. CASE Quit
  BY <1>4, QuitStep
<1>5. CASE UNCHANGED vars
  <2>1. Known' = Known
    BY <1>5 DEF vars, Known
  <2>2. TypeOK' /\ PlayedToEnd'
    BY <1>5, <2>1 DEF vars, IInv, TypeOK, PlayedToEnd
  <2> QED
    BY <1>5, <2>1, <2>2 DEF vars, IInv, Sorted, Safe, Found, Surrounds, Own
<1> QED
  BY <1>1, <1>2, <1>3, <1>4, <1>5 DEF Next, Over

-----------------------------------------------------------------------------
(* The theorems.                                                             *)

LEMMA VisualizerIInv == Spec => []IInv
<1>1. Init => IInv
  BY VisualizerInit
<1>2. IInv /\ [Next]_vars => IInv'
  BY VisualizerStep
<1> QED
  BY <1>1, <1>2, PTL DEF Spec

(* The count of UAVs without rows to come is never ahead of the pass, and    *)
(* lines[uav_last_index[...]] is always a row of the UAV it is read for.     *)
THEOREM VisualizerPlayback == Spec => []PlaybackInv
BY VisualizerIInv, InvariantImplies, PTL

(* Searching from the kept cursor finds what searching the whole file would, *)
(* however the time between passes falls.                                    *)
THEOREM VisualizerSurrounds == Spec => []SurroundsNow
BY VisualizerIInv, InvariantImplies, PTL

(* With --graph-only the loop never ends before the last row of the file.    *)
THEOREM VisualizerPlayed == Spec => []PlayedToEnd
BY VisualizerIInv, InvariantImplies, PTL
=============================================================================
