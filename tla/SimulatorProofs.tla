---------------------------- MODULE SimulatorProofs ----------------------------
(* Proofs about the engine under the program, for any number of events, of   *)
(* the main thread, of other threads and at destruction.                     *)
EXTENDS Simulator, SequenceTheorems, FiniteSetTheorems, TLAPS

-----------------------------------------------------------------------------
(* Lists and what they hold.                                                 *)

Elements(list) == {list[i] : i \in DOMAIN list}

LEMMA WithoutList ==
  ASSUME NEW list \in Seq(Nat), NEW k \in DOMAIN list, Once(list)
  PROVE  /\ Without(list, k) \in Seq(Nat)
         /\ Elements(Without(list, k)) = Elements(list) \ {list[k]}
         /\ Once(Without(list, k))
<1> DEFINE n == Len(list)
           a == SubSeq(list, 1, k - 1)
           b == SubSeq(list, k + 1, n)
           w == Without(list, k)
<1>1. n \in Nat /\ DOMAIN list = 1 .. n /\ k \in 1 .. n
  BY LenProperties
<1>2. \A i \in 1 .. n : list[i] \in Nat
  BY ElementOfSeq
<1> HIDE DEF n
<1>3. /\ a \in Seq(Nat) /\ Len(a) = k - 1
      /\ \A i \in 1 .. k - 1 : a[i] = list[i]
  <2>1. 1 \in Int /\ k - 1 \in Int /\ \A i \in 1 .. k - 1 : list[i] \in Nat
    BY <1>1, <1>2
  <2>2. /\ a \in Seq(Nat) /\ Len(a) = IF 1 <= k - 1 THEN k - 1 - 1 + 1 ELSE 0
        /\ \A i \in 1 .. k - 1 - 1 + 1 : a[i] = list[1 + i - 1]
    BY <2>1, SubSeqProperties
  <2>3. (IF 1 <= k - 1 THEN k - 1 - 1 + 1 ELSE 0) = k - 1 /\ k - 1 - 1 + 1 = k - 1
    BY <1>1
  <2>4. \A i \in 1 .. k - 1 : 1 + i - 1 = i
    BY <1>1
  <2> HIDE DEF a
  <2> QED
    BY <2>2, <2>3, <2>4
<1>4. /\ b \in Seq(Nat) /\ Len(b) = n - k
      /\ \A i \in 1 .. n - k : b[i] = list[k + i]
  <2>1. k + 1 \in Int /\ n \in Int /\ \A i \in k + 1 .. n : list[i] \in Nat
    BY <1>1, <1>2
  <2>2. /\ b \in Seq(Nat) /\ Len(b) = IF k + 1 <= n THEN n - (k + 1) + 1 ELSE 0
        /\ \A i \in 1 .. n - (k + 1) + 1 : b[i] = list[k + 1 + i - 1]
    BY <2>1, SubSeqProperties
  <2>3. (IF k + 1 <= n THEN n - (k + 1) + 1 ELSE 0) = n - k /\ n - (k + 1) + 1 = n - k
    BY <1>1
  <2>4. \A i \in 1 .. n - k : k + 1 + i - 1 = k + i
    BY <1>1
  <2> HIDE DEF b
  <2> QED
    BY <2>2, <2>3, <2>4
<1>5. w = a \o b
  BY DEF Without, n
<1> HIDE DEF a, b, w
<1>6. /\ w \in Seq(Nat) /\ Len(w) = n - 1
      /\ \A i \in 1 .. n - 1 : w[i] = IF i <= k - 1 THEN a[i] ELSE b[i - (k - 1)]
  <2>1. Len(a) + Len(b) = n - 1
    BY <1>1, <1>3, <1>4
  <2>2. a \in Seq(Nat) /\ b \in Seq(Nat) /\ Len(a) = k - 1
    BY <1>3, <1>4
  <2>3. /\ a \o b \in Seq(Nat) /\ Len(a \o b) = Len(a) + Len(b)
        /\ \A i \in 1 .. Len(a) + Len(b) :
             (a \o b)[i] = IF i <= Len(a) THEN a[i] ELSE b[i - Len(a)]
    BY <2>2, ConcatProperties
  <2>4. /\ a \o b \in Seq(Nat) /\ Len(a \o b) = n - 1
        /\ \A i \in 1 .. n - 1 : (a \o b)[i] = IF i <= k - 1 THEN a[i] ELSE b[i - (k - 1)]
    BY <2>1, <2>2, <2>3
  <2> QED
    BY <1>5, <2>4
<1>7. DOMAIN w = 1 .. n - 1
  BY <1>6, LenProperties
<1>8. \A i \in 1 .. n - 1 : w[i] = list[IF i < k THEN i ELSE i + 1]
  <2> SUFFICES ASSUME NEW i \in 1 .. n - 1 PROVE w[i] = list[IF i < k THEN i ELSE i + 1]
    OBVIOUS
  <2>1. CASE i < k
    BY <1>1, <1>3, <1>6, <2>1
  <2>2. CASE ~ i < k
    <3>1. i - (k - 1) \in 1 .. n - k /\ k + (i - (k - 1)) = i + 1 /\ ~ i <= k - 1
      BY <1>1, <2>2
    <3> QED
      BY <1>4, <1>6, <2>2, <3>1
  <2> QED
    BY <2>1, <2>2
<1>9. \A x \in Elements(w) : x \in Elements(list) \ {list[k]}
  <2> SUFFICES ASSUME NEW i \in 1 .. n - 1
               PROVE  w[i] \in Elements(list) /\ w[i] # list[k]
    BY <1>7 DEF Elements
  <2> DEFINE j == IF i < k THEN i ELSE i + 1
  <2>1. j \in 1 .. n /\ j # k
    BY <1>1
  <2>2. w[i] = list[j]
    BY <1>8
  <2> QED
    BY <1>1, <2>1, <2>2 DEF Elements, Once
<1>10. \A x \in Elements(list) \ {list[k]} : x \in Elements(w)
  <2> SUFFICES ASSUME NEW j \in 1 .. n, j # k
               PROVE  list[j] \in Elements(w)
    BY <1>1 DEF Elements
  <2> DEFINE i == IF j < k THEN j ELSE j - 1
  <2>1. i \in 1 .. n - 1 /\ (IF i < k THEN i ELSE i + 1) = j
    BY <1>1
  <2>2. w[i] = list[j]
    BY <1>8, <2>1
  <2> QED
    BY <1>7, <2>1, <2>2 DEF Elements
<1>11. Once(w)
  <2> SUFFICES ASSUME NEW i \in 1 .. n - 1, NEW j \in 1 .. n - 1, w[i] = w[j]
               PROVE  i = j
    BY <1>7 DEF Once
  <2> DEFINE i1 == IF i < k THEN i ELSE i + 1
             j1 == IF j < k THEN j ELSE j + 1
  <2>1. i1 \in 1 .. n /\ j1 \in 1 .. n /\ (i1 = j1 => i = j)
    BY <1>1
  <2>2. list[i1] = list[j1]
    BY <1>8
  <2> QED
    BY <1>1, <2>1, <2>2 DEF Once
<1> QED
  BY <1>6, <1>9, <1>10, <1>11 DEF w

LEMMA TailList ==
  ASSUME NEW list \in Seq(Nat), list # << >>, Once(list)
  PROVE  /\ 1 \in DOMAIN list /\ Head(list) = list[1]
         /\ Tail(list) \in Seq(Nat)
         /\ Elements(Tail(list)) = Elements(list) \ {list[1]}
         /\ Once(Tail(list))
<1>1. Len(list) \in Nat \ {0} /\ DOMAIN list = 1 .. Len(list)
  BY EmptySeq, LenProperties
<1>2. 1 \in DOMAIN list /\ Head(list) = list[1]
  BY <1>1
<1>3. Tail(list) = Without(list, 1)
  <2>1. Tail(list) = SubSeq(list, 2, Len(list))
    BY TailIsSubSeq
  <2>2. SubSeq(list, 1, 0) = << >>
    BY SubSeqEmpty
  <2>3. Tail(list) \in Seq(Nat)
    BY HeadTailProperties
  <2>4. Without(list, 1) = << >> \o Tail(list)
    BY <2>1, <2>2 DEF Without
  <2> QED
    BY <2>3, <2>4, ConcatEmptySeq
<1> QED
  BY <1>2, <1>3, WithoutList

LEMMA AppendList ==
  ASSUME NEW T, NEW list \in Seq(T), NEW x \in T
  PROVE  /\ Append(list, x) \in Seq(T)
         /\ DOMAIN Append(list, x) = DOMAIN list \cup {Len(list) + 1}
         /\ Len(list) + 1 \notin DOMAIN list
         /\ Append(list, x)[Len(list) + 1] = x
         /\ \A i \in DOMAIN list : Append(list, x)[i] = list[i]
         /\ Append(list, x) # << >>
<1>1. /\ Append(list, x) \in Seq(T) /\ Len(Append(list, x)) = Len(list) + 1
      /\ \A i \in 1 .. Len(list) : Append(list, x)[i] = list[i]
      /\ Append(list, x)[Len(list) + 1] = x
  BY AppendProperties
<1>2. Len(list) \in Nat /\ DOMAIN list = 1 .. Len(list)
      /\ DOMAIN Append(list, x) = 1 .. Len(Append(list, x))
  BY <1>1, LenProperties
<1>3. 1 .. Len(list) + 1 = 1 .. Len(list) \cup {Len(list) + 1}
  BY <1>2
<1>4. Append(list, x) # << >>
  <2>1. Len(<< >>) = 0
    OBVIOUS
  <2>2. Len(Append(list, x)) # 0
    BY <1>1, <1>2
  <2> QED
    BY <2>1, <2>2
<1> QED
  BY <1>1, <1>2, <1>3, <1>4

LEMMA AppendOnce ==
  ASSUME NEW list \in Seq(Nat), NEW x \in Nat, Once(list), x \notin Elements(list)
  PROVE  /\ Elements(Append(list, x)) = Elements(list) \cup {x}
         /\ Once(Append(list, x))
<1> DEFINE a == Append(list, x)
           n == Len(list) + 1
<1>1. /\ DOMAIN a = DOMAIN list \cup {n} /\ n \notin DOMAIN list /\ a[n] = x
      /\ \A i \in DOMAIN list : a[i] = list[i]
  BY AppendList
<1> HIDE DEF a, n
<1>2. Elements(a) = Elements(list) \cup {x} /\ Once(a)
  BY <1>1 DEF Elements, Once
<1> QED
  BY <1>2 DEF a

LEMMA AppendImpls ==
  ASSUME NEW list \in Seq(HandedIn), NEW x \in HandedIn, OnceImpl(list), x.impl \notin Impls(list)
  PROVE  /\ Impls(Append(list, x)) = Impls(list) \cup {x.impl}
         /\ OnceImpl(Append(list, x))
<1> DEFINE a == Append(list, x)
           n == Len(list) + 1
<1>1. /\ DOMAIN a = DOMAIN list \cup {n} /\ n \notin DOMAIN list /\ a[n] = x
      /\ \A i \in DOMAIN list : a[i] = list[i]
  BY AppendList
<1> HIDE DEF a, n
<1>2. Impls(a) = Impls(list) \cup {x.impl} /\ OnceImpl(a)
  BY <1>1 DEF Impls, OnceImpl
<1> QED
  BY <1>2 DEF a

LEMMA EmptyList == /\ << >> \in Seq(HandedIn) /\ << >> \in Seq(Nat)
                   /\ Impls(<< >>) = {} /\ Elements(<< >>) = {}
                   /\ OnceImpl(<< >>) /\ Once(<< >>) /\ Len(<< >>) = 0
<1>1. DOMAIN << >> = {}
  OBVIOUS
<1>2. << >> \in Seq(HandedIn) /\ << >> \in Seq(Nat) /\ Len(<< >>) = 0
  BY EmptySeq
<1> QED
  BY <1>1, <1>2 DEF Impls, Elements, OnceImpl, Once

-----------------------------------------------------------------------------
(* The places an event can be in.                                            *)

Parted(a, b, c, d, o, m) ==
  /\ a \cup b \cup c \cup d \cup o = 1 .. m
  /\ a \cap (b \cup c \cup d \cup o) = {}
  /\ b \cap (c \cup d \cup o) = {}
  /\ c \cap (d \cup o) = {}
  /\ d \cap o = {}

(* A new event comes into the queue, from another thread, or at the end. *)
LEMMA PartedNew ==
  ASSUME NEW a, NEW b, NEW c, NEW d, NEW o, NEW m \in Nat, Parted(a, b, c, d, o, m)
  PROVE  /\ m + 1 \notin a \cup b \cup c \cup d \cup o
         /\ Parted(a \cup {m + 1}, b, c, d, o, m + 1)
         /\ Parted(a, b \cup {m + 1}, c, d, o, m + 1)
         /\ Parted(a, b, c, d \cup {m + 1}, o, m + 1)
<1>1. m + 1 \notin 1 .. m /\ 1 .. m + 1 = 1 .. m \cup {m + 1}
  OBVIOUS
<1> DEFINE x == m + 1
<1> HIDE DEF x
<1>2. x \notin a \cup b \cup c \cup d \cup o
  BY <1>1 DEF Parted, x
<1>3. 1 .. x = 1 .. m \cup {x}
  BY <1>1 DEF x
<1>4. Parted(a \cup {x}, b, c, d, o, x)
  BY <1>2, <1>3 DEF Parted
<1>5. Parted(a, b \cup {x}, c, d, o, x)
  BY <1>2, <1>3 DEF Parted
<1>6. Parted(a, b, c, d \cup {x}, o, x)
  BY <1>2, <1>3 DEF Parted
<1> QED
  BY <1>2, <1>4, <1>5, <1>6 DEF x

(* An event is over. *)
LEMMA PartedOver ==
  ASSUME NEW a, NEW b, NEW c, NEW d, NEW o, NEW m, Parted(a, b, c, d, o, m), NEW x
  PROVE  /\ x \in a => Parted(a \ {x}, b, c, d, o \cup {x}, m)
         /\ x \in d => Parted(a, b, c, d \ {x}, o \cup {x}, m)
<1>1. ASSUME x \in a PROVE Parted(a \ {x}, b, c, d, o \cup {x}, m)
  BY <1>1 DEF Parted
<1>2. ASSUME x \in d PROVE Parted(a, b, c, d \ {x}, o \cup {x}, m)
  BY <1>2 DEF Parted
<1> QED
  BY <1>1, <1>2

(* Events of other threads are taken over, in two steps; all are dropped. *)
LEMMA PartedMoves ==
  ASSUME NEW a, NEW b, NEW c, NEW d, NEW o, NEW m, Parted(a, b, c, d, o, m)
  PROVE  /\ c = {} => Parted(a, {}, b, d, o, m)
         /\ Parted(a \cup c, b, {}, d, o, m)
         /\ Parted({}, {}, {}, {}, 1 .. m, m)
BY DEF Parted

LEMMA AccountedParted ==
  Accounted <=> /\ Parted(Queue, Impls(foreign), Impls(swapped), AtEnd, over, made)
                /\ \A e, f \in events : e.impl = f.impl => e = f
                /\ OnceImpl(foreign) /\ OnceImpl(swapped) /\ Once(destroyEvents)
BY DEF Accounted, Parted

-----------------------------------------------------------------------------
(* What the steps do to events.                                              *)

LEMMA Constants ==
  /\ Delays \subseteq Nat
  /\ FirstUid \in Nat /\ DestroyUid \in Nat /\ 0 < DestroyUid /\ DestroyUid < FirstUid
BY SimulatorAssumption

LEMMA EventFacts ==
  ASSUME TypeOK
  PROVE  /\ \A e \in events : e.ts \in Nat /\ e.uid \in Nat /\ e.impl \in Nat
         /\ \A id \in ids : id.ts \in Nat /\ id.uid \in Nat /\ id.impl \in Nat
BY DEF TypeOK, Event

(* What other threads have handed in becomes events of their own. *)
LEMMA ArrivalFacts ==
  ASSUME TypeOK, OnceImpl(swapped)
  PROVE  /\ Len(swapped) \in Nat
         /\ Arrivals \subseteq Event
         /\ \A e \in Arrivals : e.ts >= now /\ uid <= e.uid /\ e.uid < uid + Len(swapped)
         /\ \A e, f \in Arrivals : e.uid = f.uid \/ e.impl = f.impl => e = f
         /\ {e.impl : e \in Arrivals} = Impls(swapped)
         /\ IsFiniteSet(Arrivals) /\ Cardinality(Arrivals) = Len(swapped)
<1> DEFINE n == Len(swapped)
           A(i) == [ts |-> now + swapped[i].delay, uid |-> uid + i - 1, impl |-> swapped[i].impl]
<1>1. n \in Nat /\ DOMAIN swapped = 1 .. n
  BY LenProperties DEF TypeOK
<1>2. now \in Nat /\ uid \in Nat
  BY DEF TypeOK
<1>3. \A i \in 1 .. n : swapped[i].delay \in Nat /\ swapped[i].impl \in Nat
  <2>1. \A i \in 1 .. n : swapped[i] \in HandedIn
    BY ElementOfSeq DEF TypeOK
  <2> QED
    BY <2>1 DEF HandedIn
<1>4. \A i \in 1 .. n : /\ A(i) \in Event /\ A(i).ts >= now
                        /\ A(i).uid = uid + i - 1 /\ uid <= A(i).uid /\ A(i).uid < uid + n
                        /\ A(i).impl = swapped[i].impl
  <2> SUFFICES ASSUME NEW i \in 1 .. n
               PROVE  /\ A(i) \in Event /\ A(i).ts >= now
                      /\ A(i).uid = uid + i - 1 /\ uid <= A(i).uid /\ A(i).uid < uid + n
                      /\ A(i).impl = swapped[i].impl
    OBVIOUS
  <2>1. now + swapped[i].delay \in Nat /\ now + swapped[i].delay >= now
    BY <1>2, <1>3
  <2>2. uid + i - 1 \in Nat /\ uid <= uid + i - 1 /\ uid + i - 1 < uid + n
    BY <1>1, <1>2
  <2>3. swapped[i].impl \in Nat
    BY <1>3
  <2> QED
    BY <2>1, <2>2, <2>3 DEF Event
<1>5. Arrivals = {A(i) : i \in 1 .. n}
  BY <1>1 DEF Arrivals
<1>6. \A i, j \in 1 .. n : uid + i - 1 = uid + j - 1 => i = j
  BY <1>1, <1>2
<1>7. \A i, j \in 1 .. n : A(i).uid = A(j).uid \/ A(i).impl = A(j).impl => i = j
  BY <1>1, <1>4, <1>6 DEF OnceImpl
<1> HIDE DEF A, n
<1>8. \A e, f \in Arrivals : e.uid = f.uid \/ e.impl = f.impl => e = f
  BY <1>5, <1>7
<1>9. {e.impl : e \in Arrivals} = Impls(swapped)
  BY <1>1, <1>4, <1>5 DEF Impls
<1>10. IsFiniteSet(Arrivals) /\ Cardinality(Arrivals) = n
  <2> DEFINE g == [i \in 1 .. n |-> A(i)]
  <2>1. \A i, j \in 1 .. n : A(i) = A(j) => i = j
    BY <1>7
  <2>2. g \in Bijection(1 .. n, Arrivals)
    BY <1>5, <2>1 DEF Bijection, Injection, Surjection, IsInjective
  <2>3. ExistsBijection(1 .. n, Arrivals)
    BY <2>2 DEF ExistsBijection
  <2>4. IsFiniteSet(1 .. n) /\ Cardinality(1 .. n) = n
    BY <1>1, FS_Interval
  <2> QED
    BY <2>3, <2>4, FS_Bijection
<1>11. Arrivals \subseteq Event /\ \A e \in Arrivals : e.ts >= now /\ uid <= e.uid /\ e.uid < uid + n
  BY <1>4, <1>5
<1> QED
  BY <1>1, <1>8, <1>9, <1>10, <1>11 DEF n

(* Events can be added that are not in the past and have fresh uids. *)
LEMMA OrderedGrows ==
  ASSUME TypeOK, Ordered, NEW new \in SUBSET Event, NEW k \in Nat,
         \A e \in new : e.ts >= now /\ uid <= e.uid /\ e.uid < uid + k,
         \A e, f \in new : e.uid = f.uid => e = f,
         UNCHANGED <<now, current>>, uid' = uid + k, events' = events \cup new
  PROVE  Ordered'
<1>1. uid \in Nat /\ now \in Nat /\ current \in Nat /\ FirstUid \in Nat
  BY Constants DEF TypeOK
<1>2. \A e \in events : e.ts \in Nat /\ e.uid \in Nat
  BY EventFacts
<1>3. \A e \in new : e.ts \in Nat /\ e.uid \in Nat
  BY DEF Event
<1>4. current' < uid' /\ FirstUid <= uid'
  BY <1>1 DEF Ordered
<1>5. ASSUME NEW e \in events'
      PROVE  ~ HasPassed(e, now', current') /\ FirstUid <= e.uid /\ e.uid < uid'
  <2>1. CASE e \in events
    BY <1>1, <1>2, <2>1 DEF Ordered
  <2>2. CASE e \in new
    BY <1>1, <1>3, <2>2 DEF Ordered, HasPassed
  <2> QED
    BY <2>1, <2>2
<1>6. ASSUME NEW e \in events', NEW f \in events', e.uid = f.uid PROVE e = f
  <2>1. CASE e \in events /\ f \in events
    BY <1>6, <2>1 DEF Ordered
  <2>2. CASE e \in new /\ f \in new
    BY <1>6, <2>2
  <2>3. CASE (e \in events /\ f \in new) \/ (e \in new /\ f \in events)
    BY <1>1, <1>2, <1>3, <1>6, <2>3 DEF Ordered
  <2>4. e \in events \cup new /\ f \in events \cup new
    OBVIOUS
  <2> QED
    BY <2>1, <2>2, <2>3, <2>4
<1> QED
  BY <1>4, <1>5, <1>6 DEF Ordered

(* ...and taken away, the next one when it is run. *)
LEMMA OrderedShrinks ==
  ASSUME TypeOK, Ordered, events' \subseteq events, uid' \in Nat, uid' >= uid,
         UNCHANGED <<now, current>>
  PROVE  Ordered'
<1>1. uid \in Nat /\ current \in Nat /\ FirstUid \in Nat
  BY Constants DEF TypeOK
<1>2. \A e \in events : e.uid \in Nat
  BY EventFacts
<1> QED
  BY <1>1, <1>2 DEF Ordered

LEMMA OrderedRuns ==
  ASSUME TypeOK, Ordered, NEW e \in events, IsNext(e, events),
         events' = events \ {e}, now' = e.ts, current' = e.uid, uid' = uid
  PROVE  Ordered' /\ e.ts >= now
<1>1. uid \in Nat /\ now \in Nat /\ current \in Nat /\ FirstUid \in Nat
  BY Constants DEF TypeOK
<1>2. \A f \in events : f.ts \in Nat /\ f.uid \in Nat
  BY EventFacts
<1>3. \A f \in events' : f \in events /\ Before(e, f)
  BY DEF IsNext
<1>4. \A f \in events' : ~ HasPassed(f, now', current') /\ FirstUid <= f.uid /\ f.uid < uid'
  BY <1>2, <1>3 DEF Before, HasPassed, Ordered
<1>5. e.ts >= now
  BY <1>1, <1>2 DEF Ordered, HasPassed
<1>6. \A f, g \in events' : f.uid = g.uid => f = g
  BY <1>3 DEF Ordered
<1> QED
  BY <1>1, <1>4, <1>5, <1>6 DEF Ordered

-----------------------------------------------------------------------------
(* Types.                                                                    *)

LEMMA TypeInit == Init => TypeOK
<1> SUFFICES ASSUME Init PROVE TypeOK
  OBVIOUS
<1>1. foreign \in Seq(HandedIn) /\ swapped \in Seq(HandedIn) /\ destroyEvents \in Seq(Nat)
  BY EmptyList DEF Init
<1>2. events \subseteq Event /\ ids \subseteq Event
  BY DEF Init
<1>3. now \in Nat /\ current \in Nat /\ uid \in Nat /\ unscheduled \in Int /\ made \in Nat
  BY Constants DEF Init
<1>4. cancelled \subseteq 1 .. made /\ over \subseteq 1 .. made
  BY DEF Init
<1>5. stop \in BOOLEAN /\ foreignEmpty \in BOOLEAN
  BY DEF Init
<1>6. pc = "outside" /\ fault = "none"
  BY DEF Init
<1> QED
  BY <1>1, <1>2, <1>3, <1>4, <1>5, <1>6 DEF TypeOK

LEMMA TypeStep == SimulatorInv /\ [Next]_vars => TypeOK'
<1> SUFFICES ASSUME SimulatorInv, [Next]_vars PROVE TypeOK'
  OBVIOUS
<1>a. TypeOK
  BY DEF SimulatorInv
<1>b. /\ now \in Nat /\ uid \in Nat /\ made \in Nat /\ unscheduled \in Int
      /\ foreign \in Seq(HandedIn) /\ swapped \in Seq(HandedIn) /\ destroyEvents \in Seq(Nat)
      /\ cancelled \subseteq 1 .. made /\ over \subseteq 1 .. made
      /\ events \subseteq Event /\ ids \subseteq Event
  BY <1>a DEF TypeOK
<1>c. made + 1 \in Nat /\ 1 .. made \subseteq 1 .. made + 1
  BY <1>b
<1>d. \A id \in ids : pc # "disposed" => id.impl \in 1 .. made
  BY DEF SimulatorInv, IdTrue
<1>e. \A i \in DOMAIN destroyEvents : destroyEvents[i] \in 1 .. made
  BY DEF SimulatorInv, Accounted, AtEnd
<1>1. ASSUME NEW d \in Delays, NEW return \in BOOLEAN, Schedule(d, return) PROVE TypeOK'
  <2> DEFINE event == [ts |-> now + d, uid |-> uid, impl |-> Impl]
  <2>1. event \in Event
    BY <1>b, <1>c, Constants DEF Event, Impl
  <2>2. events' = events \cup {event} /\ ids' \in {ids \cup {event}, ids}
    BY <1>1 DEF Schedule
  <2>3. uid' = uid + 1 /\ unscheduled' = unscheduled + 1 /\ made' = made + 1
    BY <1>1 DEF Schedule, New, Impl
  <2>4. uid' \in Nat /\ unscheduled' \in Int /\ made' \in Nat
    BY <1>b, <2>3
  <2> HIDE DEF event
  <2>5. events' \subseteq Event /\ ids' \subseteq Event
    BY <1>b, <2>1, <2>2
  <2>6. cancelled' \subseteq 1 .. made' /\ over' \subseteq 1 .. made'
    BY <1>1, <1>b, <1>c, <2>3 DEF Schedule
  <2> QED
    BY <1>1, <1>a, <2>4, <2>5, <2>6 DEF Schedule, TypeOK, clock, lists
<1>2. CASE ScheduleDestroy
  <2>1. [ts |-> now, uid |-> DestroyUid, impl |-> Impl] \in Event
    BY <1>b, <1>c, Constants DEF Event, Impl
  <2>2. ids' \subseteq Event
    BY <1>2, <1>b, <2>1 DEF ScheduleDestroy
  <2>3. destroyEvents' \in Seq(Nat)
    BY <1>2, <1>b, <1>c, AppendList DEF ScheduleDestroy, Impl
  <2>4. uid' \in Nat /\ made' = made + 1
    BY <1>2, <1>b DEF ScheduleDestroy, New, Impl
  <2>5. cancelled' \subseteq 1 .. made' /\ over' \subseteq 1 .. made'
    BY <1>2, <1>b, <1>c, <2>4 DEF ScheduleDestroy
  <2> QED
    BY <1>2, <1>a, <1>c, <2>2, <2>3, <2>4, <2>5 DEF ScheduleDestroy, TypeOK, clock, lists
<1>3. ASSUME NEW id \in ids, Cancel(id) PROVE TypeOK'
  <2>1. cancelled' \subseteq 1 .. made
    BY <1>3, <1>b, <1>d DEF Cancel, Calls
  <2> QED
    BY <1>3, <1>a, <2>1 DEF Cancel, TypeOK, clock, lists
<1>4. ASSUME NEW id \in ids, Remove(id) PROVE TypeOK'
  <2>1. cancelled' \subseteq 1 .. made /\ over' \subseteq 1 .. made
    BY <1>4, <1>b, <1>d DEF Remove, Calls
  <2>2. events' \subseteq Event
    BY <1>4, <1>b DEF Remove
  <2>3. unscheduled' \in Int
    <3>1. unscheduled' = unscheduled - 1
      BY <1>4 DEF Remove
    <3> QED
      BY <1>b, <3>1
  <2>4. fault' \in {"none", "not found"}
    BY <1>4 DEF Remove
  <2> QED
    BY <1>4, <1>a, <2>1, <2>2, <2>3, <2>4 DEF Remove, TypeOK, clock, lists
<1>5. ASSUME NEW id \in ids, RemoveDestroy(id) PROVE TypeOK'
  <2>1. over' \subseteq 1 .. made
    BY <1>5, <1>b, <1>d DEF RemoveDestroy, Calls
  <2>2. destroyEvents' \in Seq(Nat)
    <3>1. Once(destroyEvents)
      BY DEF SimulatorInv, Accounted
    <3> QED
      BY <1>5, <1>b, <3>1, WithoutList DEF RemoveDestroy
  <2> QED
    BY <1>5, <1>a, <2>1, <2>2 DEF RemoveDestroy, TypeOK, clock, lists
<1>6. CASE Stop
  BY <1>6, <1>a DEF Stop, TypeOK, clock, lists
<1>7. ASSUME NEW d \in Delays, ForeignSchedule(d) PROVE TypeOK'
  <2>1. [delay |-> d, impl |-> Impl] \in HandedIn
    BY <1>b, <1>c, Constants DEF HandedIn, Impl
  <2>2. foreign' \in Seq(HandedIn)
    BY <1>7, <1>b, <2>1, AppendList DEF ForeignSchedule
  <2>3. made' = made + 1
    BY <1>7 DEF ForeignSchedule, New, Impl
  <2>4. cancelled' \subseteq 1 .. made' /\ over' \subseteq 1 .. made'
    BY <1>7, <1>b, <1>c, <2>3 DEF ForeignSchedule
  <2> QED
    BY <1>7, <1>a, <1>c, <2>2, <2>3, <2>4 DEF ForeignSchedule, TypeOK, clock
<1>8. CASE Run \/ Return \/ Skip \/ Destroy \/ DestroyReturn
  BY <1>8, <1>a DEF Run, Return, Skip, Destroy, DestroyReturn, TypeOK, clock, lists
<1>9. CASE ProcessOneEvent
  <2>1. PICK e \in events :
          /\ fault' = IF e.ts >= now THEN "none" ELSE "past"
          /\ events' = events \ {e}
          /\ now' = e.ts /\ current' = e.uid
          /\ over' = over \cup {e.impl}
          /\ pc' = IF e.impl \in cancelled THEN "process" ELSE "handler"
    BY <1>9 DEF ProcessOneEvent
  <2>2. e.ts \in Nat /\ e.uid \in Nat
    BY <1>a, EventFacts
  <2>3. e.impl \in 1 .. made
    BY DEF SimulatorInv, Accounted, Queue
  <2>4. over' \subseteq 1 .. made /\ events' \subseteq Event
    BY <1>b, <2>1, <2>3
  <2>5. fault' \in {"none", "past"} /\ pc' \in {"process", "handler"}
    BY <2>1
  <2>6. unscheduled' \in Int
    BY <1>9, <1>b DEF ProcessOneEvent
  <2> QED
    BY <1>9, <1>a, <2>1, <2>2, <2>4, <2>5, <2>6 DEF ProcessOneEvent, TypeOK, lists
<1>10. CASE Swap
  BY <1>10, <1>a, EmptyList DEF Swap, TypeOK, clock
<1>11. CASE Insert
  <2>1. Len(swapped) \in Nat /\ Arrivals \subseteq Event
    BY <1>a, ArrivalFacts DEF SimulatorInv, Accounted
  <2>2. uid' \in Nat /\ unscheduled' \in Int
    BY <1>11, <1>b, <2>1 DEF Insert
  <2>3. events' \subseteq Event
    BY <1>11, <1>b, <2>1 DEF Insert
  <2> QED
    BY <1>11, <1>a, <2>2, <2>3, EmptyList DEF Insert, TypeOK, clock
<1>12. CASE Leave
  BY <1>12, <1>a DEF Leave, TypeOK, clock, lists
<1>13. CASE DestroyNext
  <2>1. Once(destroyEvents)
    BY DEF SimulatorInv, Accounted
  <2>2. /\ destroyEvents # << >> /\ destroyEvents' = Tail(destroyEvents)
        /\ over' = over \cup {Head(destroyEvents)}
    BY <1>13 DEF DestroyNext
  <2>3. destroyEvents' \in Seq(Nat) /\ Head(destroyEvents) \in 1 .. made
    BY <1>b, <1>e, <2>1, <2>2, TailList
  <2>4. over' \subseteq 1 .. made
    BY <1>b, <2>2, <2>3
  <2>5. pc' \in {"destroy", "destroy handler"}
    BY <1>13 DEF DestroyNext
  <2> QED
    BY <1>13, <1>a, <2>3, <2>4, <2>5 DEF DestroyNext, TypeOK, clock, lists
<1>14. CASE Dispose
  <2>1. Len(foreign) \in Nat
    BY <1>b, LenProperties
  <2>2. uid' \in Nat /\ unscheduled' \in Int
    BY <1>14, <1>b, <2>1 DEF Dispose
  <2>3. over' \subseteq 1 .. made' /\ events' \subseteq Event
    BY <1>14 DEF Dispose
  <2> QED
    BY <1>14, <1>a, <2>2, <2>3, EmptyList DEF Dispose, TypeOK, clock
<1>15. CASE UNCHANGED vars
  BY <1>15, <1>a DEF vars, TypeOK, clock, lists
<1> QED
  BY <1>1, <1>2, <1>3, <1>4, <1>5, <1>6, <1>7, <1>8, <1>9, <1>10, <1>11, <1>12, <1>13,
     <1>14, <1>15 DEF Next, Gone

-----------------------------------------------------------------------------
(* The parts of the invariant.                                               *)

LEMMA HiddenInit == Init => NoneHidden
BY DEF Init, NoneHidden

LEMMA HiddenStep == SimulatorInv /\ [Next]_vars => NoneHidden'
<1> SUFFICES ASSUME SimulatorInv, [Next]_vars PROVE NoneHidden'
  OBVIOUS
<1>a. TypeOK /\ NoneHidden
  BY DEF SimulatorInv
<1>1. ASSUME NEW d \in Delays, ForeignSchedule(d) PROVE NoneHidden'
  <2>1. d \in Nat /\ made + 1 \in Nat /\ foreign \in Seq(HandedIn)
    <3>1. made \in Nat /\ foreign \in Seq(HandedIn)
      BY <1>a DEF TypeOK
    <3> QED
      BY <3>1, Constants
  <2>2. [delay |-> d, impl |-> Impl] \in HandedIn
    BY <2>1 DEF HandedIn, Impl
  <2>3. foreign' # << >> /\ foreignEmpty' = FALSE
    BY <1>1, <2>1, <2>2, AppendList DEF ForeignSchedule
  <2> QED
    BY <2>3 DEF NoneHidden
<1>2. CASE Swap \/ Dispose
  BY <1>2 DEF Swap, Dispose, NoneHidden
<1>3. ASSUME UNCHANGED <<foreign, foreignEmpty>> PROVE NoneHidden'
  BY <1>3, <1>a DEF NoneHidden
<1>4. CASE \E d \in Delays, return \in BOOLEAN : Schedule(d, return)
  BY <1>3, <1>4 DEF Schedule, lists
<1>5. CASE \E id \in ids : Cancel(id) \/ Remove(id) \/ RemoveDestroy(id)
  BY <1>3, <1>5 DEF Cancel, Remove, RemoveDestroy, lists
<1>6. CASE ScheduleDestroy \/ Stop \/ Run \/ Return \/ Skip \/ Destroy \/ DestroyReturn
  BY <1>3, <1>6 DEF ScheduleDestroy, Stop, Run, Return, Skip, Destroy, DestroyReturn, lists
<1>7. CASE ProcessOneEvent \/ Insert \/ Leave \/ DestroyNext
  BY <1>3, <1>7 DEF ProcessOneEvent, Insert, Leave, DestroyNext, lists
<1>8. CASE UNCHANGED vars
  BY <1>3, <1>8 DEF vars, lists
<1> QED
  BY <1>1, <1>2, <1>4, <1>5, <1>6, <1>7, <1>8 DEF Next, Gone

(* Outside of the insertion nothing is on its way from the other threads' list. *)
LEMMA SwappedStep == SimulatorInv /\ [Next]_vars => (pc' # "insert" => swapped' = << >>)
<1> SUFFICES ASSUME SimulatorInv, [Next]_vars, pc' # "insert" PROVE swapped' = << >>
  OBVIOUS
<1>a. pc # "insert" => swapped = << >>
  BY DEF SimulatorInv
<1>1. ASSUME UNCHANGED <<pc, swapped>> PROVE swapped' = << >>
  BY <1>1, <1>a
<1>2. ASSUME pc # "insert", UNCHANGED swapped PROVE swapped' = << >>
  BY <1>2, <1>a
<1>3. CASE \E d \in Delays : ForeignSchedule(d) \/ \E return \in BOOLEAN : Schedule(d, return)
  BY <1>1, <1>3 DEF ForeignSchedule, Schedule, lists
<1>4. CASE \E id \in ids : Cancel(id) \/ Remove(id) \/ RemoveDestroy(id)
  BY <1>1, <1>4 DEF Cancel, Remove, RemoveDestroy, lists
<1>5. CASE ScheduleDestroy \/ Stop
  BY <1>1, <1>5 DEF ScheduleDestroy, Stop, lists
<1>6. CASE Run \/ Return \/ Skip \/ Destroy \/ DestroyReturn
  BY <1>2, <1>6 DEF Run, Return, Skip, Destroy, DestroyReturn, lists
<1>7. CASE ProcessOneEvent \/ Leave \/ DestroyNext \/ Dispose
  BY <1>2, <1>7 DEF ProcessOneEvent, Leave, DestroyNext, Dispose, lists
<1>8. CASE Swap \/ Insert
  BY <1>8 DEF Swap, Insert
<1>9. CASE UNCHANGED vars
  BY <1>1, <1>9 DEF vars, lists
<1> QED
  BY <1>3, <1>4, <1>5, <1>6, <1>7, <1>8, <1>9 DEF Next, Gone

LEMMA OrderedInit == Init => Ordered
<1>1. Init => current < uid /\ FirstUid <= uid
  BY Constants DEF Init
<1> QED
  BY <1>1 DEF Init, Ordered

LEMMA OrderedStep == SimulatorInv /\ [Next]_vars => Ordered'
<1> SUFFICES ASSUME SimulatorInv, [Next]_vars PROVE Ordered'
  OBVIOUS
<1>a. TypeOK /\ Ordered /\ Accounted
  BY DEF SimulatorInv
<1>b. uid \in Nat /\ now \in Nat /\ made \in Nat
  BY <1>a DEF TypeOK
<1>1. ASSUME events' \subseteq events, uid' \in Nat, uid' >= uid, UNCHANGED <<now, current>>
      PROVE  Ordered'
  BY <1>1, <1>a, OrderedShrinks
<1>2. ASSUME NEW d \in Delays, NEW return \in BOOLEAN, Schedule(d, return) PROVE Ordered'
  <2> DEFINE event == [ts |-> now + d, uid |-> uid, impl |-> Impl]
  <2>1. event \in Event /\ event.ts >= now /\ uid <= event.uid /\ event.uid < uid + 1
    BY <1>b, Constants DEF Event, Impl
  <2>2. events' = events \cup {event} /\ uid' = uid + 1 /\ UNCHANGED <<now, current>>
    BY <1>2 DEF Schedule, clock
  <2> HIDE DEF event
  <2>3. /\ {event} \in SUBSET Event /\ 1 \in Nat
        /\ \A e \in {event} : e.ts >= now /\ uid <= e.uid /\ e.uid < uid + 1
        /\ \A e, f \in {event} : e.uid = f.uid => e = f
    BY <2>1
  <2> QED
    BY <1>a, <2>2, <2>3, OrderedGrows
<1>3. CASE Insert
  <2>1. /\ Arrivals \in SUBSET Event /\ Len(swapped) \in Nat
        /\ \A e \in Arrivals : e.ts >= now /\ uid <= e.uid /\ e.uid < uid + Len(swapped)
        /\ \A e, f \in Arrivals : e.uid = f.uid => e = f
    BY <1>a, ArrivalFacts DEF Accounted
  <2>2. events' = events \cup Arrivals /\ uid' = uid + Len(swapped) /\ UNCHANGED <<now, current>>
    BY <1>3 DEF Insert, clock
  <2> QED
    BY <1>a, <2>1, <2>2, OrderedGrows
<1>4. CASE ProcessOneEvent
  <2>1. PICK e \in events : /\ IsNext(e, events)
                            /\ events' = events \ {e}
                            /\ now' = e.ts /\ current' = e.uid
    BY <1>4 DEF ProcessOneEvent
  <2>2. uid' = uid
    BY <1>4 DEF ProcessOneEvent
  <2> QED
    BY <1>a, <2>1, <2>2, OrderedRuns
<1>5. CASE Dispose
  <2>1. Len(foreign) \in Nat
    BY <1>a, LenProperties DEF TypeOK
  <2>2. uid' = uid + Len(foreign) /\ events' = {} /\ UNCHANGED <<now, current>>
    BY <1>5 DEF Dispose, clock
  <2>3. uid' \in Nat /\ uid' >= uid
    BY <1>b, <2>1, <2>2
  <2> QED
    BY <1>1, <2>2, <2>3
<1>6. ASSUME events' \subseteq events, UNCHANGED <<uid, now, current>> PROVE Ordered'
  BY <1>1, <1>6, <1>b
<1>7. CASE \E d \in Delays : ForeignSchedule(d)
  BY <1>6, <1>7 DEF ForeignSchedule, clock
<1>8. CASE \E id \in ids : Cancel(id) \/ Remove(id) \/ RemoveDestroy(id)
  BY <1>6, <1>8 DEF Cancel, Remove, RemoveDestroy, clock
<1>9. CASE ScheduleDestroy
  <2>1. events' = events /\ uid' = uid + 1 /\ UNCHANGED <<now, current>>
    BY <1>9 DEF ScheduleDestroy, clock
  <2> QED
    BY <1>1, <1>b, <2>1
<1>10. CASE Stop \/ Run \/ Return \/ Skip \/ Destroy \/ DestroyReturn
  BY <1>6, <1>10 DEF Stop, Run, Return, Skip, Destroy, DestroyReturn, clock
<1>11. CASE Swap \/ Leave \/ DestroyNext
  BY <1>6, <1>11 DEF Swap, Leave, DestroyNext, clock
<1>12. CASE UNCHANGED vars
  BY <1>6, <1>12 DEF vars, clock
<1> QED
  BY <1>2, <1>3, <1>4, <1>5, <1>7, <1>8, <1>9, <1>10, <1>11, <1>12 DEF Next, Gone

LEMMA FaultStep == SimulatorInv /\ [Next]_vars => NoFault'
<1> SUFFICES ASSUME SimulatorInv, [Next]_vars PROVE NoFault'
  OBVIOUS
<1>a. TypeOK /\ Ordered /\ Counted /\ fault = "none"
  BY DEF SimulatorInv, NoFault
<1>1. ASSUME NEW id \in ids, Remove(id) PROVE NoFault'
  <2>1. id.uid # DestroyUid /\ ~ IsExpired(id) /\ pc # "disposed"
    BY <1>1 DEF Remove, Calls
  <2>2. id \in events
    BY <2>1 DEF SimulatorInv, IdTrue, IsExpired
  <2> QED
    BY <1>1, <2>2 DEF Remove, NoFault
<1>2. CASE ProcessOneEvent
  <2>1. PICK e \in events : /\ IsNext(e, events)
                            /\ events' = events \ {e}
                            /\ now' = e.ts /\ current' = e.uid
                            /\ fault' = IF e.ts >= now THEN "none" ELSE "past"
    BY <1>2 DEF ProcessOneEvent
  <2>2. uid' = uid
    BY <1>2 DEF ProcessOneEvent
  <2>3. e.ts >= now
    BY <1>a, <2>1, <2>2, OrderedRuns
  <2> QED
    BY <2>1, <2>3 DEF NoFault
<1>3. CASE Leave
  <2>1. events = {} => unscheduled = 0
    BY <1>3, <1>a, FS_EmptySet DEF Leave, Counted
  <2> QED
    BY <1>3, <2>1 DEF Leave, NoFault
<1>4. ASSUME UNCHANGED fault PROVE NoFault'
  BY <1>4, <1>a DEF NoFault
<1>5. CASE \E d \in Delays : ForeignSchedule(d) \/ \E return \in BOOLEAN : Schedule(d, return)
  BY <1>4, <1>5 DEF ForeignSchedule, Schedule
<1>6. CASE \E id \in ids : Cancel(id) \/ RemoveDestroy(id)
  BY <1>4, <1>6 DEF Cancel, RemoveDestroy
<1>7. CASE ScheduleDestroy \/ Stop \/ Run \/ Return \/ Skip \/ Destroy \/ DestroyReturn
  BY <1>4, <1>7 DEF ScheduleDestroy, Stop, Run, Return, Skip, Destroy, DestroyReturn
<1>8. CASE Swap \/ Insert \/ DestroyNext \/ Dispose
  BY <1>4, <1>8 DEF Swap, Insert, DestroyNext, Dispose
<1>9. CASE UNCHANGED vars
  BY <1>4, <1>9 DEF vars
<1> QED
  BY <1>1, <1>2, <1>3, <1>5, <1>6, <1>7, <1>8, <1>9 DEF Next, Gone

LEMMA CountedInit == Init => Counted
BY FS_EmptySet DEF Init, Counted

LEMMA CountedStep == SimulatorInv /\ [Next]_vars => Counted'
<1> SUFFICES ASSUME SimulatorInv, [Next]_vars PROVE Counted'
  OBVIOUS
<1>a. TypeOK /\ Ordered /\ Accounted /\ Counted
  BY DEF SimulatorInv
<1>b. /\ IsFiniteSet(events) /\ uid \in Nat
      /\ \A e \in events : e.uid \in Nat /\ e.uid < uid
  BY <1>a, EventFacts DEF Counted, Ordered, TypeOK
<1>1. ASSUME UNCHANGED <<events, unscheduled>>, pc = "disposed" => pc' = "disposed"
      PROVE  Counted'
  BY <1>1, <1>a DEF Counted
<1>2. ASSUME NEW d \in Delays, NEW return \in BOOLEAN, Schedule(d, return) PROVE Counted'
  <2> DEFINE event == [ts |-> now + d, uid |-> uid, impl |-> Impl]
  <2>1. event \notin events
    BY <1>b
  <2>2. /\ events' = events \cup {event} /\ unscheduled' = unscheduled + 1
        /\ pc # "disposed"
    BY <1>2 DEF Schedule, Calls
  <2> HIDE DEF event
  <2> QED
    BY <1>a, <1>b, <2>1, <2>2, FS_AddElement DEF Counted
<1>3. ASSUME NEW e \in events, events' = events \ {e}, unscheduled' = unscheduled - 1,
             pc # "disposed"
      PROVE  Counted'
  BY <1>3, <1>a, <1>b, FS_RemoveElement DEF Counted
<1>4. ASSUME NEW id \in ids, Remove(id) PROVE Counted'
  <2>1. id.uid # DestroyUid /\ ~ IsExpired(id) /\ pc # "disposed"
    BY <1>4 DEF Remove, Calls
  <2>2. id \in events
    BY <2>1 DEF SimulatorInv, IdTrue, IsExpired
  <2> QED
    BY <1>3, <1>4, <2>1, <2>2 DEF Remove
<1>5. CASE ProcessOneEvent
  <2>1. PICK e \in events : events' = events \ {e}
    BY <1>5 DEF ProcessOneEvent
  <2> QED
    BY <1>3, <1>5, <2>1 DEF ProcessOneEvent
<1>6. CASE Insert
  <2>1. /\ IsFiniteSet(Arrivals) /\ Cardinality(Arrivals) = Len(swapped)
        /\ \A e \in Arrivals : uid <= e.uid
        /\ Arrivals \subseteq Event /\ Len(swapped) \in Nat
    BY <1>a, ArrivalFacts DEF Accounted
  <2>2. events \cap Arrivals = {}
    BY <1>b, <2>1 DEF Event
  <2>3. Cardinality(events \cap Arrivals) = 0
    BY <2>2, FS_EmptySet
  <2>4. Cardinality(events) \in Nat
    BY <1>b, FS_CardinalityType
  <2>5. /\ IsFiniteSet(events \cup Arrivals)
        /\ Cardinality(events \cup Arrivals) = Cardinality(events) + Len(swapped) - 0
    BY <1>b, <2>1, <2>3, FS_Union
  <2>6. /\ events' = events \cup Arrivals /\ unscheduled' = unscheduled + Len(swapped)
        /\ unscheduled = Cardinality(events)
    BY <1>6, <1>a DEF Insert, Counted
  <2>7. unscheduled' = Cardinality(events')
    BY <2>1, <2>4, <2>5, <2>6
  <2> QED
    BY <2>5, <2>6, <2>7 DEF Counted
<1>7. CASE Dispose
  BY <1>7, FS_EmptySet DEF Dispose, Counted
<1>8. CASE \E d \in Delays : ForeignSchedule(d)
  BY <1>1, <1>8 DEF ForeignSchedule
<1>9. CASE \E id \in ids : Cancel(id) \/ RemoveDestroy(id)
  BY <1>1, <1>9 DEF Cancel, RemoveDestroy
<1>10. CASE ScheduleDestroy \/ Stop
  BY <1>1, <1>10 DEF ScheduleDestroy, Stop
<1>11. CASE Run \/ Return \/ Skip \/ Destroy \/ DestroyReturn
  BY <1>1, <1>11 DEF Run, Return, Skip, Destroy, DestroyReturn
<1>12. CASE Swap \/ Leave \/ DestroyNext
  BY <1>1, <1>12 DEF Swap, Leave, DestroyNext
<1>13. CASE UNCHANGED vars
  BY <1>1, <1>13 DEF vars
<1> QED
  BY <1>2, <1>4, <1>5, <1>6, <1>7, <1>8, <1>9, <1>10, <1>11, <1>12, <1>13 DEF Next, Gone

LEMMA AccountedNext ==
  ASSUME Parted(Queue', Impls(foreign)', Impls(swapped)', AtEnd', over', made'),
         \A e, f \in events' : e.impl = f.impl => e = f,
         OnceImpl(foreign)', OnceImpl(swapped)', Once(destroyEvents)'
  PROVE  Accounted'
BY DEF Accounted, Parted

LEMMA AccountedInit == Init => Accounted
<1> SUFFICES ASSUME Init PROVE Accounted
  OBVIOUS
<1>1. /\ Queue = {} /\ Impls(foreign) = {} /\ Impls(swapped) = {} /\ AtEnd = {} /\ over = {}
      /\ OnceImpl(foreign) /\ OnceImpl(swapped) /\ Once(destroyEvents)
  BY EmptyList DEF Init, Queue, AtEnd, Elements
<1>2. 1 .. made = {}
  BY DEF Init
<1> QED
  BY <1>1, <1>2 DEF Accounted, Init

LEMMA AccountedStep == SimulatorInv /\ [Next]_vars => Accounted'
<1> SUFFICES ASSUME SimulatorInv, [Next]_vars PROVE Accounted'
  OBVIOUS
<1> DEFINE a == Queue
           b == Impls(foreign)
           c == Impls(swapped)
           d == AtEnd
<1>a. TypeOK /\ Accounted /\ (pc # "insert" => swapped = << >>)
  BY DEF SimulatorInv
<1>b. /\ Parted(a, b, c, d, over, made)
      /\ \A e, f \in events : e.impl = f.impl => e = f
      /\ OnceImpl(foreign) /\ OnceImpl(swapped) /\ Once(destroyEvents)
  BY <1>a, AccountedParted
<1>c. /\ made \in Nat /\ foreign \in Seq(HandedIn) /\ swapped \in Seq(HandedIn)
      /\ destroyEvents \in Seq(Nat)
  BY <1>a DEF TypeOK
<1>d. /\ made + 1 \notin a \cup b \cup c \cup d \cup over
      /\ Parted(a \cup {made + 1}, b, c, d, over, made + 1)
      /\ Parted(a, b \cup {made + 1}, c, d, over, made + 1)
      /\ Parted(a, b, c, d \cup {made + 1}, over, made + 1)
  BY <1>b, <1>c, PartedNew
<1>e. UNCHANGED events => Queue' = a
  BY DEF Queue
<1>f. UNCHANGED foreign => b' = b
  BY DEF Impls
<1>g. UNCHANGED swapped => c' = c
  BY DEF Impls
<1>h. d = Elements(destroyEvents) /\ (UNCHANGED destroyEvents => d' = d)
  BY DEF AtEnd, Elements
<1>i. /\ UNCHANGED foreign => OnceImpl(foreign)'
      /\ UNCHANGED swapped => OnceImpl(swapped)'
      /\ UNCHANGED destroyEvents => Once(destroyEvents)'
  BY <1>b DEF OnceImpl, Once
<1> HIDE DEF a, b, c, d
<1>1. ASSUME UNCHANGED <<events, foreign, swapped, destroyEvents, over, made>> PROVE Accounted'
  BY <1>1, <1>b, <1>e, <1>f, <1>g, <1>h, <1>i, AccountedNext DEF a, b, c, d
<1>2. ASSUME NEW delay \in Delays, NEW return \in BOOLEAN, Schedule(delay, return)
      PROVE  Accounted'
  <2> DEFINE event == [ts |-> now + delay, uid |-> uid, impl |-> Impl]
  <2>1. event.impl = made + 1
    BY DEF Impl
  <2>2. /\ events' = events \cup {event} /\ made' = made + 1
        /\ UNCHANGED <<foreign, swapped, destroyEvents, over>>
    BY <1>2 DEF Schedule, New, Impl, lists
  <2> HIDE DEF event
  <2>3. Queue' = a \cup {made + 1}
    BY <2>1, <2>2 DEF Queue, a
  <2>4. \A e \in events : e.impl # event.impl
    BY <1>d, <2>1 DEF Queue, a
  <2>5. \A e, f \in events' : e.impl = f.impl => e = f
    BY <1>b, <2>2, <2>4
  <2> QED
    BY <1>d, <1>f, <1>g, <1>h, <1>i, <2>2, <2>3, <2>5, AccountedNext DEF b, c, d
<1>3. CASE ScheduleDestroy
  <2>1. /\ destroyEvents' = Append(destroyEvents, made + 1) /\ made' = made + 1
        /\ UNCHANGED <<events, foreign, swapped, over>>
    BY <1>3 DEF ScheduleDestroy, New, Impl, lists
  <2>2. made + 1 \in Nat /\ made + 1 \notin Elements(destroyEvents)
    BY <1>c, <1>d, <1>h
  <2>3. /\ Elements(Append(destroyEvents, made + 1)) = Elements(destroyEvents) \cup {made + 1}
        /\ Once(Append(destroyEvents, made + 1))
    BY <1>b, <1>c, <2>2, AppendOnce
  <2>4. AtEnd' = d \cup {made + 1} /\ Once(destroyEvents)'
    BY <1>h, <2>1, <2>3 DEF AtEnd, Elements, Once
  <2> QED
    BY <1>b, <1>d, <1>e, <1>f, <1>g, <1>i, <2>1, <2>4, AccountedNext DEF b, c
<1>4. ASSUME NEW delay \in Delays, ForeignSchedule(delay) PROVE Accounted'
  <2> DEFINE x == [delay |-> delay, impl |-> made + 1]
  <2>1. /\ foreign' = Append(foreign, x) /\ made' = made + 1
        /\ UNCHANGED <<events, swapped, destroyEvents, over>>
    BY <1>4 DEF ForeignSchedule, New, Impl
  <2>2. made + 1 \in Nat /\ delay \in Nat
    BY <1>c, Constants
  <2>3. x \in HandedIn /\ x.impl = made + 1 /\ x.impl \notin Impls(foreign)
    BY <1>d, <2>2 DEF HandedIn, b
  <2> HIDE DEF x
  <2>4. /\ Impls(Append(foreign, x)) = Impls(foreign) \cup {made + 1}
        /\ OnceImpl(Append(foreign, x))
    BY <1>b, <1>c, <2>3, AppendImpls
  <2>5. Impls(foreign)' = b \cup {made + 1} /\ OnceImpl(foreign)'
    BY <2>1, <2>4 DEF b, Impls, OnceImpl
  <2> QED
    BY <1>b, <1>d, <1>e, <1>g, <1>h, <1>i, <2>1, <2>5, AccountedNext DEF c, d
<1>5. ASSUME NEW e \in events, events' = events \ {e}, over' = over \cup {e.impl},
             UNCHANGED <<foreign, swapped, destroyEvents, made>>
      PROVE  Accounted'
  <2>1. Queue' = a \ {e.impl} /\ e.impl \in a
    BY <1>5, <1>b DEF Queue, a
  <2>2. Parted(a \ {e.impl}, b, c, d, over \cup {e.impl}, made)
    BY <1>b, <2>1, PartedOver
  <2> QED
    BY <1>5, <1>b, <1>f, <1>g, <1>h, <1>i, <2>1, <2>2, AccountedNext DEF b, c, d
<1>6. ASSUME NEW id \in ids, Remove(id) PROVE Accounted'
  <2>1. id.uid # DestroyUid /\ ~ IsExpired(id) /\ pc # "disposed"
    BY <1>6 DEF Remove, Calls
  <2>2. id \in events
    BY <2>1 DEF SimulatorInv, IdTrue, IsExpired
  <2> QED
    BY <1>5, <1>6, <2>2 DEF Remove, lists
<1>7. CASE ProcessOneEvent
  <2>1. PICK e \in events : events' = events \ {e} /\ over' = over \cup {e.impl}
    BY <1>7 DEF ProcessOneEvent
  <2> QED
    BY <1>5, <1>7, <2>1 DEF ProcessOneEvent, lists
<1>8. ASSUME NEW list, list \in Seq(Nat), NEW x, x \in Elements(destroyEvents),
             Elements(list) = Elements(destroyEvents) \ {x}, Once(list),
             destroyEvents' = list, over' = over \cup {x},
             UNCHANGED <<events, foreign, swapped, made>>
      PROVE  Accounted'
  <2>1. AtEnd' = d \ {x} /\ Once(destroyEvents)' /\ x \in d
    BY <1>8, <1>h DEF AtEnd, Elements, Once
  <2>2. Parted(a, b, c, d \ {x}, over \cup {x}, made)
    BY <1>b, <2>1, PartedOver
  <2> QED
    BY <1>8, <1>b, <1>e, <1>f, <1>g, <1>i, <2>1, <2>2, AccountedNext DEF b, c
<1>9. ASSUME NEW id \in ids, RemoveDestroy(id) PROVE Accounted'
  <2>1. PICK k \in DOMAIN destroyEvents :
          destroyEvents[k] = id.impl /\ destroyEvents' = Without(destroyEvents, k)
    BY <1>9 DEF RemoveDestroy
  <2>2. /\ over' = over \cup {id.impl}
        /\ UNCHANGED <<events, foreign, swapped, made>>
    BY <1>9 DEF RemoveDestroy, lists
  <2>3. id.impl \in Elements(destroyEvents)
    BY <2>1 DEF Elements
  <2>4. /\ Without(destroyEvents, k) \in Seq(Nat) /\ Once(Without(destroyEvents, k))
        /\ Elements(Without(destroyEvents, k)) = Elements(destroyEvents) \ {id.impl}
    BY <1>b, <1>c, <2>1, WithoutList
  <2> QED
    BY <1>8, <2>1, <2>2, <2>3, <2>4
<1>10. CASE DestroyNext
  <2>1. /\ destroyEvents # << >> /\ destroyEvents' = Tail(destroyEvents)
        /\ over' = over \cup {Head(destroyEvents)}
        /\ UNCHANGED <<events, foreign, swapped, made>>
    BY <1>10 DEF DestroyNext, lists
  <2>2. /\ 1 \in DOMAIN destroyEvents /\ Head(destroyEvents) = destroyEvents[1]
        /\ Tail(destroyEvents) \in Seq(Nat) /\ Once(Tail(destroyEvents))
        /\ Elements(Tail(destroyEvents)) = Elements(destroyEvents) \ {destroyEvents[1]}
    BY <1>b, <1>c, <2>1, TailList
  <2>3. destroyEvents[1] \in Elements(destroyEvents)
    BY <2>2 DEF Elements
  <2> QED
    BY <1>8, <2>1, <2>2, <2>3
<1>11. CASE Swap
  <2>1. /\ swapped' = foreign /\ foreign' = << >> /\ swapped = << >>
        /\ UNCHANGED <<events, destroyEvents, over, made>>
    BY <1>11, <1>a DEF Swap
  <2>2. /\ Impls(foreign)' = {} /\ Impls(swapped)' = b /\ c = {}
        /\ OnceImpl(foreign)' /\ OnceImpl(swapped)'
    BY <1>b, <2>1, EmptyList DEF b, c, Impls, OnceImpl
  <2>3. Parted(a, {}, b, d, over, made)
    BY <1>b, <2>2, PartedMoves
  <2> QED
    BY <1>b, <1>e, <1>h, <1>i, <2>1, <2>2, <2>3, AccountedNext DEF d
<1>12. CASE Insert
  <2>1. /\ events' = events \cup Arrivals /\ swapped' = << >>
        /\ UNCHANGED <<foreign, destroyEvents, over, made>>
    BY <1>12 DEF Insert
  <2>2. /\ {e.impl : e \in Arrivals} = c
        /\ \A e, f \in Arrivals : e.impl = f.impl => e = f
    BY <1>a, <1>b, ArrivalFacts DEF c
  <2>3. Queue' = a \cup c
    BY <2>1, <2>2 DEF Queue, a
  <2>4. \A e \in events : \A f \in Arrivals : e.impl # f.impl
    BY <1>b, <2>2 DEF Parted, Queue, a
  <2>5. \A e, f \in events' : e.impl = f.impl => e = f
    BY <1>b, <2>1, <2>2, <2>4
  <2>6. Impls(swapped)' = {} /\ OnceImpl(swapped)'
    BY <2>1, EmptyList DEF Impls, OnceImpl
  <2>7. Parted(a \cup c, b, {}, d, over, made)
    BY <1>b, PartedMoves
  <2> QED
    BY <1>f, <1>h, <1>i, <2>1, <2>3, <2>5, <2>6, <2>7, AccountedNext DEF b, d
<1>13. CASE Dispose
  <2>1. /\ events' = {} /\ foreign' = << >> /\ swapped' = << >> /\ destroyEvents' = << >>
        /\ over' = 1 .. made /\ made' = made
    BY <1>13, <1>a DEF Dispose
  <2>2. /\ Queue' = {} /\ Impls(foreign)' = {} /\ Impls(swapped)' = {} /\ AtEnd' = {}
        /\ OnceImpl(foreign)' /\ OnceImpl(swapped)' /\ Once(destroyEvents)'
    BY <2>1, EmptyList DEF Queue, AtEnd, Elements, Impls, OnceImpl, Once
  <2>3. Parted({}, {}, {}, {}, 1 .. made, made)
    BY <1>b, PartedMoves
  <2> QED
    BY <2>1, <2>2, <2>3, AccountedNext
<1>14. CASE \E id \in ids : Cancel(id)
  BY <1>1, <1>14 DEF Cancel, lists
<1>15. CASE Stop \/ Run \/ Return \/ Skip \/ Destroy \/ DestroyReturn
  BY <1>1, <1>15 DEF Stop, Run, Return, Skip, Destroy, DestroyReturn, lists
<1>16. CASE Leave
  BY <1>1, <1>16 DEF Leave, lists
<1>17. CASE UNCHANGED vars
  BY <1>1, <1>17 DEF vars, lists
<1> QED
  BY <1>2, <1>3, <1>4, <1>6, <1>7, <1>9, <1>10, <1>11, <1>12, <1>13, <1>14, <1>15, <1>16,
     <1>17 DEF Next, Gone

(* What keeps an identifier true. *)
LEMMA IdStays ==
  ASSUME NEW id, IdTrue(id), 1 .. made \subseteq 1 .. made',
         \A x \in Impls(foreign)' \cup Impls(swapped)' :
           x \in Impls(foreign) \cup Impls(swapped) \/ x \notin 1 .. made,
         \A e \in events' : \/ e \in events
                           \/ e.impl \in Impls(swapped) \/ e.impl \notin 1 .. made,
         \A x \in AtEnd' : x \in AtEnd \/ x \notin 1 .. made,
         id \in events => \/ id \in events' \/ HasPassed(id, now', current')
                         \/ id.impl \in cancelled',
         HasPassed(id, now, current) => HasPassed(id, now', current'),
         cancelled \subseteq cancelled'
  PROVE  IdTrue(id)'
<1>1. /\ id.impl \in 1 .. made /\ id.impl \notin Impls(foreign) \cup Impls(swapped)
      /\ id.uid = DestroyUid => id.impl \notin Queue
      /\ id.uid # DestroyUid =>
           /\ id.impl \notin AtEnd
           /\ id \in events \/ HasPassed(id, now, current) \/ id.impl \in cancelled
           /\ \A e \in events : e.impl = id.impl => e = id
  BY DEF IdTrue
<1>2. id.impl \in 1 .. made' /\ id.impl \notin Impls(foreign)' \cup Impls(swapped)'
  BY <1>1
<1>3. \A e \in events' : e.impl = id.impl => e \in events
  BY <1>1
<1>4. id.uid = DestroyUid => id.impl \notin Queue'
  BY <1>1, <1>3 DEF Queue
<1>5. ASSUME id.uid # DestroyUid
      PROVE  /\ id.impl \notin AtEnd'
             /\ id \in events' \/ HasPassed(id, now', current') \/ id.impl \in cancelled'
             /\ \A e \in events' : e.impl = id.impl => e = id
  <2>1. id.impl \notin AtEnd'
    BY <1>1, <1>5
  <2>2. id \in events' \/ HasPassed(id, now', current') \/ id.impl \in cancelled'
    BY <1>1, <1>5
  <2>3. \A e \in events' : e.impl = id.impl => e = id
    BY <1>1, <1>3, <1>5
  <2> QED
    BY <2>1, <2>2, <2>3
<1> QED
  BY <1>2, <1>4, <1>5 DEF IdTrue

Ids == pc # "disposed" => \A id \in ids : IdTrue(id)

LEMMA IdsStep == SimulatorInv /\ [Next]_vars => Ids'
<1> SUFFICES ASSUME SimulatorInv, [Next]_vars PROVE Ids'
  OBVIOUS
<1>a. TypeOK /\ Accounted /\ Ordered /\ (pc # "insert" => swapped = << >>)
  BY DEF SimulatorInv
<1>b. pc # "disposed" => \A id \in ids : IdTrue(id)
  BY DEF SimulatorInv
<1>c. /\ made \in Nat /\ destroyEvents \in Seq(Nat) /\ foreign \in Seq(HandedIn)
      /\ made + 1 \notin 1 .. made /\ 1 .. made \subseteq 1 .. made + 1
      /\ made + 1 \in 1 .. made + 1
  <2>1. made \in Nat /\ destroyEvents \in Seq(Nat) /\ foreign \in Seq(HandedIn)
    BY <1>a DEF TypeOK
  <2>2. /\ made + 1 \notin 1 .. made /\ 1 .. made \subseteq 1 .. made + 1
        /\ made + 1 \in 1 .. made + 1
    BY <2>1
  <2> QED
    BY <2>1, <2>2
<1>d. /\ Queue \subseteq 1 .. made /\ Impls(foreign) \subseteq 1 .. made
      /\ Impls(swapped) \subseteq 1 .. made /\ AtEnd \subseteq 1 .. made
      /\ OnceImpl(foreign) /\ OnceImpl(swapped) /\ Once(destroyEvents)
  BY <1>a DEF Accounted
<1>e. /\ UNCHANGED <<foreign, swapped>> =>
           Impls(foreign)' = Impls(foreign) /\ Impls(swapped)' = Impls(swapped)
      /\ UNCHANGED destroyEvents => AtEnd' = AtEnd
  BY DEF Impls, AtEnd
<1>1. ASSUME pc # "disposed", ids' = ids, events' \subseteq events,
             \A id \in ids : id \in events => id \in events' \/ id.impl \in cancelled',
             \A x \in Impls(foreign)' \cup Impls(swapped)' :
               x \in Impls(foreign) \cup Impls(swapped) \/ x \notin 1 .. made,
             AtEnd' \subseteq AtEnd, UNCHANGED <<now, current>>,
             1 .. made \subseteq 1 .. made', cancelled \subseteq cancelled'
      PROVE  Ids'
  <2>1. ASSUME NEW id \in ids PROVE IdTrue(id)'
    BY <1>1, <1>b, <2>1, IdStays
  <2> QED
    BY <1>1, <2>1 DEF Ids
<1>2. ASSUME pc # "disposed",
             UNCHANGED <<ids, events, foreign, swapped, destroyEvents, now, current, made>>,
             cancelled \subseteq cancelled'
      PROVE  Ids'
  BY <1>1, <1>2, <1>e
<1>3. ASSUME NEW delay \in Delays, NEW return \in BOOLEAN, Schedule(delay, return) PROVE Ids'
  <2>0. PICK event : event = [ts |-> now + delay, uid |-> uid, impl |-> Impl]
    OBVIOUS
  <2>1. /\ events' = events \cup {event} /\ ids' \subseteq ids \cup {event}
        /\ made' = made + 1 /\ pc # "disposed"
        /\ UNCHANGED <<foreign, swapped, destroyEvents, cancelled, now, current>>
    BY <1>3, <2>0 DEF Schedule, New, Impl, Calls, clock, lists
  <2>2. event.impl = made + 1 /\ event.uid = uid
    BY <2>0 DEF Impl
  <2>3. uid # DestroyUid
    <3>1. uid \in Nat /\ FirstUid <= uid
      BY <1>a DEF TypeOK, Ordered
    <3> QED
      BY <3>1, Constants
  <2>4. IdTrue(event)'
    <3>1. /\ event.impl \in 1 .. made'
          /\ event.impl \notin Impls(foreign)' \cup Impls(swapped)' /\ event.impl \notin AtEnd'
      BY <1>c, <1>d, <1>e, <2>1, <2>2
    <3>2. \A e \in events' : e.impl = event.impl => e = event
      BY <1>c, <1>d, <2>1, <2>2 DEF Queue
    <3>3. event \in events' /\ event.uid # DestroyUid
      BY <2>1, <2>2, <2>3
    <3> QED
      BY <3>1, <3>2, <3>3 DEF IdTrue
  <2>5. ASSUME NEW id \in ids PROVE IdTrue(id)'
    <3>1. IdTrue(id)
      BY <1>b, <2>1
    <3>2. \A e \in events' : e \in events \/ e.impl \notin 1 .. made
      BY <1>c, <2>1, <2>2
    <3> QED
      BY <1>c, <1>e, <2>1, <3>1, <3>2, IdStays
  <2> QED
    BY <2>1, <2>4, <2>5 DEF Ids
<1>4. CASE ScheduleDestroy
  <2>0. PICK new : new = [ts |-> now, uid |-> DestroyUid, impl |-> Impl]
    OBVIOUS
  <2>1. /\ destroyEvents' = Append(destroyEvents, made + 1) /\ ids' = ids \cup {new}
        /\ made' = made + 1 /\ pc # "disposed"
        /\ UNCHANGED <<events, foreign, swapped, cancelled, now, current>>
    BY <1>4, <2>0 DEF ScheduleDestroy, New, Impl, Calls, clock, lists
  <2>2. new.impl = made + 1 /\ new.uid = DestroyUid
    BY <2>0 DEF Impl
  <2>3. AtEnd' = AtEnd \cup {made + 1}
    <3>1. made + 1 \in Nat /\ made + 1 \notin Elements(destroyEvents)
      <4>1. AtEnd = Elements(destroyEvents)
        BY DEF AtEnd, Elements
      <4> QED
        BY <1>c, <1>d, <4>1
    <3>2. Elements(Append(destroyEvents, made + 1)) = Elements(destroyEvents) \cup {made + 1}
      BY <1>c, <1>d, <3>1, AppendOnce
    <3> QED
      BY <2>1, <3>2 DEF AtEnd, Elements
  <2>4. IdTrue(new)'
    <3>1. /\ new.impl \in 1 .. made'
          /\ new.impl \notin Impls(foreign)' \cup Impls(swapped)' /\ new.impl \notin Queue'
      BY <1>c, <1>d, <1>e, <2>1, <2>2 DEF Queue
    <3> QED
      BY <2>2, <3>1 DEF IdTrue
  <2>5. ASSUME NEW id \in ids PROVE IdTrue(id)'
    <3>1. IdTrue(id)
      BY <1>b, <2>1
    <3> QED
      BY <1>c, <1>e, <2>1, <2>3, <3>1, IdStays
  <2> QED
    BY <2>1, <2>4, <2>5 DEF Ids
<1>5. ASSUME NEW id \in ids, Cancel(id) PROVE Ids'
  BY <1>2, <1>5 DEF Cancel, Calls, clock, lists
<1>6. ASSUME NEW id \in ids, Remove(id) PROVE Ids'
  <2>1. /\ events' = events \ {id} /\ cancelled' = cancelled \cup {id.impl}
        /\ pc # "disposed"
        /\ UNCHANGED <<ids, foreign, swapped, destroyEvents, now, current, made>>
    BY <1>6 DEF Remove, Calls, clock, lists
  <2>2. \A i \in ids : i \in events => i \in events' \/ i.impl \in cancelled'
    BY <2>1
  <2> QED
    BY <1>1, <1>e, <2>1, <2>2
<1>7. ASSUME pc # "disposed", AtEnd' \subseteq AtEnd,
             UNCHANGED <<ids, events, foreign, swapped, now, current, made, cancelled>>
      PROVE  Ids'
  BY <1>1, <1>7, <1>e
<1>8. ASSUME NEW id \in ids, RemoveDestroy(id) PROVE Ids'
  <2>1. PICK k \in DOMAIN destroyEvents : destroyEvents' = Without(destroyEvents, k)
    BY <1>8 DEF RemoveDestroy
  <2>2. Elements(Without(destroyEvents, k)) = Elements(destroyEvents) \ {destroyEvents[k]}
    BY <1>c, <1>d, WithoutList
  <2>3. AtEnd' \subseteq AtEnd
    BY <2>1, <2>2 DEF AtEnd, Elements
  <2> QED
    BY <1>7, <1>8, <2>3 DEF RemoveDestroy, Calls, clock, lists
<1>9. CASE DestroyNext
  <2>1. destroyEvents # << >> /\ destroyEvents' = Tail(destroyEvents)
    BY <1>9 DEF DestroyNext
  <2>2. Elements(Tail(destroyEvents)) = Elements(destroyEvents) \ {destroyEvents[1]}
    BY <1>c, <1>d, <2>1, TailList
  <2>3. AtEnd' \subseteq AtEnd
    BY <2>1, <2>2 DEF AtEnd, Elements
  <2> QED
    BY <1>7, <1>9, <2>3 DEF DestroyNext, clock, lists
<1>10. ASSUME NEW delay \in Delays, ForeignSchedule(delay) PROVE Ids'
  <2> DEFINE x == [delay |-> delay, impl |-> made + 1]
  <2>1. /\ foreign' = Append(foreign, x) /\ made' = made + 1 /\ pc # "disposed"
        /\ UNCHANGED <<ids, events, swapped, destroyEvents, now, current, cancelled>>
    BY <1>10 DEF ForeignSchedule, New, Impl, clock
  <2>2. made + 1 \in Nat /\ delay \in Nat
    BY <1>c, Constants
  <2>3. x \in HandedIn /\ x.impl = made + 1 /\ x.impl \notin Impls(foreign)
    BY <1>c, <1>d, <2>2 DEF HandedIn
  <2> HIDE DEF x
  <2>4. Impls(Append(foreign, x)) = Impls(foreign) \cup {made + 1}
    BY <1>c, <1>d, <2>3, AppendImpls
  <2>5. Impls(foreign)' = Impls(foreign) \cup {made + 1} /\ Impls(swapped)' = Impls(swapped)
    BY <2>1, <2>4 DEF Impls
  <2>6. \A y \in Impls(foreign)' \cup Impls(swapped)' :
          y \in Impls(foreign) \cup Impls(swapped) \/ y \notin 1 .. made
    BY <1>c, <2>5
  <2> QED
    BY <1>1, <1>c, <1>e, <2>1, <2>6
<1>11. CASE Swap
  <2>1. /\ swapped' = foreign /\ foreign' = << >> /\ pc # "disposed"
        /\ UNCHANGED <<ids, events, destroyEvents, now, current, made, cancelled>>
    BY <1>11 DEF Swap, clock
  <2>2. Impls(foreign)' = {} /\ Impls(swapped)' = Impls(foreign)
    BY <2>1, EmptyList DEF Impls
  <2> QED
    BY <1>1, <1>e, <2>1, <2>2
<1>12. CASE Insert
  <2>1. /\ events' = events \cup Arrivals /\ swapped' = << >> /\ pc # "disposed"
        /\ UNCHANGED <<ids, foreign, destroyEvents, now, current, made, cancelled>>
    BY <1>12 DEF Insert, clock
  <2>2. Impls(foreign)' = Impls(foreign) /\ Impls(swapped)' = {}
    BY <2>1, EmptyList DEF Impls
  <2>3. \A e \in Arrivals : e.impl \in Impls(swapped)
    BY <1>a, <1>d, ArrivalFacts
  <2>4. ASSUME NEW id \in ids PROVE IdTrue(id)'
    <3>1. IdTrue(id)
      BY <1>b, <2>1
    <3>2. \A e \in events' : e \in events \/ e.impl \in Impls(swapped)
      BY <2>1, <2>3
    <3> QED
      BY <1>c, <1>e, <2>1, <2>2, <3>1, <3>2, IdStays
  <2> QED
    BY <2>1, <2>4 DEF Ids
<1>13. CASE ProcessOneEvent
  <2>1. PICK e \in events : events' = events \ {e} /\ now' = e.ts /\ current' = e.uid
    BY <1>13 DEF ProcessOneEvent
  <2>2. /\ pc # "disposed"
        /\ UNCHANGED <<ids, foreign, swapped, destroyEvents, made, cancelled>>
    BY <1>13 DEF ProcessOneEvent, lists
  <2>3. /\ ~ HasPassed(e, now, current)
        /\ now \in Nat /\ current \in Nat /\ e.ts \in Nat /\ e.uid \in Nat
    BY <1>a, EventFacts DEF Ordered, TypeOK
  <2>4. ASSUME NEW id \in ids PROVE IdTrue(id)'
    <3>1. IdTrue(id)
      BY <1>b, <2>2
    <3>2. id.ts \in Nat /\ id.uid \in Nat
      BY <1>a, EventFacts
    <3>3. HasPassed(id, now, current) => HasPassed(id, now', current')
      BY <2>1, <2>3, <3>2 DEF HasPassed
    <3>4. id \in events => id \in events' \/ HasPassed(id, now', current')
      BY <2>1, <2>3 DEF HasPassed
    <3> QED
      BY <1>c, <1>e, <2>1, <2>2, <3>1, <3>3, <3>4, IdStays
  <2> QED
    BY <2>2, <2>4 DEF Ids
<1>14. CASE Dispose
  BY <1>14 DEF Dispose, Ids
<1>15. CASE Stop
  BY <1>2, <1>15 DEF Stop, Calls, clock, lists
<1>16. CASE Run \/ Return \/ Skip \/ Leave \/ Destroy \/ DestroyReturn
  BY <1>2, <1>16 DEF Run, Return, Skip, Leave, Destroy, DestroyReturn, clock, lists
<1>17. CASE UNCHANGED vars
  <2>1. CASE pc = "disposed"
    BY <1>17, <2>1 DEF vars, Ids
  <2>2. CASE pc # "disposed"
    BY <1>2, <1>17, <2>2 DEF vars, clock, lists
  <2> QED
    BY <2>1, <2>2
<1> QED
  BY <1>3, <1>4, <1>5, <1>6, <1>8, <1>9, <1>10, <1>11, <1>12, <1>13, <1>14, <1>15, <1>16,
     <1>17 DEF Next, Gone

-----------------------------------------------------------------------------
(* Theorems.                                                                 *)

(* Behind the engine's assertions: none fails, every event is in one place,  *)
(* counted and still to come, and every identifier stands for its event.     *)
THEOREM SimulatorInvariant == Spec => []SimulatorInv
<1>1. Init => SimulatorInv
  <2> SUFFICES ASSUME Init PROVE SimulatorInv
    OBVIOUS
  <2>1. TypeOK /\ Accounted /\ Counted /\ Ordered /\ NoneHidden
    BY TypeInit, AccountedInit, CountedInit, OrderedInit, HiddenInit
  <2>2. NoFault /\ ids = {} /\ swapped = << >>
    BY DEF Init, NoFault
  <2> QED
    BY <2>1, <2>2 DEF SimulatorInv
<1>2. SimulatorInv /\ [Next]_vars => SimulatorInv'
  <2> SUFFICES ASSUME SimulatorInv, [Next]_vars PROVE SimulatorInv'
    OBVIOUS
  <2>1. /\ TypeOK' /\ NoFault' /\ Accounted' /\ Counted' /\ Ordered' /\ NoneHidden' /\ Ids'
        /\ pc' # "insert" => swapped' = << >>
    BY TypeStep, FaultStep, AccountedStep, CountedStep, OrderedStep, HiddenStep, IdsStep,
       SwappedStep
  <2> QED
    BY <2>1 DEF SimulatorInv, Ids
<1> QED
  BY <1>1, <1>2, PTL DEF Spec

(* IsExpired, which compares an identifier with the clock, says which events *)
(* are still to run.                                                         *)
THEOREM SimulatorExpired == Spec => []ExpiredIsOver
<1>1. SimulatorInv => ExpiredIsOver
  <2> SUFFICES ASSUME SimulatorInv, pc # "disposed", NEW id \in ids
               PROVE  IsExpired(id) <=>
                        ~ (id.impl \in Queue \/ Pending(id.impl)) \/ id.impl \in cancelled
    BY DEF ExpiredIsOver
  <2>1. IdTrue(id) /\ Ordered
    BY DEF SimulatorInv
  <2>2. Pending(id.impl) <=> id.impl \in AtEnd
    BY DEF Pending, AtEnd
  <2>3. CASE id.uid = DestroyUid
    BY <2>1, <2>3 DEF IdTrue, IsExpired
  <2>4. CASE id.uid # DestroyUid
    <3>1. ~ Pending(id.impl)
      BY <2>1, <2>2, <2>4 DEF IdTrue
    <3>2. id.impl \in Queue <=> id \in events
      BY <2>1, <2>4 DEF IdTrue, Queue
    <3>3. id \in events => ~ HasPassed(id, now, current)
      BY <2>1 DEF Ordered
    <3>4. id \in events \/ HasPassed(id, now, current) \/ id.impl \in cancelled
      BY <2>1, <2>4 DEF IdTrue
    <3> QED
      BY <2>4, <3>1, <3>2, <3>3, <3>4 DEF IsExpired
  <2> QED
    BY <2>3, <2>4
<1> QED
  BY <1>1, SimulatorInvariant, PTL

-----------------------------------------------------------------------------
(* The engine's promises.                                                    *)

KeyOf(e) == [ts |-> e.ts, uid |-> e.uid]

LEMMA RefineInit == Init => Engine!Init
<1> SUFFICES ASSUME Init PROVE Engine!Init
  OBVIOUS
<1>1. Keys = {}
  BY DEF Init, Keys
<1>2. now = 0 /\ current = 0 /\ uid \in Nat \ {0}
  BY Constants DEF Init
<1> QED
  BY <1>1, <1>2 DEF Engine!Init

(* A step may take events out of the queue and put in events still to come. *)
LEMMA RefineRescheduled ==
  ASSUME TypeOK', Ordered', uid' >= uid, NEW base,
         \A e \in events' \ base : e.ts >= now' /\ uid <= e.uid /\ e.uid < uid'
  PROVE  Engine!Rescheduled({KeyOf(e) : e \in base})
<1>1. \A k \in Keys' : \E e \in events' : k = KeyOf(e)
  BY DEF Keys, KeyOf
<1>2. /\ uid' \in Nat
      /\ \A e \in events' : e.ts \in Nat /\ e.uid \in Nat
  <2>1. uid' \in Nat /\ events' \subseteq Event
    BY DEF TypeOK
  <2> QED
    BY <2>1 DEF Event
<1>3. Keys' \subseteq Engine!Key
  BY <1>1, <1>2 DEF KeyOf, Engine!Key
<1>4. ASSUME NEW k \in Keys' \ {KeyOf(e) : e \in base}
      PROVE  k.ts >= now' /\ uid <= k.uid /\ k.uid < uid'
  <2>1. PICK e \in events' : k = KeyOf(e)
    BY <1>1
  <2>2. e \notin base
    BY <1>4, <2>1
  <2> QED
    BY <2>1, <2>2 DEF KeyOf
<1>5. \A j, k \in Keys' : j.uid = k.uid => j = k
  BY <1>1 DEF Ordered, KeyOf
<1> QED
  BY <1>2, <1>3, <1>4, <1>5 DEF Engine!Rescheduled

LEMMA RefineRun ==
  ASSUME SimulatorInv, SimulatorInv', ProcessOneEvent PROVE Engine!Run
<1>1. PICK e \in events : /\ IsNext(e, events)
                          /\ events' = events \ {e}
                          /\ now' = e.ts /\ current' = e.uid
  BY DEF ProcessOneEvent
<1>2. TypeOK' /\ Ordered /\ Ordered' /\ uid \in Nat /\ uid' = uid
  BY DEF ProcessOneEvent, SimulatorInv, TypeOK
<1>3. KeyOf(e) \in Keys /\ KeyOf(e).ts = e.ts /\ KeyOf(e).uid = e.uid
  BY DEF Keys, KeyOf
<1>4. Keys \ {KeyOf(e)} = {KeyOf(f) : f \in events \ {e}}
  <2>1. \A f \in events : KeyOf(f) = KeyOf(e) => f = e
    BY <1>2 DEF KeyOf, Ordered
  <2> QED
    BY <2>1 DEF Keys, KeyOf
<1>5. Engine!IsNext(KeyOf(e), Keys)
  <2>1. ASSUME NEW j \in Keys \ {KeyOf(e)} PROVE Engine!Before(KeyOf(e), j)
    <3>1. PICK f \in events \ {e} : j = KeyOf(f)
      BY <1>4, <2>1
    <3>2. Before(e, f)
      BY <1>1 DEF IsNext
    <3> QED
      BY <3>1, <3>2 DEF Before, Engine!Before, KeyOf
  <2> QED
    BY <1>3, <2>1 DEF Engine!IsNext
<1>6. Engine!Rescheduled({KeyOf(f) : f \in events \ {e}})
  BY <1>1, <1>2, RefineRescheduled
<1> QED
  BY <1>1, <1>3, <1>4, <1>5, <1>6 DEF Engine!Run

LEMMA RefineStep == SimulatorInv /\ SimulatorInv' /\ [Next]_vars => [Engine!Next]_Engine!vars
<1> SUFFICES ASSUME SimulatorInv, SimulatorInv', [Next]_vars PROVE [Engine!Next]_Engine!vars
  OBVIOUS
<1>a. /\ TypeOK /\ Accounted /\ TypeOK' /\ Ordered' /\ Keys = {KeyOf(e) : e \in events}
      /\ uid \in Nat /\ now \in Nat
  BY DEF SimulatorInv, TypeOK, Keys, KeyOf
<1>1. ASSUME uid' >= uid, UNCHANGED <<now, current>>,
             \A e \in events' \ events : e.ts >= now /\ uid <= e.uid /\ e.uid < uid'
      PROVE  Engine!Next
  <2>1. Engine!Rescheduled(Keys)
    BY <1>1, <1>a, RefineRescheduled
  <2> QED
    BY <1>1, <2>1 DEF Engine!Next, Engine!Plan
<1>2. ASSUME NEW delay \in Delays, NEW return \in BOOLEAN, Schedule(delay, return)
      PROVE  Engine!Next
  <2>1. /\ events' = events \cup {[ts |-> now + delay, uid |-> uid, impl |-> Impl]}
        /\ uid' = uid + 1 /\ UNCHANGED <<now, current>>
    BY <1>2 DEF Schedule, clock
  <2>2. uid' >= uid /\ uid < uid' /\ now + delay >= now /\ uid <= uid
    BY <1>a, <2>1, Constants
  <2>3. \A e \in events' \ events : e.ts = now + delay /\ e.uid = uid
    BY <2>1
  <2> QED
    BY <1>1, <2>1, <2>2, <2>3
<1>3. CASE Insert
  <2>1. /\ Len(swapped) \in Nat
        /\ \A e \in Arrivals : e.ts >= now /\ uid <= e.uid /\ e.uid < uid + Len(swapped)
    BY <1>a, ArrivalFacts DEF Accounted
  <2>2. events' = events \cup Arrivals /\ uid' = uid + Len(swapped) /\ UNCHANGED <<now, current>>
    BY <1>3 DEF Insert, clock
  <2>3. uid' >= uid
    BY <1>a, <2>1, <2>2
  <2> QED
    BY <1>1, <2>1, <2>2, <2>3
<1>4. CASE ProcessOneEvent
  BY <1>4, RefineRun DEF Engine!Next
<1>5. ASSUME events' \subseteq events, uid' >= uid, UNCHANGED <<now, current>>
      PROVE  Engine!Next
  BY <1>1, <1>5
<1>6. CASE Dispose
  <2>1. Len(foreign) \in Nat
    BY <1>a, LenProperties DEF TypeOK
  <2>2. events' = {} /\ uid' = uid + Len(foreign) /\ UNCHANGED <<now, current>>
    BY <1>6 DEF Dispose, clock
  <2>3. uid' >= uid
    BY <1>a, <2>1, <2>2
  <2> QED
    BY <1>5, <2>2, <2>3
<1>7. CASE ScheduleDestroy
  <2>1. events' = events /\ uid' = uid + 1 /\ UNCHANGED <<now, current>>
    BY <1>7 DEF ScheduleDestroy, clock
  <2>2. uid' >= uid
    BY <1>a, <2>1
  <2> QED
    BY <1>5, <2>1, <2>2
<1>8. ASSUME events' \subseteq events, UNCHANGED <<uid, now, current>> PROVE Engine!Next
  <2>1. uid' >= uid
    BY <1>8, <1>a
  <2> QED
    BY <1>5, <1>8, <2>1
<1>9. CASE \E d \in Delays : ForeignSchedule(d)
  BY <1>8, <1>9 DEF ForeignSchedule, clock
<1>10. CASE \E id \in ids : Cancel(id) \/ Remove(id) \/ RemoveDestroy(id)
  BY <1>8, <1>10 DEF Cancel, Remove, RemoveDestroy, clock
<1>11. CASE Stop \/ Run \/ Return \/ Skip \/ Destroy \/ DestroyReturn
  BY <1>8, <1>11 DEF Stop, Run, Return, Skip, Destroy, DestroyReturn, clock
<1>12. CASE Swap \/ Leave \/ DestroyNext
  BY <1>8, <1>12 DEF Swap, Leave, DestroyNext, clock
<1>13. CASE UNCHANGED vars
  BY <1>8, <1>13 DEF vars, clock
<1> QED
  BY <1>2, <1>3, <1>4, <1>6, <1>7, <1>9, <1>10, <1>11, <1>12, <1>13 DEF Next, Gone

(* The engine keeps the promises that the swarm relies on: events run in the *)
(* order of their keys, and nothing comes in before the event being run.     *)
THEOREM SimulatorImplementsEngine == Spec => EngineSpec
BY RefineInit, RefineStep, SimulatorInvariant, PTL DEF Spec, EngineSpec, Engine!Spec

-----------------------------------------------------------------------------
(* What the promises are worth, for any engine that keeps them: one that     *)
(* only ever takes the first key of its queue, and hands out increasing      *)
(* uids, runs events in order whatever their handlers schedule.              *)

VARIABLES
  keys,     \* keys of the pending events
  time,     \* time stamp of the event last run
  running,  \* uid of the event last run
  fresh     \* next uid to hand out

Promise == INSTANCE EventEngine
           WITH queue <- keys, now <- time, current <- running, uid <- fresh

(* The inductive invariant: the promise itself is enough. *)
PromiseInv == Promise!TypeOK /\ Promise!NothingOverdue

(* A key that comes after the event being run has not passed. *)
LEMMA LaterNotPassed ==
  ASSUME NEW k \in Promise!Key, NEW f \in Promise!Key, Promise!Before(k, f)
  PROVE  ~ Promise!HasPassed(f, k.ts, k.uid)
BY DEF Promise!Key, Promise!Before, Promise!HasPassed

LEMMA EngineInit == Promise!Init => PromiseInv
BY DEF Promise!Init, PromiseInv, Promise!TypeOK, Promise!NothingOverdue, Promise!HasPassed,
     Promise!Key

(* Running the next event leaves only later keys behind, and what it         *)
(* schedules gets a later uid.                                               *)
LEMMA EngineRun ==
  ASSUME PromiseInv, Promise!Run
  PROVE  PromiseInv' /\ Promise!Advances
<1>1. PICK k \in keys : /\ Promise!IsNext(k, keys)
                        /\ time' = k.ts
                        /\ running' = k.uid
                        /\ Promise!Rescheduled(keys \ {k})
  BY DEF Promise!Run
<1>2. k \in Promise!Key /\ time' \in Nat /\ running' \in Nat
  BY <1>1 DEF PromiseInv, Promise!TypeOK, Promise!Key
<1>3. fresh' \in Nat /\ keys' \subseteq Promise!Key
  BY <1>1 DEF Promise!Rescheduled
<1>4. running' < fresh'
  BY <1>1, <1>2 DEF PromiseInv, Promise!TypeOK, Promise!NothingOverdue, Promise!Rescheduled
<1>5. ASSUME NEW f \in keys'
      PROVE  ~ Promise!HasPassed(f, time', running') /\ f.uid < fresh'
  <2>1. CASE f \in keys \ {k}
    <3>1. Promise!Before(k, f)
      BY <1>1, <2>1 DEF Promise!IsNext
    <3>2. ~ Promise!HasPassed(f, k.ts, k.uid)
      BY <1>2, <1>3, <3>1, LaterNotPassed
    <3>3. f.uid < fresh
      BY <2>1 DEF PromiseInv, Promise!NothingOverdue
    <3> QED
      BY <1>1, <1>3, <3>2, <3>3 DEF Promise!Rescheduled, PromiseInv, Promise!TypeOK, Promise!Key
  <2>2. CASE f \notin keys \ {k}
    <3>1. f.ts >= time' /\ fresh <= f.uid /\ f.uid < fresh'
      BY <1>1, <2>2 DEF Promise!Rescheduled
    <3>2. k.uid < fresh
      BY <1>1 DEF PromiseInv, Promise!NothingOverdue
    <3> QED
      BY <1>1, <1>2, <1>3, <3>1, <3>2 DEF Promise!HasPassed, PromiseInv, Promise!TypeOK,
           Promise!Key
  <2> QED
    BY <2>1, <2>2
<1>6. Promise!Advances
  BY <1>1, <1>2 DEF PromiseInv, Promise!TypeOK, Promise!NothingOverdue, Promise!HasPassed,
       Promise!Advances, Promise!Key
<1> QED
  BY <1>2, <1>3, <1>4, <1>5, <1>6 DEF PromiseInv, Promise!TypeOK, Promise!NothingOverdue

(* Scheduling and cancelling between events. *)
LEMMA EnginePlan ==
  ASSUME PromiseInv, Promise!Plan
  PROVE  PromiseInv' /\ Promise!Advances
<1>1. time' = time /\ running' = running /\ Promise!Rescheduled(keys)
  BY DEF Promise!Plan
<1>2. Promise!TypeOK'
  BY <1>1 DEF Promise!Rescheduled, PromiseInv, Promise!TypeOK
<1>3. ASSUME NEW f \in keys'
      PROVE  ~ Promise!HasPassed(f, time', running') /\ f.uid < fresh'
  BY <1>1, <1>2 DEF Promise!Rescheduled, PromiseInv, Promise!TypeOK,
       Promise!NothingOverdue, Promise!HasPassed, Promise!Key
<1>4. running' < fresh'
  BY <1>1, <1>2 DEF Promise!Rescheduled, PromiseInv, Promise!TypeOK, Promise!NothingOverdue
<1> QED
  BY <1>1, <1>2, <1>3, <1>4 DEF PromiseInv, Promise!NothingOverdue, Promise!Advances,
       Promise!TypeOK

LEMMA EngineStep ==
  PromiseInv /\ [Promise!Next]_Promise!vars
    => PromiseInv' /\ (Promise!Advances \/ UNCHANGED Promise!vars)
<1>1. ASSUME PromiseInv, UNCHANGED Promise!vars PROVE PromiseInv'
  BY <1>1 DEF PromiseInv, Promise!TypeOK, Promise!NothingOverdue, Promise!vars
<1> QED
  BY <1>1, EngineRun, EnginePlan DEF Promise!Next

(* Every engine of this kind keeps its variables typed and its queue free of *)
(* overdue events.                                                           *)
THEOREM EngineSafe == Promise!Spec => [](Promise!TypeOK /\ Promise!NothingOverdue)
BY EngineInit, EngineStep, PTL DEF Promise!Spec, PromiseInv

(* Events run in the order of their keys: time never goes back, and events   *)
(* of one instant run in the order they were scheduled.                      *)
THEOREM EngineInOrder == Promise!Spec => Promise!InOrder
<1>1. PromiseInv /\ [Promise!Next]_Promise!vars => [Promise!Advances]_Promise!vars
  BY EngineStep
<1> QED
  BY <1>1, EngineInit, EngineStep, PTL DEF Promise!Spec, Promise!InOrder
=============================================================================
