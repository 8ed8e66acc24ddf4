------------------------- MODULE PositionParserProofs -------------------------
(* Proofs about the parser of positions files, for files of any length and   *)
(* any times of queries.                                                     *)
EXTENDS PositionParser, WellFoundedInduction, TLAPS

LEMMA Least ==
  ASSUME NEW T \in SUBSET Nat, T # {}
  PROVE  \E m \in T : \A t \in T : m <= t
<1> DEFINE R == {p \in Nat \X Nat : p[1] < p[2]}
<1>1. IsWellFoundedOn(R, Nat)
  BY NatLessThanWellFounded DEF OpToRel
<1>2. PICK m \in T : \A t \in T : ~ (<<t, m>> \in R)
  <2> HIDE DEF R
  <2> QED BY <1>1, WFMin, Zenon
<1>3. ASSUME NEW t \in T PROVE m <= t
  <2> DEFINE p == <<t, m>>
  <2>1. p \in Nat \X Nat /\ p[1] = t /\ p[2] = m /\ p \notin R
    BY <1>2
  <2>2. ~ (t < m)
    <3> HIDE DEF p
    <3> QED BY <2>1
  <2> QED
    BY <2>2
<1> QED
  BY <1>3

LEMMA Greatest ==
  ASSUME NEW T \in SUBSET Nat, T # {}, NEW n \in Nat, \A t \in T : t <= n
  PROVE  \E m \in T : \A t \in T : t <= m
<1> DEFINE S == {n - t : t \in T}
<1>1. S \in SUBSET Nat
  OBVIOUS
<1>2. S # {}
  <2>1. PICK t \in T : TRUE
    OBVIOUS
  <2>2. n - t \in S
    BY <2>1
  <2> QED BY <2>2
<1>3. PICK m \in S : \A s \in S : m <= s
  <2> HIDE DEF S
  <2> QED BY <1>1, <1>2, Least
<1>4. PICK t \in T : m = n - t
  OBVIOUS
<1>5. \A u \in T : m <= n - u
  BY <1>3
<1>6. \A u \in T : u <= t
  BY <1>4, <1>5
<1> QED
  BY <1>6

-----------------------------------------------------------------------------
(* The inductive invariant.                                                  *)

(* The frames are as far apart as LogPositions makes them. *)
Spaced ==
  \A i, j \in DOMAIN frames : i < j => frames[i].time + LogInterval <= frames[j].time

(* While the file is read: rows up to lastRow have been seen, those at that  *)
(* time are in the map, and every frame is older.                            *)
ReadInv ==
  /\ IF Len(written) < 2 THEN lastRow = -1 ELSE lastRow = written[Len(written)].time
  /\ lastRow = -1 => frames = << >> /\ DOMAIN inner = {}
  /\ \A i \in DOMAIN frames : frames[i].time + LogInterval <= lastRow
  /\ \A u \in DOMAIN inner : \E k \in 2 .. Len(written) :
       written[k] = [time |-> lastRow, ip |-> u, pos |-> inner[u]]
  /\ cursor = [u \in Uavs |-> None]
  /\ lastTime = -1 /\ asked = [u \in Uavs |-> -1] /\ answer = NoAnswer

(* What each kind of cursor says of its UAV, last asked for at q. *)
IsBefore(u, c, q) ==
  \E i \in DOMAIN frames :
    c = Before(i) /\ Has(u, i) /\ (\A j \in 1 .. i - 1 : ~Has(u, j)) /\ q <= frames[i].time
IsBetween(u, c, q) ==
  \E i, j \in DOMAIN frames :
    /\ c = Interpolate(i, j) /\ i < j /\ Has(u, i) /\ Has(u, j)
    /\ frames[i].time <= q /\ q <= frames[j].time
IsAfter(u, c, q) ==
  \E i \in DOMAIN frames :
    /\ c = After(i) /\ Has(u, i) /\ (\A j \in i + 1 .. Len(frames) : ~Has(u, j))
    /\ frames[i].time <= q

CursorFits(u, c, q) ==
  c = None \/ IsBefore(u, c, q) \/ IsBetween(u, c, q) \/ IsAfter(u, c, q)

QueryInv ==
  \A u \in Uavs : asked[u] <= lastTime /\ CursorFits(u, cursor[u], asked[u])

IInv ==
  /\ CursorInv
  /\ Spaced /\ FramesFaithful
  /\ mode = "read" => ReadInv
  /\ mode = "query" => QueryInv
  /\ NoPanic

LEMMA InnerFacts ==
  ASSUME NEW f \in Inner
  PROVE  DOMAIN f \in SUBSET Uavs /\ \A u \in DOMAIN f : f[u] \in Positions /\ f[u] \in Nat
<1>1. PICK U \in SUBSET Uavs : f \in [U -> Positions]
  BY DEF Inner
<1> QED
  BY <1>1, ParserAssumption

LEMMA IsInner ==
  ASSUME NEW U \in SUBSET Uavs, NEW f \in [U -> Positions]
  PROVE  f \in Inner
BY DEF Inner

LEMMA NoFrameInner == NoFrame \in Inner /\ DOMAIN NoFrame = {}
<1>1. NoFrame \in [{} -> Positions] /\ DOMAIN NoFrame = {}
  BY DEF NoFrame
<1> QED
  BY <1>1, IsInner

LEMMA FrameTimes ==
  ASSUME NEW fs, fs \in Seq([time : Nat, inner : Inner])
  PROVE  \A i \in DOMAIN fs : fs[i].time \in Nat /\ fs[i].inner \in Inner
<1> DEFINE S == [time : Nat, inner : Inner]
<1>1. fs \in Seq(S)
  OBVIOUS
<1>2. \A i \in DOMAIN fs : fs[i] \in S
  <2> HIDE DEF S
  <2> QED BY <1>1
<1> QED
  BY <1>2

LEMMA FrameFacts ==
  ASSUME frames \in Seq([time : Nat, inner : Inner])
  PROVE  /\ Len(frames) \in Nat /\ DOMAIN frames = 1 .. Len(frames)
         /\ \A i \in DOMAIN frames : frames[i].time \in Nat /\ frames[i].inner \in Inner
         /\ \A i \in DOMAIN frames : \A u : Has(u, i) =>
              u \in Uavs /\ frames[i].inner[u] \in Nat
<1>1. Len(frames) \in Nat /\ DOMAIN frames = 1 .. Len(frames)
  OBVIOUS
<1>2. \A i \in DOMAIN frames : frames[i].time \in Nat /\ frames[i].inner \in Inner
  BY FrameTimes
<1>3. \A i \in DOMAIN frames : \A u : Has(u, i) => u \in Uavs /\ frames[i].inner[u] \in Nat
  BY <1>2, InnerFacts DEF Has
<1> QED
  BY <1>1, <1>2, <1>3

-----------------------------------------------------------------------------
(* Reading.                                                                  *)

LEMMA ParserInit == Init => IInv
<1> SUFFICES ASSUME Init PROVE IInv
  OBVIOUS
<1> USE DEF Init
<1>1. written \in Seq(Row) /\ Len(written) = 0 /\ frames \in Seq([time : Nat, inner : Inner])
      /\ DOMAIN frames = {} /\ Len(frames) = 0
  OBVIOUS
<1>2. inner \in Inner /\ DOMAIN inner = {}
  BY NoFrameInner
<1>3. cursor \in [Uavs -> Cursors] /\ asked \in [Uavs -> Nat \cup {-1}]
  BY DEF Cursors, None
<1>4. answer.pos.den > 0
  BY DEF NoAnswer, Whole, Fraction
<1>5. TypeOK
  BY <1>1, <1>2, <1>3, <1>4 DEF TypeOK
<1>6. CursorInv
  BY <1>5 DEF CursorInv, OnKeyFrame, WithinCursor
<1>7. Spaced /\ FramesFaithful /\ NoPanic
  BY <1>1 DEF Spaced, FramesFaithful, NoPanic
<1>8. ReadInv
  BY <1>1, <1>2 DEF ReadInv
<1> QED
  BY <1>6, <1>7, <1>8 DEF IInv

(* The first row is skipped. *)
LEMMA SkipFirstStep ==
  ASSUME IInv, NEW row \in Row, SkipFirst(row)
  PROVE  IInv'
<1>1. /\ written = << >> /\ written' = <<row>> /\ mode = "read"
      /\ UNCHANGED <<mode, frames, inner, lastRow, cursor, lastTime, asked, answer>>
  BY DEF SkipFirst
<1>2. written' \in Seq(Row) /\ Len(written') = 1 /\ Len(written) = 0
  BY <1>1
<1>3. ReadInv
  BY <1>1 DEF IInv
<1>4. lastRow = -1 /\ frames = << >> /\ DOMAIN inner = {} /\ DOMAIN frames = {}
  BY <1>2, <1>3 DEF ReadInv
<1>5. TypeOK'
  BY <1>1, <1>2 DEF IInv, CursorInv, TypeOK
<1>6. CursorInv'
  BY <1>1, <1>5 DEF CursorInv, OnKeyFrame, WithinCursor
<1>7. ReadInv'
  BY <1>1, <1>2, <1>3, <1>4 DEF ReadInv
<1>8. (Spaced /\ FramesFaithful /\ NoPanic)'
  BY <1>1, <1>4 DEF Spaced, FramesFaithful, NoPanic
<1> QED
  BY <1>1, <1>6, <1>7, <1>8 DEF IInv

(* A finished frame is younger than the others, and what the map holds. *)
Finished == Append(frames, [time |-> lastRow, inner |-> inner])

FramesWritten(fs) ==
  \A i \in DOMAIN fs : \A u \in DOMAIN fs[i].inner : \E k \in 2 .. Len(written) :
    written[k] = [time |-> fs[i].time, ip |-> u, pos |-> fs[i].inner[u]]

LEMMA FinishFrame ==
  ASSUME TypeOK, ReadInv, Spaced, FramesFaithful, lastRow # -1
  PROVE  /\ Finished \in Seq([time : Nat, inner : Inner])
         /\ DOMAIN Finished = 1 .. Len(frames) + 1 /\ Finished # << >>
         /\ \A i, j \in DOMAIN Finished :
              i < j => Finished[i].time + LogInterval <= Finished[j].time
         /\ \A i \in DOMAIN Finished : Finished[i].time <= lastRow
         /\ FramesWritten(Finished)
<1>1. Len(frames) \in Nat /\ DOMAIN frames = 1 .. Len(frames) /\ lastRow \in Nat
      /\ inner \in Inner /\ LogInterval \in Nat
      /\ \A i \in DOMAIN frames : frames[i].time \in Nat
  BY FrameFacts, ParserAssumption DEF TypeOK
<1> DEFINE n == Len(frames) + 1
           f == [time |-> lastRow, inner |-> inner]
           fs == Finished
<1>2. f \in [time : Nat, inner : Inner]
  BY <1>1
<1>3. fs \in Seq([time : Nat, inner : Inner]) /\ DOMAIN fs = 1 .. n /\ fs # << >>
      /\ fs[n] = f /\ \A i \in DOMAIN frames : fs[i] = frames[i]
  <2>1. fs = Append(frames, f)
    BY DEF Finished
  <2> HIDE DEF f, fs
  <2> QED BY <1>1, <1>2, <2>1 DEF TypeOK
<1> HIDE DEF fs
<1>4. \A i \in 1 .. n : i = n \/ i \in DOMAIN frames
  BY <1>1
<1>5. ASSUME NEW i \in 1 .. n, NEW j \in 1 .. n, i < j
      PROVE  fs[i].time + LogInterval <= fs[j].time
  <2>1. i \in DOMAIN frames
    BY <1>1, <1>5
  <2>2. CASE j = n
    BY <1>3, <2>1, <2>2 DEF ReadInv
  <2>3. CASE j # n
    BY <1>3, <1>4, <1>5, <2>1, <2>3 DEF Spaced
  <2> QED BY <2>2, <2>3
<1>6. ASSUME NEW i \in 1 .. n PROVE fs[i].time <= lastRow
  <2>1. CASE i = n
    BY <1>1, <1>3, <2>1
  <2>2. CASE i \in DOMAIN frames
    <3>1. frames[i].time + LogInterval <= lastRow
      BY <2>2 DEF ReadInv
    <3> QED BY <1>1, <1>3, <2>2, <3>1
  <2> QED BY <1>4, <2>1, <2>2
<1>7. ASSUME NEW i \in 1 .. n, NEW u \in DOMAIN fs[i].inner
      PROVE  \E k \in 2 .. Len(written) :
               written[k] = [time |-> fs[i].time, ip |-> u, pos |-> fs[i].inner[u]]
  <2>1. CASE i = n
    BY <1>3, <1>7, <2>1 DEF ReadInv
  <2>2. CASE i \in DOMAIN frames
    BY <1>3, <1>7, <2>2 DEF FramesFaithful
  <2> QED BY <1>4, <2>1, <2>2
<1> QED
  BY <1>3, <1>5, <1>6, <1>7 DEF fs, FramesWritten

(* A row at the time of the one before goes into the map, a later one        *)
(* finishes the frame first.                                                 *)
LEMMA ReadRowStep ==
  ASSUME IInv, NEW t \in NextTimes, NEW ip \in Uavs, NEW p \in Positions,
         ReadRow([time |-> t, ip |-> ip, pos |-> p])
  PROVE  IInv'
<1> DEFINE row == [time |-> t, ip |-> ip, pos |-> p]
           n == Len(written)
<1>1. /\ mode = "read" /\ written # << >> /\ written' = Append(written, row)
      /\ frames' = IF Finishes(row) THEN Finished ELSE frames
      /\ inner' = [u \in DOMAIN Kept(row) \cup {ip} |-> IF u = ip THEN p ELSE Kept(row)[u]]
      /\ lastRow' = t /\ UNCHANGED <<mode, cursor, lastTime, asked, answer>>
  BY DEF ReadRow, Finished
<1>2. TypeOK /\ ReadInv /\ Spaced /\ FramesFaithful
  BY <1>1 DEF IInv, CursorInv
<1>3. /\ n \in Nat /\ n >= 1 /\ LogInterval \in Nat /\ LogInterval > 0
      /\ written[n].time \in Nat /\ lastRow \in Nat \cup {-1} /\ inner \in Inner
  <2>1. n \in Nat /\ n >= 1 /\ LogInterval \in Nat /\ LogInterval > 0
    BY <1>1, <1>2, ParserAssumption DEF TypeOK
  <2>2. written[n] \in Row
    <3> HIDE DEF n
    <3> QED BY <1>2, <2>1 DEF TypeOK, n
  <2> QED BY <1>2, <2>1, <2>2 DEF TypeOK, Row
<1>4. t \in Nat /\ (t = written[n].time \/ t = written[n].time + LogInterval) /\ row \in Row
  BY <1>1, <1>3 DEF NextTimes, Row
<1>5. /\ written' \in Seq(Row) /\ Len(written') = n + 1 /\ written'[n + 1] = row
      /\ \A k \in 1 .. n : written'[k] = written[k]
  <2> HIDE DEF row
  <2> QED BY <1>1, <1>2, <1>3, <1>4 DEF TypeOK
<1>6. /\ Finishes(row) => lastRow \in Nat /\ t = lastRow + LogInterval
      /\ ~Finishes(row) => lastRow = -1 \/ lastRow = t
  BY <1>2, <1>3, <1>4 DEF ReadInv, Finishes
<1>7. /\ DOMAIN Kept(row) \in SUBSET Uavs
      /\ \A u \in DOMAIN Kept(row) : Kept(row)[u] \in Positions
      /\ \A u \in DOMAIN Kept(row) : \E k \in 2 .. n :
           written[k] = [time |-> t, ip |-> u, pos |-> Kept(row)[u]]
  <2>1. CASE Finishes(row)
    BY <2>1, NoFrameInner, InnerFacts DEF Kept
  <2>2. CASE ~Finishes(row)
    <3>1. Kept(row) = inner
      BY <2>2 DEF Kept
    <3> QED BY <1>2, <1>3, <1>6, <2>2, <3>1, InnerFacts DEF ReadInv
  <2> QED BY <2>1, <2>2
<1>8. inner' \in Inner
  <2>1. inner' \in [DOMAIN Kept(row) \cup {ip} -> Positions]
    BY <1>1, <1>7
  <2> QED BY <1>7, <2>1, IsInner
<1>9. ASSUME NEW u \in DOMAIN inner'
      PROVE  \E k \in 2 .. n + 1 : written'[k] = [time |-> t, ip |-> u, pos |-> inner'[u]]
  <2>1. CASE u = ip
    <3>1. written'[n + 1] = [time |-> t, ip |-> u, pos |-> inner'[u]]
      BY <1>1, <1>5, <2>1
    <3> QED BY <1>3, <3>1
  <2>2. CASE u # ip
    <3>1. u \in DOMAIN Kept(row) /\ inner'[u] = Kept(row)[u]
      BY <1>1, <1>9, <2>2
    <3>2. PICK k \in 2 .. n : written[k] = [time |-> t, ip |-> u, pos |-> inner'[u]]
      BY <1>7, <3>1
    <3>3. k \in 1 .. n /\ k \in 2 .. n + 1
      BY <1>3
    <3> QED BY <1>5, <3>2, <3>3
  <2> QED BY <2>1, <2>2
<1>10. /\ frames' \in Seq([time : Nat, inner : Inner])
       /\ Spaced'
       /\ \A i \in DOMAIN frames' : frames'[i].time \in Nat /\ frames'[i].time + LogInterval <= t
       /\ FramesWritten(frames')
  <2>1. CASE Finishes(row)
    <3> HIDE DEF row
    <3>1. frames' = Finished /\ lastRow # -1
      BY <1>1, <1>6, <2>1
    <3>2. /\ Finished \in Seq([time : Nat, inner : Inner])
          /\ \A i, j \in DOMAIN Finished :
               i < j => Finished[i].time + LogInterval <= Finished[j].time
          /\ \A i \in DOMAIN Finished : Finished[i].time <= lastRow
          /\ FramesWritten(Finished)
      BY <1>2, <3>1, FinishFrame
    <3>3. \A i \in DOMAIN Finished : Finished[i].time \in Nat
      BY <3>2, FrameTimes
    <3>4. \A i \in DOMAIN Finished : Finished[i].time + LogInterval <= t
      BY <1>3, <1>6, <2>1, <3>2, <3>3
    <3>5. Spaced'
      BY <3>1, <3>2 DEF Spaced
    <3> QED BY <3>1, <3>2, <3>3, <3>4, <3>5
  <2>2. CASE ~Finishes(row)
    <3>1. frames' = frames /\ frames \in Seq([time : Nat, inner : Inner])
      BY <1>1, <1>2, <2>2 DEF TypeOK
    <3>2. \A i \in DOMAIN frames : frames[i].time \in Nat
      BY <3>1, FrameTimes
    <3>3. ASSUME NEW i \in DOMAIN frames PROVE frames[i].time + LogInterval <= t
      <4>1. frames[i].time + LogInterval <= lastRow /\ lastRow # -1
        BY <1>2 DEF ReadInv
      <4> QED BY <1>6, <2>2, <4>1
    <3>4. FramesWritten(frames)
      BY <1>2 DEF FramesFaithful, FramesWritten
    <3>5. Spaced'
      BY <1>2, <3>1 DEF Spaced
    <3> QED BY <3>1, <3>2, <3>3, <3>4, <3>5
  <2> QED BY <2>1, <2>2
<1>11. FramesFaithful'
  <2>1. ASSUME NEW i \in DOMAIN frames', NEW u \in DOMAIN frames'[i].inner
        PROVE  \E k \in 2 .. Len(written') :
                 written'[k] = [time |-> frames'[i].time, ip |-> u, pos |-> frames'[i].inner[u]]
    <3>1. PICK k \in 2 .. n :
            written[k] = [time |-> frames'[i].time, ip |-> u, pos |-> frames'[i].inner[u]]
      BY <1>10, <2>1 DEF FramesWritten
    <3>2. k \in 1 .. n /\ k \in 2 .. n + 1
      BY <1>3
    <3> QED BY <1>5, <3>1, <3>2
  <2>2. \A i, j \in DOMAIN frames' : i < j => frames'[i].time < frames'[j].time
    BY <1>3, <1>10 DEF Spaced
  <2> QED BY <2>1, <2>2 DEF FramesFaithful
<1>12. TypeOK'
  BY <1>1, <1>2, <1>4, <1>5, <1>8, <1>10 DEF TypeOK
<1>13. CursorInv'
  BY <1>1, <1>12 DEF CursorInv, OnKeyFrame, WithinCursor
<1>14. ReadInv'
  <2> HIDE DEF row
  <2>1. lastRow' = written'[Len(written')].time /\ Len(written') >= 2 /\ lastRow' # -1
    BY <1>1, <1>3, <1>4, <1>5 DEF row
  <2>2. \A i \in DOMAIN frames' : frames'[i].time + LogInterval <= lastRow'
    BY <1>1, <1>10
  <2>3. \A u \in DOMAIN inner' : \E k \in 2 .. Len(written') :
          written'[k] = [time |-> lastRow', ip |-> u, pos |-> inner'[u]]
    BY <1>1, <1>5, <1>9
  <2>4. /\ cursor' = [u \in Uavs |-> None]
        /\ lastTime' = -1 /\ asked' = [u \in Uavs |-> -1] /\ answer' = NoAnswer
    BY <1>1, <1>2 DEF ReadInv
  <2>5. IF Len(written') < 2 THEN lastRow' = -1 ELSE lastRow' = written'[Len(written')].time
    BY <1>3, <1>5, <2>1
  <2> QED BY <2>1, <2>2, <2>3, <2>4, <2>5 DEF ReadInv
<1>15. NoPanic'
  BY <1>1 DEF NoPanic
<1> QED
  BY <1>1, <1>10, <1>11, <1>13, <1>14, <1>15 DEF IInv

(* The end of the file: every UAV is before its first frame. *)
LEMMA FinishParseStep ==
  ASSUME IInv, FinishParse
  PROVE  IInv'
<1>1. /\ mode = "read" /\ inner' = NoFrame
      /\ frames' = IF lastRow = -1 THEN frames ELSE Finished
      /\ mode' = IF frames' = << >> THEN "panic" ELSE "query"
      /\ cursor' = [u \in Uavs |->
                      IF \E i \in DOMAIN frames' : u \in DOMAIN frames'[i].inner
                        THEN Before(FirstFrame(frames', u)) ELSE None]
      /\ UNCHANGED <<written, lastRow, lastTime, asked, answer>>
  BY DEF FinishParse, Finished
<1>2. TypeOK /\ ReadInv /\ Spaced /\ FramesFaithful
  BY <1>1 DEF IInv, CursorInv
<1>3. /\ frames' \in Seq([time : Nat, inner : Inner]) /\ FramesWritten(frames') /\ Spaced'
      /\ Len(written) \in Nat
      /\ frames' = << >> => Len(written) < 2
  <2>1. CASE lastRow = -1
    <3>1. frames' = << >>
      BY <1>1, <1>2, <2>1 DEF ReadInv
    <3>2. DOMAIN frames' = {} /\ frames' \in Seq([time : Nat, inner : Inner])
      BY <3>1
    <3>3. Spaced' /\ FramesWritten(frames')
      BY <3>2 DEF Spaced, FramesWritten
    <3>4. Len(written) < 2
      <4>1. SUFFICES ASSUME ~(Len(written) < 2) PROVE FALSE
        OBVIOUS
      <4>2. Len(written) \in 1 .. Len(written)
        BY <1>2, <4>1 DEF TypeOK
      <4>3. written[Len(written)] \in Row
        BY <1>2, <4>2 DEF TypeOK
      <4>4. written[Len(written)].time \in Nat
        BY <4>3 DEF Row
      <4> QED BY <1>2, <2>1, <4>1, <4>4 DEF ReadInv
    <3>5. Len(written) \in Nat
      BY <1>2 DEF TypeOK
    <3> QED BY <3>2, <3>3, <3>4, <3>5
  <2>2. CASE lastRow # -1
    <3>1. frames' = Finished
      BY <1>1, <2>2
    <3>2. /\ Finished \in Seq([time : Nat, inner : Inner]) /\ Finished # << >>
          /\ FramesWritten(Finished)
          /\ \A i, j \in DOMAIN Finished :
               i < j => Finished[i].time + LogInterval <= Finished[j].time
      BY <1>2, <2>2, FinishFrame
    <3>3. Spaced'
      BY <3>1, <3>2 DEF Spaced
    <3>4. Len(written) \in Nat
      BY <1>2 DEF TypeOK
    <3> QED BY <3>1, <3>2, <3>3, <3>4
  <2> QED BY <2>1, <2>2
<1>4. Len(frames') \in Nat /\ DOMAIN frames' = 1 .. Len(frames')
      /\ \A i \in DOMAIN frames' : frames'[i].time \in Nat
  <2>1. frames' \in Seq([time : Nat, inner : Inner])
    BY <1>3
  <2>2. Len(frames') \in Nat /\ DOMAIN frames' = 1 .. Len(frames')
    BY <2>1
  <2>3. \A i \in DOMAIN frames' : frames'[i].time \in Nat
    BY <2>1, FrameTimes
  <2> QED BY <2>2, <2>3
<1>5. FramesFaithful'
  <2>1. \A i, j \in DOMAIN frames' : i < j => frames'[i].time < frames'[j].time
    BY <1>3, <1>4, ParserAssumption DEF Spaced
  <2>2. \A i \in DOMAIN frames' : \A u \in DOMAIN frames'[i].inner : \E k \in 2 .. Len(written') :
          written'[k] = [time |-> frames'[i].time, ip |-> u, pos |-> frames'[i].inner[u]]
    BY <1>1, <1>3 DEF FramesWritten
  <2> QED BY <2>1, <2>2 DEF FramesFaithful
<1>6. ASSUME NEW u \in Uavs
      PROVE  \/ cursor'[u] = None
             \/ \E i \in DOMAIN frames' : /\ cursor'[u] = Before(i) /\ u \in DOMAIN frames'[i].inner
                                          /\ \A j \in 1 .. i - 1 : u \notin DOMAIN frames'[j].inner
  <2>1. CASE ~ \E i \in DOMAIN frames' : u \in DOMAIN frames'[i].inner
    BY <1>1, <2>1
  <2>2. CASE \E i \in DOMAIN frames' : u \in DOMAIN frames'[i].inner
    <3> DEFINE T == {i \in DOMAIN frames' : u \in DOMAIN frames'[i].inner}
    <3>1. T \in SUBSET Nat /\ T # {}
      BY <1>4, <2>2
    <3>2. PICK m \in T : \A i \in T : m <= i
      <4> HIDE DEF T
      <4> QED BY <3>1, Least
    <3>3. \A j \in 1 .. m - 1 : u \notin DOMAIN frames'[j].inner
      BY <1>4, <3>2
    <3>4. /\ FirstFrame(frames', u) \in DOMAIN frames'
          /\ u \in DOMAIN frames'[FirstFrame(frames', u)].inner
          /\ \A j \in 1 .. FirstFrame(frames', u) - 1 : u \notin DOMAIN frames'[j].inner
      BY <3>2, <3>3 DEF FirstFrame
    <3>5. cursor'[u] = Before(FirstFrame(frames', u))
      BY <1>1, <2>2
    <3> QED BY <3>4, <3>5
  <2> QED BY <2>1, <2>2
<1>7. cursor' \in [Uavs -> Cursors]
  <2>1. None \in Cursors /\ \A i \in Nat : Before(i) \in Cursors
    BY DEF Cursors, None, Before
  <2>2. ASSUME NEW u \in Uavs PROVE cursor'[u] \in Cursors
    <3>1. CASE cursor'[u] = None
      BY <2>1, <3>1
    <3>2. CASE \E i \in DOMAIN frames' : cursor'[u] = Before(i)
      <4>1. PICK i \in 1 .. Len(frames') : cursor'[u] = Before(i)
        BY <1>4, <3>2
      <4> QED BY <2>1, <4>1
    <3> QED BY <1>6, <3>1, <3>2
  <2> QED BY <1>1, <2>2
<1>8. TypeOK'
  BY <1>1, <1>2, <1>3, <1>7, NoFrameInner DEF TypeOK
<1>9. CursorInv'
  <2>1. answer' = NoAnswer
    BY <1>1, <1>2 DEF ReadInv
  <2>2. \A u \in Uavs : answer'.ip # u
    BY <2>1, ParserAssumption DEF NoAnswer
  <2> QED BY <1>8, <2>2 DEF CursorInv, OnKeyFrame, WithinCursor
<1>10. QueryInv'
  <2>1. lastTime' = -1 /\ asked' = [u \in Uavs |-> -1]
    BY <1>1, <1>2 DEF ReadInv
  <2>2. ASSUME NEW u \in Uavs PROVE CursorFits(u, cursor[u], asked[u])'
    <3>1. CASE cursor'[u] = None
      BY <3>1 DEF CursorFits
    <3>2. CASE cursor'[u] # None
      <4>1. PICK i \in DOMAIN frames' : /\ cursor'[u] = Before(i) /\ u \in DOMAIN frames'[i].inner
                                        /\ \A j \in 1 .. i - 1 : u \notin DOMAIN frames'[j].inner
        BY <1>6, <3>2
      <4>2. asked'[u] <= frames'[i].time
        BY <1>4, <2>1
      <4> QED BY <4>1, <4>2 DEF CursorFits, IsBefore, Has
    <3> QED BY <3>1, <3>2
  <2> QED BY <2>1, <2>2 DEF QueryInv
<1>11. NoPanic'
  BY <1>1, <1>3 DEF NoPanic
<1>12. mode' # "read"
  BY <1>1
<1> QED
  BY <1>3, <1>5, <1>9, <1>10, <1>11, <1>12 DEF IInv

-----------------------------------------------------------------------------
(* Interpolation.                                                            *)

(* The position between two samples is the samples' own at their times, and  *)
(* never outside them.                                                       *)
LEMMA BetweenSamples ==
  ASSUME NEW p \in Nat, NEW q \in Nat, NEW x \in Nat, NEW y \in Nat, NEW t \in Nat,
         x < y, x <= t, t <= y,
         NEW a, a = [time |-> x, pos |-> p], NEW b, b = [time |-> y, pos |-> q]
  PROVE  /\ Between(a, b, t).den > 0
         /\ t = x => Same(Between(a, b, t), Whole(p))
         /\ t = y => Same(Between(a, b, t), Whole(q))
         /\ \/ AtMost(Whole(p), Between(a, b, t)) /\ AtMost(Between(a, b, t), Whole(q))
            \/ AtMost(Whole(q), Between(a, b, t)) /\ AtMost(Between(a, b, t), Whole(p))
<1> DEFINE d == y - x
           k == t - x
           z == Between(a, b, t)
<1>1. d \in Nat \ {0} /\ k \in Nat /\ k <= d /\ (t = x => k = 0) /\ (t = y => k = d)
  OBVIOUS
<1>2. z.num = p * d + (q - p) * k /\ z.den = d
  BY DEF Between, Fraction
<1>3. Whole(p).num = p /\ Whole(p).den = 1 /\ Whole(q).num = q /\ Whole(q).den = 1
  BY DEF Whole, Fraction
<1> HIDE DEF d, k, z
<1>4. p * d \in Nat /\ q * d \in Nat /\ p * d + (q - p) * d = q * d
      /\ (q - p) * k \in Int /\ (q - p) * d \in Int
  BY <1>1
<1>5. t = x => Same(z, Whole(p))
  BY <1>1, <1>2, <1>3, <1>4 DEF Same
<1>6. t = y => Same(z, Whole(q))
  BY <1>1, <1>2, <1>3, <1>4 DEF Same
<1>7. CASE p <= q
  <2>1. 0 <= (q - p) * k /\ (q - p) * k <= (q - p) * d
    BY <1>1, <1>7
  <2>2. p * d <= z.num /\ z.num <= q * d /\ z.num \in Int
    BY <1>2, <1>4, <2>1
  <2>3. AtMost(Whole(p), z) /\ AtMost(z, Whole(q))
    BY <1>2, <1>3, <2>2 DEF AtMost
  <2> QED BY <1>1, <1>2, <1>5, <1>6, <2>3 DEF z
<1>8. CASE q <= p
  <2> DEFINE r == p - q
  <2>1. r \in Nat /\ q - p = -r
    BY <1>8
  <2>2. 0 <= r * k /\ r * k <= r * d /\ (q - p) * k = -(r * k) /\ (q - p) * d = -(r * d)
        /\ r * k \in Nat /\ r * d \in Nat
    <3> HIDE DEF r
    <3> QED BY <1>1, <2>1
  <2>3. q * d <= z.num /\ z.num <= p * d /\ z.num \in Int
    <3> HIDE DEF r
    <3> QED BY <1>2, <1>4, <2>2
  <2>4. AtMost(Whole(q), z) /\ AtMost(z, Whole(p))
    BY <1>2, <1>3, <2>3 DEF AtMost
  <2> QED BY <1>1, <1>2, <1>5, <1>6, <2>4 DEF z
<1> QED
  BY <1>7, <1>8

LEMMA SameWhole ==
  ASSUME NEW p \in Nat
  PROVE  Same(Whole(p), Whole(p)) /\ Whole(p).den > 0
BY DEF Same, Whole, Fraction

-----------------------------------------------------------------------------
(* Queries.                                                                  *)

(* The three ways in which pos_at_time answers for u at t. *)
AnswersBefore(u, t) ==
  \E i \in DOMAIN frames :
    /\ cursor[u] = Before(i) /\ Has(u, i) /\ (\A j \in 1 .. i - 1 : ~Has(u, j))
    /\ t <= frames[i].time
    /\ cursor' = cursor /\ Answer(u, t, Whole(frames[i].inner[u]))

(* What is known of the search that starts from s. *)
StartsFrom(u, s, t) ==
  /\ s \in DOMAIN frames /\ Has(u, s) /\ frames[s].time <= t
  /\ \/ asked[u] <= frames[s].time
     \/ \E b \in DOMAIN frames :
          cursor[u] = Interpolate(s, b) /\ s < b /\ Has(u, b) /\ t < frames[b].time

AnswersBetween(u, t) ==
  \E s, i \in DOMAIN frames :
    /\ StartsFrom(u, s, t)
    /\ s < i /\ Has(u, i) /\ t <= frames[i].time
    /\ \A j \in s + 1 .. i - 1 : Has(u, j) => frames[j].time < t
    /\ cursor' = [cursor EXCEPT ![u] = Interpolate(s, i)]
    /\ Answer(u, t, Between(Sample(u, s), Sample(u, i), t))

AnswersAfter(u, t) ==
  \E i \in DOMAIN frames :
    /\ Has(u, i) /\ (\A j \in i + 1 .. Len(frames) : ~Has(u, j)) /\ frames[i].time <= t
    /\ cursor' = [cursor EXCEPT ![u] = After(i)]
    /\ Answer(u, t, Whole(frames[i].inner[u]))

Answers(u, t) == AnswersBefore(u, t) \/ AnswersBetween(u, t) \/ AnswersAfter(u, t)

(* A search from a frame that knows u and is not after t answers. *)
LEMMA SearchAnswers ==
  ASSUME TypeOK, NEW u \in Uavs, NEW t \in Nat, NEW s, StartsFrom(u, s, t), Search(u, s, t)
  PROVE  mode' = mode /\ Answers(u, t)
<1>1. /\ Len(frames) \in Nat /\ DOMAIN frames = 1 .. Len(frames)
      /\ \A i \in DOMAIN frames : frames[i].time \in Nat
      /\ s \in 1 .. Len(frames) /\ Has(u, s) /\ frames[s].time <= t
  BY FrameFacts DEF TypeOK, StartsFrom
<1>2. CASE Later(u, s, t) # {}
  <2> DEFINE i == CHOOSE k \in Later(u, s, t) : \A j \in Later(u, s, t) : k <= j
  <2>1. Later(u, s, t) \in SUBSET Nat
    BY <1>1 DEF Later
  <2>2. i \in Later(u, s, t) /\ \A j \in Later(u, s, t) : i <= j
    BY <1>2, <2>1, Least
  <2>3. /\ mode' = mode /\ cursor' = [cursor EXCEPT ![u] = Interpolate(s, i)]
        /\ Answer(u, t, Between(Sample(u, s), Sample(u, i), t))
    BY <1>1, <1>2 DEF Search
  <2> HIDE DEF i
  <2>4. i \in DOMAIN frames /\ s < i /\ Has(u, i) /\ t <= frames[i].time
    BY <1>1, <2>2 DEF Later
  <2>5. \A j \in s + 1 .. i - 1 : Has(u, j) => frames[j].time < t
    <3>1. SUFFICES ASSUME NEW j \in s + 1 .. i - 1, Has(u, j), ~(frames[j].time < t)
                   PROVE  FALSE
      OBVIOUS
    <3>2. j \in s + 1 .. Len(frames) /\ j \in DOMAIN frames /\ j < i
      BY <1>1, <2>4
    <3>3. frames[j].time >= t
      BY <1>1, <3>1, <3>2
    <3>4. i <= j
      BY <2>2, <3>1, <3>2, <3>3 DEF Later
    <3> QED BY <1>1, <2>4, <3>2, <3>4
  <2>6. AnswersBetween(u, t)
    BY <1>1, <2>3, <2>4, <2>5 DEF AnswersBetween
  <2> QED BY <2>3, <2>6 DEF Answers
<1>3. CASE Later(u, s, t) = {}
  <2> DEFINE i == LastIndex(u, s)
             T == {k \in s .. Len(frames) : Has(u, k)}
  <2>1. T \in SUBSET Nat /\ T # {} /\ (\A k \in T : k <= Len(frames)) /\ Len(frames) \in Nat
    BY <1>1
  <2>2. PICK m \in T : \A k \in T : k <= m
    <3> HIDE DEF T
    <3> QED BY <2>1, Greatest
  <2>3. m \in s .. Len(frames) /\ Has(u, m) /\ \A j \in m + 1 .. Len(frames) : ~Has(u, j)
    BY <1>1, <2>2
  <2>4. /\ i \in s .. Len(frames) /\ (i = s \/ Has(u, i))
        /\ \A j \in i + 1 .. Len(frames) : ~Has(u, j)
    BY <2>3 DEF LastIndex
  <2>5. /\ mode' = mode /\ cursor' = [cursor EXCEPT ![u] = After(i)]
        /\ Answer(u, t, Whole(frames[i].inner[u]))
    BY <1>3 DEF Search, Sample
  <2> HIDE DEF i
  <2>6. i \in DOMAIN frames /\ Has(u, i) /\ frames[i].time \in Nat
    BY <1>1, <2>4
  <2>7. frames[i].time <= t
    <3>1. CASE i = s
      BY <1>1, <3>1
    <3>2. CASE i # s
      <4>1. i \in s + 1 .. Len(frames)
        BY <1>1, <2>4, <3>2
      <4>2. ~(frames[i].time >= t)
        BY <1>3, <2>6, <4>1 DEF Later
      <4> QED BY <2>6, <4>2
    <3> QED BY <3>1, <3>2
  <2>8. AnswersAfter(u, t)
    BY <2>4, <2>5, <2>6, <2>7 DEF AnswersAfter
  <2> QED BY <2>5, <2>8 DEF Answers
<1> QED
  BY <1>2, <1>3

LEMMA QueryAnswers ==
  ASSUME IInv, NEW u \in Uavs, NEW t \in 0 .. MaxTime, PosAtTime(u, t)
  PROVE  /\ mode = "query" /\ mode' = "query" /\ cursor[u] # None
         /\ UNCHANGED <<written, frames, inner, lastRow>>
         /\ t \in Nat /\ lastTime <= t /\ lastTime' = t /\ asked' = [asked EXCEPT ![u] = t]
         /\ asked[u] \in Nat \cup {-1} /\ asked[u] <= t
         /\ Answers(u, t)
<1> DEFINE c == cursor[u]
<1>1. /\ mode = "query" /\ u \in Known /\ t \in Times
      /\ UNCHANGED <<written, frames, inner, lastRow>>
      /\ lastTime' = t /\ asked' = [asked EXCEPT ![u] = t]
      /\ Settled(c, t) => /\ Answer(u, t, Whole(Sample(u, c.a).pos))
                          /\ UNCHANGED <<cursor, mode>>
      /\ ~Settled(c, t) => Search(u, StartIndex(c, t), t)
  BY DEF PosAtTime
<1>2. TypeOK /\ QueryInv
  BY <1>1 DEF IInv, CursorInv
<1>3. c # None /\ c \in Cursors
  BY <1>1, <1>2 DEF Known, TypeOK
<1>4. t \in Nat /\ lastTime \in Nat \cup {-1} /\ lastTime <= t
  <2>1. lastTime \in Nat \cup {-1} /\ MaxStep \in Nat /\ MaxTime \in Nat
    BY <1>2, ParserAssumption DEF TypeOK
  <2> QED BY <1>1, <2>1 DEF Times
<1>5. asked[u] \in Nat \cup {-1} /\ asked[u] <= t
  <2>1. asked[u] \in Nat \cup {-1} /\ asked[u] <= lastTime
    BY <1>2 DEF TypeOK, QueryInv
  <2> QED BY <1>4, <2>1
<1>6. /\ Len(frames) \in Nat /\ DOMAIN frames = 1 .. Len(frames)
      /\ \A i \in DOMAIN frames : frames[i].time \in Nat
  BY <1>2, FrameFacts DEF TypeOK
<1>7. IsBefore(u, c, asked[u]) \/ IsBetween(u, c, asked[u]) \/ IsAfter(u, c, asked[u])
  BY <1>2, <1>3 DEF QueryInv, CursorFits
<1> HIDE DEF c
<1>8. mode' = "query" /\ Answers(u, t)
  <2>1. CASE IsBefore(u, c, asked[u])
    <3>1. PICK i \in DOMAIN frames :
            /\ c = Before(i) /\ Has(u, i) /\ (\A j \in 1 .. i - 1 : ~Has(u, j))
            /\ asked[u] <= frames[i].time
      BY <2>1 DEF IsBefore
    <3>2. c.kind = "before" /\ c.a = i
      BY <3>1 DEF Before
    <3>3. CASE t <= frames[i].time
      <4>1. Settled(c, t)
        BY <3>2, <3>3 DEF Settled
      <4>2. cursor' = cursor /\ mode' = mode /\ Answer(u, t, Whole(frames[i].inner[u]))
        BY <1>1, <3>2, <4>1 DEF Sample, c
      <4>3. AnswersBefore(u, t)
        BY <3>1, <3>3, <4>2 DEF AnswersBefore, c
      <4> QED BY <1>1, <4>2, <4>3 DEF Answers
    <3>4. CASE ~(t <= frames[i].time)
      <4>1. Search(u, i, t)
        BY <1>1, <3>2, <3>4 DEF Settled, StartIndex, c
      <4>2. StartsFrom(u, i, t)
        BY <1>4, <1>6, <3>1, <3>4 DEF StartsFrom
      <4> QED BY <1>1, <1>2, <1>4, <4>1, <4>2, SearchAnswers
    <3> QED BY <3>3, <3>4
  <2>2. CASE IsBetween(u, c, asked[u])
    <3>1. PICK i \in DOMAIN frames, j \in DOMAIN frames :
            /\ c = Interpolate(i, j) /\ i < j /\ Has(u, i) /\ Has(u, j)
            /\ frames[i].time <= asked[u] /\ asked[u] <= frames[j].time
      BY <2>2 DEF IsBetween
    <3>2. c.kind = "interpolate" /\ c.a = i /\ c.b = j
      BY <3>1 DEF Interpolate
    <3>3. ~Settled(c, t)
      BY <3>2 DEF Settled
    <3>4. CASE frames[j].time <= t
      <4>1. Search(u, j, t)
        BY <1>1, <3>2, <3>3, <3>4 DEF StartIndex, c
      <4>2. StartsFrom(u, j, t)
        BY <3>1, <3>4 DEF StartsFrom
      <4> QED BY <1>1, <1>2, <1>4, <4>1, <4>2, SearchAnswers
    <3>5. CASE ~(frames[j].time <= t)
      <4>1. Search(u, i, t)
        BY <1>1, <3>2, <3>3, <3>5 DEF StartIndex, c
      <4>2. frames[i].time <= t /\ t < frames[j].time
        BY <1>4, <1>5, <1>6, <3>1, <3>5
      <4>3. StartsFrom(u, i, t)
        BY <3>1, <4>2 DEF StartsFrom, c
      <4> QED BY <1>1, <1>2, <1>4, <4>1, <4>3, SearchAnswers
    <3> QED BY <3>4, <3>5
  <2>3. CASE IsAfter(u, c, asked[u])
    <3>1. PICK i \in DOMAIN frames :
            /\ c = After(i) /\ Has(u, i) /\ (\A j \in i + 1 .. Len(frames) : ~Has(u, j))
            /\ frames[i].time <= asked[u]
      BY <2>3 DEF IsAfter
    <3>2. c.kind = "after" /\ c.a = i
      BY <3>1 DEF After
    <3>3. cursor' = cursor /\ mode' = mode /\ Answer(u, t, Whole(frames[i].inner[u]))
      BY <1>1, <3>2 DEF Settled, Sample, c
    <3>4. cursor' = [cursor EXCEPT ![u] = After(i)]
      BY <1>2, <3>1, <3>3 DEF TypeOK, c
    <3>5. frames[i].time <= t
      BY <1>4, <1>5, <1>6, <3>1
    <3>6. AnswersAfter(u, t)
      BY <3>1, <3>3, <3>4, <3>5 DEF AnswersAfter
    <3> QED BY <1>1, <3>3, <3>6 DEF Answers
  <2> QED BY <1>7, <2>1, <2>2, <2>3
<1> QED
  BY <1>1, <1>3, <1>4, <1>5, <1>8 DEF c

(* What the invariant asks of an answer and of the cursor it leaves. *)
Fits(u, t) ==
  /\ cursor' \in [Uavs -> Cursors] /\ CursorFits(u, cursor'[u], t)
  /\ \A v \in Uavs \ {u} : cursor'[v] = cursor[v]
  /\ answer'.ip = u /\ answer'.at = t /\ answer'.pos.den > 0
  /\ \A i \in DOMAIN frames :
       Has(u, i) /\ frames[i].time = t => Same(answer'.pos, Whole(frames[i].inner[u]))
  /\ cursor'[u].kind = "interpolate" =>
       LET a == Sample(u, cursor'[u].a)
           b == Sample(u, cursor'[u].b) IN
       /\ a.time <= t /\ t <= b.time
       /\ \/ AtMost(Whole(a.pos), answer'.pos) /\ AtMost(answer'.pos, Whole(b.pos))
          \/ AtMost(Whole(b.pos), answer'.pos) /\ AtMost(answer'.pos, Whole(a.pos))

(* Later frames are at later times. *)
LEMMA InOrder ==
  ASSUME TypeOK, FramesFaithful, NEW i \in DOMAIN frames, NEW j \in DOMAIN frames
  PROVE  /\ i \in Nat /\ j \in Nat /\ frames[i].time \in Nat /\ frames[j].time \in Nat
         /\ i < j => frames[i].time < frames[j].time
         /\ frames[i].time <= frames[j].time => i <= j
<1>1. i \in Nat /\ j \in Nat /\ frames[i].time \in Nat /\ frames[j].time \in Nat
  BY FrameFacts DEF TypeOK
<1>2. (i < j => frames[i].time < frames[j].time) /\ (j < i => frames[j].time < frames[i].time)
  BY DEF FramesFaithful
<1> QED
  BY <1>1, <1>2

LEMMA CursorTypes ==
  ASSUME NEW i \in Nat, NEW j \in Nat
  PROVE  Interpolate(i, j) \in Cursors /\ After(i) \in Cursors /\ Before(i) \in Cursors
BY DEF Interpolate, After, Before, Cursors

LEMMA BeforeFits ==
  ASSUME TypeOK, FramesFaithful, NEW u \in Uavs, NEW t \in Nat, AnswersBefore(u, t)
  PROVE  Fits(u, t)
<1>1. PICK i \in DOMAIN frames :
        /\ cursor[u] = Before(i) /\ Has(u, i) /\ (\A j \in 1 .. i - 1 : ~Has(u, j))
        /\ t <= frames[i].time
        /\ cursor' = cursor /\ Answer(u, t, Whole(frames[i].inner[u]))
  BY DEF AnswersBefore
<1>2. answer'.ip = u /\ answer'.at = t /\ answer'.pos = Whole(frames[i].inner[u])
  BY <1>1 DEF Answer
<1>3. frames[i].inner[u] \in Nat /\ DOMAIN frames = 1 .. Len(frames) /\ Len(frames) \in Nat
  BY <1>1, FrameFacts DEF TypeOK
<1>4. cursor'[u].kind # "interpolate"
  BY <1>1 DEF Before
<1>5. ASSUME NEW k \in DOMAIN frames, Has(u, k), frames[k].time = t PROVE k = i
  <2>1. k <= i
    BY <1>1, <1>5, InOrder
  <2>2. ~(k \in 1 .. i - 1)
    BY <1>1, <1>5
  <2> QED BY <1>3, <2>1, <2>2
<1>6. CursorFits(u, cursor'[u], t)
  BY <1>1 DEF CursorFits, IsBefore
<1>7. cursor' \in [Uavs -> Cursors]
  BY <1>1 DEF TypeOK
<1>8. Same(answer'.pos, Whole(frames[i].inner[u])) /\ answer'.pos.den > 0
  BY <1>2, <1>3, SameWhole
<1> QED
  BY <1>1, <1>2, <1>4, <1>5, <1>6, <1>7, <1>8 DEF Fits

LEMMA AfterFits ==
  ASSUME TypeOK, FramesFaithful, NEW u \in Uavs, NEW t \in Nat, AnswersAfter(u, t)
  PROVE  Fits(u, t)
<1>1. PICK i \in DOMAIN frames :
        /\ Has(u, i) /\ (\A j \in i + 1 .. Len(frames) : ~Has(u, j)) /\ frames[i].time <= t
        /\ cursor' = [cursor EXCEPT ![u] = After(i)]
        /\ Answer(u, t, Whole(frames[i].inner[u]))
  BY DEF AnswersAfter
<1>2. answer'.ip = u /\ answer'.at = t /\ answer'.pos = Whole(frames[i].inner[u])
  BY <1>1 DEF Answer
<1>3. frames[i].inner[u] \in Nat /\ DOMAIN frames = 1 .. Len(frames) /\ Len(frames) \in Nat
  BY <1>1, FrameFacts DEF TypeOK
<1>4. i \in Nat /\ After(i) \in Cursors
  BY <1>3, CursorTypes
<1>5. /\ cursor' \in [Uavs -> Cursors] /\ cursor'[u] = After(i)
      /\ \A v \in Uavs \ {u} : cursor'[v] = cursor[v]
  BY <1>1, <1>4 DEF TypeOK
<1>6. cursor'[u].kind # "interpolate"
  BY <1>5 DEF After
<1>7. ASSUME NEW k \in DOMAIN frames, Has(u, k), frames[k].time = t PROVE k = i
  <2>1. i <= k
    BY <1>1, <1>7, InOrder
  <2>2. ~(k \in i + 1 .. Len(frames))
    BY <1>1, <1>7
  <2> QED BY <1>3, <2>1, <2>2
<1>8. CursorFits(u, cursor'[u], t)
  BY <1>1, <1>5 DEF CursorFits, IsAfter
<1>9. Same(answer'.pos, Whole(frames[i].inner[u])) /\ answer'.pos.den > 0
  BY <1>2, <1>3, SameWhole
<1> QED
  BY <1>2, <1>5, <1>6, <1>7, <1>8, <1>9 DEF Fits

LEMMA BetweenFits ==
  ASSUME TypeOK, FramesFaithful, NEW u \in Uavs, NEW t \in Nat, AnswersBetween(u, t)
  PROVE  Fits(u, t)
<1>1. PICK s \in DOMAIN frames, i \in DOMAIN frames :
        /\ StartsFrom(u, s, t)
        /\ s < i /\ Has(u, i) /\ t <= frames[i].time
        /\ \A j \in s + 1 .. i - 1 : Has(u, j) => frames[j].time < t
        /\ cursor' = [cursor EXCEPT ![u] = Interpolate(s, i)]
        /\ Answer(u, t, Between(Sample(u, s), Sample(u, i), t))
  BY DEF AnswersBetween
<1> DEFINE z == Between(Sample(u, s), Sample(u, i), t)
           p == frames[s].inner[u]
           q == frames[i].inner[u]
<1>2. answer'.ip = u /\ answer'.at = t /\ answer'.pos = z
  BY <1>1 DEF Answer
<1>3. Has(u, s) /\ frames[s].time <= t
  BY <1>1 DEF StartsFrom
<1>4. /\ p \in Nat /\ q \in Nat /\ DOMAIN frames = 1 .. Len(frames) /\ Len(frames) \in Nat
  BY <1>1, <1>3, FrameFacts DEF TypeOK
<1>5. /\ s \in Nat /\ i \in Nat /\ frames[s].time \in Nat /\ frames[i].time \in Nat
      /\ frames[s].time < frames[i].time
  BY <1>1, InOrder
<1>6. Interpolate(s, i) \in Cursors
  BY <1>5, CursorTypes
<1>7. /\ cursor' \in [Uavs -> Cursors] /\ cursor'[u] = Interpolate(s, i)
      /\ \A v \in Uavs \ {u} : cursor'[v] = cursor[v]
  BY <1>1, <1>6 DEF TypeOK
<1>8. cursor'[u].a = s /\ cursor'[u].b = i
  BY <1>7 DEF Interpolate
<1>9. /\ z.den > 0
      /\ t = frames[s].time => Same(z, Whole(p))
      /\ t = frames[i].time => Same(z, Whole(q))
      /\ \/ AtMost(Whole(p), z) /\ AtMost(z, Whole(q))
         \/ AtMost(Whole(q), z) /\ AtMost(z, Whole(p))
  BY <1>1, <1>3, <1>4, <1>5, BetweenSamples DEF Sample
<1> HIDE DEF z
<1>10. ASSUME NEW k \in DOMAIN frames, Has(u, k), frames[k].time = t PROVE k = s \/ k = i
  <2>1. s <= k /\ k <= i
    BY <1>1, <1>3, <1>10, InOrder
  <2>2. ~(k \in s + 1 .. i - 1)
    BY <1>1, <1>5, <1>10
  <2> QED BY <1>4, <1>5, <2>1, <2>2
<1>11. CursorFits(u, cursor'[u], t)
  BY <1>1, <1>3, <1>7 DEF CursorFits, IsBetween
<1>12. \A k \in DOMAIN frames :
         Has(u, k) /\ frames[k].time = t => Same(answer'.pos, Whole(frames[k].inner[u]))
  BY <1>2, <1>9, <1>10
<1>13. LET a == Sample(u, cursor'[u].a)
           b == Sample(u, cursor'[u].b) IN
       /\ a.time <= t /\ t <= b.time
       /\ \/ AtMost(Whole(a.pos), answer'.pos) /\ AtMost(answer'.pos, Whole(b.pos))
          \/ AtMost(Whole(b.pos), answer'.pos) /\ AtMost(answer'.pos, Whole(a.pos))
  BY <1>1, <1>2, <1>3, <1>8, <1>9 DEF Sample
<1> QED
  BY <1>2, <1>7, <1>9, <1>11, <1>12, <1>13 DEF Fits

LEMMA PosAtTimeStep ==
  ASSUME IInv, NEW u \in Uavs, NEW t \in 0 .. MaxTime, PosAtTime(u, t)
  PROVE  IInv'
<1>1. /\ mode = "query" /\ mode' = "query"
      /\ UNCHANGED <<written, frames, inner, lastRow>>
      /\ t \in Nat /\ lastTime <= t /\ lastTime' = t /\ asked' = [asked EXCEPT ![u] = t]
      /\ Answers(u, t)
  BY QueryAnswers
<1>2. TypeOK /\ FramesFaithful /\ Spaced /\ QueryInv
  BY <1>1 DEF IInv, CursorInv
<1>3. Fits(u, t)
  BY <1>1, <1>2, BeforeFits, BetweenFits, AfterFits DEF Answers
<1>4. asked' \in [Uavs -> Nat \cup {-1}] /\ asked'[u] = t
      /\ \A v \in Uavs \ {u} : asked'[v] = asked[v]
  BY <1>1, <1>2 DEF TypeOK
<1>5. TypeOK'
  BY <1>1, <1>2, <1>3, <1>4 DEF TypeOK, Fits
<1>6. OnKeyFrame'
  BY <1>1, <1>3 DEF OnKeyFrame, Fits, Has
<1>7. WithinCursor'
  <2>1. SUFFICES ASSUME cursor'[u].kind = "interpolate"
                 PROVE  LET a == Sample(u, cursor[u].a)'
                            b == Sample(u, cursor[u].b)' IN
                        /\ a.time <= t /\ t <= b.time
                        /\ \/ AtMost(Whole(a.pos), answer'.pos) /\ AtMost(answer'.pos, Whole(b.pos))
                           \/ AtMost(Whole(b.pos), answer'.pos) /\ AtMost(answer'.pos, Whole(a.pos))
    BY <1>3 DEF WithinCursor, Fits
  <2> QED BY <1>1, <1>3, <2>1 DEF Fits, Sample
<1>8. QueryInv'
  <2>1. CursorFits(u, cursor[u], asked[u])'
    BY <1>1, <1>3, <1>4 DEF Fits, CursorFits, IsBefore, IsBetween, IsAfter, Has
  <2>2. ASSUME NEW v \in Uavs \ {u} PROVE CursorFits(v, cursor[v], asked[v])'
    <3>1. CursorFits(v, cursor[v], asked[v]) /\ cursor'[v] = cursor[v] /\ asked'[v] = asked[v]
      BY <1>2, <1>3, <1>4 DEF QueryInv, Fits
    <3> QED BY <1>1, <3>1 DEF CursorFits, IsBefore, IsBetween, IsAfter, Has
  <2>3. ASSUME NEW v \in Uavs PROVE asked'[v] <= lastTime'
    <3>1. asked[v] <= lastTime /\ asked[v] \in Nat \cup {-1} /\ lastTime \in Nat \cup {-1}
      BY <1>2 DEF QueryInv, TypeOK
    <3> QED BY <1>1, <1>4, <3>1
  <2> QED BY <2>1, <2>2, <2>3 DEF QueryInv
<1>9. Spaced' /\ FramesFaithful'
  BY <1>1, <1>2 DEF Spaced, FramesFaithful
<1> QED
  BY <1>1, <1>5, <1>6, <1>7, <1>8, <1>9 DEF IInv, CursorInv, NoPanic

LEMMA ParserStep == IInv /\ [Next]_vars => IInv'
<1> SUFFICES ASSUME IInv, [Next]_vars PROVE IInv'
  OBVIOUS
<1>1. CASE \E t \in NextTimes, u \in Uavs, p \in Positions :
             \/ SkipFirst([time |-> t, ip |-> u, pos |-> p])
             \/ ReadRow([time |-> t, ip |-> u, pos |-> p])
  <2>1. PICK t \in NextTimes, u \in Uavs, p \in Positions :
          \/ SkipFirst([time |-> t, ip |-> u, pos |-> p])
          \/ ReadRow([time |-> t, ip |-> u, pos |-> p])
    BY <1>1
  <2>2. CASE SkipFirst([time |-> t, ip |-> u, pos |-> p])
    <3>1. t \in Nat
      BY <2>2 DEF SkipFirst, NextTimes
    <3>2. [time |-> t, ip |-> u, pos |-> p] \in Row
      BY <3>1 DEF Row
    <3> QED BY <2>2, <3>2, SkipFirstStep
  <2>3. CASE ReadRow([time |-> t, ip |-> u, pos |-> p])
    BY <2>3, ReadRowStep
  <2> QED BY <2>1, <2>2, <2>3
<1>2. CASE FinishParse
  BY <1>2, FinishParseStep
<1>3. CASE \E u \in Uavs, t \in 0 .. MaxTime : PosAtTime(u, t)
  BY <1>3, PosAtTimeStep
<1>4. CASE UNCHANGED vars
  <2>1. CursorInv'
    BY <1>4 DEF vars, IInv, CursorInv, TypeOK, OnKeyFrame, WithinCursor, Has, Sample
  <2>2. Spaced' /\ FramesFaithful' /\ NoPanic'
    BY <1>4 DEF vars, IInv, Spaced, FramesFaithful, NoPanic
  <2>3. mode' = "read" => ReadInv'
    BY <1>4 DEF vars, IInv, ReadInv
  <2>4. mode' = "query" => QueryInv'
    BY <1>4 DEF vars, IInv, QueryInv, CursorFits, IsBefore, IsBetween, IsAfter, Has
  <2> QED BY <2>1, <2>2, <2>3, <2>4 DEF IInv
<1> QED
  BY <1>1, <1>2, <1>3, <1>4 DEF Next

LEMMA ParserIInv == Spec => []IInv
<1>1. Init => IInv
  BY ParserInit
<1>2. IInv /\ [Next]_vars => IInv'
  BY ParserStep
<1> QED
  BY <1>1, <1>2, PTL DEF Spec

(* position_parser.rs: no order of rows as main.cc writes them, and no order *)
(* of queries that does not go back in time, makes the parser of a file of   *)
(* two rows or more panic.                                                   *)
THEOREM ParserNoPanic == Spec => []NoPanic
<1>1. IInv => NoPanic
  BY DEF IInv
<1> QED
  BY <1>1, ParserIInv, PTL

(* pos_at_time: a query at the time of a frame is answered with that frame's *)
(* position, and every other one between the samples the cursor rests on.    *)
THEOREM ParserCursors == Spec => []CursorInv
<1>1. IInv => CursorInv
  BY DEF IInv
<1> QED
  BY <1>1, ParserIInv, PTL

(* parse: a position of a frame was written for that UAV at that time, and   *)
(* no two frames are of the same time.                                       *)
THEOREM ParserFaithful == Spec => []FramesFaithful
<1>1. IInv => FramesFaithful
  BY DEF IInv
<1> QED
  BY <1>1, ParserIInv, PTL

-----------------------------------------------------------------------------
(* Queries that do not skip a frame are answered by the reference.           *)

LEMMA SampleFacts ==
  ASSUME TypeOK, NEW u
  PROVE  /\ \A i \in DOMAIN frames : Has(u, i) => Sample(u, i) \in Samples(u)
         /\ \A r \in Samples(u) : \E k \in DOMAIN frames : Has(u, k) /\ r = Sample(u, k)
         /\ \A k \in DOMAIN frames : /\ Sample(u, k).time = frames[k].time
                                     /\ Sample(u, k).pos = frames[k].inner[u]
BY DEF Samples, Sample

(* A sample at the time of the query itself. *)
LEMMA AtSample ==
  ASSUME TypeOK, NEW u, NEW t \in Nat, NEW x, NEW i \in DOMAIN frames,
         Has(u, i), frames[i].time = t, Same(x, Whole(frames[i].inner[u]))
  PROVE  Interpolates(Samples(u), t, x)
<1>1. Sample(u, i) \in LatestBefore(Samples(u), t)
  BY SampleFacts DEF LatestBefore
<1> QED
  BY <1>1, SampleFacts DEF Interpolates

LEMMA BeforeExact ==
  ASSUME TypeOK, FramesFaithful, NEW u \in Uavs, NEW t \in Nat, AnswersBefore(u, t)
  PROVE  Adjacent(u)' /\ Interpolates(Samples(u), t, answer'.pos)
<1>1. PICK i \in DOMAIN frames :
        /\ cursor[u] = Before(i) /\ Has(u, i) /\ (\A j \in 1 .. i - 1 : ~Has(u, j))
        /\ t <= frames[i].time
        /\ cursor' = cursor /\ Answer(u, t, Whole(frames[i].inner[u]))
  BY DEF AnswersBefore
<1>2. /\ frames[i].inner[u] \in Nat /\ DOMAIN frames = 1 .. Len(frames) /\ Len(frames) \in Nat
      /\ frames[i].time \in Nat
  BY <1>1, FrameFacts DEF TypeOK
<1>3. answer'.pos = Whole(frames[i].inner[u]) /\ Same(answer'.pos, Whole(frames[i].inner[u]))
  BY <1>1, <1>2, SameWhole DEF Answer
<1>4. Adjacent(u)'
  BY <1>1 DEF Adjacent, Before
<1>5. CASE t = frames[i].time
  BY <1>1, <1>3, <1>4, <1>5, AtSample
<1>6. CASE t < frames[i].time
  <2>1. ASSUME NEW r \in Samples(u) PROVE frames[i].time <= r.time
    <3>1. PICK k \in DOMAIN frames : Has(u, k) /\ r = Sample(u, k)
      BY SampleFacts
    <3>2. ~(k \in 1 .. i - 1)
      BY <1>1, <3>1
    <3>3. i = k \/ i < k
      BY <1>2, <3>2
    <3>4. frames[i].time <= frames[k].time
      BY <3>3, InOrder
    <3> QED BY <3>1, <3>4, SampleFacts
  <2>2. LatestBefore(Samples(u), t) = {}
    <3>1. SUFFICES ASSUME NEW r \in LatestBefore(Samples(u), t) PROVE FALSE
      OBVIOUS
    <3>2. r \in Samples(u) /\ r.time <= t
      BY <3>1 DEF LatestBefore
    <3>3. PICK k \in DOMAIN frames : Has(u, k) /\ r = Sample(u, k)
      BY <3>2, SampleFacts
    <3>4. r.time \in Nat
      BY <3>3, InOrder, SampleFacts
    <3> QED BY <1>2, <1>6, <2>1, <3>2, <3>4
  <2>3. Sample(u, i) \in EarliestAfter(Samples(u), t)
    BY <1>1, <1>2, <1>6, <2>1, SampleFacts DEF EarliestAfter
  <2>4. Same(answer'.pos, Whole(Sample(u, i).pos))
    BY <1>3, SampleFacts
  <2> QED BY <1>4, <2>2, <2>3, <2>4 DEF Interpolates
<1> QED
  BY <1>1, <1>2, <1>5, <1>6

LEMMA AfterExact ==
  ASSUME TypeOK, FramesFaithful, NEW u \in Uavs, NEW t \in Nat, AnswersAfter(u, t)
  PROVE  Adjacent(u)' /\ Interpolates(Samples(u), t, answer'.pos)
<1>1. PICK i \in DOMAIN frames :
        /\ Has(u, i) /\ (\A j \in i + 1 .. Len(frames) : ~Has(u, j)) /\ frames[i].time <= t
        /\ cursor' = [cursor EXCEPT ![u] = After(i)]
        /\ Answer(u, t, Whole(frames[i].inner[u]))
  BY DEF AnswersAfter
<1>2. /\ frames[i].inner[u] \in Nat /\ DOMAIN frames = 1 .. Len(frames) /\ Len(frames) \in Nat
      /\ frames[i].time \in Nat
  BY <1>1, FrameFacts DEF TypeOK
<1>3. answer'.pos = Whole(frames[i].inner[u]) /\ Same(answer'.pos, Whole(frames[i].inner[u]))
  BY <1>1, <1>2, SameWhole DEF Answer
<1>4. Adjacent(u)'
  <2>1. cursor'[u] = After(i)
    BY <1>1 DEF TypeOK
  <2>2. cursor'[u].kind # "interpolate"
    BY <2>1 DEF After
  <2> QED BY <2>2 DEF Adjacent
<1>5. CASE t = frames[i].time
  BY <1>1, <1>3, <1>4, <1>5, AtSample
<1>6. CASE frames[i].time < t
  <2>1. ASSUME NEW r \in Samples(u) PROVE r.time <= frames[i].time /\ r.time \in Nat
    <3>1. PICK k \in DOMAIN frames : Has(u, k) /\ r = Sample(u, k)
      BY SampleFacts
    <3>2. ~(k \in i + 1 .. Len(frames))
      BY <1>1, <3>1
    <3>3. k = i \/ k < i
      BY <1>2, <3>2
    <3>4. frames[k].time <= frames[i].time /\ frames[k].time \in Nat
      BY <3>3, InOrder
    <3> QED BY <3>1, <3>4, SampleFacts
  <2>2. EarliestAfter(Samples(u), t) = {}
    <3>1. \A r \in Samples(u) : ~(r.time >= t)
      BY <1>2, <1>6, <2>1
    <3> QED BY <3>1 DEF EarliestAfter
  <2>3. Sample(u, i) \in LatestBefore(Samples(u), t)
    BY <1>1, <2>1, SampleFacts DEF LatestBefore
  <2>4. Same(answer'.pos, Whole(Sample(u, i).pos))
    BY <1>3, SampleFacts
  <2> QED BY <1>4, <2>2, <2>3, <2>4 DEF Interpolates
<1> QED
  BY <1>1, <1>2, <1>5, <1>6

LEMMA BetweenExact ==
  ASSUME TypeOK, FramesFaithful, Spaced, NEW u \in Uavs, NEW t \in Nat, AnswersBetween(u, t),
         UNCHANGED frames,
         Adjacent(u), asked[u] \in Nat \cup {-1}, t <= asked[u] + LogInterval
  PROVE  Adjacent(u)' /\ Interpolates(Samples(u), t, answer'.pos)
<1>1. PICK s \in DOMAIN frames, i \in DOMAIN frames :
        /\ StartsFrom(u, s, t)
        /\ s < i /\ Has(u, i) /\ t <= frames[i].time
        /\ \A j \in s + 1 .. i - 1 : Has(u, j) => frames[j].time < t
        /\ cursor' = [cursor EXCEPT ![u] = Interpolate(s, i)]
        /\ Answer(u, t, Between(Sample(u, s), Sample(u, i), t))
  BY DEF AnswersBetween
<1>2. /\ Has(u, s) /\ frames[s].time <= t
      /\ \/ asked[u] <= frames[s].time
         \/ \E b \in DOMAIN frames :
              cursor[u] = Interpolate(s, b) /\ s < b /\ Has(u, b) /\ t < frames[b].time
  BY <1>1 DEF StartsFrom
<1>3. DOMAIN frames = 1 .. Len(frames) /\ Len(frames) \in Nat
      /\ frames[s].inner[u] \in Nat /\ frames[i].inner[u] \in Nat
  BY <1>1, <1>2, FrameFacts DEF TypeOK
<1>4. /\ s \in Nat /\ i \in Nat /\ frames[s].time \in Nat /\ frames[i].time \in Nat
      /\ frames[s].time < frames[i].time /\ LogInterval \in Nat
  BY <1>1, InOrder, ParserAssumption
<1>5. cursor'[u] = Interpolate(s, i) /\ cursor'[u].a = s /\ cursor'[u].b = i
  <2>1. cursor'[u] = Interpolate(s, i)
    BY <1>1 DEF TypeOK
  <2> QED BY <2>1 DEF Interpolate
<1>6. \A j \in s + 1 .. i - 1 : ~Has(u, j)
  <2>1. SUFFICES ASSUME NEW j \in s + 1 .. i - 1, Has(u, j) PROVE FALSE
    OBVIOUS
  <2>2. j \in DOMAIN frames /\ s < j /\ frames[j].time < t
    BY <1>1, <1>3, <1>4, <2>1
  <2>3. frames[j].time \in Nat /\ frames[s].time + LogInterval <= frames[j].time
    BY <2>2, InOrder DEF Spaced
  <2>4. CASE asked[u] <= frames[s].time
    BY <1>4, <2>2, <2>3, <2>4
  <2>5. CASE \E b \in DOMAIN frames :
               cursor[u] = Interpolate(s, b) /\ s < b /\ Has(u, b) /\ t < frames[b].time
    <3>1. PICK b \in DOMAIN frames :
            cursor[u] = Interpolate(s, b) /\ s < b /\ Has(u, b) /\ t < frames[b].time
      BY <2>5
    <3>2. cursor[u].kind = "interpolate" /\ cursor[u].a = s /\ cursor[u].b = b
      BY <3>1 DEF Interpolate
    <3>3. ~(j \in s + 1 .. b - 1)
      BY <2>1, <3>2 DEF Adjacent
    <3>4. b = j \/ b < j
      BY <1>3, <2>2, <3>3
    <3>5. frames[b].time <= frames[j].time /\ frames[b].time \in Nat
      BY <2>2, <3>4, InOrder
    <3> QED BY <2>2, <2>3, <3>1, <3>5
  <2> QED BY <1>2, <2>4, <2>5
<1>7. Adjacent(u)'
  <2>1. \A j \in s + 1 .. i - 1 : u \notin DOMAIN frames'[j].inner
    <3>1. frames' = frames
      OBVIOUS
    <3> QED BY <1>6, <3>1 DEF Has
  <2> QED BY <1>5, <2>1 DEF Adjacent, Has
<1> DEFINE x == Between(Sample(u, s), Sample(u, i), t)
<1>8. /\ answer'.pos = x
      /\ t = frames[s].time => Same(x, Whole(frames[s].inner[u]))
      /\ t = frames[i].time => Same(x, Whole(frames[i].inner[u]))
  BY <1>1, <1>2, <1>3, <1>4, BetweenSamples DEF Sample, Answer
<1> HIDE DEF x
<1>9. CASE t = frames[s].time
  BY <1>2, <1>7, <1>8, <1>9, AtSample
<1>10. CASE t = frames[i].time
  BY <1>1, <1>7, <1>8, <1>10, AtSample
<1>11. CASE frames[s].time < t /\ t < frames[i].time
  <2>1. ASSUME NEW r \in Samples(u)
        PROVE  /\ r.time \in Nat
               /\ r.time <= frames[s].time \/ r.time >= frames[i].time
    <3>1. PICK k \in DOMAIN frames : Has(u, k) /\ r = Sample(u, k)
      BY SampleFacts
    <3>2. ~(k \in s + 1 .. i - 1)
      BY <1>6, <3>1
    <3>3. k = s \/ k < s \/ k = i \/ i < k
      BY <1>3, <1>4, <3>2
    <3>4. /\ frames[k].time \in Nat
          /\ frames[k].time <= frames[s].time \/ frames[k].time >= frames[i].time
      BY <1>4, <3>3, InOrder
    <3> QED BY <3>1, <3>4, SampleFacts
  <2>2. Sample(u, s) \in LatestBefore(Samples(u), t)
    <3>1. \A r \in Samples(u) : r.time <= t => r.time <= frames[s].time
      BY <1>4, <1>11, <2>1
    <3> QED BY <1>2, <3>1, SampleFacts DEF LatestBefore
  <2>3. Sample(u, i) \in EarliestAfter(Samples(u), t)
    <3>1. \A r \in Samples(u) : r.time >= t => r.time >= frames[i].time
      BY <1>4, <1>11, <2>1
    <3>2. frames[i].time >= t
      BY <1>4, <1>11
    <3> QED BY <1>1, <3>1, <3>2, SampleFacts DEF EarliestAfter
  <2>4. Same(answer'.pos, Between(Sample(u, s), Sample(u, i), t))
    BY <1>8 DEF x, Same
  <2>5. Sample(u, i).time > Sample(u, s).time
    BY <1>4, SampleFacts
  <2> QED BY <1>7, <2>2, <2>3, <2>4, <2>5 DEF Interpolates
<1> QED
  BY <1>1, <1>2, <1>4, <1>9, <1>10, <1>11

(* pos_at_time: as long as a UAV is asked for again before a whole frame has *)
(* gone by, its answer is the interpolation between the samples around the   *)
(* time of the query, and its cursor is left on them.                        *)
THEOREM ParserExact == Spec => Exact
<1>1. ASSUME IInv, NEW u \in Uavs, NEW t \in asked[u] .. asked[u] + LogInterval,
             PosAtTime(u, t), Adjacent(u)
      PROVE  Adjacent(u)' /\ Interpolates(Samples(u), t, answer'.pos)
  <2>1. mode = "query" /\ t \in Times /\ t <= MaxTime
    BY <1>1 DEF PosAtTime
  <2>2. TypeOK /\ FramesFaithful /\ Spaced
    BY <1>1 DEF IInv, CursorInv
  <2>3. t \in 0 .. MaxTime
    <3>1. lastTime \in Nat \cup {-1} /\ MaxStep \in Nat /\ MaxTime \in Nat
      BY <2>2, ParserAssumption DEF TypeOK
    <3> QED BY <2>1, <3>1 DEF Times
  <2>4. UNCHANGED frames /\ t \in Nat /\ asked[u] \in Nat \cup {-1} /\ Answers(u, t)
    BY <1>1, <2>3, QueryAnswers
  <2>5. t <= asked[u] + LogInterval
    BY <1>1, <2>4, ParserAssumption
  <2> QED
    BY <1>1, <2>2, <2>4, <2>5, BeforeExact, BetweenExact, AfterExact DEF Answers
<1>2. IInv =>
        [\A u \in Uavs : \A t \in asked[u] .. asked[u] + LogInterval :
           (PosAtTime(u, t) /\ Adjacent(u)) =>
             Adjacent(u)' /\ Interpolates(Samples(u), t, answer'.pos)]_vars
  BY <1>1
<1> QED
  BY <1>2, ParserIInv, PTL DEF Exact
=============================================================================
