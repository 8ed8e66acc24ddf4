---------------------------- MODULE PositionParser ----------------------------
(* position_parser.rs: reading a positions file row by row into frames, then *)
(* answering pos_at_time queries with one cursor per UAV.  The file is as    *)
(* LogPositions of main.cc writes it: the first row on the header's line, no *)
(* row back in time, frames LogInterval apart; as in the tests of the parser *)
(* a frame may miss UAVs.  Color rows only fill events, which nothing reads, *)
(* and are left out; so are rows that do not scan.                           *)
EXTENDS Keyframes, Sequences

CONSTANTS
  Uavs,         \* the addresses
  Positions,    \* the positions, integers
  LogInterval,  \* time between two frames, in ticks
  MaxStep,      \* longest time between two rounds of queries, in ticks
  MaxRows,      \* bound on the rows of the file
  MaxTime       \* bound on the time of a query

ASSUME ParserAssumption ==
  /\ Positions \subseteq Nat
  /\ {LogInterval, MaxStep, MaxRows, MaxTime} \subseteq Nat /\ LogInterval > 0
  /\ "none" \notin Uavs

Row == [time : Nat, ip : Uavs, pos : Positions]
Inner == UNION {[U -> Positions] : U \in SUBSET Uavs}
NoFrame == [u \in {} |-> 0]

(* InterpolationState *)
Cursors == [kind : {"none", "before", "interpolate", "after"}, a : Nat, b : Nat]
None == [kind |-> "none", a |-> 0, b |-> 0]
Before(i) == [kind |-> "before", a |-> i, b |-> i]
Interpolate(i, j) == [kind |-> "interpolate", a |-> i, b |-> j]
After(i) == [kind |-> "after", a |-> i, b |-> i]

VARIABLES
  mode,      \* "read", "query", or "panic" once parse or an assert panicked
  written,   \* the rows of the file so far
  frames,    \* frames: a time and the positions known at that time
  inner,     \* inner_map, the frame being collected
  lastRow,   \* last_time of parse, -1 for None
  cursor,    \* state: the cursor of each UAV, None if it has no entry
  lastTime,  \* last_time of the queries, -1 for None
  asked,     \* when each UAV was last queried, -1 for never
  answer     \* the last answer, for the properties

vars == <<mode, written, frames, inner, lastRow, cursor, lastTime, asked, answer>>

NoAnswer == [ip |-> "none", at |-> 0, pos |-> Whole(0)]

Init ==
  /\ mode = "read"
  /\ written = << >>
  /\ frames = << >>
  /\ inner = NoFrame
  /\ lastRow = -1
  /\ cursor = [u \in Uavs |-> None]
  /\ lastTime = -1
  /\ asked = [u \in Uavs |-> -1]
  /\ answer = NoAnswer

Has(u, i) == u \in DOMAIN frames[i].inner
Sample(u, i) == [time |-> frames[i].time, pos |-> frames[i].inner[u]]
Samples(u) == {Sample(u, i) : i \in {j \in DOMAIN frames : Has(u, j)}}

-----------------------------------------------------------------------------
(* SimulationData::parse                                                     *)

(* The times LogPositions can give the next row. *)
NextTimes ==
  IF written = << >> THEN {0}
  ELSE {written[Len(written)].time, written[Len(written)].time + LogInterval}

(* parse skips the first line.  The header that LogPositions writes has no   *)
(* newline, so the first row is on that line too.                            *)
SkipFirst(row) ==
  /\ mode = "read" /\ written = << >> /\ MaxRows > 0
  /\ written' = <<row>>
  /\ UNCHANGED <<mode, frames, inner, lastRow, cursor, lastTime, asked, answer>>

(* A row at a new time finishes the frame before it. *)
Finishes(row) == lastRow # -1 /\ lastRow # row.time

(* Faulty: finishing a frame does not empty the map. *)
StickyKept(row) == inner

Kept(row) == IF Finishes(row) THEN NoFrame ELSE inner

ReadRow(row) ==
  /\ mode = "read" /\ written # << >> /\ Len(written) < MaxRows
  /\ written' = Append(written, row)
  /\ frames' = IF Finishes(row) THEN Append(frames, [time |-> lastRow, inner |-> inner])
               ELSE frames
  /\ inner' = [u \in DOMAIN Kept(row) \cup {row.ip} |->
                 IF u = row.ip THEN row.pos ELSE Kept(row)[u]]
  /\ lastRow' = row.time
  /\ UNCHANGED <<mode, cursor, lastTime, asked, answer>>

(* The first frame of fs that knows u. *)
FirstFrame(fs, u) ==
  CHOOSE i \in DOMAIN fs : u \in DOMAIN fs[i].inner
                             /\ \A j \in 1 .. i - 1 : u \notin DOMAIN fs[j].inner

(* End of the file: the last frame is finished and every UAV is before its   *)
(* first frame; without frames, frames[frames.len() - 1] panics.             *)
FinishParse ==
  /\ mode = "read"
  /\ frames' = IF lastRow = -1 THEN frames
               ELSE Append(frames, [time |-> lastRow, inner |-> inner])
  /\ inner' = NoFrame
  /\ mode' = IF frames' = << >> THEN "panic" ELSE "query"
  /\ cursor' = [u \in Uavs |->
                  IF \E i \in DOMAIN frames' : u \in DOMAIN frames'[i].inner
                    THEN Before(FirstFrame(frames', u)) ELSE None]
  /\ UNCHANGED <<written, lastRow, lastTime, asked, answer>>

-----------------------------------------------------------------------------
(* SimulationData::pos_at_time                                               *)

(* Faulty: the second key frame counts as passed too early. *)
HastyStartIndex(c, t) ==
  IF c.kind = "interpolate" /\ frames[c.a].time <= t THEN c.b ELSE c.a

(* Faulty: the cursor never moves on from the first frame. *)
StuckStartIndex(c, t) == c.a

(* The frame the search starts from: the second key frame once passed. *)
StartIndex(c, t) ==
  IF c.kind = "interpolate" /\ frames[c.b].time <= t THEN c.b ELSE c.a

(* No search is needed after the last frame, or still before the first. *)
Settled(c, t) == c.kind = "after" \/ (c.kind = "before" /\ t <= frames[c.a].time)

Answer(u, t, x) == answer' = [ip |-> u, at |-> t, pos |-> x]

(* Faulty: the time of the frame is not looked at. *)
UntimedLater(u, start, t) == {i \in start + 1 .. Len(frames) : Has(u, i)}

(* The frames at which the search can end. *)
Later(u, start, t) ==
  {i \in start + 1 .. Len(frames) : Has(u, i) /\ frames[i].time >= t}

(* The last frame after start that knows u, or start. *)
LastIndex(u, start) ==
  CHOOSE i \in start .. Len(frames) :
    /\ i = start \/ Has(u, i)
    /\ \A j \in i + 1 .. Len(frames) : ~Has(u, j)

Search(u, start, t) ==
  IF Later(u, start, t) # {}
    THEN LET i == CHOOSE i \in Later(u, start, t) : \A j \in Later(u, start, t) : i <= j IN
         IF frames[start].time <= t /\ Has(u, start)
           THEN /\ Answer(u, t, Between(Sample(u, start), Sample(u, i), t))
                /\ cursor' = [cursor EXCEPT ![u] = Interpolate(start, i)]
                /\ UNCHANGED mode
           ELSE mode' = "panic" /\ UNCHANGED <<answer, cursor>>
    ELSE /\ cursor' = [cursor EXCEPT ![u] = After(LastIndex(u, start))]
         /\ Answer(u, t, Whole(Sample(u, LastIndex(u, start)).pos))
         /\ UNCHANGED mode

(* The queries of get_error: at each time every UAV of the file, some more   *)
(* than once, starting at 0 and never going back (line 152 asserts it).      *)
Known == {u \in Uavs : cursor[u] # None}

Times ==
  IF lastTime = -1 THEN {0}
  ELSE IF \A u \in Known : asked[u] = lastTime THEN lastTime .. lastTime + MaxStep
  ELSE {lastTime}

PosAtTime(u, t) ==
  /\ mode = "query" /\ u \in Known /\ t \in Times /\ t <= MaxTime
  /\ lastTime' = t
  /\ asked' = [asked EXCEPT ![u] = t]
  /\ IF Settled(cursor[u], t)
       THEN /\ Answer(u, t, Whole(Sample(u, cursor[u].a).pos))
            /\ UNCHANGED <<cursor, mode>>
       ELSE Search(u, StartIndex(cursor[u], t), t)
  /\ UNCHANGED <<written, frames, inner, lastRow>>

Next ==
  \/ \E t \in NextTimes, u \in Uavs, p \in Positions :
       SkipFirst([time |-> t, ip |-> u, pos |-> p]) \/ ReadRow([time |-> t, ip |-> u, pos |-> p])
  \/ FinishParse
  \/ \E u \in Uavs, t \in 0 .. MaxTime : PosAtTime(u, t)

Spec == Init /\ [][Next]_vars

-----------------------------------------------------------------------------
(* Correctness.                                                              *)

(* Every variable has its type. *)
TypeOK ==
  /\ mode \in {"read", "query", "panic"}
  /\ written \in Seq(Row)
  /\ frames \in Seq([time : Nat, inner : Inner])
  /\ inner \in Inner
  /\ lastRow \in Nat \cup {-1}
  /\ cursor \in [Uavs -> Cursors]
  /\ lastTime \in Nat \cup {-1}
  /\ asked \in [Uavs -> Nat \cup {-1}]
  /\ answer.pos.den > 0

(* A file of two rows or more is never a reason to panic: the assertions of  *)
(* pos_at_time that the start frame is not after now and knows the UAV hold  *)
(* in every order of queries that does not go back in time.                  *)
NoPanic == mode = "panic" => Len(written) < 2

(* A query at the time of a frame that knows the UAV gets that frame's       *)
(* position, wherever the cursor was before.                                 *)
OnKeyFrame ==
  \A u \in Uavs, i \in DOMAIN frames :
    (mode = "query" /\ answer.ip = u /\ Has(u, i) /\ frames[i].time = answer.at)
      => Same(answer.pos, Whole(frames[i].inner[u]))

(* Every answer lies between the two samples the cursor of the UAV rests on, *)
(* and the query between their times: no extrapolation.                      *)
WithinCursor ==
  \A u \in Uavs :
    (mode = "query" /\ answer.ip = u /\ cursor[u].kind = "interpolate") =>
      LET a == Sample(u, cursor[u].a)
          b == Sample(u, cursor[u].b) IN
      /\ a.time <= answer.at /\ answer.at <= b.time
      /\ \/ AtMost(Whole(a.pos), answer.pos) /\ AtMost(answer.pos, Whole(b.pos))
         \/ AtMost(Whole(b.pos), answer.pos) /\ AtMost(answer.pos, Whole(a.pos))

(* The cursors and what they answer. *)
CursorInv == TypeOK /\ OnKeyFrame /\ WithinCursor

(* The rows after the first are what the frames hold: a position of a frame  *)
(* was written for that UAV at that time, and no time has two frames.        *)
FramesFaithful ==
  /\ \A i \in DOMAIN frames : \A u \in DOMAIN frames[i].inner :
       \E k \in 2 .. Len(written) :
         written[k] = [time |-> frames[i].time, ip |-> u, pos |-> frames[i].inner[u]]
  /\ \A i, j \in DOMAIN frames : i < j => frames[i].time < frames[j].time

(* No sample of u lies between the two its cursor rests on. *)
Adjacent(u) ==
  cursor[u].kind = "interpolate" =>
    \A i \in cursor[u].a + 1 .. cursor[u].b - 1 : ~Has(u, i)

(* A UAV queried again before a whole frame has gone by is answered by       *)
(* interpolation between the samples that surround the time of the query,    *)
(* and its cursor is left on them, unless it had skipped a sample before.    *)
Exact ==
  [][\A u \in Uavs : \A t \in asked[u] .. asked[u] + LogInterval :
       (PosAtTime(u, t) /\ Adjacent(u)) =>
         Adjacent(u)' /\ Interpolates(Samples(u), t, answer'.pos)]_vars
=============================================================================
