----------------------------- MODULE Visualizer -----------------------------
(* The main loop of Visualizer/vis.py: it plays a positions file back, pass  *)
(* after pass, with one search cursor per UAV that is kept between passes,   *)
(* either on the screen until the user quits or, with --graph-only, until    *)
(* every UAV has run out of rows.  UAVs are the last numbers of their        *)
(* addresses; indices start at 1.  Positions, colours and drawing are left   *)
(* out.                                                                      *)
EXTENDS Integers, Sequences, FiniteSets

CONSTANTS
  Uavs,         \* last numbers of addresses
  LogInterval,  \* time between two frames of the file, in ticks
  MaxDelta,     \* longest time between two passes on the screen, in ticks
  Cap,          \* the 25 s at which simulation_time stops, in ticks
  MaxRows,      \* bound on the rows of the file
  MaxFrames     \* bound on the frames of the file

ASSUME VisualizerAssumption ==
  /\ Uavs \subseteq Nat /\ IsFiniteSet(Uavs)
  /\ {LogInterval, MaxDelta, Cap, MaxRows, MaxFrames} \subseteq Nat \ {0}

None == 0

Row == [time : {LogInterval * k : k \in 0 .. MaxFrames}, ip : Uavs]

(* The files LogPositions can write, without the line that is skipped. *)
Files ==
  {f \in UNION {[1 .. n -> Row] : n \in 0 .. MaxRows} :
     \A i, j \in DOMAIN f : i < j => f[i].time <= f[j].time}

VARIABLES
  graphOnly,  \* --graph-only
  lines,      \* lines
  central,    \* central
  last,       \* uav_last_index
  before,     \* uav_before_indices
  after,      \* uav_after_indices
  todo,       \* UAVs this pass has not come to yet
  done,       \* uav_done_with_pos_cout
  now,        \* simulation_time
  phase       \* "pass", "finished", or "crashed" on an empty file

vars == <<graphOnly, lines, central, last, before, after, todo, done, now, phase>>

Known == {lines[i].ip : i \in DOMAIN lines}

Lowest(S) == CHOOSE u \in S : \A v \in S : u <= v

(* The search for the lowest number starts at the second element of the set, *)
(* in whatever order the set is listed; a single element is found as [-1].   *)
Chosen(first) == IF Known = {first} THEN first ELSE Lowest(Known \ {first})

Init ==
  /\ graphOnly \in BOOLEAN
  /\ lines \in Files
  /\ central \in {Chosen(u) : u \in Known} \cup IF Known = {} THEN {None} ELSE {}
  /\ last = [u \in Known |-> 1]
  /\ before = [u \in Known |-> None]
  /\ after = [u \in Known |-> None]
  /\ todo = Known
  /\ done = 0
  /\ now = 0
  /\ phase = IF lines = << >> THEN "crashed" ELSE "pass"

-----------------------------------------------------------------------------
(* One pass.                                                                 *)

(* Faulty: a row at this very time has not passed. *)
StrictPassed(i) == lines[i].time < now

Passed(i) == lines[i].time <= now

(* The rows of u from its cursor on. *)
Ahead(u) == {i \in last[u] .. Len(lines) : lines[i].ip = u}

(* Where the search for u breaks off: at the first row of u still to come,   *)
(* or behind the last line.                                                  *)
End(u) ==
  CHOOSE i \in last[u] .. Len(lines) + 1 :
    /\ i = Len(lines) + 1 \/ (i \in Ahead(u) /\ ~Passed(i))
    /\ \A j \in Ahead(u) : j < i => Passed(j)

(* The last row of u the search came by, if any. *)
BeforeIndex(u) ==
  LET seen == {i \in Ahead(u) : i < End(u)} IN
  IF seen = {} THEN None ELSE CHOOSE i \in seen : \A j \in seen : j <= i

AfterIndex(u) == IF End(u) > Len(lines) THEN None ELSE End(u)

(* Faulty: the next search goes on where this one broke off. *)
HastyResume(u) == End(u)

(* The next search starts at the row before now, if there is one. *)
Resume(u) == IF BeforeIndex(u) # None THEN BeforeIndex(u) ELSE End(u)

Search(u) ==
  /\ phase = "pass" /\ u \in todo
  /\ before' = [before EXCEPT ![u] = BeforeIndex(u)]
  /\ after' = [after EXCEPT ![u] = AfterIndex(u)]
  /\ last' = [last EXCEPT ![u] = Resume(u)]
  /\ done' = IF AfterIndex(u) = None THEN done + 1 ELSE done
  /\ todo' = todo \ {u}
  /\ UNCHANGED <<graphOnly, lines, central, now, phase>>

(* Faulty: one UAV without rows to come is enough. *)
HastyFinishes == graphOnly /\ done > 0

Finishes == graphOnly /\ done = Cardinality(Known)

(* Faulty: time stops one tick short of the cap. *)
ShortElapsed(d) == IF now + 1 < Cap THEN now + d ELSE now

Elapsed(d) == IF now < Cap THEN now + d ELSE now

(* A tick without the screen, the wall clock's time with it. *)
Deltas == IF graphOnly THEN {1} ELSE 0 .. MaxDelta

NextPass ==
  /\ phase = "pass" /\ todo = {} /\ ~Finishes
  /\ \E d \in Deltas : now' = Elapsed(d)
  /\ todo' = Known
  /\ done' = 0
  /\ UNCHANGED <<graphOnly, lines, central, last, before, after, phase>>

Finish ==
  /\ phase = "pass" /\ todo = {} /\ Finishes
  /\ phase' = "finished"
  /\ UNCHANGED <<graphOnly, lines, central, last, before, after, todo, done, now>>

(* Escape or a closed window, looked at where a pass begins. *)
Quit ==
  /\ phase = "pass" /\ todo = Known /\ ~graphOnly
  /\ phase' = "finished"
  /\ UNCHANGED <<graphOnly, lines, central, last, before, after, todo, done, now>>

Over == phase # "pass" /\ UNCHANGED vars

Next == (\E u \in todo : Search(u)) \/ NextPass \/ Finish \/ Quit \/ Over

(* One thread runs the loop; nobody has to quit. *)
Spec == Init /\ [][Next]_vars /\ WF_vars((\E u \in todo : Search(u)) \/ NextPass \/ Finish)

-----------------------------------------------------------------------------
(* Correctness.                                                              *)

(* Every variable has its type; the count of finished UAVs is that of the    *)
(* UAVs this pass has found without rows to come.                            *)
TypeOK ==
  /\ graphOnly \in BOOLEAN
  /\ lines \in Seq(Row)
  /\ central \in Known \cup {None}
  /\ last \in [Known -> Nat \ {0}]
  /\ before \in [Known -> Nat] /\ after \in [Known -> Nat]
  /\ todo \subseteq Known
  /\ done = Cardinality({u \in Known \ todo : after[u] = None})
  /\ now \in Nat
  /\ phase \in {"pass", "finished", "crashed"}

(* Once a UAV has been searched for, its cursor is on one of its own rows:   *)
(* the deviation is computed from lines[uav_last_index[...]] with no check   *)
(* of the index.                                                             *)
CursorOnOwnRow ==
  \A u \in Known \ todo : last[u] \in DOMAIN lines /\ lines[last[u]].ip = u

(* The state of the playback. *)
PlaybackInv == TypeOK /\ CursorOnOwnRow

(* Although each search starts where an earlier one stopped, it finds the    *)
(* same rows as one over the whole file: the latest of the UAV's rows that   *)
(* has passed and the earliest to come.  So no two rows to interpolate       *)
(* between have the same time.                                               *)
Own(u) == {i \in DOMAIN lines : lines[i].ip = u}
SurroundsNow ==
  \A u \in Known \ todo :
    LET past == {i \in Own(u) : lines[i].time <= now}
        future == Own(u) \ past IN
    /\ IF past = {} THEN before[u] = None
       ELSE before[u] \in past /\ \A i \in past : i <= before[u]
    /\ IF future = {} THEN after[u] = None
       ELSE after[u] \in future /\ \A i \in future : after[u] <= i

(* A graph is only made of a file played back to its last row. *)
PlayedToEnd ==
  (phase = "finished" /\ graphOnly) => \A i \in DOMAIN lines : lines[i].time <= now

(* With --graph-only a file no longer than the cap is finished. *)
ShortFileEnds ==
  (graphOnly /\ phase = "pass" /\ \A i \in DOMAIN lines : lines[i].time <= Cap)
    ~> phase = "finished"
=============================================================================
