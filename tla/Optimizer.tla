------------------------------ MODULE Optimizer ------------------------------
(* The parameter search of parameter_optimizer (optimization.rs): one runner *)
(* thread per CPU simulates, scores and records parameters until enough      *)
(* results are in or the user presses Ctrl-C; the main thread joins them,    *)
(* saves and plots.  Shared: the flag RUNNING, the atomic LOWEST_ERROR, the  *)
(* mutex STATE with the results, and the directory out/.  Each step is one   *)
(* access to shared state; a thread that panics inside the mutex poisons it. *)
(* The parameters themselves and the private temporary files are left out.   *)
EXTENDS Integers, Sequences, FiniteSets

CONSTANTS
  Runners,         \* the threads, num_cpus::get() of them
  Errors,          \* the scores an analysis can come to, scaled to integers
  DefaultError,    \* the initial LOWEST_ERROR
  MaxSimulations,  \* MAX_SIMULATIONS
  ForceExitAt      \* the value of FORCE_EXIT that makes the handler exit, 5

ASSUME OptimizerAssumption ==
  /\ IsFiniteSet(Runners) /\ Runners # {}
  /\ Errors \subseteq Nat /\ DefaultError \in Nat
  /\ MaxSimulations \in Nat \ {0}
  /\ ForceExitAt \in Nat

(* Codes for what is not a score; no real score is negative. *)
NaN == -1   \* a score that is not a number
None == -2  \* no score yet

(* Where a thread can be; the last three of a runner are ways of panicking,  *)
(* "poisoned" while it holds STATE, "uncopied" in fs::copy.                  *)
RunnerPlaces == {"loop", "ask", "simulate", "analyse", "record", "load", "compare",
                 "copy", "ended", "panicked", "poisoned", "uncopied"}
Gone == {"ended", "panicked", "poisoned", "uncopied"}
MainPlaces == {"join", "save", "plot", "done", "lost", "unwritten", "unplotted", "killed"}
Over == {"done", "lost", "unwritten", "unplotted", "killed"}

VARIABLES
  running,   \* RUNNING
  lowest,    \* LOWEST_ERROR
  poisoned,  \* the mutex of STATE is poisoned
  results,   \* scores in STATE.results, in the order of recording
  exported,  \* scores with a file in out/
  presses,   \* FORCE_EXIT
  pc,        \* where each runner is
  err,       \* the score each runner is working on
  old,       \* old_error of each runner
  main       \* where the main thread is

shared == <<running, lowest, poisoned, results, exported>>
vars == <<shared, presses, pc, err, old, main>>

Recorded == {results[i] : i \in DOMAIN results}

Init ==
  /\ running = TRUE
  /\ lowest = DefaultError
  /\ poisoned = FALSE
  /\ results = << >>
  /\ exported = {}
  /\ presses = 0
  /\ pc = [t \in Runners |-> "loop"]
  /\ err = [t \in Runners |-> None]
  /\ old = [t \in Runners |-> DefaultError]
  /\ main = "join"

-----------------------------------------------------------------------------
(* A runner.                                                                 *)

(* Runner t goes from one place to another, in a process still alive. *)
Move(t, from, to) ==
  /\ main \notin Over
  /\ pc[t] = from
  /\ pc' = [pc EXCEPT ![t] = to]
  /\ UNCHANGED <<presses, main>>

(* Faulty: the flag is only looked at once there are enough results. *)
KeenContinue == running \/ Len(results) < MaxSimulations

(* while RUNNING *)
Continue == running

Loop(t) ==
  /\ Move(t, "loop", IF Continue THEN "ask" ELSE "ended")
  /\ err' = [err EXCEPT ![t] = None]
  /\ UNCHANGED <<shared, old>>

(* Under STATE, the optimizers propose values; lock().unwrap() panics. *)
Ask(t) ==
  /\ Move(t, "ask", IF poisoned THEN "panicked" ELSE "simulate")
  /\ UNCHANGED <<shared, err, old>>

(* A sampler that proposes nothing: the unwrap of ask panics under STATE. *)
AskFails(t) ==
  /\ ~poisoned
  /\ Move(t, "ask", "poisoned")
  /\ poisoned' = TRUE
  /\ UNCHANGED <<running, lowest, results, exported, err, old>>

(* The simulator process exits, with success or not. *)
Simulate(t) ==
  /\ \E to \in {"analyse", "loop"} : Move(t, "simulate", to)
  /\ UNCHANGED <<shared, err, old>>

(* run_analysis up to the lock: an unreadable positions file ends the        *)
(* analysis, one without frames panics, any other gets a score.              *)
Analyse(t) ==
  /\ \/ \E to \in {"loop", "panicked"} : Move(t, "analyse", to) /\ UNCHANGED err
     \/ \E e \in Errors \cup {NaN} :
          Move(t, "analyse", "record") /\ err' = [err EXCEPT ![t] = e]
  /\ UNCHANGED <<shared, old>>

(* Faulty: enough results do not stop the runners. *)
NeverStopping(rs) == running

(* Faulty: the runners are stopped one result too soon. *)
SoonStopping(rs) == IF Len(rs) + 1 = MaxSimulations THEN FALSE ELSE running

(* RUNNING once the results are rs. *)
Stopping(rs) == IF Len(rs) = MaxSimulations THEN FALSE ELSE running

(* The optimizers refuse to be told a NaN, and the unwrap of tell panics. *)
Refused(e) == e = NaN

(* Faulty: the lowest error is already kept up to date here. *)
EagerRecord(t) ==
  /\ ~poisoned /\ ~Refused(err[t])
  /\ Move(t, "record", "load")
  /\ results' = Append(results, err[t])
  /\ running' = Stopping(results')
  /\ lowest' = IF err[t] < lowest THEN err[t] ELSE lowest
  /\ UNCHANGED <<poisoned, exported, err, old>>

(* Under STATE, run_analysis tells the optimizers the score and pushes the   *)
(* result; a panic here poisons the lock.                                    *)
Record(t) ==
  /\ ~poisoned /\ ~Refused(err[t])
  /\ Move(t, "record", "load")
  /\ results' = Append(results, err[t])
  /\ running' = Stopping(results')
  /\ UNCHANGED <<lowest, poisoned, exported, err, old>>

RecordFails(t) ==
  /\ poisoned \/ Refused(err[t])
  /\ Move(t, "record", IF poisoned THEN "panicked" ELSE "poisoned")
  /\ poisoned' = TRUE
  /\ UNCHANGED <<running, lowest, results, exported, err, old>>

(* LOWEST_ERROR is read, then compared and overwritten, with no lock held. *)
Load(t) ==
  /\ Move(t, "load", "compare")
  /\ old' = [old EXCEPT ![t] = lowest]
  /\ UNCHANGED <<shared, err>>

Compare(t) ==
  /\ Move(t, "compare", IF err[t] < old[t] THEN "copy" ELSE "loop")
  /\ lowest' = IF err[t] < old[t] THEN err[t] ELSE lowest
  /\ UNCHANGED <<running, poisoned, results, exported, err, old>>

(* Faulty: the positions file is copied while STATE is held. *)
LockedCopyFails(t) ==
  /\ Move(t, "copy", "uncopied")
  /\ poisoned' = TRUE
  /\ UNCHANGED <<running, lowest, results, exported, err, old>>

(* The positions file becomes out/<error>.csv, or the unwrap of fs::copy     *)
(* panics.                                                                   *)
Copy(t) ==
  /\ Move(t, "copy", "loop")
  /\ exported' = exported \cup {err[t]}
  /\ UNCHANGED <<running, lowest, poisoned, results, err, old>>

CopyFails(t) ==
  /\ Move(t, "copy", "uncopied")
  /\ UNCHANGED <<shared, err, old>>

Runner(t) ==
  \/ Loop(t) \/ Ask(t) \/ AskFails(t) \/ Simulate(t) \/ Analyse(t)
  \/ Record(t) \/ RecordFails(t)
  \/ Load(t) \/ Compare(t) \/ Copy(t) \/ CopyFails(t)

-----------------------------------------------------------------------------
(* The main thread and the Ctrl-C handler.                                   *)

Advance(from, to) ==
  /\ main = from
  /\ main' = to
  /\ UNCHANGED <<shared, presses, pc, err, old>>

(* join ignores panics, lock().unwrap() does not. *)
Join ==
  /\ \A t \in Runners : pc[t] \in Gone
  /\ Advance("join", IF poisoned THEN "lost" ELSE "save")

(* output-<seconds>.json holds the results. *)
Save == \E to \in {"plot", "unwritten"} : Advance("save", to)

(* Both plots; RangeSmoother::new never leaves its loop without results. *)
Plot ==
  /\ results # << >>
  /\ \E to \in {"done", "unplotted"} : Advance("plot", to)

SpinInPlot ==
  /\ main = "plot" /\ results = << >>
  /\ UNCHANGED vars

CtrlC ==
  /\ main \notin Over
  /\ presses' = presses + 1
  /\ IF presses = ForceExitAt
       THEN main' = "killed" /\ UNCHANGED running
       ELSE running' = FALSE /\ UNCHANGED main
  /\ UNCHANGED <<lowest, poisoned, results, exported, pc, err, old>>

Terminated == main \in Over /\ UNCHANGED vars

Main == Join \/ Save \/ Plot \/ SpinInPlot

Next == (\E t \in Runners : Runner(t)) \/ Main \/ CtrlC \/ Terminated

Spec == Init /\ [][Next]_vars

(* Every thread keeps running and every simulation ends (Swarm!Terminates);  *)
(* nobody has to press Ctrl-C.                                               *)
FairSpec == Spec /\ WF_vars(Main) /\ \A t \in Runners : WF_vars(Runner(t))

-----------------------------------------------------------------------------
(* Correctness.                                                              *)

(* Every variable has its type; a runner has a score once it has analysed,   *)
(* a real one once it has recorded; the sixth press is the last.             *)
TypeOK ==
  /\ running \in BOOLEAN /\ poisoned \in BOOLEAN
  /\ lowest \in Errors \cup {DefaultError}
  /\ results \in Seq(Errors)
  /\ exported \subseteq Errors
  /\ presses \in 0 .. ForceExitAt + 1
  /\ pc \in [Runners -> RunnerPlaces]
  /\ err \in [Runners -> Errors \cup {NaN, None}]
  /\ old \in [Runners -> Errors \cup {DefaultError}]
  /\ main \in MainPlaces
  /\ \A t \in Runners : pc[t] = "ask" => err[t] = None
  /\ \A t \in Runners : pc[t] = "record" => err[t] # None
  /\ \A t \in Runners : pc[t] \in {"load", "compare", "copy"} => err[t] \in Errors
  /\ main \notin Over => presses <= ForceExitAt

(* Score e has reached out/, or a runner is on its way there or died of it. *)
Delivered(e) ==
  e \in exported \/ \E t \in Runners : err[t] = e /\ pc[t] \in {"copy", "uncopied"}

(* The best of the recorded scores that beat the initial LOWEST_ERROR. *)
Best(e) == e \in Recorded /\ e < DefaultError /\ \A f \in Recorded : e <= f

(* However the reads and writes of LOWEST_ERROR interleave ("If multiple     *)
(* threads get in here we don't really care..."), the positions of the best  *)
(* simulation are in out/ when the runners are gone, unless copying failed.  *)
BestExported ==
  (\A t \in Runners : pc[t] \in Gone) => \A e \in Errors : Best(e) => Delivered(e)

(* Runners that were already simulating when the last result came in each    *)
(* add at most one more: MAX_SIMULATIONS is overshot by less than a round.   *)
BoundedOvershoot == Len(results) < MaxSimulations + Cardinality(Runners)

(* A runner leaves its loop only after Ctrl-C or when there are enough       *)
(* results; a panic of another runner does not stop it.                      *)
EndsForReason ==
  (\E t \in Runners : pc[t] = "ended") => presses > 0 \/ Len(results) >= MaxSimulations

(* The results are only lost at the end (main panics on the lock) if some    *)
(* runner panicked over a sampler, asking it without a score yet or telling  *)
(* it a NaN; panics elsewhere cost only a runner.                            *)
LossNeedsPoison ==
  main = "lost" => \E t \in Runners : pc[t] = "poisoned" /\ err[t] \in {None, NaN}

(* Once RUNNING is cleared or no runner is left, run comes to its end; the   *)
(* exception is an empty list of results, over which write_hot_cold spins.   *)
Stops ==
  (~running \/ \A t \in Runners : pc[t] \in Gone)
    ~> (main \in Over \/ (main = "plot" /\ results = << >>))

-----------------------------------------------------------------------------
(* The inductive invariant.                                                  *)

(* Everything LOWEST_ERROR was ever set to is recorded and delivered. *)
Known(e) == e = DefaultError \/ (e \in Recorded /\ Delivered(e))

Comparing(e) == \E t \in Runners : err[t] = e /\ pc[t] \in {"load", "compare"}

ExportInv ==
  /\ Known(lowest)
  /\ \A t \in Runners : pc[t] = "compare" => Known(old[t])
  /\ \A t \in Runners : pc[t] \in {"load", "compare", "copy"} => err[t] \in Recorded
  /\ \A e \in Errors : Best(e) => Delivered(e) \/ Comparing(e)

(* Runners that can still record a result although RUNNING is cleared. *)
InFlight == {t \in Runners : pc[t] \in {"ask", "simulate", "analyse", "record"}}

CountInv ==
  Len(results) >= MaxSimulations =>
    /\ ~running
    /\ Len(results) + Cardinality(InFlight) < MaxSimulations + Cardinality(Runners)

EndInv ==
  /\ ~running => presses > 0 \/ Len(results) >= MaxSimulations
  /\ EndsForReason

PoisonInv ==
  /\ poisoned => \E t \in Runners : pc[t] = "poisoned" /\ err[t] \in {None, NaN}
  /\ main = "lost" => poisoned

(* The inductive invariant of the search: who still owes an export, who can  *)
(* still record, and who poisoned the lock (run_thread, run_analysis).       *)
SearchInv == TypeOK /\ ExportInv /\ CountInv /\ EndInv /\ PoisonInv
=============================================================================
