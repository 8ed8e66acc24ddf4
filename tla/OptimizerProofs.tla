--------------------------- MODULE OptimizerProofs ---------------------------
(* What the parameter search guarantees for any number of runners, any       *)
(* scores and any limit, proved from the inductive invariant SearchInv, and  *)
(* what the colour ranges of its export guarantee for any number of both.    *)
EXTENDS Optimizer, RangeSmoother, FiniteSetTheorems, TLAPS

(* A push adds one score to the recorded ones. *)
LEMMA RecordedAppend ==
  ASSUME results \in Seq(Errors), NEW e \in Errors, results' = Append(results, e)
  PROVE  /\ Recorded' = Recorded \cup {e}
         /\ results' \in Seq(Errors)
         /\ Len(results') = Len(results) + 1
<1>1. /\ results' \in Seq(Errors) /\ Len(results') = Len(results) + 1
      /\ DOMAIN results = 1 .. Len(results) /\ DOMAIN results' = 1 .. Len(results')
      /\ Len(results) \in Nat
  OBVIOUS
<1>2. \A k \in 1 .. Len(results) : results'[k] = results[k]
  OBVIOUS
<1>3. results'[Len(results) + 1] = e
  OBVIOUS
<1>4. 1 .. (Len(results) + 1) = (1 .. Len(results)) \cup {Len(results) + 1}
  BY <1>1
<1>5. Recorded' = {results'[k] : k \in (1 .. Len(results)) \cup {Len(results) + 1}}
  BY <1>1, <1>4 DEF Recorded
<1>6. Recorded = {results[k] : k \in 1 .. Len(results)}
  BY <1>1 DEF Recorded
<1> HIDE DEF Recorded
<1>7. Recorded' = Recorded \cup {e}
  BY <1>2, <1>3, <1>5, <1>6
<1> QED BY <1>1, <1>7

(* The recorded scores are scores. *)
LEMMA RecordedErrors == results \in Seq(Errors) => Recorded \subseteq Errors
  BY DEF Recorded

(* What every action of a runner has in common. *)
LEMMA MoveFacts ==
  ASSUME TypeOK, NEW t \in Runners, NEW from, NEW to \in RunnerPlaces, Move(t, from, to)
  PROVE  /\ pc[t] = from /\ pc'[t] = to
         /\ \A u \in Runners : u # t => pc'[u] = pc[u]
         /\ pc' \in [Runners -> RunnerPlaces]
         /\ presses' = presses /\ main' = main /\ main \notin Over
  BY DEF TypeOK, Move

-----------------------------------------------------------------------------
(* Type correctness.                                                         *)

LEMMA Constants ==
  /\ Errors \subseteq Nat /\ DefaultError \in Nat
  /\ MaxSimulations \in Nat /\ MaxSimulations > 0
  /\ ForceExitAt \in Nat
  /\ None \notin Errors /\ NaN \notin Errors /\ None # NaN
  BY OptimizerAssumption DEF None, NaN

LEMMA InitType == Init => TypeOK
<1> SUFFICES ASSUME Init PROVE TypeOK
  OBVIOUS
<1>1. results \in Seq(Errors) /\ exported \subseteq Errors
  BY DEF Init
<1>2. presses \in 0 .. ForceExitAt + 1 /\ presses <= ForceExitAt
  BY Constants DEF Init
<1> QED BY <1>1, <1>2 DEF Init, TypeOK, RunnerPlaces, MainPlaces

LEMMA NextType == TypeOK /\ [Next]_vars => TypeOK'
<1> SUFFICES ASSUME TypeOK, [Next]_vars PROVE TypeOK'
  OBVIOUS
<1> USE DEF vars, shared
<1>1. ASSUME NEW t \in Runners, Runner(t) PROVE TypeOK'
  <2>1. CASE Loop(t)
    BY <2>1 DEF Loop, Continue, Move, TypeOK, RunnerPlaces
  <2>2. CASE Ask(t)
    BY <2>2 DEF Ask, Move, TypeOK, RunnerPlaces
  <2>11. CASE AskFails(t)
    BY <2>11 DEF AskFails, Move, TypeOK, RunnerPlaces
  <2>3. CASE Simulate(t)
    BY <2>3 DEF Simulate, Move, TypeOK, RunnerPlaces
  <2>4. CASE Analyse(t)
    <3>1. ASSUME NEW to \in {"loop", "panicked"}, Move(t, "analyse", to), UNCHANGED err
          PROVE  TypeOK'
      BY <2>4, <3>1 DEF Analyse, Move, TypeOK, RunnerPlaces
    <3>2. ASSUME NEW e \in Errors \cup {NaN}, Move(t, "analyse", "record"),
                 err' = [err EXCEPT ![t] = e]
          PROVE  TypeOK'
      <4>1. e # None
        BY Constants
      <4> QED BY <2>4, <3>2, <4>1 DEF Analyse, Move, TypeOK, RunnerPlaces
    <3> QED BY <2>4, <3>1, <3>2 DEF Analyse
  <2>5. CASE Record(t)
    <3>1. err[t] \in Errors
      <4>1. err[t] # None /\ err[t] # NaN
        BY <2>5 DEF Record, Refused, Move, TypeOK
      <4> QED BY <4>1, <2>5 DEF Record, Refused, TypeOK
    <3> QED BY <2>5, <3>1, RecordedAppend DEF Record, Refused, Stopping, Move, TypeOK, RunnerPlaces
  <2>6. CASE RecordFails(t)
    BY <2>6 DEF RecordFails, Refused, Move, TypeOK, RunnerPlaces
  <2>7. CASE Load(t)
    BY <2>7 DEF Load, Move, TypeOK, RunnerPlaces
  <2>8. CASE Compare(t)
    BY <2>8 DEF Compare, Move, TypeOK, RunnerPlaces
  <2>9. CASE Copy(t)
    BY <2>9 DEF Copy, Move, TypeOK, RunnerPlaces
  <2>10. CASE CopyFails(t)
    BY <2>10 DEF CopyFails, Move, TypeOK, RunnerPlaces
  <2> QED BY <1>1, <2>1, <2>2, <2>3, <2>4, <2>5, <2>6, <2>7, <2>8, <2>9, <2>10, <2>11 DEF Runner
<1>2. CASE Main
  BY <1>2 DEF Main, Join, Save, Plot, SpinInPlot, Advance, TypeOK, MainPlaces, Over
<1>3. CASE CtrlC
  <2>1. main \notin Over /\ presses \in Nat /\ presses <= ForceExitAt
    BY <1>3, Constants DEF CtrlC, TypeOK
  <2>2. presses' = presses + 1 /\ presses' \in 0 .. ForceExitAt + 1
    BY <1>3, <2>1, Constants DEF CtrlC
  <2>3. main' \in MainPlaces /\ (main' \notin Over => presses' <= ForceExitAt)
    BY <1>3, <2>1, <2>2, Constants DEF CtrlC, TypeOK, MainPlaces, Over
  <2> QED BY <1>3, <2>2, <2>3 DEF CtrlC, TypeOK
<1>4. CASE UNCHANGED vars
  BY <1>4 DEF TypeOK
<1> QED BY <1>1, <1>2, <1>3, <1>4 DEF Next, Terminated

-----------------------------------------------------------------------------
(* Exports.                                                                  *)

(* Results are never taken back. *)
LEMMA RecordedStays == TypeOK /\ [Next]_vars => Recorded \subseteq Recorded'
<1> SUFFICES ASSUME TypeOK, [Next]_vars PROVE Recorded \subseteq Recorded'
  OBVIOUS
<1>1. ASSUME NEW t \in Runners, Record(t) PROVE Recorded \subseteq Recorded'
  <2>1. err[t] \in Errors /\ results \in Seq(Errors) /\ results' = Append(results, err[t])
    BY <1>1 DEF Record, Refused, Move, TypeOK
  <2> QED BY <2>1, RecordedAppend
<1>2. CASE UNCHANGED results
  BY <1>2 DEF Recorded
<1>3. (\E t \in Runners : Record(t)) \/ UNCHANGED results
  BY DEF Next, vars, shared, Runner, Main, Terminated, Loop, Continue, Ask, AskFails, Simulate, Analyse,
         RecordFails, Refused, Load, Compare, Copy, CopyFails, Join, Save, Plot, SpinInPlot,
         Advance, CtrlC
<1> QED BY <1>1, <1>2, <1>3

(* Nor are exports: a runner at the copy exports its score or dies of it. *)
LEMMA DeliveredStays ==
  ASSUME TypeOK, [Next]_vars, NEW e, Delivered(e)
  PROVE  Delivered(e)'
<1>1. exported \subseteq exported'
  BY DEF Next, vars, shared, Runner, Main, Terminated, Loop, Continue, Ask, AskFails, Simulate, Analyse, Record, Refused,
         RecordFails, Refused, Load, Compare, Copy, CopyFails, Join, Save, Plot, SpinInPlot,
         Advance, CtrlC
<1>2. CASE e \in exported
  BY <1>1, <1>2 DEF Delivered
<1>3. ASSUME NEW u \in Runners, err[u] = e, pc[u] \in {"copy", "uncopied"}
      PROVE  Delivered(e)'
  <2>1. ASSUME NEW t \in Runners, Runner(t) PROVE Delivered(e)'
    <3>1. CASE t # u
      <4>1. pc'[u] = pc[u] /\ err'[u] = err[u]
        BY <2>1, <3>1 DEF TypeOK, shared, Runner, Loop, Continue, Ask, AskFails, Simulate, Analyse, Record, Refused,
           RecordFails, Refused, Load, Compare, Copy, CopyFails, Move
      <4> QED BY <1>3, <4>1 DEF Delivered
    <3>2. CASE t = u
      <4>1. Copy(t) \/ CopyFails(t)
        BY <1>3, <2>1, <3>2 DEF Runner, Loop, Continue, Ask, AskFails, Simulate, Analyse, Record, Refused,
           RecordFails, Refused, Load, Compare, Move
      <4>2. CASE Copy(t)
        BY <1>3, <3>2, <4>2 DEF Copy, Delivered
      <4>3. CASE CopyFails(t)
        BY <1>3, <3>2, <4>3 DEF CopyFails, Move, Delivered, TypeOK
      <4> QED BY <4>1, <4>2, <4>3
    <3> QED BY <3>1, <3>2
  <2>2. CASE UNCHANGED <<pc, err>>
    BY <1>3, <2>2 DEF Delivered
  <2>3. (\E t \in Runners : Runner(t)) \/ UNCHANGED <<pc, err>>
    BY DEF Next, vars, Main, Terminated, Join, Save, Plot, SpinInPlot, Advance, CtrlC
  <2> QED BY <2>1, <2>2, <2>3
<1> QED BY <1>2, <1>3 DEF Delivered

LEMMA KnownStays ==
  ASSUME TypeOK, [Next]_vars, NEW e, Known(e)
  PROVE  Known(e)'
  BY RecordedStays, DeliveredStays DEF Known

(* Every other step of the search: the scores stay, and no runner enters or  *)
(* leaves the stretch between recording and copying.                         *)
LEMMA ExportQuiet ==
  ASSUME TypeOK, ExportInv, [Next]_vars,
         UNCHANGED <<results, lowest, old>>,
         \A u \in Runners :
           \/ pc'[u] = pc[u] /\ err'[u] = err[u]
           \/ /\ pc[u] \notin {"load", "compare"}
              /\ pc'[u] \notin {"load", "compare", "copy"}
  PROVE  ExportInv'
<1>1. Recorded' = Recorded
  BY DEF Recorded
<1>2. Known(lowest)'
  <2>1. Known(lowest)
    BY DEF ExportInv
  <2> QED BY <1>1, <2>1, DeliveredStays DEF Known
<1>3. \A t \in Runners : pc'[t] = "compare" => Known(old[t])'
  <2> SUFFICES ASSUME NEW t \in Runners, pc'[t] = "compare" PROVE Known(old[t])'
    OBVIOUS
  <2>1. Known(old[t])
    BY DEF ExportInv
  <2> QED BY <1>1, <2>1, DeliveredStays DEF Known
<1>4. \A t \in Runners : pc'[t] \in {"load", "compare", "copy"} => err'[t] \in Recorded'
  BY <1>1 DEF ExportInv
<1>5. \A e \in Errors : Best(e)' => Delivered(e)' \/ Comparing(e)'
  <2> SUFFICES ASSUME NEW e \in Errors, Best(e)' PROVE Delivered(e)' \/ Comparing(e)'
    OBVIOUS
  <2>1. Best(e)
    BY <1>1 DEF Best
  <2>2. Delivered(e) \/ Comparing(e)
    BY <2>1 DEF ExportInv
  <2>3. Comparing(e) => Comparing(e)'
    BY DEF Comparing
  <2> QED BY <2>2, <2>3, DeliveredStays
<1> QED BY <1>2, <1>3, <1>4, <1>5 DEF ExportInv

LEMMA InitExport == Init => ExportInv
<1> SUFFICES ASSUME Init PROVE ExportInv
  OBVIOUS
<1>1. Recorded = {}
  BY DEF Init, Recorded
<1>2. \A t \in Runners : pc[t] = "loop"
  BY DEF Init
<1>3. lowest = DefaultError
  BY DEF Init
<1> QED BY <1>1, <1>2, <1>3 DEF ExportInv, Known, Best

LEMMA NextExport == TypeOK /\ ExportInv /\ [Next]_vars => ExportInv'
<1> SUFFICES ASSUME TypeOK, ExportInv, [Next]_vars PROVE ExportInv'
  OBVIOUS
<1>1. ASSUME NEW t \in Runners, Runner(t) PROVE ExportInv'
  <2>1. CASE Loop(t)
    BY <2>1, ExportQuiet DEF Loop, Continue, Move, shared, TypeOK
  <2>2. CASE Ask(t)
    BY <2>2, ExportQuiet DEF Ask, Move, shared, TypeOK
  <2>11. CASE AskFails(t)
    BY <2>11, ExportQuiet DEF AskFails, Move, shared, TypeOK
  <2>3. CASE Simulate(t)
    BY <2>3, ExportQuiet DEF Simulate, Move, shared, TypeOK
  <2>4. CASE Analyse(t)
    BY <2>4, ExportQuiet DEF Analyse, Move, shared, TypeOK
  <2>5. CASE Record(t)
    <3> DEFINE e == err[t]
    <3>1. e \in Errors /\ results \in Seq(Errors) /\ results' = Append(results, e)
      BY <2>5 DEF Record, Refused, Move, TypeOK
    <3>2. Recorded' = Recorded \cup {e}
      BY <3>1, RecordedAppend
    <3>3. /\ err' = err /\ old' = old /\ lowest' = lowest
          /\ pc[t] = "record" /\ pc'[t] = "load"
          /\ \A u \in Runners \ {t} : pc'[u] = pc[u]
      BY <2>5 DEF Record, Refused, Move, TypeOK
    <3> HIDE DEF e
    <3>4. Known(lowest)'
      <4>1. Known(lowest)
        BY DEF ExportInv
      <4> QED BY <3>3, <4>1, RecordedStays, DeliveredStays DEF Known
    <3>5. \A u \in Runners : pc'[u] = "compare" => Known(old[u])'
      <4> SUFFICES ASSUME NEW u \in Runners, pc'[u] = "compare" PROVE Known(old[u])'
        OBVIOUS
      <4>1. Known(old[u])
        BY <3>3 DEF ExportInv
      <4> QED BY <3>3, <4>1, RecordedStays, DeliveredStays DEF Known
    <3>6. \A u \in Runners : pc'[u] \in {"load", "compare", "copy"} => err'[u] \in Recorded'
      BY <3>2, <3>3 DEF ExportInv, e
    <3>7. ASSUME NEW f \in Errors, Best(f)' PROVE Delivered(f)' \/ Comparing(f)'
      <4>1. CASE f = e
        BY <3>3, <4>1 DEF Comparing, e
      <4>2. CASE f # e
        <5>1. Best(f)
          BY <3>2, <3>7, <4>2 DEF Best
        <5>2. Delivered(f) \/ Comparing(f)
          BY <5>1 DEF ExportInv
        <5>3. Comparing(f) => Comparing(f)'
          BY <3>3 DEF Comparing
        <5> QED BY <5>2, <5>3, DeliveredStays
      <4> QED BY <4>1, <4>2
    <3> QED BY <3>4, <3>5, <3>6, <3>7 DEF ExportInv
  <2>6. CASE RecordFails(t)
    BY <2>6, ExportQuiet DEF RecordFails, Refused, Move, shared, TypeOK
  <2>7. CASE Load(t)
    <3>1. /\ err' = err /\ lowest' = lowest /\ results' = results
          /\ old' = [old EXCEPT ![t] = lowest]
          /\ pc[t] = "load" /\ pc'[t] = "compare"
          /\ \A u \in Runners \ {t} : pc'[u] = pc[u]
      BY <2>7 DEF Load, Move, TypeOK, shared
    <3>2. Recorded' = Recorded
      BY <3>1 DEF Recorded
    <3>3. Known(lowest)'
      <4>1. Known(lowest)
        BY DEF ExportInv
      <4> QED BY <3>1, <4>1, RecordedStays, DeliveredStays DEF Known
    <3>4. ASSUME NEW u \in Runners, pc'[u] = "compare" PROVE Known(old[u])'
      <4>1. CASE u = t
        <5>1. old'[u] = lowest'
          BY <3>1, <4>1 DEF TypeOK
        <5> QED BY <3>3, <5>1 DEF Known, Delivered
      <4>2. CASE u # t
        <5>1. Known(old[u]) /\ old'[u] = old[u]
          BY <3>1, <3>4, <4>2 DEF ExportInv, TypeOK
        <5> QED BY <5>1, RecordedStays, DeliveredStays DEF Known
      <4> QED BY <4>1, <4>2
    <3>5. \A u \in Runners : pc'[u] \in {"load", "compare", "copy"} => err'[u] \in Recorded'
      BY <3>1, <3>2 DEF ExportInv
    <3>6. ASSUME NEW f \in Errors, Best(f)' PROVE Delivered(f)' \/ Comparing(f)'
      <4>1. Delivered(f) \/ Comparing(f)
        BY <3>2, <3>6 DEF Best, ExportInv
      <4>2. Comparing(f) => Comparing(f)'
        BY <3>1 DEF Comparing
      <4> QED BY <4>1, <4>2, DeliveredStays
    <3> QED BY <3>3, <3>4, <3>5, <3>6 DEF ExportInv
  <2>8. CASE Compare(t)
    <3>1. /\ err' = err /\ old' = old /\ results' = results
          /\ pc[t] = "compare"
          /\ \A u \in Runners \ {t} : pc'[u] = pc[u]
          /\ pc'[t] = IF err[t] < old[t] THEN "copy" ELSE "loop"
          /\ lowest' = IF err[t] < old[t] THEN err[t] ELSE lowest
      BY <2>8 DEF Compare, Move, TypeOK
    <3>2. Recorded' = Recorded
      BY <3>1 DEF Recorded
    <3>3. err[t] \in Recorded /\ Known(old[t]) /\ Known(lowest)
      BY <3>1 DEF ExportInv
    <3>4. /\ err[t] \in Nat /\ old[t] \in Nat /\ DefaultError \in Nat
          /\ Recorded \subseteq Nat
      BY <3>1, Constants, RecordedErrors DEF TypeOK
    <3>5. err[t] < old[t] => Delivered(err[t])'
      BY <3>1 DEF Delivered
    <3>6. Known(lowest)'
      <4>1. CASE err[t] < old[t]
        <5>1. lowest' = err'[t]
          BY <3>1, <4>1
        <5> QED BY <3>1, <3>2, <3>3, <3>5, <4>1, <5>1 DEF Known, Delivered
      <4>2. CASE ~(err[t] < old[t])
        <5>1. lowest' = lowest
          BY <3>1, <4>2
        <5> QED BY <3>3, <5>1, RecordedStays, DeliveredStays DEF Known
      <4> QED BY <4>1, <4>2
    <3>7. ASSUME NEW u \in Runners, pc'[u] = "compare" PROVE Known(old[u])'
      <4>1. Known(old[u]) /\ old'[u] = old[u]
        BY <3>1, <3>7 DEF ExportInv
      <4> QED BY <4>1, RecordedStays, DeliveredStays DEF Known
    <3>8. \A u \in Runners : pc'[u] \in {"load", "compare", "copy"} => err'[u] \in Recorded'
      BY <3>1, <3>2, <3>3 DEF ExportInv
    <3>9. ASSUME NEW f \in Errors, Best(f)' PROVE Delivered(f)' \/ Comparing(f)'
      <4>1. Best(f)
        BY <3>2, <3>9 DEF Best
      <4>2. CASE Delivered(f)
        BY <4>2, DeliveredStays
      <4>3. ASSUME NEW u \in Runners, err[u] = f, pc[u] \in {"load", "compare"}, u # t
            PROVE  Comparing(f)'
        BY <3>1, <4>3 DEF Comparing
      <4>4. CASE err[t] = f
        <5>1. CASE f < old[t]
          BY <3>1, <3>5, <4>4, <5>1 DEF Delivered
        <5>2. CASE ~(f < old[t])
          <6>1. f < DefaultError /\ \A g \in Recorded : f <= g
            BY <4>1 DEF Best
          <6>2. old[t] # DefaultError
            BY <3>4, <4>4, <5>2, <6>1
          <6>3. old[t] \in Recorded /\ Delivered(old[t])
            BY <3>3, <6>2 DEF Known
          <6>4. old[t] = f
            BY <3>4, <4>4, <5>2, <6>1, <6>3
          <6> QED BY <6>3, <6>4, DeliveredStays
        <5> QED BY <5>1, <5>2
      <4> QED BY <4>1, <4>2, <4>3, <4>4 DEF ExportInv, Comparing
    <3> QED BY <3>6, <3>7, <3>8, <3>9 DEF ExportInv
  <2>9. CASE Copy(t)
    BY <2>9, ExportQuiet DEF Copy, Move, shared, TypeOK
  <2>10. CASE CopyFails(t)
    BY <2>10, ExportQuiet DEF CopyFails, Move, shared, TypeOK
  <2> QED BY <1>1, <2>1, <2>2, <2>3, <2>4, <2>5, <2>6, <2>7, <2>8, <2>9, <2>10, <2>11 DEF Runner
<1>2. CASE UNCHANGED <<results, lowest, pc, err, old>>
  BY <1>2, ExportQuiet
<1>3. (\E t \in Runners : Runner(t)) \/ UNCHANGED <<results, lowest, pc, err, old>>
  BY DEF Next, vars, shared, Main, Terminated, Join, Save, Plot, SpinInPlot, Advance, CtrlC
<1> QED BY <1>1, <1>2, <1>3

-----------------------------------------------------------------------------
(* The number of results.                                                    *)

(* A step that records nothing and clears nothing keeps CountInv, provided   *)
(* nobody enters the loop body once RUNNING is cleared.                      *)
LEMMA CountQuiet ==
  ASSUME TypeOK, CountInv, results' = results, running' \in {running, FALSE},
         ~running => InFlight' \subseteq InFlight
  PROVE  CountInv'
<1> SUFFICES ASSUME Len(results') >= MaxSimulations
             PROVE  /\ ~running'
                    /\ Len(results') + Cardinality(InFlight') < MaxSimulations + Cardinality(Runners)
  BY DEF CountInv
<1>1. ~running /\ Len(results) + Cardinality(InFlight) < MaxSimulations + Cardinality(Runners)
  BY DEF CountInv
<1>2. IsFiniteSet(InFlight)
  BY FS_Subset, OptimizerAssumption DEF InFlight
<1>3. /\ Cardinality(InFlight') <= Cardinality(InFlight)
      /\ Cardinality(InFlight') \in Nat /\ Cardinality(InFlight) \in Nat
      /\ Cardinality(Runners) \in Nat
  BY <1>1, <1>2, FS_Subset, FS_CardinalityType, OptimizerAssumption
<1>4. Len(results) \in Nat /\ MaxSimulations \in Nat
  BY Constants DEF TypeOK
<1>5. ~running'
  BY <1>1
<1>6. Len(results') + Cardinality(InFlight') < MaxSimulations + Cardinality(Runners)
  BY <1>1, <1>3, <1>4
<1> QED BY <1>5, <1>6

LEMMA NextCount == TypeOK /\ CountInv /\ [Next]_vars => CountInv'
<1> SUFFICES ASSUME TypeOK, CountInv, [Next]_vars PROVE CountInv'
  OBVIOUS
<1>1. ASSUME NEW t \in Runners, Record(t) PROVE CountInv'
  <2>1. /\ pc[t] = "record" /\ pc'[t] = "load"
        /\ \A u \in Runners \ {t} : pc'[u] = pc[u]
    BY <1>1 DEF Record, Refused, Move, TypeOK
  <2>2. t \in InFlight /\ InFlight' = InFlight \ {t}
    BY <2>1 DEF InFlight
  <2>3. IsFiniteSet(InFlight) /\ Cardinality(InFlight) <= Cardinality(Runners)
    BY FS_Subset, OptimizerAssumption DEF InFlight
  <2>4. /\ Cardinality(InFlight') = Cardinality(InFlight) - 1
        /\ Cardinality(InFlight) \in Nat /\ Cardinality(Runners) \in Nat
    BY <2>2, <2>3, FS_RemoveElement, FS_CardinalityType, OptimizerAssumption
  <2>5. err[t] \in Errors /\ results \in Seq(Errors) /\ results' = Append(results, err[t])
    BY <1>1 DEF Record, Refused, Move, TypeOK
  <2>6. Len(results') = Len(results) + 1 /\ Len(results) \in Nat
    BY <2>5, RecordedAppend
  <2>7. running' = IF Len(results') = MaxSimulations THEN FALSE ELSE running
    BY <1>1 DEF Record, Refused, Stopping
  <2>8. MaxSimulations \in Nat
    BY Constants
  <2>9. CASE Len(results) >= MaxSimulations
    <3>1. /\ ~running
          /\ Len(results) + Cardinality(InFlight) < MaxSimulations + Cardinality(Runners)
      BY <2>9 DEF CountInv
    <3>2. Len(results') + Cardinality(InFlight') < MaxSimulations + Cardinality(Runners)
      BY <3>1, <2>4, <2>6, <2>8
    <3> QED BY <3>1, <3>2, <2>7 DEF CountInv
  <2>10. CASE Len(results') = MaxSimulations
    <3>1. Len(results') + Cardinality(InFlight') < MaxSimulations + Cardinality(Runners)
      BY <2>3, <2>4, <2>6, <2>8, <2>10
    <3> QED BY <3>1, <2>7, <2>10 DEF CountInv
  <2>11. CASE ~(Len(results') >= MaxSimulations)
    BY <2>11 DEF CountInv
  <2> QED BY <2>6, <2>8, <2>9, <2>10, <2>11
<1>2. ASSUME NEW t \in Runners, Runner(t), ~Record(t) PROVE CountInv'
  <2>1. results' = results /\ running' = running
    BY <1>2 DEF Runner, shared, Loop, Continue, Ask, AskFails, Simulate, Analyse, RecordFails, Refused, Load, Compare,
                Copy, CopyFails
  <2>2. \A u \in Runners \ {t} : pc'[u] = pc[u]
    BY <1>2 DEF Runner, Loop, Continue, Ask, AskFails, Simulate, Analyse, RecordFails, Refused, Load, Compare,
                Copy, CopyFails, Move, TypeOK
  <2>3. ~running => (pc'[t] \in {"ask", "simulate", "analyse", "record"}
                       => pc[t] \in {"ask", "simulate", "analyse", "record"})
    BY <1>2 DEF Runner, Loop, Continue, Ask, AskFails, Simulate, Analyse, RecordFails, Refused, Load, Compare,
                Copy, CopyFails, Move, TypeOK
  <2>4. ~running => InFlight' \subseteq InFlight
    BY <2>2, <2>3 DEF InFlight
  <2> QED BY <2>1, <2>4, CountQuiet
<1>3. CASE UNCHANGED <<results, pc>> /\ running' \in {running, FALSE}
  BY <1>3, CountQuiet DEF InFlight
<1>4. \/ \E t \in Runners : Runner(t)
      \/ UNCHANGED <<results, pc>> /\ running' \in {running, FALSE}
  BY DEF Next, vars, shared, Main, Terminated, Join, Save, Plot, SpinInPlot, Advance, CtrlC
<1> QED BY <1>1, <1>2, <1>3, <1>4

-----------------------------------------------------------------------------
(* Why a runner ends, and who poisoned the lock.                             *)

LEMMA NextEnd == TypeOK /\ EndInv /\ [Next]_vars => EndInv'
<1> SUFFICES ASSUME TypeOK, EndInv, [Next]_vars PROVE EndInv'
  OBVIOUS
<1>1. ASSUME NEW t \in Runners, Runner(t), ~Record(t), ~Loop(t) PROVE EndInv'
  <2>1. results' = results /\ running' = running /\ presses' = presses
    BY <1>1 DEF Runner, shared, Ask, AskFails, Simulate, Analyse, RecordFails, Refused, Load, Compare,
                Copy, CopyFails, Move
  <2>2. \A u \in Runners : pc'[u] = "ended" => pc[u] = "ended"
    BY <1>1 DEF Runner, Ask, AskFails, Simulate, Analyse, RecordFails, Refused, Load, Compare,
                Copy, CopyFails, Move, TypeOK
  <2> QED BY <2>1, <2>2 DEF EndInv, EndsForReason
<1>2. ASSUME NEW t \in Runners, Loop(t) PROVE EndInv'
  <2>1. results' = results /\ running' = running /\ presses' = presses
    BY <1>2 DEF Loop, Continue, shared, Move
  <2>2. \A u \in Runners : pc'[u] = "ended" => pc[u] = "ended" \/ ~running
    BY <1>2 DEF Loop, Continue, Move, TypeOK
  <2> QED BY <2>1, <2>2 DEF EndInv, EndsForReason
<1>3. ASSUME NEW t \in Runners, Record(t) PROVE EndInv'
  <2>1. err[t] \in Errors /\ results \in Seq(Errors) /\ results' = Append(results, err[t])
    BY <1>3 DEF Record, Refused, Move, TypeOK
  <2>2. Len(results') = Len(results) + 1 /\ Len(results) \in Nat /\ MaxSimulations \in Nat
    BY <2>1, RecordedAppend, Constants
  <2>3. presses' = presses /\ (~running' => ~running \/ Len(results') = MaxSimulations)
    BY <1>3 DEF Record, Refused, Stopping, Move, TypeOK
  <2>4. \A u \in Runners : pc'[u] = "ended" => pc[u] = "ended"
    BY <1>3 DEF Record, Refused, Move, TypeOK
  <2> QED BY <2>2, <2>3, <2>4 DEF EndInv, EndsForReason
<1>4. CASE CtrlC
  <2>1. /\ results' = results /\ pc' = pc
        /\ presses' = presses + 1 /\ presses \in Nat
    BY <1>4, Constants DEF CtrlC, TypeOK
  <2>2. presses' > 0
    BY <2>1
  <2> QED BY <2>1, <2>2 DEF EndInv, EndsForReason
<1>5. CASE UNCHANGED <<results, running, presses, pc>>
  BY <1>5 DEF EndInv, EndsForReason
<1>6. \/ \E t \in Runners : Runner(t)
      \/ CtrlC
      \/ UNCHANGED <<results, running, presses, pc>>
  BY DEF Next, vars, shared, Main, Terminated, Join, Save, Plot, SpinInPlot, Advance
<1> QED BY <1>1, <1>2, <1>3, <1>4, <1>5, <1>6

LEMMA NextPoison == TypeOK /\ PoisonInv /\ [Next]_vars => PoisonInv'
<1> SUFFICES ASSUME TypeOK, PoisonInv, [Next]_vars PROVE PoisonInv'
  OBVIOUS
<1>1. ASSUME NEW t \in Runners, Runner(t), ~RecordFails(t), ~AskFails(t) PROVE PoisonInv'
  <2>1. poisoned' = poisoned /\ main' = main
    BY <1>1 DEF Runner, shared, Loop, Continue, Ask, Simulate, Analyse, Record, Refused, Load, Compare,
                Copy, CopyFails, Move
  <2>2. \A u \in Runners : pc[u] = "poisoned" => pc'[u] = pc[u] /\ err'[u] = err[u]
    BY <1>1 DEF Runner, shared, Loop, Continue, Ask, Simulate, Analyse, Record, Refused, Load, Compare,
                Copy, CopyFails, Move, TypeOK
  <2> QED BY <2>1, <2>2 DEF PoisonInv
<1>2. ASSUME NEW t \in Runners, RecordFails(t) PROVE PoisonInv'
  <2>1. /\ poisoned' = TRUE /\ main' = main /\ err' = err
        /\ pc[t] = "record"
        /\ pc'[t] = IF poisoned THEN "panicked" ELSE "poisoned"
        /\ \A u \in Runners \ {t} : pc'[u] = pc[u]
        /\ poisoned \/ err[t] = NaN
    BY <1>2 DEF RecordFails, Refused, Move, TypeOK
  <2>2. \E u \in Runners : pc'[u] = "poisoned" /\ err'[u] \in {None, NaN}
    <3>1. CASE poisoned
      <4>1. PICK u \in Runners : pc[u] = "poisoned" /\ err[u] \in {None, NaN}
        BY <3>1 DEF PoisonInv
      <4> QED BY <2>1, <4>1
    <3>2. CASE ~poisoned
      BY <2>1, <3>2
    <3> QED BY <3>1, <3>2
  <2> QED BY <2>1, <2>2 DEF PoisonInv
<1>6. ASSUME NEW t \in Runners, AskFails(t) PROVE PoisonInv'
  <2>1. main' = main /\ err' = err /\ err[t] = None /\ pc'[t] = "poisoned"
        /\ \A u \in Runners \ {t} : pc'[u] = pc[u]
    BY <1>6 DEF AskFails, Move, TypeOK
  <2> QED BY <1>6, <2>1 DEF AskFails, PoisonInv
<1>3. CASE Join
  BY <1>3 DEF Join, Advance, shared, PoisonInv
<1>4. CASE /\ UNCHANGED <<poisoned, pc, err>>
           /\ main' = "lost" => main = "lost"
  BY <1>4 DEF PoisonInv
<1>5. \/ \E t \in Runners : Runner(t)
      \/ Join
      \/ UNCHANGED <<poisoned, pc, err>> /\ (main' = "lost" => main = "lost")
  BY DEF Next, vars, shared, Main, Terminated, Save, Plot, SpinInPlot, Advance, CtrlC
<1> QED BY <1>1, <1>2, <1>3, <1>4, <1>5, <1>6

-----------------------------------------------------------------------------
(* The theorems.                                                             *)

(* SearchInv holds in every reachable state of run(), its runners and the    *)
(* Ctrl-C handler.                                                           *)
THEOREM OptimizerSearch == Spec => []SearchInv
<1>1. Init => SearchInv
  <2> SUFFICES ASSUME Init PROVE SearchInv
    OBVIOUS
  <2>1. CountInv
    <3>1. Len(results) = 0
      BY DEF Init
    <3> QED BY <3>1, Constants DEF CountInv
  <2>2. EndInv /\ PoisonInv
    BY DEF Init, EndInv, EndsForReason, PoisonInv
  <2> QED BY <2>1, <2>2, InitType, InitExport DEF SearchInv
<1>2. SearchInv /\ [Next]_vars => SearchInv'
  BY NextType, NextExport, NextCount, NextEnd, NextPoison DEF SearchInv
<1> QED BY <1>1, <1>2, PTL DEF Spec

(* Type correctness for any number of runners and any scores. *)
THEOREM OptimizerTypeCorrect == Spec => []TypeOK
<1>1. SearchInv => TypeOK
  BY DEF SearchInv
<1> QED BY <1>1, OptimizerSearch, PTL

(* Whatever the race on LOWEST_ERROR (run_analysis, 606-616), the positions  *)
(* of the best recorded score are exported unless copying them failed.       *)
THEOREM OptimizerBestExported == Spec => []BestExported
<1>1. SearchInv => BestExported
  <2> SUFFICES ASSUME SearchInv, \A t \in Runners : pc[t] \in Gone,
                      NEW e \in Errors, Best(e)
               PROVE  Delivered(e)
    BY DEF BestExported
  <2>1. Delivered(e) \/ Comparing(e)
    BY DEF SearchInv, ExportInv
  <2>2. ~Comparing(e)
    BY DEF Comparing, Gone
  <2> QED BY <2>1, <2>2
<1> QED BY <1>1, OptimizerSearch, PTL

(* MAX_SIMULATIONS is overshot by fewer results than there are runners. *)
THEOREM OptimizerBoundedOvershoot == Spec => []BoundedOvershoot
<1>1. SearchInv => BoundedOvershoot
  <2> SUFFICES ASSUME SearchInv PROVE BoundedOvershoot
    OBVIOUS
  <2>1. /\ Cardinality(Runners) \in Nat /\ Cardinality(Runners) # 0
        /\ Cardinality(InFlight) \in Nat
    <3>1. IsFiniteSet(InFlight)
      BY FS_Subset, OptimizerAssumption DEF InFlight
    <3> QED BY <3>1, FS_CardinalityType, FS_EmptySet, OptimizerAssumption
  <2>2. Len(results) \in Nat /\ MaxSimulations \in Nat
    BY Constants DEF SearchInv, TypeOK
  <2>3. CASE Len(results) >= MaxSimulations
    <3>1. Len(results) + Cardinality(InFlight) < MaxSimulations + Cardinality(Runners)
      BY <2>3 DEF SearchInv, CountInv
    <3> QED BY <3>1, <2>1, <2>2 DEF BoundedOvershoot
  <2>4. CASE ~(Len(results) >= MaxSimulations)
    BY <2>1, <2>2, <2>4 DEF BoundedOvershoot
  <2> QED BY <2>3, <2>4
<1> QED BY <1>1, OptimizerSearch, PTL

(* A runner only leaves run_thread normally after Ctrl-C or enough results. *)
THEOREM OptimizerEndsForReason == Spec => []EndsForReason
<1>1. SearchInv => EndsForReason
  BY DEF SearchInv, EndInv
<1> QED BY <1>1, OptimizerSearch, PTL

(* Only a panic over a sampler, under the lock, makes run() lose results.     *)
THEOREM OptimizerLossNeedsPoison == Spec => []LossNeedsPoison
<1>1. SearchInv => LossNeedsPoison
  BY DEF SearchInv, PoisonInv, LossNeedsPoison
<1> QED BY <1>1, OptimizerSearch, PTL

-----------------------------------------------------------------------------
(* The colour ranges of the export (util.rs).                                *)

(* What \div yields. *)
LEMMA Division ==
  ASSUME NEW x \in Nat, NEW s \in Nat \ {0}
  PROVE  x \div s \in Nat /\ (x \div s) * s <= x /\ x < (x \div s) * s + s
OBVIOUS

(* Multiplying keeps an order, and dividing recovers it, for integers. *)
LEMMA Scale ==
  ASSUME NEW a \in Int, NEW b \in Int, NEW s \in Nat, a <= b
  PROVE  a * s <= b * s
OBVIOUS

LEMMA Unscale ==
  ASSUME NEW a \in Int, NEW b \in Int, NEW s \in Nat \ {0}, a * s < b * s + s
  PROVE  a <= b
<1>1. ~ (b + 1 <= a)
  <2> SUFFICES ASSUME b + 1 <= a PROVE FALSE
    OBVIOUS
  <2>1. (b + 1) * s <= a * s
    BY Scale
  <2>2. (b + 1) * s = b * s + s
    OBVIOUS
  <2> QED BY <2>1, <2>2
<1> QED BY <1>1

(* src_index of k is the quotient of k * len. *)
LEMMA Index ==
  ASSUME NEW k \in Nat, steps \in Nat \ {0}, len \in Nat \ {0}
  PROVE  /\ SrcIndex(k) \in Nat /\ k * len \in Nat
         /\ SrcIndex(k) * steps <= k * len
         /\ k * len < SrcIndex(k) * steps + steps
         /\ (k + 1) * len = k * len + len
<1>1. k * len \in Nat /\ (k + 1) * len = k * len + len
  OBVIOUS
<1> QED
  BY <1>1, Division DEF SrcIndex

(* ... and rises with k. *)
LEMMA IndexRises ==
  ASSUME NEW k \in Nat, NEW l \in Nat, k <= l, steps \in Nat \ {0}, len \in Nat \ {0}
  PROVE  SrcIndex(k) <= SrcIndex(l)
<1>1. k * len <= l * len
  BY Scale
<1>2. /\ SrcIndex(k) \in Nat /\ SrcIndex(k) * steps <= k * len
      /\ SrcIndex(l) \in Nat /\ l * len < SrcIndex(l) * steps + steps
      /\ k * len \in Nat /\ l * len \in Nat
      /\ SrcIndex(k) * steps \in Nat /\ SrcIndex(l) * steps \in Nat
  BY Index
<1>3. SrcIndex(k) * steps < SrcIndex(l) * steps + steps
  BY <1>1, <1>2
<1> QED
  BY <1>2, <1>3, Unscale

(* The inductive invariant: the search for a limit has not passed one, and   *)
(* each limit lies between what it may include and the end of its share.     *)
SmootherInv ==
  /\ steps \in 1 .. MaxSteps /\ len \in 1 .. MaxLen
  /\ i \in 0 .. steps /\ j \in Nat
  /\ data \in Seq(Nat) /\ Len(data) = i
  /\ j > 0 => SrcIndex(i + j - 1) = SrcIndex(i)
  /\ \A k \in 1 .. i : /\ SrcIndex(k - 1) <= data[k] /\ SrcIndex(k) - 1 <= data[k]
                       /\ data[k] * steps < k * len

LEMMA SmootherTypes ==
  ASSUME SmootherInv
  PROVE  steps \in Nat \ {0} /\ len \in Nat \ {0} /\ i \in Nat /\ j \in Nat
BY SmootherAssumption DEF SmootherInv

(* A limit is at least the index its range starts from, and below its end. *)
LEMMA LimitInShare ==
  ASSUME SmootherInv, Found
  PROVE  /\ Limit \in Nat
         /\ SrcIndex(i) <= Limit /\ SrcIndex(i + 1) - 1 <= Limit
         /\ Limit * steps < (i + 1) * len
<1> DEFINE q == SrcIndex(i)
           r == SrcIndex(i + j)
<1>1. steps \in Nat \ {0} /\ len \in Nat \ {0} /\ i \in Nat /\ j \in Nat
  BY SmootherTypes
<1>2. /\ q \in Nat /\ q * steps <= i * len /\ i * len < q * steps + steps
      /\ r \in Nat /\ r * steps <= (i + j) * len
      /\ (i + 1) * len = i * len + len
      /\ {i * len, (i + j) * len, q * steps, r * steps} \subseteq Nat
  BY <1>1, Index
<1>3. r > q
  BY DEF Found
<1>4. j >= 1
  <2>1. j # 0
    <3> SUFFICES ASSUME j = 0 PROVE FALSE
      OBVIOUS
    <3>1. i + j = i
      BY <1>1
    <3> QED BY <1>2, <1>3, <3>1
  <2> QED BY <1>1, <2>1
<1>5. SrcIndex(i + 1) <= r
  BY <1>1, <1>4, IndexRises
<1>6. SrcIndex(i + 1) \in Nat /\ (i + 1) * len < SrcIndex(i + 1) * steps + steps
  BY <1>1, Index
<1>7. Limit = r - 1 /\ Limit \in Nat /\ q <= Limit /\ SrcIndex(i + 1) - 1 <= Limit
  BY <1>2, <1>3, <1>5, <1>6 DEF Limit
<1>8. Limit * steps = r * steps - steps
  BY <1>1, <1>2, <1>7
<1>9. Limit * steps < (i + 1) * len
  <2>1. CASE j = 1
    BY <1>1, <1>2, <1>8, <2>1
  <2>2. CASE j > 1
    <3>1. SrcIndex(i + j - 1) = q
      BY <1>4 DEF SmootherInv
    <3>2. i + 1 <= i + j - 1 /\ i + j - 1 \in Nat /\ (i + j - 1) + 1 = i + j
      BY <1>1, <2>2
    <3>3. SrcIndex(i + 1) <= q
      BY <1>1, <3>1, <3>2, IndexRises
    <3>4. SrcIndex(i + 1) * steps <= q * steps
      BY <1>1, <1>2, <1>6, <3>3, Scale
    <3>5. len < steps
      BY <1>1, <1>2, <1>6, <3>4
    <3>6. (i + j - 1) * len < q * steps + steps /\ (i + j) * len = (i + j - 1) * len + len
      BY <1>1, <3>1, <3>2, Index
    <3>7. r * steps < (q + 1) * steps + steps
      BY <1>1, <1>2, <3>2, <3>5, <3>6
    <3>8. r <= q + 1
      BY <1>1, <1>2, <3>7, Unscale
    <3>9. Limit = q
      BY <1>2, <1>3, <1>7, <3>8
    <3> QED BY <1>1, <1>2, <3>9
  <2> QED BY <1>1, <1>4, <2>1, <2>2
<1> QED
  BY <1>7, <1>9

LEMMA SmootherStart == SmootherInit => SmootherInv
<1> SUFFICES ASSUME SmootherInit PROVE SmootherInv
  OBVIOUS
<1>1. Len(data) = 0 /\ data \in Seq(Nat)
  BY DEF SmootherInit
<1> QED
  BY <1>1, SmootherAssumption DEF SmootherInit, SmootherInv

LEMMA SmootherStep == SmootherInv /\ [SmootherNext]_SmootherVars => SmootherInv'
<1> SUFFICES ASSUME SmootherInv, [SmootherNext]_SmootherVars PROVE SmootherInv'
  OBVIOUS
<1>1. steps \in Nat \ {0} /\ len \in Nat \ {0} /\ i \in Nat /\ j \in Nat
  BY SmootherTypes
<1>2. CASE Widen
  <2>1. UNCHANGED <<steps, len, i, data>> /\ j' = j + 1 /\ ~Found
    BY <1>2 DEF Widen
  <2>2. SrcIndex(i + j) \in Nat /\ SrcIndex(i) \in Nat /\ SrcIndex(i) <= SrcIndex(i + j)
    BY <1>1, Index, IndexRises
  <2>3. i' + j' - 1 = i + j
    BY <1>1, <2>1
  <2>4. SrcIndex(i + j) = SrcIndex(i)
    BY <2>1, <2>2 DEF Found
  <2>5. (SrcIndex(i + j - 1) = SrcIndex(i))'
    BY <2>1, <2>3, <2>4 DEF SrcIndex
  <2>6. (\A k \in 1 .. i : /\ SrcIndex(k - 1) <= data[k] /\ SrcIndex(k) - 1 <= data[k]
                          /\ data[k] * steps < k * len)'
    BY <2>1 DEF SmootherInv, SrcIndex
  <2> QED
    BY <1>1, <2>1, <2>5, <2>6 DEF SmootherInv
<1>3. CASE Push
  <2>1. UNCHANGED <<steps, len>> /\ j' = 0 /\ i' = i + 1 /\ data' = Append(data, Limit) /\ i < steps
    BY <1>3 DEF Push
  <2>2. /\ Limit \in Nat
        /\ SrcIndex(i) <= Limit /\ SrcIndex(i + 1) - 1 <= Limit
        /\ Limit * steps < (i + 1) * len
    BY <1>3, LimitInShare DEF Push
  <2>3. /\ data' \in Seq(Nat) /\ Len(data') = i + 1
        /\ data'[i + 1] = Limit /\ \A k \in 1 .. i : data'[k] = data[k]
    BY <1>1, <2>1, <2>2 DEF SmootherInv
  <2>4. ASSUME NEW k \in 1 .. i + 1
        PROVE  /\ SrcIndex(k - 1) <= data'[k] /\ SrcIndex(k) - 1 <= data'[k]
               /\ data'[k] * steps < k * len
    <3>1. CASE k \in 1 .. i
      BY <2>3, <3>1 DEF SmootherInv
    <3>2. CASE k = i + 1
      <4>1. k - 1 = i
        BY <1>1, <3>2
      <4> QED BY <2>2, <2>3, <3>2, <4>1
    <3> QED BY <1>1, <3>1, <3>2
  <2>5. (\A k \in 1 .. i : /\ SrcIndex(k - 1) <= data[k] /\ SrcIndex(k) - 1 <= data[k]
                          /\ data[k] * steps < k * len)'
    BY <2>1, <2>4 DEF SrcIndex
  <2>6. (j > 0 => SrcIndex(i + j - 1) = SrcIndex(i))'
    BY <2>1
  <2>7. (/\ steps \in 1 .. MaxSteps /\ len \in 1 .. MaxLen
         /\ i \in 0 .. steps /\ j \in Nat
         /\ data \in Seq(Nat) /\ Len(data) = i)'
    BY <1>1, <2>1, <2>3 DEF SmootherInv
  <2> QED
    BY <2>5, <2>6, <2>7 DEF SmootherInv
<1>4. CASE Finished \/ UNCHANGED SmootherVars
  BY <1>4 DEF Finished, SmootherVars, SmootherInv, SrcIndex
<1> QED
  BY <1>2, <1>3, <1>4 DEF SmootherNext

(* From the bounds of the invariant to those of the property. *)
LEMMA SmootherShares == SmootherInv => OwnShare
<1> SUFFICES ASSUME SmootherInv, NEW k \in 1 .. i
             PROVE  data[k] * steps > (k - 1) * len - steps /\ data[k] * steps < k * len
  BY SmootherTypes DEF OwnShare, SmootherInv
<1>1. /\ steps \in Nat \ {0} /\ len \in Nat \ {0} /\ k - 1 \in Nat
      /\ data[k] \in Nat /\ SrcIndex(k - 1) <= data[k] /\ data[k] * steps < k * len
  BY SmootherTypes DEF SmootherInv
<1>2. /\ SrcIndex(k - 1) \in Nat /\ (k - 1) * len < SrcIndex(k - 1) * steps + steps
      /\ {(k - 1) * len, SrcIndex(k - 1) * steps, data[k] * steps} \subseteq Nat
  BY <1>1, Index
<1>3. SrcIndex(k - 1) * steps <= data[k] * steps
  BY <1>1, <1>2, Scale
<1> QED
  BY <1>1, <1>2, <1>3

(* A limit is no higher than where the next range starts. *)
LEMMA SmootherCovers == SmootherInv => Covers
<1> SUFFICES ASSUME SmootherInv PROVE Covers
  OBVIOUS
<1>1. steps \in Nat \ {0} /\ len \in Nat \ {0} /\ i \in Nat
  BY SmootherTypes
<1>2. \A k \in 1 .. i : /\ data[k] \in Nat
                        /\ SrcIndex(k - 1) <= data[k] /\ SrcIndex(k) - 1 <= data[k]
                        /\ data[k] * steps < k * len
  BY DEF SmootherInv
<1>3. ASSUME NEW k \in 2 .. Len(data) PROVE data[k - 1] <= data[k]
  <2>1. k \in 1 .. i /\ k - 1 \in 1 .. i
    BY <1>1, <1>3 DEF SmootherInv
  <2>2. /\ SrcIndex(k - 1) \in Nat /\ (k - 1) * len < SrcIndex(k - 1) * steps + steps
        /\ (k - 1) * len \in Nat /\ SrcIndex(k - 1) * steps \in Nat
    <3>1. k - 1 \in Nat
      BY <1>1, <2>1
    <3>2. /\ SrcIndex(k - 1) \in Nat /\ (k - 1) * len < SrcIndex(k - 1) * steps + steps
          /\ (k - 1) * len \in Nat
      BY <1>1, <3>1, Index
    <3> QED BY <1>1, <3>2
  <2>3. data[k - 1] \in Nat /\ data[k - 1] * steps < (k - 1) * len
    BY <1>2, <2>1
  <2>4. data[k - 1] * steps < SrcIndex(k - 1) * steps + steps
    BY <1>1, <2>2, <2>3
  <2>5. data[k - 1] <= SrcIndex(k - 1)
    BY <1>1, <2>2, <2>3, <2>4, Unscale
  <2> QED
    BY <1>2, <2>1, <2>2, <2>3, <2>5
<1>4. ASSUME i = steps PROVE data[steps] = len - 1
  <2>1. /\ data[steps] \in Nat /\ SrcIndex(steps) - 1 <= data[steps]
        /\ data[steps] * steps < steps * len
    BY <1>1, <1>2, <1>4
  <2>2. SrcIndex(steps) \in Nat /\ steps * len < SrcIndex(steps) * steps + steps
    BY <1>1, Index
  <2>3. len <= SrcIndex(steps)
    BY <1>1, <2>2, Unscale
  <2>4. data[steps] * steps < (len - 1) * steps + steps
    BY <1>1, <2>1
  <2>5. data[steps] <= len - 1
    BY <1>1, <2>1, <2>4, Unscale
  <2> QED
    BY <1>1, <2>1, <2>2, <2>3, <2>5
<1> QED
  BY <1>3, <1>4 DEF Covers

LEMMA SmootherInvariant == SmootherSpec => []SmootherInv
BY SmootherStart, SmootherStep, PTL DEF SmootherSpec

(* The limits rise, and the last is the highest score, for any number of     *)
(* colours and of scores: write_hot_cold finds a range for every score.      *)
THEOREM SmootherCoversAll == SmootherSpec => []Covers
BY SmootherInvariant, SmootherCovers, PTL

(* Every limit is an index of the list, in its own share of it or just below.*)
THEOREM SmootherOwnShare == SmootherSpec => []OwnShare
BY SmootherInvariant, SmootherShares, PTL
=============================================================================
