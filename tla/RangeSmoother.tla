---------------------------- MODULE RangeSmoother ----------------------------
(* RangeSmoother::new (util.rs): the limits of Steps colour ranges over a    *)
(* sorted list of scores, found by two nested loops.  Only the indices into  *)
(* the list are kept.  An empty list is not here: the inner loop would not   *)
(* end (module Optimizer).                                                   *)
EXTENDS Integers, Sequences

CONSTANTS
  MaxSteps,  \* bound on steps, 256 in write_hot_cold
  MaxLen     \* bound on values.len()

ASSUME SmootherAssumption == {MaxSteps, MaxLen} \subseteq Nat \ {0}

VARIABLES
  steps,  \* steps
  len,    \* values.len()
  i, j,   \* the outer and the inner counter
  data    \* the indices pushed so far

SmootherVars == <<steps, len, i, j, data>>

SmootherInit ==
  /\ steps \in 1 .. MaxSteps /\ len \in 1 .. MaxLen
  /\ i = 0 /\ j = 0
  /\ data = << >>

(* Faulty: the product is rounded up. *)
RoundedSrcIndex(k) == (k * len + steps - 1) \div steps

SrcIndex(k) == (k * len) \div steps

Found == SrcIndex(i + j) > SrcIndex(i)

(* Faulty: the lower end of the range is taken for its limit. *)
LowerLimit == SrcIndex(i)

(* The index before the one that is too high. *)
Limit == SrcIndex(i + j) - 1

(* Faulty: j is not increased. *)
IdleWiden ==
  /\ i < steps /\ ~Found
  /\ UNCHANGED SmootherVars

Widen ==
  /\ i < steps /\ ~Found
  /\ j' = j + 1
  /\ UNCHANGED <<steps, len, i, data>>

Push ==
  /\ i < steps /\ Found
  /\ data' = Append(data, Limit)
  /\ i' = i + 1 /\ j' = 0
  /\ UNCHANGED <<steps, len>>

Finished == i = steps /\ UNCHANGED SmootherVars

SmootherNext == Widen \/ Push \/ Finished

(* One thread runs the loops. *)
SmootherSpec == SmootherInit /\ [][SmootherNext]_SmootherVars /\ WF_SmootherVars(SmootherNext)

-----------------------------------------------------------------------------
(* The limits rise and the last is the highest value, so write_hot_cold      *)
(* finds a range for every score.                                            *)
Covers ==
  /\ \A k \in 2 .. Len(data) : data[k - 1] <= data[k]
  /\ i = steps => data[steps] = len - 1

(* With the list cut into Steps equal shares, the limit of a range lies in   *)
(* its own share, or at most one index before it ("include all lower         *)
(* values").  So values[src_index] never panics, although the search looks   *)
(* at i + j up to twice the number of steps.                                 *)
OwnShare ==
  \A k \in DOMAIN data :
    /\ data[k] * steps > (k - 1) * len - steps
    /\ data[k] * steps < k * len

(* With values in the list both loops end. *)
Terminates == <>(i = steps)
=============================================================================
