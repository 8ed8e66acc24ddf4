---------------------------- MODULE MCOptimizer ----------------------------
(* Small parameter searches for TLC.  The scores lie on both sides of the    *)
(* initial LOWEST_ERROR, two runners can come to the same one, and two       *)
(* results are enough, so that a runner can be surprised at every step.      *)
EXTENDS Optimizer

(* write_error_time prints "No data to graph" and goes on when there are no  *)
(* results: a run interrupted before its first result should end as well.    *)
EmptyRunEnds == ~running ~> main \in Over
=============================================================================
