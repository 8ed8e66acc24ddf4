----------------------------- MODULE MCSimulator -----------------------------
(* Four events, of the main thread, of others, or at destruction, due at     *)
(* once or later, are enough for one to be removed or cancelled by another   *)
(* while a third comes from another thread.                                  *)
EXTENDS Simulator
=============================================================================
