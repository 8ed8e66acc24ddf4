----------------------------- MODULE MCLauncher -----------------------------
(* Four launches leave room for one that is interrupted, one between other   *)
(* commits, one without --use-git and one that finds what they left.         *)
EXTENDS Launcher
=============================================================================
