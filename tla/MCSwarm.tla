------------------------------- MODULE MCSwarm -------------------------------
(* Small swarms for TLC.  Ticks keep the order of the program's intervals:   *)
(* calculating is the most frequent event, log and send intervals are        *)
(* multiples of it, and peripherals start after the central node.            *)
EXTENDS Swarm
=============================================================================
