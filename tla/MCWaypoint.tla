------------------------------ MODULE MCWaypoint ------------------------------
(* A node with waypoints three ticks apart, so that positions are read       *)
(* strictly between them, and a few Calculates.                              *)
EXTENDS Waypoint
=============================================================================
