---------------------------- MODULE MCVisualizer ----------------------------
(* Small files for the visualizer: frames more than a tick apart, some later *)
(* than the cap.                                                             *)
EXTENDS Visualizer

(* The help of --graph-only: "Disables showing a window and rendering the    *)
(* UAVs. Generates only the MAD graph" - for which the loop has to end.      *)
GraphIsMade == (graphOnly /\ phase = "pass") ~> phase = "finished"
=============================================================================
