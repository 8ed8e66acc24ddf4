----------------------------- MODULE MCArpCache -----------------------------
(* Two peers behind one timer, the central node of a small swarm.  In ticks  *)
(* of half a WaitReplyTimeout the second entry can start to wait between two *)
(* timeouts.  The other timeouts are shortened, so that entries expire.  One *)
(* peer gets more packets than can wait, the other keeps the timer busy.     *)
EXTENDS ArpCache

Packets == <<3, 1>>
=============================================================================
