-------------------------------- MODULE Link --------------------------------
(* What the layers under the UAV application promise for each destination:   *)
(* packets may be lost or held back, but the ones that go out do so in the   *)
(* order in which they were handed in, each at most once.                    *)
EXTENDS Naturals, Sequences

CONSTANT Peers

VARIABLES
  handed,  \* handed[p]: how many packets for p came in, numbered from 1
  out      \* out[p]: the numbers of the packets that went out to p

Rising(s) == \A i, j \in DOMAIN s : i < j => s[i] < s[j]
Continues(s, t) == \A i \in DOMAIN s : i \in DOMAIN t /\ t[i] = s[i]

Init ==
  /\ handed = [p \in Peers |-> 0]
  /\ out = [p \in Peers |-> << >>]

Move(p) ==
  /\ handed'[p] \in {handed[p], handed[p] + 1}
  /\ Continues(out[p], out'[p])
  /\ Rising(out'[p])
  /\ \A i \in DOMAIN out'[p] : out'[p][i] \in 1 .. handed'[p]

Next == \A p \in Peers : Move(p)

Spec == Init /\ [][Next]_<<handed, out>>
==============================================================================
