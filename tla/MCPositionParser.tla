-------------------------- MODULE MCPositionParser --------------------------
(* Small positions files for TLC: two UAVs that may miss frames, two         *)
(* positions, frames two ticks apart so that queries fall between them.      *)
EXTENDS PositionParser

(* The test parse_basic: the row after the header is part of the first       *)
(* frame.                                                                    *)
FirstRowKept ==
  mode = "query" => \E i \in DOMAIN frames :
    frames[i].time = written[1].time /\ Has(written[1].ip, i)
=============================================================================
