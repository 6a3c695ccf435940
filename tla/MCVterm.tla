------------------------------ MODULE MCVterm ------------------------------
EXTENDS Vterm, FiniteSets

CONSTANTS v1, v2

MCTerm == {v1, v2}
MCKeyOf == [k \in {59, 60} |-> IF k = 59 THEN v1 ELSE v2]

(* Where the first terminal's cursor has been and nothing is written: after *)
(* newlines, on rows that are not full.                                     *)
Gaps(v) ==
  {i \in Place : circ_dist(i, v.vt_head) < circ_dist(v.vt_cursor, v.vt_head) /\ v.vt_buf[i] = Blank}

(* The first terminal is written for ever, with a few rows that are not     *)
(* full; the second gets one character.                                     *)
FewGaps == vt[v2].vt_cursor = 0 /\ Cardinality(Gaps(vt[v1])) <= 2
=============================================================================
