----------------------------- MODULE MCComments -----------------------------
EXTENDS AppComments

CONSTANTS d1, d2, d3, summary, line

(* Two deliveries for the summary, one for a line of the diff. *)
MCWorkers == {d1, d2, d3}
MCKeys == {summary, line}
MCKeyOf == [w \in MCWorkers |-> IF w = d3 THEN line ELSE summary]
=============================================================================
