------------------------------ MODULE MCAppServer ------------------------------
EXTENDS AppServer, TLC

CONSTANTS d1, d2

MCDeliveries == {d1, d2}
Interchangeable == Permutations(MCDeliveries)

(* A failed run of a pull request, and the ways an event can differ. *)
Failure == [workflowRun |-> TRUE, signed |-> TRUE, installed |-> TRUE, body |-> "failed",
            allowed |-> TRUE, base |-> TRUE, pull |-> TRUE]
MCEvents ==
  {Failure,
   [Failure EXCEPT !.workflowRun = FALSE],
   [Failure EXCEPT !.signed = FALSE],
   [Failure EXCEPT !.installed = FALSE],
   [Failure EXCEPT !.allowed = FALSE],
   [Failure EXCEPT !.base = FALSE, !.pull = FALSE]}
  \union {[Failure EXCEPT !.body = b] : b \in Bodies}

(* A full analysis, and one that found no signal worth a comment and whose *)
(* fix planner was given no provider key.                                  *)
Sure == [done |-> Upstream, confident |-> TRUE, clear |-> TRUE, located |-> TRUE,
         inDiff |-> TRUE, agentic |-> "none"]
Poor == [done |-> Upstream \ {"fix_planner"}, confident |-> FALSE, clear |-> FALSE,
         located |-> FALSE, inDiff |-> FALSE, agentic |-> "AGENTIC_MISSING_KEY"]
MCFindings == {Sure, Poor}

(* They are findings an analysis may come to. *)
A == INSTANCE Analysis WITH Demanding <- TRUE, state <- pc, finding <- found
ASSUME FindingsArePossible == MCFindings \subseteq A!Possible

Everywhere == {"summary", "inline", "status"}
=============================================================================
