------------------------------- MODULE Analysis -------------------------------
(***************************************************************************)
(* What the app's server is promised of one analysis: it is refused,       *)
(* raises, or ends once with a finding, and the findings are consistent.   *)
(***************************************************************************)
CONSTANTS
  Upstream,                 \* the agents whose outputs a finding is made of
  Demanding                 \* min_comment_confidence is above 0.4225

VARIABLES state, finding

(* No finding yet.                                                         *)
Nothing == [done |-> {}, confident |-> FALSE, clear |-> FALSE, located |-> FALSE,
            inDiff |-> FALSE, agentic |-> "none"]

Codes == {"AGENTIC_MISSING_KEY", "AGENTIC_PROVIDER_ERROR", "AGENTIC_MAX_ATTEMPTS_EXCEEDED"}

(* A finding without a fix plan may still be published; one that would be  *)
(* suppressed for its class (TEST, UNKNOWN) and its lack of a file is not  *)
(* confident either, by a threshold that asks for more than such evidence  *)
(* can score; an agentic failure costs the plan.                           *)
Possible ==
  {f \in [done : {Upstream, Upstream \ {"fix_planner"}}, confident : BOOLEAN,
          clear : BOOLEAN, located : BOOLEAN, inDiff : BOOLEAN, agentic : {"none"} \union Codes] :
     /\ Demanding /\ f.confident => f.located \/ f.clear
     /\ f.inDiff => f.located
     /\ f.agentic # "none" => "fix_planner" \notin f.done}

Init == state = "running" /\ finding = Nothing

Abandon == state = "running" /\ state' = "abandoned" /\ UNCHANGED finding
Conclude == state = "running" /\ state' = "concluded" /\ finding' \in Possible

Next == Abandon \/ Conclude
Spec == Init /\ [][Next]_<<state, finding>>
=============================================================================
