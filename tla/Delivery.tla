------------------------------- MODULE Delivery -------------------------------
(***************************************************************************)
(* What the sender of a webhook is promised of each delivery: it is turned *)
(* away, taken over with a 202, or worked on while the sender waits; the   *)
(* work ends once, with a report, or is given up; the sender gets one      *)
(* answer, which agrees with the report; and a report that says "skipped"  *)
(* or "error" means that nothing outside was touched, so that the delivery *)
(* may be sent again.                                                      *)
(***************************************************************************)
CONSTANTS
  Deliveries,
  Reports,                  \* pairs of a status and a reason
  Refusals                  \* those that find fault with the request itself

VARIABLES
  state,                    \* sent, working, finished or gone
  reply,                    \* the HTTP status (0: none)
  report,                   \* what its work came to
  touched                   \* did its work reach GitHub or the artifacts?

Init ==
  /\ state = [d \in Deliveries |-> "sent"] /\ reply = [d \in Deliveries |-> 0]
  /\ report = [d \in Deliveries |-> <<"none", "">>]
  /\ touched = [d \in Deliveries |-> FALSE]

Harmless(r) == r[1] \in {"skipped", "error"}
Codes(r) == IF r[1] = "error" THEN {400, 401, 500} ELSE {200}

(* The answer, unless there was one. *)
Answer(d, r) ==
  IF reply[d] = 0 THEN \E code \in Codes(r) : reply' = [reply EXCEPT ![d] = code]
  ELSE UNCHANGED reply

Finish(d, r) ==
  /\ state' = [state EXCEPT ![d] = "finished"] /\ report' = [report EXCEPT ![d] = r]
  /\ touched[d] => ~Harmless(r)
  /\ reply[d] = 202 => r \notin Refusals
  /\ Answer(d, r)
  /\ UNCHANGED touched

TurnAway(d) ==
  state[d] = "sent" /\ \E r \in Reports : Harmless(r) /\ Finish(d, r)

Take(d) ==
  /\ state[d] = "sent" /\ state' = [state EXCEPT ![d] = "working"]
  /\ reply' \in {reply, [reply EXCEPT ![d] = 202]}
  /\ UNCHANGED <<report, touched>>

Touch(d) ==
  /\ state[d] = "working" /\ touched' = [touched EXCEPT ![d] = TRUE]
  /\ UNCHANGED <<state, reply, report>>

Report(d) == state[d] = "working" /\ \E r \in Reports : Finish(d, r)

(* The thread ends in an exception, or the process is stopped.             *)
GiveUp ==
  \E lost \in SUBSET {d \in Deliveries : state[d] = "working"} :
    /\ state' = [d \in Deliveries |-> IF d \in lost THEN "gone" ELSE state[d]]
    /\ UNCHANGED <<reply, report, touched>>

Next == GiveUp \/ \E d \in Deliveries : TurnAway(d) \/ Take(d) \/ Touch(d) \/ Report(d)

Spec == Init /\ [][Next]_<<state, reply, report, touched>>
===============================================================================
