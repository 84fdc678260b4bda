------------------------------- MODULE DagRun -------------------------------
(***************************************************************************)
(* What the orchestrator promises of one RCA run, whatever the order in    *)
(* which it takes the agents: an agent settles once all its dependencies   *)
(* have, it is worked on only if all of them completed, and the verdict of *)
(* the run follows from how the agents settled.  One run may be abandoned  *)
(* and begun again from nothing, once.                                     *)
(***************************************************************************)
EXTENDS Naturals

CONSTANT Names              \* the names an agent or a dependency can have

VARIABLES agents,           \* the agents of this run
          deps,             \* deps[a]: what a depends on
          st,               \* how each agent has settled
          spare,            \* may the run still be begun again?
          outcome           \* the verdict, once there is one

vars == <<agents, deps, st, spare, outcome>>

Blocking == {"failed", "skipped"}

(* A set of agents each of which waits for another member of the set, or   *)
(* for an agent nobody registered, can never be ordered.                   *)
Stuck(S) == \A a \in S : \E d \in deps[a] : d \in S \/ d \notin agents

Unresolvable == \E S \in SUBSET agents : S # {} /\ Stuck(S)

Untouched == \A n \in Names : st[n] = "none"

Verdict ==
  IF \E a \in agents : st[a] = "failed"
  THEN IF \E a \in agents : st[a] = "completed" THEN "partial" ELSE "failed"
  ELSE "completed"

Init ==
  /\ agents = {}
  /\ deps = [n \in Names |-> {}]
  /\ st = [n \in Names |-> "none"]
  /\ spare = TRUE
  /\ outcome = "pending"

(* The registry is filled while nothing has run. *)
Declare ==
  /\ outcome = "pending" /\ spare /\ Untouched
  /\ agents' \in SUBSET Names
  /\ deps' \in [Names -> SUBSET Names]
  /\ UNCHANGED <<st, spare, outcome>>

Settle(a, r) ==
  /\ outcome = "pending"
  /\ a \in agents /\ st[a] = "none"
  /\ \A d \in deps[a] : d \in agents /\ st[d] # "none"
  /\ (r = "skipped") <=> (\E d \in deps[a] : st[d] \in Blocking)
  /\ st' = [st EXCEPT ![a] = r]
  /\ UNCHANGED <<agents, deps, spare>>

(* Fail-fast reports the first failure at once; everything else waits for  *)
(* the last agent.                                                         *)
Work(a) ==
  \/ \E r \in {"completed", "failed", "skipped"} :
        Settle(a, r) /\ UNCHANGED outcome
  \/ Settle(a, "failed") /\ outcome' = "raised"

Restart ==
  /\ outcome = "pending" /\ spare
  /\ spare' = FALSE
  /\ st' = [n \in Names |-> "none"]
  /\ UNCHANGED <<agents, deps, outcome>>

Refuse ==
  /\ outcome = "pending" /\ Untouched /\ Unresolvable
  /\ outcome' = "raised"
  /\ UNCHANGED <<agents, deps, st, spare>>

Publish ==
  /\ outcome = "pending"
  /\ \A a \in agents : st[a] # "none"
  /\ outcome' = Verdict
  /\ UNCHANGED <<agents, deps, st, spare>>

Next == Declare \/ (\E a \in Names : Work(a)) \/ Restart \/ Refuse \/ Publish

Spec == Init /\ [][Next]_vars
=============================================================================
