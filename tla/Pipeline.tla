------------------------------ MODULE Pipeline ------------------------------
(***************************************************************************)
(* The orchestrator of src/core/orchestration.py: the agent registry, the  *)
(* order it resolves, the loop that runs, skips or fails every agent, the  *)
(* fail-fast exit, and run_pipeline's fallback from the ADK runtime to the *)
(* local one.  What a handler computes is left out: it returns or raises.  *)
(***************************************************************************)
EXTENDS Naturals, FiniteSets, SequencesExt

CONSTANTS Names,            \* the names an agent or a dependency can have
          Plans             \* the sequences of registrations callers perform

Registration == [name : Names, depends_on : SUBSET Names]

ASSUME PlansAssumption == Plans \subseteq Seq(Registration)

VARIABLES
  plan,                     \* the registrations this caller performs, in order
  regs,                     \* DeterministicAgentRegistry._registration_order
  deps,                     \* depends_on of every registered name
  fail_fast, adk,           \* PipelineRequest.fail_fast; ADK chosen or found
  phase,                    \* where run_pipeline is
  runtime,                  \* "none", then "adk" or "local"
  order,                    \* what resolve_order has resolved so far
  at,                       \* the position in order the loop is at
  status,                   \* PipelineState.agent_status ("none": no entry)
  failures,                 \* the agents in PipelineState.failures
  calls,                    \* how often each handler was called, all in all
  outcome                   \* PipelineState.pipeline_status, or "raised"

registry == <<plan, regs, deps, fail_fast, adk>>
run == <<phase, runtime, order, at, status, failures, calls, outcome>>
vars == <<plan, regs, deps, fail_fast, adk,
          phase, runtime, order, at, status, failures, calls, outcome>>

Statuses == {"none", "completed", "failed", "skipped"}

Registered == {regs[i] : i \in DOMAIN regs}
Resolved == {order[i] : i \in DOMAIN order}
Pending == Registered \ Resolved
Ready == {a \in Pending : deps[a] \subseteq Resolved}
NoStatus == [n \in Names |-> "none"]

Init ==
  /\ plan \in Plans
  /\ regs = <<>>
  /\ deps = [n \in Names |-> {}]
  /\ fail_fast \in BOOLEAN /\ adk \in BOOLEAN
  /\ phase = "building" /\ runtime = "none"
  /\ order = <<>> /\ at = 1
  /\ status = NoStatus /\ failures = {}
  /\ calls = [n \in Names |-> 0]
  /\ outcome = "pending"

-----------------------------------------------------------------------------
(* Registration. *)

Refused(r) == r.name \in Registered \/ r.name \in r.depends_on

Register ==
  /\ phase = "building" /\ Len(regs) < Len(plan)
  /\ LET r == plan[Len(regs) + 1]
     IN  /\ ~Refused(r)
         /\ regs' = Append(regs, r.name)
         /\ deps' = [deps EXCEPT ![r.name] = r.depends_on]
  /\ UNCHANGED <<plan, fail_fast, adk, run>>

(* A duplicate name or a self-dependency raises before anything is stored. *)
RefuseRegistration ==
  /\ phase = "building" /\ Len(regs) < Len(plan)
  /\ Refused(plan[Len(regs) + 1])
  /\ phase' = "refused"
  /\ UNCHANGED <<registry, runtime, order, at, status, failures, calls, outcome>>

(* run_pipeline: ADK is never used for a fail-fast run. *)
Start ==
  /\ phase = "building" /\ Len(regs) = Len(plan)
  /\ phase' = "resolving"
  /\ runtime' = IF adk /\ ~fail_fast THEN "adk" ELSE "local"
  /\ UNCHANGED <<registry, order, at, status, failures, calls, outcome>>

-----------------------------------------------------------------------------
(* resolve_order: of the agents with no open dependency, the one that was  *)
(* registered first.                                                       *)

RegisteredBefore(a, b) ==
  \E i, j \in DOMAIN regs : i < j /\ regs[i] = a /\ regs[j] = b

Bug_ReadyLast(a) == a \in Ready /\ \A b \in Ready \ {a} : RegisteredBefore(b, a)
Bug_ReadyIgnoresDeps(a) ==
  a \in Pending /\ \A b \in Pending \ {a} : RegisteredBefore(a, b)

FirstReady(a) == a \in Ready /\ \A b \in Ready \ {a} : RegisteredBefore(a, b)

ResolveNext ==
  /\ phase = "resolving"
  /\ \E a \in Names : FirstReady(a) /\ order' = Append(order, a)
  /\ UNCHANGED <<registry, phase, runtime, at, status, failures, calls, outcome>>

ResolveDone ==
  /\ phase = "resolving" /\ Pending = {}
  /\ phase' = "running"
  /\ UNCHANGED <<registry, runtime, order, at, status, failures, calls, outcome>>

(* The except clause of run_pipeline: all the ADK run left is dropped and  *)
(* the local runtime starts over.                                          *)
Bug_FallbackAtZero ==
  /\ runtime' = "local" /\ phase' = "resolving"
  /\ order' = <<>> /\ at' = 0
  /\ status' = NoStatus /\ failures' = {}
  /\ UNCHANGED <<registry, calls, outcome>>

Bug_FallbackToAdk ==
  /\ runtime' = "adk" /\ phase' = "resolving"
  /\ order' = <<>> /\ at' = 1
  /\ status' = NoStatus /\ failures' = {}
  /\ UNCHANGED <<registry, calls, outcome>>

FallBack ==
  /\ runtime' = "local" /\ phase' = "resolving"
  /\ order' = <<>> /\ at' = 1
  /\ status' = NoStatus /\ failures' = {}
  /\ UNCHANGED <<registry, calls, outcome>>

Raise ==
  /\ phase' = "done" /\ outcome' = "raised"
  /\ UNCHANGED <<registry, runtime, order, at, status, failures, calls>>

Bug_NoCycleCheck ==
  /\ phase = "resolving" /\ Pending # {} /\ Ready = {}
  /\ phase' = "running"
  /\ UNCHANGED <<registry, runtime, order, at, status, failures, calls, outcome>>

Bug_WaitForDependency ==
  /\ phase = "resolving" /\ Pending # {} /\ Ready = {}
  /\ UNCHANGED vars

CyclicOrMissing ==
  /\ phase = "resolving" /\ Pending # {} /\ Ready = {}
  /\ IF runtime = "adk" THEN FallBack ELSE Raise

-----------------------------------------------------------------------------
(* The agent loop, the same in both runtimes. *)

Bug_BlockedByFailedOnly(a) == {d \in deps[a] : status[d] = "failed"}

BlockedBy(a) == {d \in deps[a] : status[d] \in {"failed", "skipped"}}

AtAgent(a) == phase = "running" /\ at \in DOMAIN order /\ a = order[at]

SettleAs(a, s) == at' = at + 1 /\ status' = [status EXCEPT ![a] = s]

Skip(a) ==
  /\ AtAgent(a) /\ BlockedBy(a) # {}
  /\ SettleAs(a, "skipped")
  /\ UNCHANGED <<registry, phase, runtime, order, failures, calls, outcome>>

CallHandler(a) ==
  /\ AtAgent(a) /\ BlockedBy(a) = {}
  /\ calls' = [calls EXCEPT ![a] = @ + 1]

Complete(a) ==
  /\ CallHandler(a)
  /\ SettleAs(a, "completed")
  /\ UNCHANGED <<registry, phase, runtime, order, failures, outcome>>

Bug_FailKeepsGoing(a) ==
  /\ CallHandler(a)
  /\ SettleAs(a, "failed")
  /\ failures' = failures \union {a}
  /\ UNCHANGED <<registry, phase, runtime, order, outcome>>

Bug_FailureNotRecorded(a) ==
  /\ CallHandler(a)
  /\ SettleAs(a, "failed")
  /\ UNCHANGED <<registry, phase, runtime, order, failures, outcome>>

Fail(a) ==
  /\ CallHandler(a)
  /\ SettleAs(a, "failed")
  /\ failures' = failures \union {a}
  /\ IF fail_fast THEN phase' = "done" /\ outcome' = "raised"
                  ELSE UNCHANGED <<phase, outcome>>
  /\ UNCHANGED <<registry, runtime, order>>

(* An exception of the ADK framework, an import or a session service, at   *)
(* any point of the ADK run.                                               *)
AdkError ==
  /\ runtime = "adk" /\ phase \in {"resolving", "running"}
  /\ FallBack

PipelineStatus ==
  IF failures # {}
  THEN IF \E n \in Names : status[n] = "completed" THEN "partial" ELSE "failed"
  ELSE "completed"

Finish ==
  /\ phase = "running" /\ at > Len(order)
  /\ phase' = "done" /\ outcome' = PipelineStatus
  /\ UNCHANGED <<registry, runtime, order, at, status, failures, calls>>

-----------------------------------------------------------------------------

Agent(a) == Skip(a) \/ Complete(a) \/ Fail(a)

Step ==
  \/ Register \/ RefuseRegistration \/ Start
  \/ ResolveNext \/ ResolveDone \/ CyclicOrMissing
  \/ \E a \in Names : Agent(a)
  \/ Finish

Next == Step \/ AdkError

Spec == Init /\ [][Next]_vars

(* The pipeline is one thread of straight-line code: it keeps taking its   *)
(* own steps.  Nothing obliges the ADK framework to fail.                  *)
FairSpec == Spec /\ WF_vars(Step)

-----------------------------------------------------------------------------
(* Properties *)

TypeOK ==
  /\ plan \in Seq(Registration)
  /\ regs \in Seq(Names)
  /\ deps \in [Names -> SUBSET Names]
  /\ fail_fast \in BOOLEAN /\ adk \in BOOLEAN
  /\ phase \in {"building", "refused", "resolving", "running", "done"}
  /\ runtime \in {"none", "adk", "local"}
  /\ order \in Seq(Names)
  /\ at \in Nat \ {0}
  /\ status \in [Names -> Statuses]
  /\ failures \in SUBSET Names
  /\ calls \in [Names -> Nat]
  /\ outcome \in {"pending", "completed", "partial", "failed", "raised"}

(* A handler was called only where every dependency had completed, and an  *)
(* agent was skipped only where one had not: the loop reads only statuses  *)
(* that exist, so this rests on the order being topological.               *)
SettledSoundly ==
  \A a \in Names :
    /\ status[a] \in {"completed", "failed"} =>
         \A d \in deps[a] : status[d] = "completed"
    /\ status[a] = "skipped" =>
         \E d \in deps[a] : status[d] \in {"failed", "skipped"}

(* All that a depends on, directly or not: the names in every set that     *)
(* holds a's dependencies and is closed under dependency.                  *)
Ancestors(a) ==
  {x \in Names : \A S \in SUBSET Names :
     (deps[a] \subseteq S /\ \A s \in S : deps[s] \subseteq S) => x \in S}

(* Skipping never spreads by itself: behind every skipped agent there is a *)
(* handler that really failed, recorded in failures, among its ancestors.  *)
SkipsTraceToFailure ==
  \A a \in Names : status[a] = "skipped" =>
    \E f \in failures : f \in Ancestors(a) /\ status[f] = "failed"

Stuck(S) == \A a \in S : \E d \in deps[a] : d \in S \/ d \notin Registered

(* A registry with a dependency cycle or a dependency nobody registered is *)
(* refused before any handler runs, under either runtime.                  *)
StuckNeverRuns ==
  (\E S \in SUBSET Registered : S # {} /\ Stuck(S)) =>
     \A n \in Names : status[n] = "none" /\ calls[n] = 0

(* pipeline_status tells the truth about the agents: "completed" only if   *)
(* every registered agent completed, "failed" only if none did, "partial"  *)
(* only if one did and one did not.                                        *)
VerdictTruthful ==
  LET completed == {a \in Registered : status[a] = "completed"}
  IN  /\ outcome = "completed" => completed = Registered
      /\ outcome = "failed" => completed = {} /\ Registered # {}
      /\ outcome = "partial" => completed # {} /\ completed # Registered

(* The reference for resolve_order: of all the orders of the registered    *)
(* agents in which dependencies come first, the one that comes first in    *)
(* the dictionary order of registration positions.                         *)
RespectsDeps(s) ==
  \A i \in DOMAIN s : deps[s[i]] \subseteq {s[j] : j \in 1..(i - 1)}

Earlier(s, t) ==
  s = t \/ \E i \in DOMAIN s :
             /\ \A j \in 1..(i - 1) : s[j] = t[j]
             /\ RegisteredBefore(s[i], t[i])

(* The resolved order is that one: it is fixed by the registrations alone, *)
(* so two runs of one registry visit the agents in the same order.         *)
ReferenceOrder ==
  phase = "running" =>
    LET orders == {s \in SetToSeqs(Registered) : RespectsDeps(s)}
    IN  order \in orders /\ \A s \in orders : Earlier(order, s)

(* The same of registries small enough to list all their orders.           *)
OrderIsReference == Len(regs) <= 3 => ReferenceOrder

(* A handler is called at most once by each runtime, so its side effects   *)
(* (files, branches, pull requests) happen twice at most, and only in a    *)
(* run that fell back from ADK.                                            *)
CallsBounded ==
  \A n \in Names :
    calls[n] <= (IF status[n] \in {"completed", "failed"} THEN 1 ELSE 0)
                + (IF adk /\ ~fail_fast /\ runtime = "local" THEN 1 ELSE 0)

(* Once a handler has failed in a fail-fast run, no other handler is ever  *)
(* called.                                                                 *)
FailFastStops ==
  [][fail_fast /\ failures # {} => calls' = calls]_vars

(* Every run ends: the caller gets a verdict or an exception. *)
Terminates == <>(phase \in {"refused", "done"})

(* The orchestrator is a run of the dependency graph. *)
Dag == INSTANCE DagRun WITH agents <- Registered, st <- status,
                            spare <- (runtime # "local")
RunsTheDag == Dag!Spec
=============================================================================
