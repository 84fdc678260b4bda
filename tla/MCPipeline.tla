----------------------------- MODULE MCPipeline -----------------------------
EXTENDS RcaRegistry

CONSTANTS a, b, c         \* three of the agents' names

(* Every way to register up to three agents, wrong ones included: names    *)
(* registered twice, self-dependencies, cycles, missing dependencies.      *)
AllPlans ==
  LET few == {a, b, c}
      R == [name : few, depends_on : SUBSET few]
  IN  {p \in UNION {[1..n -> R] : n \in 1..3} : p[1].name = a}

(* Those, and the registry the application builds. *)
MCPlans == AllPlans \union {DefaultPlan}
=============================================================================
