---------------------------- MODULE RcaRegistry -----------------------------
(***************************************************************************)
(* The pipeline with the registry it really runs, build_default_registry,  *)
(* and what each of its seven handlers reads of the others' outputs.       *)
(***************************************************************************)
EXTENDS Pipeline

AgentNames == {"log_ingest", "diff_analysis", "failure_classification",
               "root_cause_ranker", "fix_planner", "reporter", "pr_creation"}

Agt(name, depends_on) == [name |-> name, depends_on |-> depends_on]

Bug_DiffUndeclared ==
  << Agt("log_ingest", {}),
     Agt("diff_analysis", {}),
     Agt("failure_classification", {"log_ingest"}),
     Agt("root_cause_ranker", {"log_ingest", "failure_classification"}),
     Agt("fix_planner", {"root_cause_ranker", "failure_classification"}),
     Agt("reporter", {"fix_planner"}),
     Agt("pr_creation", {"fix_planner"}) >>

Bug_DiffNeedsLog ==
  << Agt("log_ingest", {}),
     Agt("diff_analysis", {"log_ingest"}),
     Agt("failure_classification", {"log_ingest", "diff_analysis"}),
     Agt("root_cause_ranker", {"failure_classification"}),
     Agt("fix_planner", {"root_cause_ranker"}),
     Agt("reporter", {"fix_planner"}),
     Agt("pr_creation", {"fix_planner"}) >>

DefaultPlan ==
  << Agt("log_ingest", {}),
     Agt("diff_analysis", {}),
     Agt("failure_classification", {"log_ingest", "diff_analysis"}),
     Agt("root_cause_ranker",
             {"log_ingest", "diff_analysis", "failure_classification"}),
     Agt("fix_planner", {"root_cause_ranker", "failure_classification"}),
     Agt("reporter",
             {"root_cause_ranker", "failure_classification", "fix_planner"}),
     Agt("pr_creation",
             {"root_cause_ranker", "failure_classification", "fix_planner"}) >>

(* Whose outputs each handler indexes.  The fix planner reads diff_analysis *)
(* without declaring it as a dependency.                                    *)
PrCreationReads == {"root_cause_ranker", "failure_classification", "fix_planner"}

Reads ==
  [n \in AgentNames |->
     CASE n \in {"log_ingest", "diff_analysis"} -> {}
       [] n = "failure_classification" -> {"log_ingest", "diff_analysis"}
       [] n = "root_cause_ranker" ->
            {"log_ingest", "diff_analysis", "failure_classification"}
       [] n = "fix_planner" ->
            {"root_cause_ranker", "failure_classification", "diff_analysis"}
       [] n = "reporter" ->
            {"root_cause_ranker", "failure_classification", "fix_planner"}
       [] n = "pr_creation" -> PrCreationReads]

-----------------------------------------------------------------------------

(* No handler that was called has read the output of an agent that failed, *)
(* was skipped or has not run: such a read is a KeyError that hides the    *)
(* agent that really failed.                                               *)
ReadsOfCompleted ==
  plan = DefaultPlan => \A n \in AgentNames : status[n] \in {"completed", "failed"} =>
    \A m \in Reads[n] : status[m] = "completed"

(* The log and the diff are ingested independently: the run is "failed"    *)
(* only when both ingestions failed, and any other failure leaves a        *)
(* "partial" run, so a report is possible only in a run that is not failed.*)
FailedMeansNothingIngested ==
  plan = DefaultPlan =>
    (outcome = "failed" <=>
       /\ phase = "done" /\ outcome # "raised"
       /\ status["log_ingest"] = "failed" /\ status["diff_analysis"] = "failed")
=============================================================================
