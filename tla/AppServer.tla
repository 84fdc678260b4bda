------------------------------- MODULE AppServer -------------------------------
(***************************************************************************)
(* The GitHub App's server: src/github_app_server.py, which answers a      *)
(* webhook delivery from the thread that received it or accepts it and     *)
(* leaves the work to a daemon thread, and src/github_app_runtime.py,      *)
(* which screens the delivery, collects the log and the diff, runs the     *)
(* pipeline, publishes the result and reports an outcome.  All deliveries  *)
(* write the same three artifact files.                                    *)
(*                                                                         *)
(* Events, the analysis of a log and what the requests to GitHub come to   *)
(* are inputs; retries and upserts are the subject of AppComments, the fix *)
(* pull request that of FixPR.                                             *)
(***************************************************************************)
EXTENDS Naturals, FiniteSets, Sequences

CONSTANTS
  Deliveries, Events,       \* webhook deliveries, and what they may contain
  Async,                    \* CI_ROOTCAUSE_APP_ASYNC_WEBHOOK
  Surfaces,                 \* the enabled output modes
  Findings,                 \* what an analysis may have found
  Nobody                    \* the owner of an artifact nobody has written

Upstream == {"log_ingest", "diff_analysis", "failure_classification",
             "root_cause_ranker", "fix_planner"}
Bodies == {"garbage", "incomplete", "running", "passed", "failed"}
Agentic == {"AGENTIC_MISSING_KEY", "AGENTIC_PROVIDER_ERROR", "AGENTIC_MAX_ATTEMPTS_EXCEEDED"}

ASSUME AppServerAssumption ==
  /\ Async \in BOOLEAN /\ Surfaces \subseteq {"summary", "inline", "status"}
  /\ Nobody \notin Deliveries
  /\ \A e \in Events : /\ e.body \in Bodies
                       /\ \A flag \in {"workflowRun", "signed", "installed",
                                       "allowed", "base", "pull"} : e[flag] \in BOOLEAN
  /\ \A f \in Findings : /\ f.done \subseteq Upstream /\ f.agentic \in {"none"} \union Agentic
                         /\ \A flag \in {"confident", "clear", "located", "inDiff"} :
                              f[flag] \in BOOLEAN

VARIABLES
  pc, event,                \* each delivery's next step; what it contains
  http,                     \* the HTTP status it was answered with (0: none)
  result,                   \* the outcome reported for it
  found,                    \* what its analysis found
  done, pr,                 \* the agents of it that completed; did its run
                            \* create or find a fix pull request?
  posted, trouble,          \* the surfaces it reached; those it failed on
  json, md, obs             \* whose ci-rca.json, ci-rca.md and
                            \* ci-rca-observability.json are on the disk

work == <<found, done, pr, posted, trouble>>
disk == <<json, md, obs>>
vars == <<pc, event, http, result, work, disk>>

NothingFound == [done |-> {}, confident |-> FALSE, clear |-> FALSE, located |-> FALSE,
                 inDiff |-> FALSE, agentic |-> "none"]
NoResult == <<"none", "">>
Ok == <<"ok", "">>
Stages == {"accepted", "minting", "screening", "ingesting", "analysing", "reporting",
           "rendering", "fixing", "observing", "summarising", "inlining", "flagging", "concluding"}
Ended == {"answered", "raised", "lost"}
Busy == {d \in Deliveries : pc[d] \in Stages}

Init ==
  /\ pc = [d \in Deliveries |-> "sent"] /\ event \in [Deliveries -> Events]
  /\ http = [d \in Deliveries |-> 0] /\ result = [d \in Deliveries |-> NoResult]
  /\ found = [d \in Deliveries |-> NothingFound]
  /\ done = [d \in Deliveries |-> {}] /\ pr = [d \in Deliveries |-> FALSE]
  /\ posted = [d \in Deliveries |-> {}] /\ trouble = [d \in Deliveries |-> {}]
  /\ json = Nobody /\ md = Nobody /\ obs = Nobody

Goto(d, stage) == pc' = [pc EXCEPT ![d] = stage]

Bug_StatusCode(outcome) ==
  CASE outcome[1] \in {"ok", "partial"} -> 200
    [] outcome[2] = "WEBHOOK_VALIDATION_FAILED" -> 401
    [] outcome[2] = "APP_AUTH_ERROR" -> 400
    [] outcome[1] = "skipped" -> 204
    [] OTHER -> 500

StatusCode(outcome) ==
  CASE outcome[1] \in {"ok", "partial", "skipped"} -> 200
    [] outcome[2] = "WEBHOOK_VALIDATION_FAILED" -> 401
    [] outcome[2] = "APP_AUTH_ERROR" -> 400
    [] OTHER -> 500

(* The outcome is known: the waiting client gets it, a worker logs it. *)
Answer(d, outcome) ==
  /\ Goto(d, "answered")
  /\ result' = [result EXCEPT ![d] = outcome]
  /\ http' = [http EXCEPT ![d] = IF @ = 0 THEN StatusCode(outcome) ELSE @]

-----------------------------------------------------------------------------
(* Screening. *)

(* The first check that applies decides; none means the event is handled.  *)
Checks(e) == <<
  <<~e.signed \/ e.body = "garbage", <<"error", "WEBHOOK_VALIDATION_FAILED">>>>,
  <<~e.workflowRun, <<"skipped", "UNSUPPORTED_EVENT">>>>,
  <<e.body = "incomplete", <<"error", "MISSING_FIELD">>>>,
  <<e.body = "running", <<"skipped", "WORKFLOW_NOT_COMPLETED">>>>,
  <<e.body = "passed", <<"skipped", "WORKFLOW_NOT_FAILED">>>> >>

Policy(e) == <<
  <<~e.allowed, <<"skipped", "REPOSITORY_NOT_ALLOWED">>>>,
  <<~e.base, <<"skipped", "MISSING_BASE_SHA">>>> >>

Applying(checks) == {i \in DOMAIN checks : checks[i][1]}
Verdict(checks) ==
  checks[CHOOSE i \in Applying(checks) : \A j \in Applying(checks) : i <= j][2]

(* A request with another event goes straight to the runtime, in any mode. *)
Process(e) == IF e.workflowRun THEN "minting" ELSE "screening"

Receive(d) ==
  /\ pc[d] = "sent" /\ ~(Async /\ event[d].workflowRun)
  /\ Goto(d, Process(event[d]))
  /\ UNCHANGED <<event, http, result, work, disk>>

Bug_Accept(d) ==
  /\ pc[d] = "sent" /\ Async /\ event[d].workflowRun
  /\ IF ~event[d].signed
     THEN Answer(d, <<"error", "WEBHOOK_VALIDATION_FAILED">>)
     ELSE /\ Goto(d, "accepted") /\ http' = [http EXCEPT ![d] = 202]
          /\ UNCHANGED result
  /\ UNCHANGED <<event, work, disk>>

(* In async mode a failed workflow run is answered at once and given to a  *)
(* daemon thread; anything that is not handled or ignored is answered as   *)
(* skipped, an incomplete event too.                                       *)
Accept(d) ==
  LET checks == Checks(event[d])
  IN  /\ pc[d] = "sent" /\ Async /\ event[d].workflowRun
      /\ IF Applying(checks) = {}
         THEN /\ Goto(d, "accepted") /\ http' = [http EXCEPT ![d] = 202]
              /\ UNCHANGED result
         ELSE Answer(d, IF Verdict(checks)[2] = "WEBHOOK_VALIDATION_FAILED"
                        THEN Verdict(checks) ELSE <<"skipped", Verdict(checks)[2]>>)
      /\ UNCHANGED <<event, work, disk>>

StartWorker(d) ==
  /\ pc[d] = "accepted" /\ Goto(d, Process(event[d]))
  /\ UNCHANGED <<event, http, result, work, disk>>

(* The installation token is minted before the runtime looks at the event. *)
Mint(d) ==
  LET e == event[d]
  IN  /\ pc[d] = "minting"
      /\ \/ /\ e.body # "garbage" /\ e.installed
            /\ Goto(d, "screening") /\ UNCHANGED <<http, result>>
         \/ Answer(d, <<"error", "APP_AUTH_ERROR">>)
      /\ UNCHANGED <<event, work, disk>>

Bug_Screen(d) ==
  LET checks == Checks(event[d])
  IN  /\ pc[d] = "screening"
      /\ IF Applying(checks) = {} THEN Goto(d, "ingesting") /\ UNCHANGED <<http, result>>
                                  ELSE Answer(d, Verdict(checks))
      /\ UNCHANGED <<event, work, disk>>

Screen(d) ==
  LET checks == Checks(event[d]) \o Policy(event[d])
  IN  /\ pc[d] = "screening"
      /\ IF Applying(checks) = {} THEN Goto(d, "ingesting") /\ UNCHANGED <<http, result>>
                                  ELSE Answer(d, Verdict(checks))
      /\ UNCHANGED <<event, work, disk>>

Ingest(d) ==
  /\ pc[d] = "ingesting"
  /\ \/ Goto(d, "analysing") /\ UNCHANGED <<http, result>>
     \/ Answer(d, <<"error", "INGESTION">>)
  /\ UNCHANGED <<event, work, disk>>

-----------------------------------------------------------------------------
(* The pipeline: the agents up to the fix planner, then the reporter and   *)
(* the fix pull request, which need the fix planner.                       *)

Completes(d, agent) == done' = [done EXCEPT ![d] = @ \union {agent}]

Analyse(d) ==
  /\ pc[d] = "analysing"
  /\ \E f \in Findings :
       /\ found' = [found EXCEPT ![d] = f]
       /\ done' = [done EXCEPT ![d] = f.done]
       /\ Goto(d, IF "fix_planner" \in f.done THEN "reporting" ELSE "observing")
  /\ UNCHANGED <<event, http, result, pr, posted, trouble, disk>>

WriteJson(d) ==
  /\ pc[d] = "reporting" /\ json' = d /\ Goto(d, "rendering")
  /\ UNCHANGED <<event, http, result, work, md, obs>>

WriteMarkdown(d) ==
  /\ pc[d] = "rendering" /\ md' = d /\ Completes(d, "reporter") /\ Goto(d, "fixing")
  /\ UNCHANGED <<event, http, result, found, pr, posted, trouble, json, obs>>

(* An output that breaks its contract, or a file that cannot be written. *)
ReporterFails(d) ==
  /\ pc[d] \in {"reporting", "rendering"} /\ Goto(d, "fixing")
  /\ UNCHANGED <<event, http, result, work, disk>>

CreateFixPR(d) ==
  /\ pc[d] = "fixing" /\ Goto(d, "observing")
  /\ \/ Completes(d, "pr_creation") /\ \E made \in BOOLEAN : pr' = [pr EXCEPT ![d] = made]
     \/ UNCHANGED <<done, pr>>
  /\ UNCHANGED <<event, http, result, found, posted, trouble, disk>>

(* Every run leaves its observability file, or the log says it could not.  *)
WriteObservability(d) ==
  /\ pc[d] = "observing" /\ Goto(d, "summarising") /\ obs' \in {obs, d}
  /\ UNCHANGED <<event, http, result, work, json, md>>

-----------------------------------------------------------------------------
(* Publishing. *)

ShouldPost(d) ==
  LET f == found[d] IN pr[d] \/ f.confident \/ f.clear \/ f.located

Due(d) ==
  {s \in Surfaces :
     CASE s = "summary" -> ShouldPost(d)
       [] s = "inline" -> /\ event[d].pull /\ ShouldPost(d)
                          /\ found[d].confident /\ found[d].inDiff
       [] OTHER -> TRUE}

(* One surface: skipped, reached, or failed on.  A failure is kept for the *)
(* outcome and the next surface is tried all the same.                     *)
Publish(d, stage, surface, next) ==
  /\ pc[d] = stage /\ Goto(d, next)
  /\ IF surface \notin Due(d) THEN UNCHANGED <<posted, trouble>>
     ELSE \/ posted' = [posted EXCEPT ![d] = @ \union {surface}] /\ UNCHANGED trouble
          \/ trouble' = [trouble EXCEPT ![d] = @ \union {surface}] /\ UNCHANGED posted
  /\ UNCHANGED <<event, http, result, found, done, pr, disk>>

Summary(d) == Publish(d, "summarising", "summary", "inlining")
Inline(d) == Publish(d, "inlining", "inline", "flagging")
Status(d) == Publish(d, "flagging", "status", "concluding")

Bug_Outcome(d) ==
  CASE "summary" \in trouble[d] -> <<"partial", "COMMENT_API_ERROR">>
    [] "summary" \notin trouble[d] /\ "status" \in trouble[d] -> <<"partial", "STATUS_API_ERROR">>
    [] "reporter" \notin done[d] -> <<"partial", "ARTIFACT_OUTPUT_MISSING">>
    [] OTHER -> Ok

(* What is reported, by the first thing that went wrong. *)
Outcome(d) ==
  LET causes == <<
        <<trouble[d] \intersect {"summary", "inline"} # {}, <<"partial", "COMMENT_API_ERROR">>>>,
        <<"status" \in trouble[d], <<"partial", "STATUS_API_ERROR">>>>,
        <<found[d].agentic # "none", <<"partial", found[d].agentic>>>>,
        <<"reporter" \notin done[d], <<"partial", "ARTIFACT_OUTPUT_MISSING">>>> >>
  IN  IF Applying(causes) = {} THEN Ok ELSE Verdict(causes)

Conclude(d) ==
  /\ pc[d] = "concluding" /\ Answer(d, Outcome(d))
  /\ UNCHANGED <<event, work, disk>>

(* An exception nobody expects (a timeout while a reply is read): a worker *)
(* logs it, a request thread drops the connection.                         *)
Raise(d) ==
  /\ pc[d] \in {"minting", "ingesting", "summarising", "inlining", "flagging"}
  /\ Goto(d, "raised")
  /\ UNCHANGED <<event, http, result, work, disk>>

(* The process stops; its threads are daemons. *)
Restart ==
  /\ Busy # {}
  /\ pc' = [d \in Deliveries |-> IF d \in Busy THEN "lost" ELSE pc[d]]
  /\ UNCHANGED <<event, http, result, work, disk>>

Bug_Step(d) ==
  \/ Mint(d) \/ Screen(d) \/ Ingest(d) \/ Analyse(d)
  \/ WriteJson(d) \/ WriteMarkdown(d) \/ ReporterFails(d) \/ CreateFixPR(d)
  \/ WriteObservability(d) \/ Summary(d) \/ Inline(d) \/ Status(d) \/ Conclude(d) \/ Raise(d)

Step(d) ==
  \/ StartWorker(d) \/ Mint(d) \/ Screen(d) \/ Ingest(d) \/ Analyse(d)
  \/ WriteJson(d) \/ WriteMarkdown(d) \/ ReporterFails(d) \/ CreateFixPR(d)
  \/ WriteObservability(d) \/ Summary(d) \/ Inline(d) \/ Status(d) \/ Conclude(d) \/ Raise(d)

Next ==
  \/ \E d \in Deliveries : Receive(d) \/ Accept(d) \/ Step(d)
  \/ Restart

Spec == Init /\ [][Next]_vars

(* A thread that was started keeps running while the process does, but for *)
(* pr_creation: it waits for git and the validation commands without a     *)
(* timeout.  Every other wait is for a request, and those have one.        *)
FairSpec == Spec /\ \A d \in Deliveries : WF_vars(pc[d] # "fixing" /\ Step(d))

-----------------------------------------------------------------------------
(* Properties *)

Results ==
  {Ok}
  \union {<<"partial", code>> : code \in Agentic \union {"COMMENT_API_ERROR", "STATUS_API_ERROR",
                                                         "ARTIFACT_OUTPUT_MISSING"}}
  \union {<<"skipped", code>> : code \in {"UNSUPPORTED_EVENT", "MISSING_FIELD",
                                          "WORKFLOW_NOT_COMPLETED", "WORKFLOW_NOT_FAILED",
                                          "REPOSITORY_NOT_ALLOWED", "MISSING_BASE_SHA"}}
  \union {<<"error", code>> : code \in {"WEBHOOK_VALIDATION_FAILED", "APP_AUTH_ERROR",
                                        "MISSING_FIELD", "INGESTION"}}

TypeOK ==
  /\ pc \in [Deliveries -> {"sent"} \union Stages \union Ended]
  /\ event \in [Deliveries -> Events] /\ found \in [Deliveries -> Findings \union {NothingFound}]
  /\ http \in [Deliveries -> {0, 200, 202, 400, 401, 500}]
  /\ result \in [Deliveries -> {NoResult} \union Results]
  /\ done \in [Deliveries -> SUBSET (Upstream \union {"reporter", "pr_creation"})]
  /\ pr \in [Deliveries -> BOOLEAN]
  /\ posted \in [Deliveries -> SUBSET Surfaces] /\ trouble \in [Deliveries -> SUBSET Surfaces]
  /\ {json, md, obs} \subseteq Deliveries \union {Nobody}

(* A pull request hears of the app, and a fix is pushed, only for a signed *)
(* event that says a workflow run failed in a repository that is allowed.  *)
OnlyFailuresAnswered ==
  \A d \in Deliveries : posted[d] # {} \/ pr[d] \/ d \in {json, md, obs}
    => LET e == event[d]
       IN  e.signed /\ e.workflowRun /\ e.body = "failed" /\ e.allowed /\ e.base

(* A delivery whose outcome is ok reached every surface that was due and   *)
(* left both artifacts; a failure on any of them is never reported as ok.  *)
OkMeansDelivered ==
  \A d \in Deliveries : result[d] = Ok => posted[d] = Due(d) /\ "reporter" \in done[d]

(* A delivery that was accepted ends with an outcome or an error in the    *)
(* log, unless a restart takes its thread or pr_creation never returns:    *)
(* no other step is one where a thread is stuck for good.                  *)
AcceptedEnds ==
  \A d \in Deliveries :
    http[d] = 202 ~> (pc[d] \in Ended \/ [](pc[d] = "fixing"))

(* A delivery gets one answer and one outcome that agree, whatever the     *)
(* mode; one that was accepted is not turned down by the webhook checks    *)
(* the worker runs again; and one reported as skipped or as an error has   *)
(* reached no surface, repository or artifact (do_POST,                    *)
(* _status_code_for_result).                                               *)
Progress(d) ==
  CASE pc[d] = "sent" -> "sent"
    [] pc[d] \in Stages -> "working"
    [] pc[d] = "answered" -> "finished"
    [] OTHER -> "gone"
Touched(d) == posted[d] # {} \/ trouble[d] # {} \/ pr[d] \/ "reporter" \in done[d]

D == INSTANCE Delivery WITH
  state <- [d \in Deliveries |-> Progress(d)], reply <- http, report <- result,
  touched <- [d \in Deliveries |-> Touched(d)],
  Reports <- Results, Refusals <- {Checks(e)[i][2] : e \in Events, i \in 1..5}
ImplementsDelivery == D!Spec

(* An ok outcome means that the pipeline completed: no agent failed. *)
OkMeansCompleted ==
  \A d \in Deliveries : result[d] = Ok
    => done[d] = Upstream \union {"reporter", "pr_creation"}
=============================================================================
