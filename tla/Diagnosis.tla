------------------------------- MODULE Diagnosis ------------------------------
(***************************************************************************)
(* One analysis of the app from the collection of its inputs to what the   *)
(* publishing and the fix pull request start from: the handlers of         *)
(* src/core/orchestration.py with the agents they call, in the order the   *)
(* registry gives them (module Pipeline), and between them the proposer's  *)
(* attempts to get a patch out of a language model                         *)
(* (run_agentic_patch_proposal).  The reporter and pr_creation themselves  *)
(* belong to AppServer and FixPR.                                          *)
(***************************************************************************)
EXTENDS Ingestion, RootCause, FixPlan

CONSTANTS
  Settings,                 \* execution mode, provider, key, history and
                            \* checkout a run may have; undecodable: files
                            \* of the checkout that are not UTF-8
  Proposals,                \* what a model may answer: JSON objects
  MaxAttempts,              \* of the proposer: 2
  MinComment                \* min_comment_confidence

ASSUME DiagnosisAssumption ==
  /\ MaxAttempts \in Nat \ {0}
  /\ MinComment \in 0..10000
  /\ \A s \in Settings : s.assist \in BOOLEAN /\ s.hosted \in BOOLEAN /\ s.key \in BOOLEAN

ASSUME ContentsAssumption ==
  /\ \A s \in Settings : \A p \in DOMAIN s.checkout :
       s.checkout[p] \in Seq(ToSet(s.checkout[p]))
  /\ \A raw \in Proposals : raw.plan \in Seq(ToSet(raw.plan))

(* No log makes evidence of a file with the name that stands for none.     *)
ASSUME NamedAssumption ==
  \A body \in Logs : body.parts # <<>> => \A e \in Events(Unpacked(body)) : e.file # Unknown

VARIABLES
  setting,
  events, first,            \* log_ingest: the timeline, its first failure
  changes,                  \* diff_analysis
  class, flaky,             \* failure_classification
  primary,                  \* primary_root_cause
  replies,                  \* what became of each attempt of the proposer
  proposal,                 \* the proposal it accepted
  steps,                    \* fix_steps of the plan
  trouble,                  \* why the fix planner raised, or "none"
  patch                     \* validated_changes

analysis == <<events, first, changes, class, flaky, primary>>
planning == <<replies, proposal, steps, trouble>>
vars == <<setting, stage, collection, analysis, planning, patch>>

NoPrimary == [index |-> 0, line |-> 0, file |-> Unknown, score |-> 0]
NoEvent == [index |-> 0]
NoChanges == [files |-> {}, modules |-> {}, lockfiles |-> {}, manifests |-> {}]
NoProposal == [malformed |-> FALSE, steps |-> {}, plan |-> <<>>]

Init ==
  /\ InitIngestion /\ setting \in Settings
  /\ events = {} /\ first = NoEvent /\ changes = NoChanges
  /\ class = "UNKNOWN" /\ flaky = FALSE /\ primary = NoPrimary
  /\ replies = <<>> /\ proposal = NoProposal /\ steps = {} /\ trouble = "none"
  /\ patch = <<>>

Ingest == Collect /\ UNCHANGED <<setting, analysis, planning, patch>>

-----------------------------------------------------------------------------
(* The analysis. *)

LogIngest ==
  /\ stage = "log_ingest" /\ stage' = "diff_analysis"
  /\ events' = Selected(log)
  /\ IF Selected(log) = {} THEN UNCHANGED first ELSE first' \in FirstFailures(log)
  /\ UNCHANGED <<setting, collection, changes, class, flaky, primary, planning, patch>>

AnalyseDiff ==
  /\ stage = "diff_analysis" /\ stage' = "failure_classification"
  /\ changes' = DiffAnalysis(diff)
  /\ UNCHANGED <<setting, collection, events, first, class, flaky, primary, planning, patch>>

Classify ==
  LET hits == UNION {e.hits : e \in events}
      tests == UNION {e.tests : e \in events}
      history == setting.history
  IN  /\ stage = "failure_classification" /\ stage' = "root_cause_ranker"
      /\ flaky' = Flaky(tests, history)
      /\ class' = Classification(hits, changes, Flaky(tests, history))
      /\ UNCHANGED <<setting, collection, events, first, changes, primary, planning, patch>>

Rank ==
  /\ stage = "root_cause_ranker" /\ stage' = "fix_planner"
  /\ IF events = {} THEN UNCHANGED primary
     ELSE primary' \in Primaries(events, first, changes, class)
  /\ UNCHANGED <<setting, collection, events, first, changes, class, flaky, planning, patch>>

-----------------------------------------------------------------------------
(* The fix planner: _run_fix_planner_agent.  An exception there leaves     *)
(* reporter and pr_creation skipped.                                       *)

Fails(why) == stage' = "concluded" /\ trouble' = why

BeginPlan ==
  /\ stage = "fix_planner"
  /\ CASE events = {} -> Fails("NO_PRIMARY")
       [] events # {} /\ setting.assist /\ setting.hosted /\ ~setting.key -> Fails("MISSING_KEY")
       [] events # {} /\ setting.assist /\ (~setting.hosted \/ setting.key) ->
            stage' = "proposing" /\ UNCHANGED trouble
       [] OTHER -> stage' = "planning" /\ UNCHANGED trouble
  /\ UNCHANGED <<setting, collection, analysis, replies, proposal, steps, patch>>

Replied(how) == replies' = Append(replies, how)

Accept ==
  /\ stage = "proposing"
  /\ \E raw \in Proposals : ~BreaksContract(raw) /\ Replied("success") /\ proposal' = raw
  /\ stage' = "planning"
  /\ UNCHANGED <<setting, collection, analysis, steps, trouble, patch>>

(* A broken contract or a failing provider uses up an attempt; without one *)
(* left the planner goes on without a proposal.                            *)
Bug_Attempt ==
  /\ stage = "proposing"
  /\ \/ (\E raw \in Proposals : BreaksContract(raw)) /\ replies' = <<"contract">>
     \/ replies' = <<"provider">>
  /\ stage' = IF Len(replies') >= MaxAttempts THEN "planning" ELSE stage
  /\ UNCHANGED <<setting, collection, analysis, proposal, steps, trouble, patch>>

Bug_KeepRejected ==
  /\ stage = "proposing"
  /\ \E raw \in Proposals : BreaksContract(raw) /\ Replied("contract") /\ proposal' = raw
  /\ stage' = IF Len(replies') >= MaxAttempts THEN "planning" ELSE stage
  /\ UNCHANGED <<setting, collection, analysis, steps, trouble, patch>>

Attempt ==
  /\ stage = "proposing"
  /\ \/ (\E raw \in Proposals : BreaksContract(raw)) /\ Replied("contract")
     \/ Replied("provider")
  /\ stage' = IF Len(replies') >= MaxAttempts THEN "planning" ELSE stage
  /\ UNCHANGED <<setting, collection, analysis, proposal, steps, trouble, patch>>

(* A provider that does not answer in time is no provider error.           *)
ProviderHangs ==
  /\ stage = "proposing" /\ Fails("TIMEOUT")
  /\ UNCHANGED <<setting, collection, analysis, replies, proposal, steps, patch>>

Planned ==
  Steps(class, flaky, changes, primary.file, Offered(proposal, primary.file))

Plan ==
  /\ stage = "planning"
  /\ IF Speculative(Planned, primary.file) \/ Conflicting(Planned)
     THEN Fails("REJECTED") /\ UNCHANGED steps
     ELSE stage' = "pr_creation" /\ steps' = Planned /\ UNCHANGED trouble
  /\ UNCHANGED <<setting, collection, analysis, replies, proposal, patch>>

(* _run_pr_creation_agent, as far as the payload of run_pr_creation.       *)
Target == Relative(primary.file)
Worktree(file) ==
  IF file \in DOMAIN setting.checkout THEN setting.checkout[file] ELSE <<>>

(* A file of the checkout that cannot be decoded fails the agent.          *)
Undecodable(file, shown) ==
  class = "TYPECHECK" /\ file \in setting.undecodable /\ Rewritten(shown, primary.line) = <<>>

Resolve ==
  /\ stage = "pr_creation" /\ stage' = "concluded"
  /\ \E file \in {Target} : \E shown \in {ShownContent(diff, file)} :
       IF Undecodable(file, shown) THEN UNCHANGED patch
       ELSE patch' = Resolved(class, file, primary.line, proposal, shown, Worktree(file))
  /\ UNCHANGED <<setting, collection, analysis, planning>>

Propose == Accept \/ Attempt \/ ProviderHangs

Next ==
  \/ Ingest \/ LogIngest \/ AnalyseDiff \/ Classify \/ Rank
  \/ BeginPlan \/ Propose \/ Plan \/ Resolve

Spec == Init /\ [][Next]_vars

(* The thread of the delivery keeps running, and every request to GitHub   *)
(* or to a provider ends: each has a timeout.                              *)
FairSpec == Spec /\ WF_vars(Next)

-----------------------------------------------------------------------------
(* What the server is told: the summary of the run, what decides on a      *)
(* comment, and which failure the outcome is inferred from.                *)

Upstream == {"log_ingest", "diff_analysis", "failure_classification",
             "root_cause_ranker", "fix_planner"}
HasFile == primary.file # Unknown

(* Of the failures a run records, the first that tells of the proposer.    *)
(* run_agentic_patch_proposal reports what its attempts came to as a       *)
(* result, and raises neither a provider's error nor that they are used up. *)
AgenticReason(why) ==
  CASE why = "MISSING_KEY" -> "AGENTIC_MISSING_KEY"
    [] why = "PROVIDER" -> "AGENTIC_PROVIDER_ERROR"
    [] why = "MAX_ATTEMPTS" -> "AGENTIC_MAX_ATTEMPTS_EXCEEDED"
    [] OTHER -> "none"

Finding ==
  [done |-> IF trouble = "none" THEN Upstream ELSE Upstream \ {"fix_planner"},
   confident |-> primary.score >= MinComment,
   clear |-> class \notin {"TEST", "UNKNOWN"},
   located |-> HasFile,
   inDiff |-> HasFile /\ primary.line > 0 /\ LineMapsToDiff(diff, primary.file, primary.line),
   agentic |-> AgenticReason(trouble)]

-----------------------------------------------------------------------------
(* Properties *)

Ended == {"concluded", "refused", "raised"}
Stages == Requests \union Ended \union
  {"log_ingest", "diff_analysis", "failure_classification", "root_cause_ranker",
   "fix_planner", "proposing", "planning", "pr_creation"}

(* No request is made more often than the retry budget allows, no more     *)
(* proposals are asked for than there are attempts, and a score is one.    *)
TypeOK ==
  /\ stage \in Stages /\ setting \in Settings
  /\ attempt \in 0..MaxRetries /\ sent \in [Requests -> 0..MaxRetries + 1]
  /\ reason \in {"none", HttpError, NetworkError, "WORKFLOW_LOGS_EMPTY_ARCHIVE",
                 "COMPARE_DIFF_EMPTY"} \union Useless.logs \union Useless.compare
  /\ class \in Classes /\ flaky \in BOOLEAN
  /\ primary.score \in Nat /\ primary.score <= 10000
  /\ Len(replies) <= MaxAttempts
  /\ trouble \in {"none", "NO_PRIMARY", "MISSING_KEY", "TIMEOUT", "REJECTED"}

(* A delivery is refused for want of a network only when the request that  *)
(* failed had its whole budget, whatever the one before it used up         *)
(* (_request_bytes).                                                       *)
GivesUpOnlyAfterRetries ==
  reason = NetworkError
    => \E r \in Requests : /\ sent[r] = MaxRetries + 1
                           /\ r = "logs" => \A q \in Requests \ {r} : sent[q] = 0

(* A score above 0.72, as the default threshold of pr_creation asks for,   *)
(* names a file of the diff, or the stem of a changed module: no other     *)
(* evidence adds up to it (CandidateScore).                                *)
ConfidentMeansChanged ==
  primary.score > 7200
    => HasFile /\ (primary.file \in changes.files \/ StemName(primary.file) \in changes.modules)

Changes(list, sign, texts) ==
  \E i \in DOMAIN list : \E k \in DOMAIN list[i].patch :
    list[i].patch[k][1] = sign /\ list[i].patch[k][2] \in texts
Plainly(list) == ~Changes(list, "-", MinusLike) /\ ~Changes(list, "+", PlusLike)

(* The diff the ingestion prints is understood by the diff analysis: the   *)
(* changed files are those the compare API named, deleted and renamed ones *)
(* included (fetch_compare_diff, parse_git_diff), unless a changed line    *)
(* looks like a header.                                                    *)
RecoversChangedFiles ==
  stage \notin {"log_ingest", "diff_analysis"} /\ Plainly(files)
    => changes.files = {files[i].name : i \in DOMAIN files} \ {NoPath}

(* The evidence of the root cause is in the log near its line: a file is   *)
(* named within five lines, and where every file named there comes with a  *)
(* line number, file and line were named together (_find_stack_context,    *)
(* through the selection of events and their ranking).                     *)
EvidenceIsPrinted ==
  LET near == {j \in DOMAIN log : /\ log[j].file # NoPath
                                 /\ primary.index - 5 <= j /\ j <= primary.index + 5}
      named == {j \in near : log[j].file = primary.file}
  IN  /\ HasFile => named # {}
      /\ HasFile /\ primary.line > 0 /\ (\A j \in near : log[j].number # NoNumber)
           => \E j \in named : log[j].number = primary.line

(* The lines of the new file a patch shows, by the hunk headers.           *)
NewLine(f, i) == f.patch[i][1] \in {"+", " "}
HunkOf(f, i) == Max({h \in DOMAIN f.patch : h < i /\ f.patch[h][1] = "@@"})
NumberOf(f, i) ==
  f.patch[HunkOf(f, i)][2] + Cardinality({j \in HunkOf(f, i)..(i - 1) : NewLine(f, j)})
ShownLines(f) == {NumberOf(f, i) : i \in {j \in DOMAIN f.patch : NewLine(f, j)}}

(* An inline comment is placed on a line GitHub shows in the pull request, *)
(* unless the evidence is in a file only a misread line names; and it is   *)
(* placed whenever the evidence is such a line, unless an added line       *)
(* begins with "++" (_line_maps_to_diff).  The line is one of the file     *)
(* whose name is the evidence's but for the dots and slashes in front; the *)
(* comment goes out under the path of the evidence, dots included.         *)
InlineLandsOnShownLine ==
  LET path == Stripped(primary.file)
      shown == \E i \in DOMAIN files : /\ files[i].name # NoPath
                                       /\ Stripped(files[i].name) = path
                                       /\ files[i].status # "removed"
                                       /\ primary.line \in ShownLines(files[i])
  IN  /\ Finding.inDiff /\ path # NoPath
           => shown \/ \E text \in PlusLike : Stripped(Misread(text)) = path
      /\ shown /\ HasFile /\ primary.line > 0 /\ ~Changes(files, "+", PlusLike \union PlusPlus)
           => Finding.inDiff

Whole(content, p) ==
  \/ p \in DOMAIN setting.checkout /\ content = setting.checkout[p]
  \/ \E i \in DOMAIN files : files[i].name = p /\ files[i].status = "added"

(* new is old but for one line, which the synthesis repaired: that of the  *)
(* evidence, where old is the whole file.                                  *)
RepairsOneLine(old, new, p) ==
  \E i \in DOMAIN old :
    /\ old[i] \notin Ignoring /\ new = [old EXCEPT ![i] = Repaired[old[i]]]
    /\ Whole(old, p) /\ primary.line \in DOMAIN old => i = primary.line

(* Whatever a model answers, pr_creation is given contents for paths       *)
(* inside the repository only, and none that is empty.  After a type-check *)
(* failure they leave every known line of the file as it was but the one   *)
(* that is repaired, or are a model's and do not silence the checker.      *)
PatchIsHonest ==
  \A p \in DOMAIN patch :
    /\ Inside(p) /\ patch[p] # <<>>
    /\ class = "TYPECHECK" =>
         \/ \A i \in DOMAIN patch[p] : patch[p][i] \notin Ignoring
         \/ /\ p = Target
            /\ \E old \in {ShownContent(diff, p)} \union
                 {setting.checkout[q] : q \in DOMAIN setting.checkout \intersect {p}} :
                    RepairsOneLine(old, patch[p], p)

(* The planner refuses its own plan in two cases only: a model's steps for *)
(* the file of the evidence mention another file or contradict each other, *)
(* or a root requirements file gave the dependency hint.  Steps of a model *)
(* for other files cannot cost the plan (filtered_steps).                  *)
RefusalsExplained ==
  trouble = "REJECTED" =>
    \/ \E s, t \in {step \in proposal.steps : step.file = primary.file} :
         ~ s.refs \subseteq {primary.file} \/ s.op # t.op
    \/ class = "DEPENDENCY" /\ Requirements \in changes.files \ {primary.file}

(* A model that never gives a valid answer changes nothing: plan and patch *)
(* are those of the deterministic mode (run_agentic_patch_proposal).       *)
Exhausted ==
  stage = "concluded" /\ Len(replies) = MaxAttempts /\ "success" \notin ToSet(replies)
FallsBack ==
  LET plan == Steps(class, flaky, changes, primary.file, {})
  IN  Exhausted => /\ steps = IF Speculative(plan, primary.file) THEN {} ELSE plan
                   /\ DOMAIN patch \subseteq {Target}

(* When the proposer's attempts are used up the run reports that they are, *)
(* or what the provider failed with (_infer_pipeline_failure_reason).      *)
ExhaustionReported ==
  Exhausted => Finding.agentic \in {"AGENTIC_MAX_ATTEMPTS_EXCEEDED", "AGENTIC_PROVIDER_ERROR"}

(* A dependency failure with a root cause gets a plan, and with it a       *)
(* report: the deterministic planner has a step for it.                    *)
DependencyFindingsPlanned ==
  stage = "concluded" /\ class = "DEPENDENCY" /\ events # {} /\ ~setting.assist
    => trouble = "none"

State ==
  IF stage = "concluded" THEN "concluded"
  ELSE IF stage \in {"refused", "raised"} THEN "abandoned" ELSE "running"

NoFinding == [done |-> {}, confident |-> FALSE, clear |-> FALSE, located |-> FALSE,
              inDiff |-> FALSE, agentic |-> "none"]

(* An analysis is what AppServer takes it for: it ends once, in one of the *)
(* findings AppServer starts from (_pipeline_summary).                     *)
A == INSTANCE Analysis WITH
  Demanding <- MinComment > 4225, state <- State, finding <- IF stage = "concluded" THEN Finding ELSE NoFinding
ImplementsAnalysis == A!Spec

(* Every analysis ends, however GitHub and the provider answer.            *)
DiagnosisEnds == <>(stage \in Ended)
=============================================================================
