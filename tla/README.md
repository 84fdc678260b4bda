# ci-rootcause in TLA+

ci-rootcause reads the log and the diff of a failed CI run, ranks root causes,
writes a report and may open a guarded fix pull request. It runs as a command
line tool, as a GitHub Action and as a GitHub App server. This directory models
the parts of it whose correctness depends on order, failure and concurrency:
the orchestrator of the agents, what the agents compute on the way from a log and
a diff to a finding and a patch, the comment upserts, the fix pull requests and
the App's server. TLC checks the models on small instances, and TLAPS proves
every safety property the passing runs check, five refinements among them, for
every instance.

Check a model with `tlc -config MCPipeline.cfg MCPipeline`, a proof with
`tlapm PipelineProofs.tla`. `PROJECT.json` lists the runs, their properties,
the source lines behind each definition, and the bug each property was tried
against.

## 1. Inventory

Paths are relative to `src/` of the repository.

| Component | Source | State it keeps | Operations | Modelled in |
|---|---|---|---|---|
| Pipeline runner | `core/orchestration.py` | the registry; `PipelineState`: status, output and failure of every agent; the verdict | `register`, `resolve_order`, the agent loop, fallback from ADK to the local runtime | `DagRun`, `Pipeline` |
| Default registry | `core/orchestration.py` | seven agents with dependencies | one handler each, reading `agent_outputs` of others | `RcaRegistry`, `Diagnosis` |
| Comment and status publishing | `github_app_comments.py` | none of its own; GitHub's comment lists | three upserts (pull request, commit, diff line), commit status, one retry loop for all | `PinnedNote`, `AppComments` |
| Fix pull requests | `agents/pr_creation.py` | a git workspace (HEAD, index, working tree, branches), GitHub's branches and pull requests | gates, branch, checkout, write, format, add, commit, validate, push, open | `GuardedFix`, `FixPR` |
| GitHub App server | `github_app_server.py` | worker threads; what was answered | accept or process a delivery, HTTP status | `AppServer` |
| App runtime and outcomes | `github_app_runtime.py`, `github_app_outcomes.py` | per delivery: pipeline result, surfaces reached, failures | screen, ingest, run, publish, conclude | `AppServer` |
| Webhook checks | `github_app_webhook.py`, `github_app_events.py` | none | verdict on a request | `AppServer` |
| Reporter | `agents/reporter.py` | `ci-rca.json` and `ci-rca.md` on disk, and behind them `ci-rca-observability.json` of the orchestrator | write one after the other | `AppServer` |
| Log and diff ingestion | `github_app_ingestion.py` | attempt counter | two GETs, each in a retry loop; unpack the log archive, print the diff | `Ingestion`, `DiffText` |
| Agentic proposer, fix planner | `agents/agentic_proposer.py`, `agents/fix_planner.py`, `path_safety.py` | attempts and what became of them | propose, validate, retry; plan or refuse | `FixPlan`, `Diagnosis` |
| Classification, ranking | `agents/failure_classification.py`, `agents/root_cause_ranker.py` | none | pure functions | `RootCause` |
| Parsers, log and diff analysis | `parsers/`, `agents/log_ingest.py`, `agents/diff_analysis.py` | none | text to records | `Paths`, `LogText`, `DiffText` |
| Contracts | `contracts/` | none | field validation | no |
| Entry points, release gate | `cli.py`, `action_entrypoint.py`, `release_gate.py`, `core/input_parsing.py` | none | arguments and environment to one run; thresholds | no |
| App authentication | `github_app_auth.py` | none | JWT to token | one step of `AppServer` |
| Benchmarks, evaluation | `benchmark/`, `evaluation/` | none | offline harnesses | no |

How they interact. A webhook reaches the server, which answers it at once or
after processing it; processing mints a token, screens the event, fetches log
and diff, calls `run_pipeline` with the default registry, and publishes what
came out on up to three surfaces. Inside the pipeline the agents communicate
only through `agent_outputs`. The last two agents have effects outside the
process: the reporter writes two files, pr_creation runs git and calls GitHub. At
the end of every run the orchestrator writes a third file beside the two.

What is hard here:

* **Threads without locks.** In async mode every delivery gets a daemon thread.
  They share the comment threads on GitHub, the output directory and, when fix
  pull requests are on, one git working directory.
* **Retries of requests that are not idempotent.** Both HTTP clients repeat
  POST after a 5xx or a network error.
* **Failure halfway.** An agent raises in the middle of a run; the ADK runtime
  breaks and the run starts over; a git command fails after the commit; the
  process is restarted and the delivery is sent again.
* **Residue.** Nothing cleans a workspace: branches and changes of a run that
  failed are there for the next one.
* **Text that is printed and read again.** The diff is printed from an API
  answer and scanned by three readers, each in its own way; file and line of the
  evidence come from a window of log lines.
* **Answers of a model.** They may break their contract, stray from the evidence,
  or never come; whatever they are, the run goes on and may end in a patch.
* **Verdicts put together from parts.** Pipeline status, outcome and HTTP
  status each summarise several results in an order of precedence.

What makes each component correct:

* *Runner*: the order is topological and determined by the registrations; a
  failure stops exactly the agents behind it; the verdict is true; handlers are
  not called more often than once per runtime; malformed registries never run.
* *Registry*: no handler reads an output that is not there.
* *Ingestion*: a delivery is given up only when the failing request is out of
  attempts; what is printed can be read back.
* *Analysis*: evidence is in the log, a high score is about the change, an inline
  comment is on a line the pull request shows.
* *Planner and proposer*: refusals have reasons; attempts are bounded; a model
  without a valid answer changes nothing; a patch repairs one line or is a
  model's, inside the repository.
* *Comments*: one comment per pull request or line; comments of people are
  never touched; bounded traffic; "posted" is true.
* *Fix pull requests*: what is pushed was accepted, validated and within
  evidence and limits; a commit lands only on a branch that was asked for where it
  is made.
* *Server*: nothing happens for events that should be ignored; accepted work
  ends; "ok" is true.

`PROJECT.json` lists the 37 places in the code where these can go wrong and the
properties that watch each.

## 2. Modules

| Module | What it is |
|---|---|
| `DagRun` | Abstract: one run over a dependency graph in any order, with one restart |
| `Pipeline` | The orchestrator, both runtimes; implements `DagRun` |
| `PipelineProofs` | Theorems about `Pipeline` and `RcaRegistry` |
| `RcaRegistry` | The registry of `build_default_registry` and what its handlers read |
| `MCPipeline` | `Pipeline` with all registries of up to three agents and the default one |
| `Analysis` | Abstract: one analysis is abandoned or ends once in a consistent finding |
| `Paths` | Repository paths, dependency files, module names |
| `DiffText` | The diff: printed by the ingestion, read by the analysis, the inline mapping and the patch synthesis |
| `LogText` | The log: stages, error lines, contexts, noise, the first failure |
| `RootCause` | Classification, scores and ranking |
| `FixPlan` | Contract of a proposal, steps and refusals of the planner, contents of the patch |
| `Ingestion` | The two requests with their retries |
| `Diagnosis` | The five analysing agents and the proposer's attempts, from the first request to the payload of pr_creation; implements `Analysis` |
| `DataProofs` | Lemmas about sequences, extrema and counting that no library states |
| `DiagnosisProofs` | Theorems about `Diagnosis`: requests, scores, plan, refinement |
| `DiagnosisTextProofs` | Theorems about `Diagnosis`: what the log and the printed diff still say |
| `PinnedNote` | Abstract: one note per key, showing the last delivery that had its say |
| `AppComments` | The upserts and their retry loop; implements `PinnedNote` under conditions |
| `GuardedFix` | Abstract: an open pull request shows an allowed offer until it is closed |
| `FixPR` | pr_creation with git and GitHub, in own clones and in a shared directory; implements `GuardedFix` in own clones |
| `Delivery` | Abstract: a delivery is answered once, truthfully, and left alone unless its work counts |
| `AppServer` | Server and runtime: one delivery from request to outcome; implements `Delivery` |
| `AppCommentsProofs`, `RedeliveryProofs` | Theorems about `AppComments`: for any deliveries, and for deliveries that come one at a time |
| `AppServerProofs` | Theorems about `AppServer` |
| `FixPRProofs` | Theorems about `FixPR`, for any workspaces; some speak of own clones only |
| `MCComments`, `MCFixPR`, `MCAppServer`, `MCDiagnosis` | Instances for TLC |

The seams between models: `RcaRegistry` extends `Pipeline`, and `MCPipeline`
checks both. `AppServer` takes an analysis as one of the `Findings` it may end
in, then the reporter and pr_creation. What a finding can be is stated by
`Analysis`: `MCAppServer` assumes its findings to be possible in that sense (TLC
evaluates the assumption), and `Diagnosis` implements it, which is proved. A
surface is "reached or failed" and a fix "made or not": these are the interfaces
of `AppComments` and `FixPR`. `Diagnosis` has the agents in the order `Pipeline`
gives the default registry, one after the other; that skipping and failing work
as it supposes is what `ReadsOfCompleted` and `SkipsTraceToFailure` say.

### Pipeline

`Register`, `RefuseRegistration` are `DeterministicAgentRegistry.register`;
`ResolveNext`, `ResolveDone`, `CyclicOrMissing` are the loop of
`resolve_order`; `Skip`, `Complete`, `Fail`, `Finish` the loop of
`_run_pipeline_local`, which the ADK root agent repeats; `AdkError` with
`FallBack` is the `except Exception` of `run_pipeline`. `status`, `failures`,
`outcome` are the fields of `PipelineState`. `calls` is a history variable: the
number of times each handler was called, over both runtimes. Hashes, timing and
the structured log are left out; no code reads them back during the run.

### Diagnosis

One behaviour is one delivery between the screening of the webhook and the
publishing. `stage` is where it is: `logs` and `compare` are the two requests of
`collect_workflow_run_inputs`, then the agents in registry order; `proposing` is
the loop of `run_agentic_patch_proposal` inside the planner's handler. It ends
`concluded` (the planner may have failed: `trouble` is why), `refused` (an error
of the ingestion with its reason code) or `raised` (an exception no clause of
the ingestion catches; the server turns it into a failed delivery).

* `Ingestion`: `attempt` is the loop variable of `_request_bytes`, `sent` a
  history variable. `Retry`, `GiveUp`, `Deny` and `Escape` are what a request can
  come to; `ReceiveLogs` and `ReceiveCompare` what is made of its body.
* `LogText`: a log line is a record of what its readers look for, so that regular
  expressions are attributes and everything behind them (windows, stages, noise,
  scores, order) is computed. `Event` is `parse_ci_log`, `FirstFailures` the
  first failure of `run_log_ingest`.
* `DiffText`: a printed line is a record of its kind. `Rendered` prints a file as
  `fetch_compare_diff` does; `ParseGitDiff` with `DiffAnalysis`,
  `LineMapsToDiff` and `ShownContent` are its readers. Texts in `MinusLike` and
  `PlusLike` look like file headers once they carry their sign, and one in
  `PlusPlus` (`++i;`) makes a line the readers do not take for an added one, which
  is how they come to disagree with the printer.
* `RootCause`: scores are in ten thousandths, weights multiplied in.
* `FixPlan`: a step is the file it changes, the file names in its instruction and
  the operation its wording implies; a content is a sequence of texts.
* `Paths`: a path is its directories, stem and suffix; a directory may be a dot, two
  dots or a slash too many. Three readers treat such paths differently: `Safe` (the
  contract of a proposal) refuses them, `Relative` (the content of a patch) drops
  what is harmless and refuses the rest, and `Stripped` (the inline mapping, which
  calls `lstrip("./")`) drops every dot and slash in front, so that "../src/app.py"
  and "/src/app.py" count as "src/app.py", and ".github/x" as "github/x" (`Bare`).
* `Finding` is what the runtime derives from the run: which agents completed,
  whether confidence, class or a file justify a comment, whether the evidence is
  on a line of the diff, and which failure of the proposer, if any, the outcome is
  told of (`AgenticReason`). `Resolve` leaves the patch empty where the checkout's
  file is not UTF-8 (`undecodable`): the pr_creation agent fails there.

A file named `unknown` is how the ranker writes "no file"; the model assumes that
no log names such a file (`NamedAssumption`). Sorting by timestamp is left out
because all events of a log carry the run's. `NoNumber` is a location without a line;
line 0 is one with a line. The ranker breaks its last tie by a candidate's id, a text
with four digits, and the model by its number: they agree up to 9999 events.

### AppComments

A worker is one delivery's thread inside one upsert: `listing`, then `patching`
or `posting`. `attempt` is the loop variable of `_request_json`. A request is
`Served`, `Unserved` (rate limit, 5xx, network: repeat), `LostReply` (GitHub did
it, the client does not know: repeat), `Rejected` (other HTTP errors: end) or
gets an `UnusableReply` (the effect is there, the upsert ends in an error or an
exception). A key is the summary marker, or the inline marker with one path and
line; the three upserts differ only in the endpoint and the key. A comment's `said` is
a history variable: the workers whose POST or PATCH put their report there. A comment
found by its marker says nothing of whether the report got there, `said` does.

### FixPR

One action per git command, in the order of `run_pr_creation`. `Gates` is the
sequence of checks before anything is touched. Git is modelled by what the
commands do to HEAD, index, working tree and branches: `Checkout` refuses if a
file it must replace has uncommitted content, `Commit` takes the whole index
onto whatever branch HEAD is, `Push` only fast-forwards. A call names the workspace
it works in (`repo`, the `repo_path` of the code) with its payload, and `Starts`
says which calls may be made together, so that one specification has both
deployments: in the Action each run has its own clone, and the App's runs use the
directory of the server process. `OwnClones` is a condition on the state that tells
them apart.

### AppServer

`Accept` is `prepare_async_webhook_acceptance`, `Receive` the synchronous path,
`Mint` to `Conclude` the steps of `process_webhook_request` and
`process_github_app_webhook` in their order. `Checks` and `Policy` are lists of
conditions with their verdict; the first that applies decides. `Publish` is one
surface; a failure is remembered and the next surface still tried. `Outcome` is
the precedence of failures at the end of the runtime; a finding's `agentic` is the
failure code of the proposer, of which `Diagnosis` produces one (a missing key) and
the code knows three. `json`, `md` and `obs` are whose artifacts are on the disk;
the third is written by every run, whatever became of the reporter.

`Delivery` is what a sender of webhooks may rely on: one answer that agrees with the
report, no refusal of what was accepted with a 202, and no effect of a delivery that is
reported as skipped or failed. It leaves out the stages, the surfaces and their order. A
delivery lost in a restart or in an exception promises nothing: its work may be half
done and is not resumed.

## 3. What the runs show

| Run | Instance and bounds | Shows |
|---|---|---|
| `pipeline` | 3 names; all plans of 1 to 3 registrations over them (the first is `a`, by symmetry), and the default registry of seven; both flags; handlers return or raise | the ten properties below, and of the default registry that no KeyError hides the agent that failed (`ReadsOfCompleted`) and which failures make a run failed (`FailedMeansNothingIngested`) |
| `diagnosis` | 38 logs, 10 comparisons, 5 settings, 9 answers of a model; 1 retry, 2 attempts | what the parsed text still says of its source, what evidence, score, plan and patch are worth, that the analysis is an `Analysis` and ends |
| `diagnosis_hint` | the same | *violated*: `DependencyFindingsPlanned` |
| `diagnosis_exhausted` | the same | *violated*: `ExhaustionReported` |
| `comments_redelivered` | 3 deliveries (two for the summary, one for a line), one at a time; 1 retry; lost replies; one comment of a person | all duplicates come from one delivery's POST; the note readers see is that of a delivery that had its say (`PinnedNote`); every upsert ends |
| `comments_concurrent` | the same three at once; page of 2, so that the marker can be off the page | what needs no assumption: requests and comments per worker are bounded, "posted" is true, other comments are untouched |
| `comments_race` | no faults, two workers at once | *violated*: `SingleComment` |
| `fixpr` | 3 runs at once: in own clones with any of 6 calls each, or in one directory with 3 calls and two fix branches; command failures, lost replies, crashes, closing | in clones only accepted work is pushed and open pull requests implement `GuardedFix`; in the directory a commit lands only on a fix branch somebody there asked for |
| `fixpr_residue` | one run at a time in one directory, no fault | *violated*: `CreatedIsScoped` |
| `fixpr_redelivery` | one run at a time, crashes | *violated*: `RedeliveryWorks` |
| `app_deliveries` | 2 deliveries of 10 kinds at once, async, restarts | who is answered, what ok means, accepted work ends but for restarts and a pr_creation that hangs; the whole is a `Delivery`: one answer and one report that agree, no refusal of what was accepted, no trace of what is reported as skipped or failed |
| `app_outcome` | 2 deliveries, synchronous | *violated*: `OkMeansCompleted` |

The pipeline's properties: the order is the smallest topological one in
registration order (`OrderIsReference`, against an independent definition, `ReferenceOrder`, over
all permutations); a handler is called only after its dependencies completed
(`SettledSoundly`); behind each skip is a recorded failure of an ancestor
(`SkipsTraceToFailure`); a cycle or a missing dependency means no handler runs
(`StuckNeverRuns`); the verdict is true (`VerdictTruthful`); a handler is called
twice only after a fallback (`CallsBounded`); nothing is called after a
fail-fast failure (`FailFastStops`); every run ends (`Terminates`); the whole is
a `DagRun` (`RunsTheDag`).

The diagnosis's properties: the changed files are those the compare API named
(`RecoversChangedFiles`); file and line of the root cause are in the log near its
line, and belong together where every location there is complete
(`EvidenceIsPrinted`); a score above 0.72 is about a changed
file or module (`ConfidentMeansChanged`); an inline comment is on a line the pull
request shows, of a file with the name of the evidence but for dots and slashes in
front, and is placed whenever the evidence is one (`InlineLandsOnShownLine`);
contents are for paths inside the repository, not empty, and after a type-check
failure change one line or are a model's that does not silence the checker
(`PatchIsHonest`); the planner refuses its plan for two reasons only
(`RefusalsExplained`); a model without a valid answer leaves plan and patch
as they would be without it (`FallsBack`); a request is given up only
after its own budget (`GivesUpOnlyAfterRetries`); every analysis ends
(`DiagnosisEnds`), in a finding `AppServer` starts from (`ImplementsAnalysis`).
The first holds for changes in which no line looks like a file header; the fourth
excepts a file only such a line names, and, where it says that a comment is placed,
changes that add a line beginning with "++". The run contains such changes.
`ImplementsAnalysis` promises that a confident finding names a file or has a clear
class where the comment threshold is above 0.4225, more than evidence without either
can score; below that the configuration, which accepts any threshold from 0 to 1, asks
for no such thing.

### Why the bounds are enough

* Three names give every shape the resolver and the loop distinguish:
  duplicates, self-dependencies, missing names, cycles of two and three, chains
  and diamonds' halves, and a skip behind a skip. The theorems remove the bound.
* The logs of `diagnosis` take every branch between a line and a finding: each
  kind of failure at each place (none, a changed file with and without a line,
  an unchanged file, a dependency file), a location at the edge of the window
  and just outside it, two locations in one window (the second without a line, in line
0, in line 1), a path with dots or slashes in front, a noisy stage before the
  failure and alone, no event at all, noise alone, an archive of two members, an
  empty one. The comparisons contain each status, several hunks, a file without
  a patch, a change that looks like a header, and each combination of dependency
  files the hints tell apart. The answers of the model are a good one, steps for
  two files, contradicting steps, a path outside the repository in steps and in
  contents, a dotted and a backslashed path, an empty content and no JSON of that
  shape. Two attempts are the
  code's default; one retry distinguishes first and last, and two requests show
  that the budget is not shared. The proofs remove these bounds where the
  section below says so.
* `MaxRetries = 1` distinguishes first, repeated and last attempt. Two workers
  with one key make the race, the third with another key shows that keys do not
  mix. `PageSize = 2` with one comment of a person and three workers puts a
  marked comment beyond the page.
* Three runs of pr_creation: one leaves residue, one is misled, one interferes.
  Six of the calls (sound, failing validation, dry run, deterministic without
  validation, unformattable, too many files) take every branch behind the gates; the
  confidence is at its threshold and the patch of all but the last at the file limit. The
  seventh is for another branch: with it in one directory, a run can move HEAD between
  the checkout and the commit of another (`LandsWhereAsked`). Two files suffice for
  "inside" and "outside the evidence". `MaxActive` bounds the runs in progress, 3 or 1.
* Two deliveries are the least that can share the output directory; each kind
  of event differs from a proper failure in one respect.

### Fairness

`Pipeline`: weak fairness of the orchestrator's own steps, which are
straight-line code of one thread, and of the handlers' return; nothing makes ADK fail.
`Terminates` is thus conditional: every run ends if its handlers return or raise. Six
of the default registry do, for they compute, write files or make requests with a
timeout. pr_creation need not: its subprocesses (`pr_creation.py` 209, 358, 377) have
no timeout, and a git or a validation command that hangs holds the run.

`AppServer` takes that into account. Weak fairness is of each started thread's steps
except at "fixing", where the thread may stay for ever, and `AcceptedEnds` says that
an accepted delivery is answered, fails, is lost in a restart, or waits there.

`AppComments`: weak fairness of each worker's requests; `urlopen`
has a timeout, so a request comes back in some way. `Diagnosis`: weak fairness of the
next step of its one thread; both clients give every request a timeout of 30 seconds,
and a timeout is an outcome of the model (`Retry`, `Escape`, `ProviderHangs`).
Nothing is assumed of arrivals, people or
restarts. There is no fairness in `FixPR`: only safety is claimed.

## 4. Disagreements with the documentation

Each has a run that TLC ends with a counterexample.

1. **Two deliveries at once post two comments** (`comments_race`).
   `upsert_pr_comment` lists, then posts, with nothing in between that keeps
   another thread out. `docs/app-operations.md:75-76` recommends redelivery
   because markers avoid duplicates.
2. **Residue of a rejected run is published** (`fixpr_residue`). A local branch
   of the same name is reused with the commits a failed validation or a dry run
   left; the next pull request exceeds `max_fix_files` and its evidence.
   `docs/app-config-contract.md:47`.
3. **A redelivery after a crash between commit and push fails for good**
   (`fixpr_redelivery`). `git commit` has nothing to commit.
   `docs/app-operations.md:74` advises redelivery.
4. **A failed pr_creation agent is reported as ok** (`app_outcome`). The outcome
   is derived from comment, status, agentic and artifact failures only, while
   `docs/app-outcome-codes.md:6-7` reserves ok for success.
5. **The planner refuses its own hint** (`diagnosis_hint`). When a change touches
   `requirements.txt` in the root and no other hinting file, the step of a
   dependency failure says "pip install -r requirements.txt", and the guard
   against file names in instructions rejects it unless the log's evidence is in
   that file. The planner fails, no artifact is written.
   `docs/github-app-test-plan.md:93-100` expects stable artifacts of a dependency
   failure; the test for that log and diff replaces the pipeline by a stub.
6. **An exhausted proposer is not reported** (`diagnosis_exhausted`). The runtime
   looks for the codes `AGENTIC_MAX_ATTEMPTS_EXCEEDED` and `AGENTIC_PROVIDER_ERROR` in
   the failures of the run; the proposer returns what its attempts came to as a result,
   so that neither is ever there. `docs/agentic-failure-codes.md:18` lists the code, and
   `docs/github-app-test-plan.md:173` expects it. What does happen, a plan and a patch
   as if no model had been asked, is `FallsBack`.

Behaviour worth knowing that no document contradicts outright:

* Behind a full first page (100 comments) an upsert never finds its marker and
  adds a comment on each delivery.
* A run that finds an open pull request reports `validation_passed` although no
  command ran.
* An incomplete payload is "skipped", 200, in async mode and an error, 500,
  in synchronous mode (`Accept` and `Screen` of `AppServer`).
* A lost reply to the POST of a comment is repeated: one delivery can leave
  `max_retries + 1` comments, although `CHANGELOG.md:14` calls them idempotent.
  `FloodBounded` is the bound, `DuplicatesHaveOneAuthor` says that a later delivery
  adds none.
* The inline comment is posted under the path of the evidence as the log wrote it
  (`github_app_runtime.py` 284, 609), after the mapping compared it without the dots
  and slashes in front: evidence "../src/app.py" on a line of `src/app.py` is posted for
  a path the pull request does not show, which GitHub refuses.
* A file of the checkout that is not UTF-8 fails the pr_creation agent after a
  type-check failure whose diff shows nothing of the file (`Undecodable`).
* After a type-check failure in a modified file the synthesized content is made
  of the lines its hunks show; the rest of the file is not in it. `PatchIsHonest`
  therefore asks for the line of the evidence only where the whole file is known.
* A flaky TEST failure gets a step that says not to change code, and the contents
  a model proposed reach pr_creation all the same.
* A location without a line takes the line of another location in its window, so
  evidence can name a line the log gives for a different file.
* A removed "-- x" is read as the header of file "x"; its section is then
  credited to that name.
* Concurrent deliveries overwrite each other's artifacts; each of the three files
  can be another delivery's.
* A lost reply to POST /pulls is repeated, answered with 422, and the run fails
  although its pull request is open (`PostLost`, then `Post`, of `FixPR`).
* `CreatedIsScoped` is not claimed for own clones either: a lost reply, followed
  by somebody closing the pull request and another run pushing its own
  commits, lets the repeated POST open a pull request that shows the other
  run's patch.

## 5. Proofs

Each theorem holds for every value of the constants under the named assumption
of its module. The assumptions only give the constants their types, except
where the table says so.

| Module, assumption | Theorem | States |
|---|---|---|
| `PipelineProofs`, `PlansAssumption` | `Invariance` | `[]IInv` |
| | `TypeCorrect` | `[]TypeOK` |
| | `SettlesSoundly` | `[]SettledSoundly` |
| | `SkipsTraced` | `[]SkipsTraceToFailure` |
| | `StuckRegistryNeverRuns` | `[]StuckNeverRuns` |
| | `VerdictIsTruthful` | `[]VerdictTruthful` |
| | `CallsAreBounded` | `[]CallsBounded` |
| | `FailFastIsFinal` | `FailFastStops` |
| | `PipelineRunsTheDag` | `RunsTheDag`, the refinement |
| | `OrderIsTheReference` | `[]OrderIsReference` |
| | `ReadsAreOfCompleted` | `[]ReadsOfCompleted` |
| | `FailedIsNothingIngested` | `[]FailedMeansNothingIngested` |
| | `RunsAreShort` | a bound on the steps of a run: `[]WithinBudget`, `[][Spends]_vars` |
| `AppCommentsProofs`, `CommentsAssumption` | `CommentsInvariance` | `[]IInv` |
| | `TypeCorrect` | `[]TypeOK` |
| | `FloodIsBounded` | `[]FloodBounded` |
| | `PostedIsWritten` | `[]PostedMeansWritten` |
| | `OthersStayUntouched` | `OthersUntouched` |
| `RedeliveryProofs`, also `MaxActive = 1`, finitely many workers | `DuplicatesShareAnAuthor` | `[]Fits => []DuplicatesHaveOneAuthor` |
| | `UpsertsKeepOneNote` | `[]Fits => KeepsOneNote`, the refinement |
| `FixPRProofs`, `FixPRAssumption` | `FixPRInvariance` | `[]IInv` |
| | `TypeCorrect` | `[]TypeOK` |
| | `CommitsLandWhereAsked` | `[]LandsWhereAsked` |
| | `CloneInvariance` | `[]ClonesInv` |
| | `ClonesPushAccepted` | `[]OnlyAcceptedPushed` |
| | `ClonesShowGuardedFix` | `ShowsGuardedFix`, the refinement |
| `DiagnosisProofs`, `DiagnosisAssumption`, `IngestionAssumption`, `NamedAssumption` | `TypeCorrect` | `[]TypeOK` |
| | `RetriesAreSpent` | `[]GivesUpOnlyAfterRetries` |
| | `AnalysisInvariant` | `[]AnalysisInv` |
| | `ConfidenceIsEarned` | `[]ConfidentMeansChanged` |
| | `PlanInvariant` | `[]PlanInv` |
| | `RefusalsHaveReasons` | `[]RefusalsExplained` |
| | `ExhaustionFallsBack` | `[]FallsBack` |
| | `DiagnosisIsAnAnalysis` | `ImplementsAnalysis`, the refinement |
| | `AnalysesAreShort` | a bound on the steps of an analysis: `[]WithinBudget`, `[][Spends]_vars` |
| `DiagnosisTextProofs`, also `LogsAssumption`, `ComparisonsAssumption`, `ContentsAssumption` | `TextInvariant` | `[]TextInv` |
| | `EvidenceIsInTheLog` | `[]EvidenceIsPrinted` |
| | `DiffIsUnderstood` | `[]RecoversChangedFiles` |
| | `PatchStaysHonest` | `[]PatchIsHonest` |
| | `InlineCommentsLand` | `[]InlineLandsOnShownLine` |
| `AppServerProofs`, `AppServerAssumption` | `ServerInvariance` | `[]IInv` |
| | `TypeCorrect` | `[]TypeOK` |
| | `AnswersFailuresOnly` | `[]OnlyFailuresAnswered` |
| | `OkIsDelivered` | `[]OkMeansDelivered` |
| | `DeliveriesAreKept` | `ImplementsDelivery`, the refinement |

Some assumptions are more than types. `CommentsAssumption` keeps the key of
people's comments apart from the app's, which is what the marker does.
`FixPRAssumption` says that no fix branch is the branch the workspace started
on (names are built under a prefix) and that there are finitely many files.
`MaxActive = 1` and
`Fits` (the thread never has more comments than the page the upserts search) are
conditions of the two theorems and not of the code: a server starts a thread per
delivery, and no request asks for a second page. Without the first,
`comments_race` finds two comments under one key; behind a full page no marker
is found. `NamedAssumption`
says no log names a file called `unknown`. `ComparisonsAssumption` says of the
compare API that no file is called `/dev/null` and that a patch begins with a hunk
header; `LogsAssumption` and `ContentsAssumption` only say that logs, contents and the
directories of a path are sequences and line numbers are natural.

Other conditions are part of the properties. `OnlyAcceptedPushed` and
`ShowsGuardedFix` speak of deployments in which no two runs share a directory
(`OwnClones`), the Action's; without that both are false (`fixpr_residue`). No
threshold is assumed to be more than a number from 0 to 1: `ConfidentMeansChanged`
is about scores above 0.72, which is above what a file the change does not contain can
score, and `Analysis` makes its promise about confident findings for comment thresholds
above 0.4225. The defaults of the configuration are well above both.

### Arguments

`PipelineProofs`. `SettledSoundly` alone is not inductive: that a dependency has
settled when the loop reaches an agent follows from the order, and what the
order is follows from the resolver that built it. `IInv` therefore says what is
fixed in each phase (`PhaseInv`), that the order lists registered agents, none
twice, dependencies first (`OrderInv`), that the settled agents are exactly
those the loop has passed (`LoopInv`), that `failures` are the failed ones, and
that a verdict implies a finished loop (`DoneInv`). One lemma per group of
actions preserves it. `SkipsTraced` adds an induction along the loop: a skipped
agent's blocked dependency is a failure or has itself an ancestor that failed,
and ancestors are transitive (`AncestorsOfDependency`). `StuckRegistryNeverRuns`
adds that no member of a stuck set is ever resolved. The refinement maps
`Registered`, `status` and "may still restart" and has one step per action.

`AppCommentsProofs`. `FloodBounded` needs three facts about each worker, which
together are inductive: requests are counted by the attempts at the listing and
then at the write (`SentInv`); comments are added only in `posting`, at most one
per attempt (`AddedInv`); and the comment a worker is about to update carries
its key (`FoundInv`), which stays true while others write because comments are
never removed and keep their key. `PostedIsWritten` rests on the last two: a worker
that reports "updated" is among those whose write reached the comment (`said`, which
only grows, whoever writes after it), and one that reports "created" has a comment of
its own in the thread. `EffectFacts` says what one request does to
the thread; `Frame` carries the other workers over it. The lower-level lemma
`AppendBy` is where cardinalities are counted.

`RedeliveryProofs`. Neither property is inductive: it must be known what a worker
has seen. `RInv` adds that at most one worker is active, that while it is posting
every comment under its key is its own and says what it has to say (the listing
found none, and only lost replies of its own POST can have added any since), and
that while it is patching it holds the first one. `Appended` and `Patched` say what a
write does to the comments of a key, `Moves` where a request leads. The
refinement maps the note of a key to the body of its first comment
(`FirstIsLeast`); `SaysItsOwn` is the one place where it changes.

`OrderIsTheReference` compares the resolver, which picks the first ready agent in
registration order at each step, with the smallest topological permutation. Both
are sequences over the same names, so a first place where they differ exists if
they differ at all; there the resolver's agent comes before the other one in
registration order, and the other order would be larger; and up to there both have the
same agents behind them, so that what is ready in one is ready in the other.
Of the registry, `BuiltInv` says the registry holds a prefix of the plan and,
once building is over, all of it. With the default plan the seven sets of
dependencies are then known (`DefaultDeps`), and the two properties are
consequences of `SettledSoundly`: a completed agent has completed ancestors, so
the planner's undeclared read is of a completed agent, and an agent other than the
two ingestions cannot complete when both failed.

`FixPRProofs`. `LandsWhereAsked` says that a branch with commits is one some run in the
same directory asked for and was let through with. It is not inductive: a commit goes
wherever HEAD is, and in a shared directory other runs move HEAD. What holds is
`OnFixBranch`: as long as any run is between its checkout and its push, HEAD of its
directory is on a branch that was asked for there, because the only command that
moves HEAD moves it to one. `HasBranch` supplies that this branch exists,
`LetThrough` that a run which takes a step has passed the gates, and `AskedGrows` that
what was asked for stays so. A run may thus commit on another run's fix branch, but
never on the starting one, nor on a branch only a refused call names; in a directory
of its own it commits on its own.

`CloneInvariance` and what follows. Which calls start the runs never changes
(`DeploymentStays`), so a behaviour either has own clones throughout or the formulas hold
of it for want of them. In clones of their own, a run's directory is what its own
earlier steps made it: `CloneInv` states for every step which branches, index
and tree it finds, and which gates it has passed. `RemoteInv` says every remote
branch is the single commit of one cleared run, so an open pull request shows
exactly the offer of the run that pushed its branch. The refinement maps a pull request to the tree of its
branch and has one step per action of `GuardedFix`.

`AppServerProofs`. Each property depends on a verdict reached several steps
earlier. `WorthInv` carries "verified, supported, a failure, allowed" from the
screening to the last effect; `SurfaceInv` says that the surfaces reached and
those that failed are exactly those due so far, so that "no trouble" at the end
means all; `OkInv` and `AcceptedInv` keep what was concluded. A restart ends
deliveries in progress and preserves all four. The refinement of `Delivery` maps the
thirteen stages of work to one state. Its hard part is that a report of "skipped" or
"error" comes only from stages before any effect: `EarlyInv` says the reporter and
pr_creation have done nothing there, `SurfaceInv` the same of the surfaces, and
`OutcomeIs` that from there on the outcome is ok or partial. That the answer fits the
report is `CodesAgree`; that the worker does not turn down what was accepted follows from
`AcceptedInv`, because both go through the same checks on the same event.

`DiagnosisProofs`. The arithmetic is in four lemmas: each part of a score takes
two to four values (`ScoreParts`), so that more than 0.72 needs a changed file
or module (`HighScore`), and an event without a file in a change without
dependency files scores at most 0.4225 (`LowScore`). Neither looks at a threshold. `AnalysisInv` carries them
along: the primary cause is a scored candidate of an event of the log, and a
class of TEST or UNKNOWN means the change touches no dependency file
(`ClassFacts`). Both together give the finding's consistency, the heart of the
refinement. `RequestInv` ties the count of each request to `attempt` and says
that the second request is not sent before the first is done. `PlanInv` says how
many replies there are at each stage and that trouble of the planner ends the
run, with which replies. `Settled` adds that the steps, or their refusal, are
those of the proposal accepted, and that without a success it is the empty one,
from which `ExhaustionFallsBack` follows: nothing is offered and nothing is
written but a synthesized repair (`NothingProposed`).

`DataProofs` and `DiagnosisTextProofs`. What a reader finds in the printed diff is said
with extrema and cardinalities of sets of positions in one flattened sequence, and
four groups of lemmas make that tractable. An induction in first-order form, the
least counterexample of a set of naturals, takes the place of the library's
schemes. `Flattening` gives the layout: a function of offsets, where block `i` of the
flattened sequence stands behind `off[i - 1]`; `Layout` applies it to the diff, so that
each of its lines is line `k` of one file (`Place`, `Between`). The last header
before a position, and the last hunk, are then positions in the same block
(`HunkPrecedes`, `HunkIs`). And `CountIsReached` says that a counter that rises by at
most one passes through every value, from which a line the pull request shows is
found by the scanner (`ShownIsFound`); the other direction, `FoundIsShown`, shifts the
scanner's count back to the patch. Both are about names without the dots and slashes in
front (`Stripped`), as the scanner compares them. `TextInv` carries what this needs through the
stages: `log` and `diff` are text, and `diff` is printed from `files`.
`EvidenceIsInTheLog` follows an event from its window of eleven lines
(`EventIsPrinted`) through selection and ranking. `PatchStaysHonest` distinguishes where a content
comes from: a model's passes `Safe` and the filter on silencing comments, a
synthesized one changes one line of what `ShownContent` or the checkout has.

Two theorems are the safety half of termination. `Left` is a number that every step
lowers (`Spends`) and that is zero only where a run has ended (`WithinBudget`). For the
orchestrator it counts, per runtime, the agents left to resolve and to settle, with a
whole local run in reserve while ADK runs, so that a fallback is paid for too; that an
order is no longer than the plan (`OrderFits`) is the pigeonhole principle on
`OrderInv`. For an analysis it counts the stages, the retries left of the request in
progress with those of the next one in reserve, and the attempts left of the proposer. A
run thus takes at most `5 * Len(plan) + 7` steps, an analysis
`2 * MaxRetries + MaxAttempts + 10`.

### Only model-checked

* Liveness (`Terminates`, `UpsertEnds`, `AcceptedEnds`, `DiagnosisEnds`): the prover
  has no rule for `ENABLED`. Of the first and the last it is only missing that a step
  can be taken wherever `Left` is not zero.
* The six counterexamples.

## 6. Not modelled, and why

Contracts and converters validate fields of immutable records and have no
state. The entry points turn arguments into one run; the release gate compares
numbers of finished reports with thresholds. Benchmarks and the evaluation runner
are sequential harnesses over fixtures. App authentication is one request, a step
with two results. Of modelled components, the regular expressions themselves (a
line of a log has the marks they look for), prompts and the envelopes of the
providers' answers, the text of comments, reports and pull requests, diff
statistics, delays, and check monitoring (read only) are left out.
Names in paths are opaque, so a directory "a.b" and the directories "a" and "b" have
different module names in the model and one in the code. Timing-dependent steps (`retry_after`) only delay. A reordered or repeated member
name in a log archive is not modelled; `Logs` holds archives in the sorted order
in which they are read.

## 7. Plan

In order of importance:

1. The payload `Diagnosis` ends with as the one `FixPR` starts from: its kinds of
   payload derived from `patch`, `steps` and the score, as `Analysis` does for
   `AppServer`.
2. The budget of a delivery in `AppServer` and of an upsert in `AppComments`, as the
   orchestrator and the analysis have theirs.

The project keeps to a dozen runs; further properties join the existing ones.
