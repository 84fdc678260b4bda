-------------------------------- MODULE FixPR ---------------------------------
(***************************************************************************)
(* Guarded fix pull requests: run_pr_creation of src/agents/pr_creation.py *)
(* with the git workspaces and the GitHub repository it works on.  A run   *)
(* checks its payload, looks for an open pull request, then issues one git *)
(* command after the other.  In the Action every run has a clone of its    *)
(* own; the app's runs all work in the directory the server runs in, and   *)
(* what one of them leaves there the next one finds.                       *)
(*                                                                         *)
(* Git and GitHub are external: a tree gives every file its content, a     *)
(* branch is the sequence of the commits made on it since the base.        *)
(***************************************************************************)
EXTENDS Integers, FiniteSets, SequencesExt

CONSTANTS
  Runs, Jobs,               \* runs of the agent; the calls that may start
                            \* one: the payload, and the workspace (repo)
  Starts,                   \* the deployments: which calls start the runs
  Workspaces,               \* git workspaces
  Branches, Main,           \* the fix branches, and the one HEAD starts on
  Files, Contents, Base,    \* paths, file contents, the tree of the base ref
  Formatted,                \* what ruff format makes of a content (the
                            \* content itself where ruff is not installed)
  Unformattable, Wrong,     \* contents ruff rejects; contents on which the
                            \* validation commands fail
  MaxActive,                \* bound: runs in progress at the same time
  Faults, Crashes           \* may git, GitHub or a command fail; may the
                            \* process die?

Patches == UNION {[S -> Contents] : S \in SUBSET Files}
Trees == [Files -> Contents]

ASSUME FixPRAssumption ==
  /\ IsFiniteSet(Files)
  /\ Starts \subseteq [Runs -> Jobs] /\ Main \notin Branches
  /\ Base \in Trees /\ Formatted \in [Contents -> Contents]
  /\ Unformattable \subseteq Contents /\ Wrong \subseteq Contents
  /\ MaxActive \in Nat /\ Faults \in BOOLEAN /\ Crashes \in BOOLEAN
  /\ \A j \in Jobs : /\ j.repo \in Workspaces
                     /\ j.branch \in Branches /\ j.patch \in Patches
                     /\ j.evidence \subseteq Files /\ j.planned \subseteq Files
                     /\ j.maxFixFiles \in Int
                     /\ j.confidence \in Int /\ j.minConfidence \in Int
                     /\ \A flag \in {"create", "offline", "agentic", "commands",
                                     "prohibited", "dryRun"} : j[flag] \in BOOLEAN

VARIABLES
  pc, job,                  \* each run's next step or outcome; its call
  head, work, index, local, \* each workspace: HEAD's branch, the working
                            \* tree, the index, the local branches
  remote, open              \* GitHub: the pushed branches, and those with
                            \* an open pull request

run == <<pc, job>>
git == <<head, work, index, local>>
github == <<remote, open>>
vars == <<run, git, github>>

Refusals == {"CREATE_FIX_PR_DISABLED", "OFFLINE_ONLY", "VALIDATION_FAILED",
             "CONFIDENCE_BELOW_THRESHOLD", "MAX_FIX_FILES_EXCEEDED", "raised"}
Steps == {"finding", "verifying", "branching", "switching", "writing", "formatting",
          "adding", "committing", "validating", "pushing", "refinding", "posting"}
Outcomes == Refusals \union {"DRY_RUN", "created", "reused", "lost"}

Active == {r \in Runs : pc[r] \in Steps}
ws(r) == job[r].repo
OwnClones == \A r, q \in Runs : ws(r) = ws(q) => r = q
Goto(r, step) == pc' = [pc EXCEPT ![r] = step]

Init ==
  /\ pc = [r \in Runs |-> "waiting"] /\ job \in Starts
  /\ head = [w \in Workspaces |-> Main]
  /\ work = [w \in Workspaces |-> Base] /\ index = work
  /\ local = [w \in Workspaces |-> [b \in {Main} |-> <<>>]]
  /\ remote = [b \in {} |-> <<>>] /\ open = {}

-----------------------------------------------------------------------------
(* The checks before anything is touched, in the order of the code: the    *)
(* first that applies ends the run.                                        *)

Bug_GatesNoLimit(j) == <<
  <<~j.create, "CREATE_FIX_PR_DISABLED">>,
  <<j.evidence = {} \/ DOMAIN j.patch = {}, "raised">>,
  <<~ DOMAIN j.patch \subseteq j.evidence, "raised">> >>

Gates(j) == <<
  <<~j.create, "CREATE_FIX_PR_DISABLED">>,
  <<j.offline, "OFFLINE_ONLY">>,
  <<j.agentic /\ ~j.commands, "VALIDATION_FAILED">>,
  <<j.prohibited, "raised">>,
  <<j.confidence < j.minConfidence, "CONFIDENCE_BELOW_THRESHOLD">>,
  <<j.maxFixFiles <= 0, "raised">>,
  <<j.evidence = {} \/ DOMAIN j.patch = {}, "raised">>,
  <<Cardinality(DOMAIN j.patch) > j.maxFixFiles, "MAX_FIX_FILES_EXCEEDED">>,
  <<~ j.planned \subseteq j.evidence, "raised">>,
  <<~ DOMAIN j.patch \subseteq j.evidence, "raised">>,
  <<j.planned # {} /\ ~ DOMAIN j.patch \subseteq j.planned, "raised">> >>

Closed(j) == {i \in DOMAIN Gates(j) : Gates(j)[i][1]}
Refusal(j) == Gates(j)[CHOOSE i \in Closed(j) : \A k \in Closed(j) : i <= k][2]

Begin(r) ==
  /\ pc[r] = "waiting" /\ Cardinality(Active) < MaxActive
  /\ Goto(r, IF Closed(job[r]) # {} THEN Refusal(job[r])
             ELSE IF job[r].dryRun THEN "verifying" ELSE "finding")
  /\ UNCHANGED <<job, git, github>>

(* An open pull request ends the run at once, reported as its own. *)
FindExisting(r) ==
  /\ pc[r] = "finding"
  /\ Goto(r, IF job[r].branch \in open THEN "reused" ELSE "verifying")
  /\ UNCHANGED <<job, git, github>>

-----------------------------------------------------------------------------
(* The git commands of a run. *)

TipOf(commits) == IF commits = <<>> THEN Base ELSE Last(commits).tree
HeadTree(w) == TipOf(local[w][head[w]])

(* git show-ref: a branch of that name is used as it is. *)
ShowRef(r) ==
  /\ pc[r] = "verifying"
  /\ Goto(r, IF job[r].branch \in DOMAIN local[ws(r)] THEN "switching" ELSE "branching")
  /\ UNCHANGED <<job, git, github>>

(* git branch fails when another run has made the branch in the meantime. *)
CreateBranch(r) ==
  LET here == local[ws(r)]
      b == job[r].branch
  IN  /\ pc[r] = "branching"
      /\ IF b \in DOMAIN here
         THEN Goto(r, "raised") /\ UNCHANGED local
         ELSE /\ Goto(r, "switching")
              /\ local' = [local EXCEPT ![ws(r)] =
                   [c \in DOMAIN here \union {b} |-> IF c = b THEN <<>> ELSE here[c]]]
      /\ UNCHANGED <<job, head, work, index, github>>

(* The files git checkout replaces, and those whose uncommitted content    *)
(* makes it refuse.                                                        *)
Replaced(w, tree) == {f \in Files : HeadTree(w)[f] # tree[f] /\ index[w][f] # tree[f]}
InTheWay(w, tree) ==
  {f \in Replaced(w, tree) : index[w][f] # HeadTree(w)[f] \/ work[w][f] # index[w][f]}
Bug_Overlay(tree, files, over) == [f \in files |-> over[f]]
Overlay(tree, files, over) == [f \in Files |-> IF f \in files THEN over[f] ELSE tree[f]]

Bug_NoCheckout(r) ==
  /\ pc[r] = "switching"
  /\ Goto(r, "writing") /\ UNCHANGED <<job, git, github>>

Checkout(r) ==
  LET w == ws(r)
      tree == TipOf(local[w][job[r].branch])
  IN  /\ pc[r] = "switching"
      /\ IF InTheWay(w, tree) # {}
         THEN Goto(r, "raised") /\ UNCHANGED git
         ELSE /\ Goto(r, "writing")
              /\ head' = [head EXCEPT ![w] = job[r].branch]
              /\ index' = [index EXCEPT ![w] = Overlay(@, Replaced(w, tree), tree)]
              /\ work' = [work EXCEPT ![w] = Overlay(@, Replaced(w, tree), tree)]
              /\ UNCHANGED local
      /\ UNCHANGED <<job, github>>

Apply(r) ==
  /\ pc[r] = "writing"
  /\ work' = [work EXCEPT ![ws(r)] = Overlay(@, DOMAIN job[r].patch, job[r].patch)]
  /\ Goto(r, "formatting")
  /\ UNCHANGED <<job, head, index, local, github>>

(* A failing formatter ends the run; what was written stays. *)
Format(r) ==
  LET files == DOMAIN job[r].patch
      tree == work[ws(r)]
  IN  /\ pc[r] = "formatting"
      /\ IF \E f \in files : tree[f] \in Unformattable
         THEN Goto(r, "VALIDATION_FAILED") /\ UNCHANGED work
         ELSE /\ Goto(r, "adding")
              /\ work' = [work EXCEPT ![ws(r)] =
                            Overlay(@, files, [f \in files |-> Formatted[tree[f]]])]
      /\ UNCHANGED <<job, head, index, local, github>>

Add(r) ==
  /\ pc[r] = "adding"
  /\ index' = [index EXCEPT ![ws(r)] = Overlay(@, DOMAIN job[r].patch, work[ws(r)])]
  /\ Goto(r, "committing")
  /\ UNCHANGED <<job, head, work, local, github>>

Bug_DryRunPushes(r) == IF job[r].agentic THEN "validating" ELSE "pushing"

Ready(r) == IF job[r].dryRun THEN "DRY_RUN" ELSE "pushing"
AfterCommit(r) == IF job[r].agentic THEN "validating" ELSE Ready(r)

(* git commit takes the whole index, onto whatever branch HEAD is; it      *)
(* fails when there is nothing to commit.                                  *)
Commit(r) ==
  LET w == ws(r)
  IN  /\ pc[r] = "committing"
      /\ IF index[w] = HeadTree(w)
         THEN Goto(r, "raised") /\ UNCHANGED local
         ELSE /\ Goto(r, AfterCommit(r))
              /\ local' = [local EXCEPT ![w][head[w]] =
                             Append(@, [by |-> r, tree |-> index[w]])]
      /\ UNCHANGED <<job, head, work, index, github>>

(* The validation commands see the working tree; a failure leaves the      *)
(* commit on the local branch.                                             *)
Passes(tree) == \A f \in Files : tree[f] \notin Wrong

Validate(r) ==
  /\ pc[r] = "validating"
  /\ Goto(r, IF Passes(work[ws(r)]) THEN Ready(r) ELSE "VALIDATION_FAILED")
  /\ UNCHANGED <<job, git, github>>

Pushed(b, commits) ==
  [c \in DOMAIN remote \union {b} |-> IF c = b THEN commits ELSE remote[c]]

(* git push without force: only a fast-forward is taken. *)
Push(r) ==
  LET b == job[r].branch
      commits == local[ws(r)][b]
  IN  /\ pc[r] = "pushing"
      /\ IF b \in DOMAIN remote /\ ~IsPrefix(remote[b], commits)
         THEN Goto(r, "raised") /\ UNCHANGED remote
         ELSE Goto(r, "refinding") /\ remote' = Pushed(b, commits)
      /\ UNCHANGED <<job, git, open>>

-----------------------------------------------------------------------------
(* The pull request. *)

FindAgain(r) ==
  /\ pc[r] = "refinding"
  /\ Goto(r, IF job[r].branch \in open THEN "reused" ELSE "posting")
  /\ UNCHANGED <<job, git, github>>

(* GitHub answers 422 to a second pull request for a branch, and to one    *)
(* without commits.                                                        *)
Takes(b) == b \notin open /\ b \in DOMAIN remote /\ remote[b] # <<>>

Post(r) ==
  LET b == job[r].branch
  IN  /\ pc[r] = "posting"
      /\ IF Takes(b) THEN Goto(r, "created") /\ open' = open \union {b}
                     ELSE Goto(r, "raised") /\ UNCHANGED open
      /\ UNCHANGED <<job, git, remote>>

(* The pull request is opened but the reply never comes: the client's loop *)
(* posts again, or raises because this was the last attempt or the reply   *)
(* cannot be read.  (A request that was not served changes nothing: the    *)
(* loop repeats it, or the run fails.)                                     *)
PostLost(r) ==
  /\ Faults /\ pc[r] = "posting" /\ Takes(job[r].branch)
  /\ open' = open \union {job[r].branch}
  /\ \E next \in {"posting", "raised"} : Goto(r, next)
  /\ UNCHANGED <<job, git, remote>>

Fails(r) ==
  /\ Faults /\ pc[r] \in Steps
  /\ Goto(r, "raised") /\ UNCHANGED <<job, git, github>>

-----------------------------------------------------------------------------
(* The process dies: the runs in it are lost, git and GitHub are not.  It  *)
(* is restarted, and the deliveries that are still waiting reach it.       *)
Crash ==
  /\ Crashes /\ Active # {}
  /\ pc' = [r \in Runs |-> IF pc[r] \in Steps THEN "lost" ELSE pc[r]]
  /\ UNCHANGED <<job, git, github>>

(* Somebody merges or closes a pull request and may delete its branch. *)
SomeoneCloses(b) ==
  /\ b \in open /\ open' = open \ {b}
  /\ remote' \in {remote, [c \in DOMAIN remote \ {b} |-> remote[c]]}
  /\ UNCHANGED <<run, git>>

Step(r) ==
  \/ FindExisting(r) \/ ShowRef(r) \/ CreateBranch(r) \/ Checkout(r)
  \/ Apply(r) \/ Format(r) \/ Add(r) \/ Commit(r) \/ Validate(r)
  \/ Push(r) \/ FindAgain(r) \/ Post(r)

Next ==
  \/ \E r \in Runs : Begin(r) \/ Step(r) \/ PostLost(r) \/ Fails(r)
  \/ Crash
  \/ \E b \in Branches : SomeoneCloses(b)

Spec == Init /\ [][Next]_vars

-----------------------------------------------------------------------------
(* Properties *)

AreBranches(f, S) ==
  /\ DOMAIN f \subseteq S
  /\ \A b \in DOMAIN f : f[b] \in Seq([by : Runs, tree : Trees])

TypeOK ==
  /\ pc \in [Runs -> {"waiting"} \union Steps \union Outcomes]
  /\ job \in [Runs -> Jobs]
  /\ head \in [Workspaces -> Branches \union {Main}]
  /\ work \in [Workspaces -> Trees] /\ index \in [Workspaces -> Trees]
  /\ DOMAIN local = Workspaces
  /\ \A w \in Workspaces : AreBranches(local[w], Branches \union {Main})
  /\ AreBranches(remote, Branches) /\ open \subseteq Branches

(* Other runs of the directory may move HEAD between a run's checkout and  *)
(* its commit, so the commit may land on a branch of theirs.  It lands on  *)
(* no other: only on a fix branch that a run in the same directory asked   *)
(* for and was let through with; in a clone of its own, on the run's own.  *)
AskedFor(w) ==
  {job[r].branch : r \in {q \in Runs : /\ ws(q) = w /\ pc[q] # "waiting"
                                       /\ Closed(job[q]) = {}}}
LandsWhereAsked ==
  \A w \in Workspaces : \A b \in DOMAIN local[w] :
    local[w][b] # <<>> => b \in AskedFor(w)

(* What a run may offer: its own patch, formatted, on the base; within its *)
(* evidence, its plan and its file limit; validated if its mode asks so.   *)
Fixed(j) == Overlay(Base, DOMAIN j.patch, [f \in DOMAIN j.patch |-> Formatted[j.patch[f]]])

Scoped(j, tree) ==
  LET touched == {f \in Files : tree[f] # Base[f]}
  IN  touched \subseteq j.evidence /\ Cardinality(touched) <= j.maxFixFiles

Offers ==
  [b \in Branches |->
     {Fixed(j) : j \in {i \in Jobs : /\ i.branch = b /\ i.create /\ ~i.dryRun
                                     /\ Scoped(i, Fixed(i))
                                     /\ i.agentic => Passes(Fixed(i))}}]

Guarded == INSTANCE GuardedFix WITH
  Nothing <- Base,
  shown <- [b \in Branches |->
              IF OwnClones /\ b \in open THEN TipOf(remote[b]) ELSE Base]
ShowsGuardedFix == Guarded!Spec

(* In clones of their own, nothing of a run that was refused, failed its   *)
(* validation or was only tried out is ever pushed, whatever the other     *)
(* clones push or close.                                                   *)
OnlyAcceptedPushed ==
  OwnClones => \A b \in DOMAIN remote : \A i \in DOMAIN remote[b] :
    LET commit == remote[b][i]
        j == job[commit.by]
    IN  Closed(j) = {} /\ ~j.dryRun /\ (j.agentic => Passes(commit.tree))

Ends(r, outcomes) == pc[r] \in Steps /\ pc'[r] \in outcomes
Shown(r) == TipOf(remote[job[r].branch])

(* The pull request a run reports as created touches no more files than    *)
(* max_fix_files, and only files of that run's evidence.                   *)
CreatedIsScoped ==
  [][\A r \in Runs : Ends(r, {"created"}) => Scoped(job[r], Shown(r))]_vars

(* Where neither git nor GitHub nor a command fails, a delivery that is    *)
(* sent again after a restart does not end in an error.                    *)
RedeliveryWorks == \A r \in Runs : Closed(job[r]) = {} => pc[r] # "raised"
=============================================================================
