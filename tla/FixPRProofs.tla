----------------------------- MODULE FixPRProofs -----------------------------
(***************************************************************************)
(* Theorems about fix pull requests, for any number of runs, payloads,     *)
(* workspaces, branches and files, with and without faults and crashes.    *)
(***************************************************************************)
EXTENDS FixPR, FiniteSetTheorems, TLAPS

-----------------------------------------------------------------------------
(* Sequences of commits. *)

Commits == Seq([by : Runs, tree : Trees])

LEMMA AppendKeeps ==
  ASSUME NEW S, NEW s \in Seq(S), NEW x \in S
  PROVE  /\ Append(s, x) \in Seq(S) /\ Append(s, x) # <<>>
         /\ Last(Append(s, x)) = x
         /\ IsPrefix(s, s)
  BY DEF Last, IsPrefix

LEMMA LastInRange ==
  ASSUME NEW S, NEW s \in Seq(S), s # <<>>
  PROVE  Last(s) \in S
  BY DEF Last

LEMMA TipIsTree ==
  ASSUME NEW commits \in Commits
  PROVE  TipOf(commits) \in Trees
  BY LastInRange, FixPRAssumption DEF TipOf, Commits

LEMMA OverlayIsTree ==
  ASSUME NEW tree \in Trees, NEW files, NEW over,
         \A f \in Files \intersect files : over[f] \in Contents
  PROVE  Overlay(tree, files, over) \in Trees
  BY DEF Overlay, Trees

LEMMA JobFacts ==
  ASSUME NEW j \in Jobs
  PROVE  /\ j.branch \in Branches /\ j.branch # Main
         /\ DOMAIN j.patch \subseteq Files
         /\ \A f \in DOMAIN j.patch : j.patch[f] \in Contents
  BY FixPRAssumption DEF Patches

(* A payload some gate turns down ends with one of the refusals. *)
LEMMA GatesShape ==
  ASSUME NEW j, NEW i \in DOMAIN Gates(j)
  PROVE  i \in 1..11 /\ Gates(j)[i][2] \in Refusals
  BY DEF Gates, Refusals

LEMMA RefusalFacts ==
  ASSUME NEW j, Closed(j) # {}
  PROVE  Refusal(j) \in Refusals
  <1>1. Closed(j) \subseteq 1..11 /\ Closed(j) \subseteq DOMAIN Gates(j)
    BY GatesShape DEF Closed
  <1>2. \E i \in Closed(j) : \A k \in Closed(j) : i <= k
    BY <1>1
  <1>3. \E i \in Closed(j) : Refusal(j) = Gates(j)[i][2]
    BY <1>2 DEF Refusal
  <1> QED
    BY <1>1, <1>3, GatesShape

-----------------------------------------------------------------------------
(* The inductive invariant of every deployment. *)

Writing == {"writing", "formatting", "adding", "committing", "validating", "pushing"}

(* A run works on a branch only after it has made or found it. *)
HasBranch ==
  \A r \in Runs : pc[r] \in Writing \union {"switching"} =>
    job[r].branch \in DOMAIN local[ws(r)]

(* From its checkout on, a run finds HEAD on a fix branch: perhaps not its *)
(* own, when others share the workspace, but one that was asked for.       *)
OnFixBranch == \A r \in Runs : pc[r] \in Writing => head[ws(r)] \in AskedFor(ws(r))

(* Only what the gates let through gets to any step. *)
LetThrough == \A r \in Runs : pc[r] \in Steps => Closed(job[r]) = {}

MainThere == \A w \in Workspaces : Main \in DOMAIN local[w]

IInv == TypeOK /\ HasBranch /\ OnFixBranch /\ LetThrough /\ MainThere /\ LandsWhereAsked

LEMMA CallFacts ==
  ASSUME TypeOK, NEW r \in Runs
  PROVE  /\ job[r] \in Jobs /\ ws(r) \in Workspaces
         /\ job[r].branch \in Branches /\ job[r].branch # Main
  BY JobFacts, FixPRAssumption DEF TypeOK, ws

LEMMA AskedFacts ==
  ASSUME TypeOK, NEW w
  PROVE  AskedFor(w) \subseteq Branches /\ Main \notin AskedFor(w)
  BY CallFacts, FixPRAssumption DEF AskedFor

(* What was asked for stays so: no run goes back to where it began. *)
LEMMA AskedGrows ==
  ASSUME NEW w, job' = job, \A r \in Runs : pc'[r] = "waiting" => pc[r] = "waiting"
  PROVE  AskedFor(w) \subseteq AskedFor(w)'
  BY DEF AskedFor, ws

LEMMA StepsBegun ==
  /\ "waiting" \notin Steps /\ Writing \subseteq Steps
  /\ Steps \subseteq {"waiting"} \union Steps \union Outcomes
  BY DEF Steps, Writing

LEMMA InitIInv == Init => IInv
  <1> SUFFICES ASSUME Init PROVE IInv
    OBVIOUS
  <1>1. TypeOK
    BY FixPRAssumption DEF Init, TypeOK, AreBranches, Steps, Outcomes, Refusals, Trees
  <1>2. HasBranch /\ OnFixBranch /\ LetThrough
    BY DEF Init, HasBranch, OnFixBranch, LetThrough, Writing, Steps
  <1>3. MainThere /\ LandsWhereAsked
    BY DEF Init, MainThere, LandsWhereAsked
  <1> QED
    BY <1>1, <1>2, <1>3 DEF IInv

(* Steps that only move on: a run does not come to write unless it did.    *)
LEMMA QuietIInv ==
  ASSUME IInv, UNCHANGED <<job, git, remote>>, open' \subseteq Branches,
         pc' \in [Runs -> {"waiting"} \union Steps \union Outcomes],
         \A r \in Runs : pc'[r] = "waiting" => pc[r] = "waiting",
         \A r \in Runs : pc'[r] \in Steps => pc[r] \in Steps \/ Closed(job[r]) = {},
         \A r \in Runs : pc'[r] \in Writing => pc[r] \in Writing,
         \A r \in Runs : pc'[r] = "switching" =>
           pc[r] = "switching" \/ job[r].branch \in DOMAIN local[ws(r)]
  PROVE  IInv'
  <1> USE DEF IInv, git
  <1>1. TypeOK'
    BY DEF TypeOK, AreBranches
  <1>2. HasBranch' /\ LetThrough'
    BY DEF HasBranch, LetThrough, ws
  <1>3. OnFixBranch'
    BY AskedGrows DEF OnFixBranch, ws
  <1>4. MainThere'
    BY DEF MainThere
  <1>5. LandsWhereAsked'
    BY AskedGrows DEF LandsWhereAsked
  <1> QED
    BY <1>1, <1>2, <1>3, <1>4, <1>5

LEMMA QuietSteps ==
  ASSUME IInv, NEW r \in Runs,
         \/ Begin(r) \/ FindExisting(r) \/ ShowRef(r) \/ Validate(r)
         \/ FindAgain(r) \/ Post(r) \/ PostLost(r) \/ Fails(r)
  PROVE  IInv'
  <1>0. /\ pc \in [Runs -> {"waiting"} \union Steps \union Outcomes]
        /\ job \in [Runs -> Jobs] /\ open \subseteq Branches
    BY DEF IInv, TypeOK
  <1>1. job[r].branch \in Branches
    BY CallFacts DEF IInv
  <1> USE DEF Goto, Steps, Outcomes, Refusals, Writing
  <1>2. CASE Begin(r)
    <2>1. Refusal(job[r]) \in Refusals \/ Closed(job[r]) = {}
      BY RefusalFacts
    <2> QED
      BY <1>0, <1>2, <2>1, QuietIInv DEF Begin, github
  <1>3. CASE FindExisting(r)
    BY <1>0, <1>3, QuietIInv DEF FindExisting, github
  <1>4. CASE ShowRef(r)
    BY <1>0, <1>4, QuietIInv DEF ShowRef, github
  <1>5. CASE Validate(r)
    BY <1>0, <1>5, QuietIInv DEF Validate, Ready, github
  <1>6. CASE FindAgain(r)
    BY <1>0, <1>6, QuietIInv DEF FindAgain, github
  <1>7. CASE Post(r)
    BY <1>0, <1>1, <1>7, QuietIInv DEF Post
  <1>8. CASE PostLost(r)
    BY <1>0, <1>1, <1>8, QuietIInv DEF PostLost
  <1>9. CASE Fails(r)
    BY <1>0, <1>9, QuietIInv DEF Fails, github
  <1> QED
    BY <1>2, <1>3, <1>4, <1>5, <1>6, <1>7, <1>8, <1>9

LEMMA CrashIInv == ASSUME IInv, Crash PROVE IInv'
  <1>1. /\ pc \in [Runs -> {"waiting"} \union Steps \union Outcomes]
        /\ open \subseteq Branches
    BY DEF IInv, TypeOK
  <1> QED
    BY <1>1, QuietIInv DEF Crash, Steps, Outcomes, Refusals, Writing, github

LEMMA ClosesIInv ==
  ASSUME IInv, NEW b \in Branches, SomeoneCloses(b) PROVE IInv'
  <1> USE DEF IInv, SomeoneCloses, run, git
  <1>1. AreBranches(remote', Branches)
    BY DEF TypeOK, AreBranches
  <1>2. TypeOK'
    BY <1>1 DEF TypeOK, AreBranches
  <1>3. HasBranch' /\ OnFixBranch' /\ LetThrough'
    BY AskedGrows DEF HasBranch, OnFixBranch, LetThrough, ws
  <1>4. MainThere' /\ LandsWhereAsked'
    BY AskedGrows DEF MainThere, LandsWhereAsked
  <1> QED
    BY <1>2, <1>3, <1>4

-----------------------------------------------------------------------------
(* The steps that change a workspace or the pushed branches. *)

(* Steps inside a workspace that leave its branches alone. *)
LEMMA WorkspaceIInv ==
  ASSUME IInv, NEW r \in Runs, UNCHANGED <<job, local, github>>,
         pc' \in [Runs -> {"waiting"} \union Steps \union Outcomes],
         \A q \in Runs \ {r} : pc'[q] = pc[q],
         pc[r] \in Writing \union {"switching"}, pc'[r] # "waiting",
         pc'[r] # "switching",
         pc'[r] \in Writing => pc[r] \in Writing \/ head'[ws(r)] = job[r].branch,
         head' \in [Workspaces -> Branches \union {Main}],
         \A w \in Workspaces :
           head'[w] = head[w] \/ (w = ws(r) /\ head'[w] = job[r].branch),
         work' \in [Workspaces -> Trees], index' \in [Workspaces -> Trees]
  PROVE  IInv'
  <1> USE DEF IInv, github
  <1>1. TypeOK'
    BY DEF TypeOK, AreBranches
  <1>2. \A q \in Runs : ws(q) \in Workspaces /\ (pc'[q] = "waiting" => pc[q] = "waiting")
    BY CallFacts
  <1>3. pc[r] \in Steps /\ pc[r] # "waiting"
    BY DEF Steps, Writing
  <1>4. HasBranch' /\ LetThrough'
    BY <1>2, <1>3 DEF HasBranch, LetThrough, ws
  <1>5. ASSUME NEW w, w = ws(r) PROVE job[r].branch \in AskedFor(w)'
    BY <1>3, <1>5 DEF LetThrough, AskedFor, ws
  <1>6. ASSUME NEW q \in Runs, NEW w, w = ws(q), pc'[q] \in Writing
        PROVE  head'[w] \in AskedFor(w)'
    <2>1. CASE head'[w] = job[r].branch /\ w = ws(r)
      BY <1>5, <2>1
    <2>2. CASE pc[q] \in Writing /\ head'[w] = head[w]
      <3>1. head[w] \in AskedFor(w)
        BY <1>6, <2>2 DEF OnFixBranch
      <3>2. AskedFor(w) \subseteq AskedFor(w)'
        BY <1>2, AskedGrows
      <3> QED
        BY <2>2, <3>1, <3>2
    <2> QED
      BY <1>2, <1>6, <2>1, <2>2
  <1>7. OnFixBranch'
    BY <1>6 DEF OnFixBranch, ws
  <1>8. MainThere' /\ LandsWhereAsked'
    BY <1>2, AskedGrows DEF MainThere, LandsWhereAsked
  <1> QED
    BY <1>1, <1>4, <1>7, <1>8

LEMMA TreeSteps ==
  ASSUME IInv, NEW r \in Runs, Checkout(r) \/ Apply(r) \/ Format(r) \/ Add(r)
  PROVE  IInv'
  <1> USE DEF Goto, Steps, Outcomes, Refusals, Writing
  <1>0. /\ pc \in [Runs -> {"waiting"} \union Steps \union Outcomes]
        /\ head \in [Workspaces -> Branches \union {Main}]
        /\ work \in [Workspaces -> Trees] /\ index \in [Workspaces -> Trees]
        /\ job[r] \in Jobs /\ ws(r) \in Workspaces
    BY CallFacts DEF IInv, TypeOK
  <1>1. /\ job[r].branch \in Branches /\ DOMAIN job[r].patch \subseteq Files
        /\ \A f \in DOMAIN job[r].patch : job[r].patch[f] \in Contents
    BY <1>0, JobFacts
  <1>2. CASE Checkout(r)
    <2> DEFINE w == ws(r)
               tree == TipOf(local[w][job[r].branch])
    <2>1. local[w][job[r].branch] \in Commits
      BY <1>0, <1>2 DEF IInv, HasBranch, TypeOK, AreBranches, Checkout, Commits
    <2>2. tree \in Trees
      BY <2>1, TipIsTree
    <2>3. \A f \in Files : tree[f] \in Contents
      BY <2>2 DEF Trees
    <2>4. /\ Overlay(index[w], Replaced(w, tree), tree) \in Trees
          /\ Overlay(work[w], Replaced(w, tree), tree) \in Trees
      BY <1>0, <2>3, OverlayIsTree
    <2> QED
      BY <1>0, <1>1, <1>2, <2>4, WorkspaceIInv DEF Checkout, git, github
  <1>3. CASE Apply(r)
    <2>1. Overlay(work[ws(r)], DOMAIN job[r].patch, job[r].patch) \in Trees
      BY <1>0, <1>1, OverlayIsTree
    <2> QED
      BY <1>0, <1>3, <2>1, WorkspaceIInv DEF Apply
  <1>4. CASE Format(r)
    <2> DEFINE files == DOMAIN job[r].patch
               tree == work[ws(r)]
               formatted == [f \in files |-> Formatted[tree[f]]]
    <2>1. \A f \in Files \intersect files : formatted[f] \in Contents
      BY <1>0, FixPRAssumption DEF Trees
    <2>2. Overlay(work[ws(r)], files, formatted) \in Trees
      BY <1>0, <2>1, OverlayIsTree
    <2> QED
      BY <1>0, <1>4, <2>2, WorkspaceIInv DEF Format
  <1>5. CASE Add(r)
    <2>1. \A f \in Files : work[ws(r)][f] \in Contents
      BY <1>0 DEF Trees
    <2>2. Overlay(index[ws(r)], DOMAIN job[r].patch, work[ws(r)]) \in Trees
      BY <1>0, <2>1, OverlayIsTree
    <2> QED
      BY <1>0, <1>5, <2>2, WorkspaceIInv DEF Add
  <1> QED
    BY <1>2, <1>3, <1>4, <1>5

LEMMA CreateBranchIInv == ASSUME IInv, NEW r \in Runs, CreateBranch(r) PROVE IInv'
  <1> USE DEF IInv, Goto, Steps, Outcomes, Refusals, Writing, github
  <1> DEFINE b == job[r].branch
             w == ws(r)
  <1>0. /\ b \in Branches /\ b # Main /\ \A q \in Runs : ws(q) \in Workspaces
    BY CallFacts
  <1>1. CASE b \in DOMAIN local[w]
    BY <1>0, <1>1, QuietIInv DEF CreateBranch, TypeOK, git
  <1>2. CASE b \notin DOMAIN local[w]
    <2> DEFINE new == [c \in DOMAIN local[w] \union {b} |->
                         IF c = b THEN <<>> ELSE local[w][c]]
    <2>1. /\ pc' = [pc EXCEPT ![r] = "switching"] /\ pc[r] = "branching"
          /\ local' = [local EXCEPT ![w] = new]
          /\ UNCHANGED <<job, head, work, index, remote, open>>
      BY <1>2 DEF CreateBranch
    <2>2. AreBranches(new, Branches \union {Main})
      <3>1. AreBranches(local[w], Branches \union {Main})
        BY <1>0 DEF TypeOK
      <3>2. DOMAIN new \subseteq Branches \union {Main}
        BY <1>0, <3>1 DEF AreBranches
      <3>3. <<>> \in Commits
        BY DEF Commits
      <3>4. \A c \in DOMAIN local[w] : local[w][c] \in Commits
        BY <3>1 DEF AreBranches, Commits
      <3>5. \A c \in DOMAIN new : new[c] \in Commits
        BY <3>3, <3>4
      <3> QED
        BY <3>2, <3>5 DEF AreBranches, Commits
    <2>3. TypeOK'
      BY <1>0, <2>1, <2>2 DEF TypeOK, AreBranches
    <2>4. /\ job' = job /\ pc' \in [Runs -> {"waiting"} \union Steps \union Outcomes]
          /\ \A q \in Runs : pc'[q] = "waiting" => pc[q] = "waiting"
      BY <2>1, <2>3 DEF TypeOK
    <2>5. HasBranch' /\ LetThrough'
      BY <1>0, <2>1 DEF HasBranch, LetThrough, TypeOK, ws
    <2>6. OnFixBranch'
      BY <2>1, <2>4, AskedGrows DEF OnFixBranch, TypeOK, ws
    <2>7. MainThere'
      BY <1>0, <2>1 DEF MainThere, TypeOK
    <2>8. \A v \in Workspaces : \A c \in DOMAIN local'[v] :
            local'[v][c] # <<>> => c \in DOMAIN local[v] /\ local[v][c] # <<>>
      BY <1>0, <2>1 DEF TypeOK
    <2>9. LandsWhereAsked'
      BY <2>4, <2>8, AskedGrows DEF LandsWhereAsked
    <2> QED
      BY <2>3, <2>5, <2>6, <2>7, <2>9
  <1> QED
    BY <1>1, <1>2

LEMMA CommitIInv == ASSUME IInv, NEW r \in Runs, Commit(r) PROVE IInv'
  <1> USE DEF IInv, Goto, Steps, Outcomes, Refusals, Writing, github
  <1> DEFINE w == ws(r)
             commit == [by |-> r, tree |-> index[w]]
  <1>0. /\ \A q \in Runs : ws(q) \in Workspaces
        /\ head[w] \in AskedFor(w) /\ head[w] \in Branches /\ head[w] # Main
        /\ commit \in [by : Runs, tree : Trees]
    <2>1. \A q \in Runs : ws(q) \in Workspaces
      BY CallFacts
    <2>2. head[w] \in AskedFor(w)
      BY DEF OnFixBranch, Commit
    <2>3. AskedFor(w) \subseteq Branches /\ Main \notin AskedFor(w)
      BY AskedFacts
    <2>4. index[w] \in Trees
      BY <2>1 DEF TypeOK
    <2> QED
      BY <2>1, <2>2, <2>3, <2>4
  <1>1. CASE index[w] = HeadTree(w)
    BY <1>0, <1>1, QuietIInv DEF Commit, TypeOK, git
  <1>2. CASE index[w] # HeadTree(w)
    <2> DEFINE grown == [local[w] EXCEPT ![head[w]] = Append(@, commit)]
    <2>1. /\ pc' = [pc EXCEPT ![r] = AfterCommit(r)] /\ pc[r] = "committing"
          /\ AfterCommit(r) \in {"validating", "pushing", "DRY_RUN"}
          /\ local' = [local EXCEPT ![w] = grown]
          /\ UNCHANGED <<job, head, work, index, remote, open>>
      BY <1>2 DEF Commit, AfterCommit, Ready
    <2>2. AreBranches(grown, Branches \union {Main}) /\ DOMAIN grown = DOMAIN local[w]
      BY <1>0, AppendKeeps DEF TypeOK, AreBranches
    <2>3. TypeOK'
      BY <1>0, <2>1, <2>2 DEF TypeOK, AreBranches
    <2>4. /\ job' = job /\ \A q \in Runs : pc'[q] = "waiting" => pc[q] = "waiting"
      BY <2>1 DEF TypeOK
    <2>5. HasBranch' /\ LetThrough'
      BY <1>0, <2>1, <2>2 DEF HasBranch, LetThrough, TypeOK, ws
    <2>6. OnFixBranch'
      BY <2>1, <2>4, AskedGrows DEF OnFixBranch, TypeOK, ws
    <2>7. MainThere'
      BY <1>0, <2>1, <2>2 DEF MainThere, TypeOK
    <2>8. \A v \in Workspaces : \A c \in DOMAIN local'[v] :
            \/ c \in DOMAIN local[v] /\ local'[v][c] = local[v][c]
            \/ v = w /\ c = head[w]
      BY <1>0, <2>1, <2>2 DEF TypeOK
    <2>9. LandsWhereAsked'
      BY <1>0, <2>4, <2>8, AskedGrows DEF LandsWhereAsked
    <2> QED
      BY <2>3, <2>5, <2>6, <2>7, <2>9
  <1> QED
    BY <1>1, <1>2

LEMMA PushIInv == ASSUME IInv, NEW r \in Runs, Push(r) PROVE IInv'
  <1> USE DEF IInv, Goto, Steps, Outcomes, Refusals, Writing, git
  <1> DEFINE b == job[r].branch
             commits == local[ws(r)][b]
  <1>0. /\ ws(r) \in Workspaces /\ b \in Branches
        /\ commits \in Seq([by : Runs, tree : Trees])
    BY CallFacts DEF TypeOK, AreBranches, HasBranch, Push
  <1>1. AreBranches(Pushed(b, commits), Branches)
    BY <1>0 DEF TypeOK, AreBranches, Pushed
  <1>2. TypeOK'
    BY <1>0, <1>1 DEF TypeOK, AreBranches, Push
  <1>3. job' = job /\ \A q \in Runs : pc'[q] = "waiting" => pc[q] = "waiting"
    BY DEF Push, TypeOK
  <1>4. HasBranch' /\ LetThrough'
    BY DEF HasBranch, LetThrough, Push, TypeOK, ws
  <1>5. OnFixBranch'
    BY <1>3, AskedGrows DEF OnFixBranch, Push, TypeOK, ws
  <1>6. MainThere' /\ LandsWhereAsked'
    BY <1>3, AskedGrows DEF MainThere, LandsWhereAsked, Push
  <1> QED
    BY <1>2, <1>4, <1>5, <1>6

LEMMA NextIInv == IInv /\ [Next]_vars => IInv'
  <1> SUFFICES ASSUME IInv, [Next]_vars PROVE IInv'
    OBVIOUS
  <1>1. ASSUME NEW r \in Runs, Begin(r) \/ Step(r) \/ PostLost(r) \/ Fails(r)
        PROVE  IInv'
    BY <1>1, QuietSteps, TreeSteps, CreateBranchIInv, CommitIInv, PushIInv DEF Step
  <1>2. CASE UNCHANGED vars
    BY <1>2, QuietIInv DEF vars, run, github, IInv, TypeOK, HasBranch
  <1> QED
    BY <1>1, <1>2, CrashIInv, ClosesIInv DEF Next

(* The inductive invariant, the types among it, holds in every state. *)
THEOREM FixPRInvariance == Spec => []IInv
  BY InitIInv, NextIInv, PTL DEF Spec

(* Branches, clones and pull requests stay of their types.                 *)
THEOREM TypeCorrect == Spec => []TypeOK
  <1>1. IInv => TypeOK
    BY DEF IInv
  <1> QED
    BY <1>1, FixPRInvariance, PTL

(* However many runs share a workspace and move its HEAD, whatever fails   *)
(* and wherever the process dies, a commit lands only on a fix branch that *)
(* a run in that workspace asked for; so never on Main, and in a workspace *)
(* of a single run only on that run's branch.                              *)
THEOREM CommitsLandWhereAsked == Spec => []LandsWhereAsked
  <1>1. IInv => LandsWhereAsked
    BY DEF IInv
  <1> QED
    BY FixPRInvariance, <1>1, PTL

-----------------------------------------------------------------------------
(* What holds when every run has a clone of its own, as in the Action:     *)
(* only accepted work is pushed, and the open pull requests implement      *)
(* GuardedFix.  The counterexamples of a shared workspace show that the    *)
(* assumption is needed.                                                   *)

-----------------------------------------------------------------------------
(* What the gates let through, and what is made of it. *)

LEMMA GateFacts ==
  ASSUME NEW j \in Jobs, Closed(j) = {}
  PROVE  /\ j.create
         /\ Cardinality(DOMAIN j.patch) <= j.maxFixFiles
         /\ DOMAIN j.patch \subseteq j.evidence
  <1>1. \A i \in 1 .. 11 : i \in DOMAIN Gates(j) /\ ~Gates(j)[i][1]
    BY DEF Closed, Gates
  <1>2. ~Gates(j)[1][1] /\ ~Gates(j)[8][1] /\ ~Gates(j)[10][1]
    BY <1>1
  <1>3. j.create
    BY <1>2 DEF Gates
  <1>4. ~(Cardinality(DOMAIN j.patch) > j.maxFixFiles)
    BY <1>2 DEF Gates
  <1>5. DOMAIN j.patch \subseteq j.evidence
    BY <1>2 DEF Gates
  <1>6. IsFiniteSet(DOMAIN j.patch)
    BY JobFacts, FixPRAssumption, FS_Subset
  <1>7. Cardinality(DOMAIN j.patch) \in Nat /\ j.maxFixFiles \in Int
    BY <1>6, FS_CardinalityType, FixPRAssumption
  <1> QED
    BY <1>3, <1>4, <1>5, <1>7

Written(j) == Overlay(Base, DOMAIN j.patch, j.patch)

LEMMA FixedFacts ==
  ASSUME NEW j \in Jobs
  PROVE  /\ Fixed(j) \in Trees
         /\ \A f \in Files : f \notin DOMAIN j.patch => Fixed(j)[f] = Base[f]
         /\ Overlay(Base, DOMAIN j.patch, Fixed(j)) = Fixed(j)
         /\ Overlay(Written(j), DOMAIN j.patch,
                    [f \in DOMAIN j.patch |-> Formatted[Written(j)[f]]]) = Fixed(j)
         /\ \A none : Overlay(Base, {}, none) = Base
  <1>1. /\ DOMAIN j.patch \subseteq Files
        /\ \A f \in DOMAIN j.patch : Formatted[j.patch[f]] \in Contents
        /\ Base \in [Files -> Contents]
    BY JobFacts, FixPRAssumption DEF Trees
  <1> QED
    BY <1>1 DEF Fixed, Written, Overlay, Trees

LEMMA FixedScoped ==
  ASSUME NEW j \in Jobs, Closed(j) = {}
  PROVE  Scoped(j, Fixed(j))
  <1> DEFINE touched == {f \in Files : Fixed(j)[f] # Base[f]}
  <1>1. touched \subseteq DOMAIN j.patch
    BY FixedFacts
  <1>2. IsFiniteSet(DOMAIN j.patch)
    BY JobFacts, FixPRAssumption, FS_Subset
  <1>3. /\ Cardinality(touched) <= Cardinality(DOMAIN j.patch)
        /\ Cardinality(touched) \in Nat /\ Cardinality(DOMAIN j.patch) \in Nat
    BY <1>1, <1>2, FS_Subset, FS_CardinalityType
  <1>4. j.maxFixFiles \in Int
    BY FixPRAssumption
  <1> QED
    BY <1>1, <1>3, <1>4, GateFacts DEF Scoped

-----------------------------------------------------------------------------
(* The invariant of a clone, stage by stage. *)

Cleared(j) == Closed(j) = {} /\ ~j.dryRun /\ (j.agentic => Passes(Fixed(j)))
Offer(r) == <<[by |-> r, tree |-> Fixed(job[r])]>>

Early == {"waiting", "finding", "verifying", "branching"}

CloneInv(r) ==
  LET w == ws(r)
      j == job[r]
  IN  /\ pc[r] \in Steps => Closed(j) = {}
      /\ pc[r] \in Early => DOMAIN local[w] = {Main}
      /\ pc[r] \in Early \union {"switching"} => head[w] = Main
      /\ pc[r] \in Early \union {"switching", "writing"} => work[w] = Base
      /\ pc[r] \in Early \union {"switching", "writing", "formatting", "adding"} =>
           index[w] = Base
      /\ pc[r] \in Early \union {"switching", "writing", "formatting", "adding",
                                 "committing"} =>
           \A b \in DOMAIN local[w] : local[w][b] = <<>>
      /\ pc[r] \in Writing => head[w] = j.branch
      /\ pc[r] = "formatting" => work[w] = Written(j)
      /\ pc[r] \in {"adding", "committing", "validating"} => work[w] = Fixed(j)
      /\ pc[r] = "committing" => index[w] = Fixed(j)
      /\ pc[r] \in {"validating", "pushing"} =>
           local[w][j.branch] = Offer(r) /\ Fixed(j) # Base
      /\ pc[r] = "validating" => j.agentic
      /\ pc[r] = "pushing" => Cleared(j)

(* A pushed branch is the single commit of a run that was cleared. *)
From(b, r) ==
  /\ job[r].branch = b /\ Cleared(job[r]) /\ Fixed(job[r]) # Base
  /\ remote[b] = Offer(r)

RemoteInv ==
  /\ \A b \in DOMAIN remote : \E r \in Runs : From(b, r)
  /\ open \subseteq DOMAIN remote

CInv == IInv /\ RemoteInv /\ \A r \in Runs : CloneInv(r)

LEMMA InitCInv == Init => CInv
  <1> SUFFICES ASSUME Init PROVE CInv
    OBVIOUS
  <1>1. RemoteInv
    BY DEF Init, RemoteInv
  <1>2. ASSUME NEW r \in Runs PROVE CloneInv(r)
    <2>1. ws(r) \in Workspaces
      BY InitIInv, CallFacts DEF IInv
    <2> QED
      BY <2>1 DEF Init, CloneInv, Early, Steps, Writing
  <1> QED
    BY <1>1, <1>2, InitIInv DEF CInv

(* A run's step cannot disturb another run's clone. *)
LEMMA CloneFrame ==
  ASSUME OwnClones, CInv, IInv', RemoteInv', NEW r \in Runs, CloneInv(r)', job' = job,
         \A q \in Runs \ {r} : pc'[q] = pc[q],
         \A w \in Workspaces \ {ws(r)} :
           /\ head'[w] = head[w] /\ work'[w] = work[w]
           /\ index'[w] = index[w] /\ local'[w] = local[w]
  PROVE  CInv'
  <1>1. ASSUME NEW q \in Runs \ {r} PROVE CloneInv(q)'
    <2>1. ws(q) \in Workspaces \ {ws(r)}
      BY CallFacts DEF CInv, IInv, OwnClones
    <2>2. /\ pc'[q] = pc[q] /\ job'[q] = job[q]
          /\ head'[ws(q)] = head[ws(q)] /\ local'[ws(q)] = local[ws(q)]
          /\ work'[ws(q)] = work[ws(q)] /\ index'[ws(q)] = index[ws(q)]
      BY <2>1
    <2>3. CloneInv(q)
      BY DEF CInv
    <2> QED
      BY <2>2, <2>3 DEF CloneInv, Offer, ws
  <1> QED
    BY <1>1 DEF CInv

LEMMA RemoteSame ==
  ASSUME RemoteInv, UNCHANGED <<job, remote>>, open' \subseteq DOMAIN remote
  PROVE  RemoteInv'
  BY DEF RemoteInv, From, Offer

-----------------------------------------------------------------------------
(* The steps of a run, in its own clone. *)

(* Steps after which the clone is as it was. *)
LEMMA QuietClone ==
  ASSUME OwnClones, CInv, NEW r \in Runs,
         \/ Begin(r) \/ FindExisting(r) \/ ShowRef(r) \/ Validate(r)
         \/ FindAgain(r) \/ Post(r) \/ PostLost(r) \/ Fails(r)
  PROVE  CInv'
  <1>0. /\ IInv' /\ pc \in [Runs -> {"waiting"} \union Steps \union Outcomes]
        /\ job[r] \in Jobs /\ job[r].branch # Main /\ ws(r) \in Workspaces
        /\ CloneInv(r) /\ RemoteInv
    BY QuietSteps, CallFacts DEF CInv, IInv, TypeOK
  <1> USE DEF Goto, github, git
  <1>1. /\ job' = job /\ UNCHANGED <<git, remote>>
        /\ \A q \in Runs \ {r} : pc'[q] = pc[q]
    BY <1>0 DEF Begin, FindExisting, ShowRef, Validate, FindAgain, Post, PostLost, Fails
  <1>2. open' \subseteq DOMAIN remote
    BY <1>0 DEF RemoteInv, Begin, FindExisting, ShowRef, Validate, FindAgain, Post,
       PostLost, Fails, Takes
  <1>3. CloneInv(r)'
    <2> USE DEF CloneInv, Early, Steps, Writing, Offer, Refusals, ws
    <2>1. CASE Begin(r)
      BY <1>0, <1>1, <2>1, RefusalFacts DEF Begin
    <2>2. CASE FindExisting(r)
      BY <1>0, <1>1, <2>2 DEF FindExisting
    <2>3. CASE ShowRef(r)
      BY <1>0, <1>1, <2>3 DEF ShowRef
    <2>4. CASE Validate(r)
      BY <1>0, <1>1, <2>4 DEF Validate, Ready, Cleared
    <2>5. CASE FindAgain(r)
      BY <1>0, <1>1, <2>5 DEF FindAgain
    <2>6. CASE Post(r)
      BY <1>0, <1>1, <2>6 DEF Post
    <2>7. CASE PostLost(r)
      BY <1>0, <1>1, <2>7 DEF PostLost
    <2>8. CASE Fails(r)
      BY <1>0, <1>1, <2>8 DEF Fails
    <2> QED
      BY <2>1, <2>2, <2>3, <2>4, <2>5, <2>6, <2>7, <2>8
  <1> QED
    BY <1>0, <1>1, <1>2, <1>3, CloneFrame, RemoteSame

(* Steps inside the clone. *)
LEMMA WorkingClone ==
  ASSUME OwnClones, CInv, NEW r \in Runs,
         CreateBranch(r) \/ Checkout(r) \/ Apply(r) \/ Format(r) \/ Add(r) \/ Commit(r)
  PROVE  CInv'
  <1>0. /\ IInv /\ IInv' /\ pc \in [Runs -> {"waiting"} \union Steps \union Outcomes]
        /\ job \in [Runs -> Jobs] /\ job[r] \in Jobs
        /\ job[r].branch # Main /\ job[r].branch \in Branches
        /\ head \in [Workspaces -> Branches \union {Main}]
        /\ work \in [Workspaces -> Trees] /\ index \in [Workspaces -> Trees]
        /\ DOMAIN local = Workspaces
        /\ ws(r) \in Workspaces /\ CloneInv(r) /\ RemoteInv
    BY CreateBranchIInv, TreeSteps, CommitIInv, CallFacts DEF CInv, IInv, TypeOK
  <1> USE DEF Goto
  <1>1. /\ job' = job /\ UNCHANGED github
        /\ \A q \in Runs \ {r} : pc'[q] = pc[q]
        /\ \A w \in Workspaces \ {ws(r)} :
             /\ head'[w] = head[w] /\ work'[w] = work[w]
             /\ index'[w] = index[w] /\ local'[w] = local[w]
    BY <1>0 DEF CreateBranch, Checkout, Apply, Format, Add, Commit, git
  <1>2. RemoteInv'
    BY <1>0, <1>1, RemoteSame DEF RemoteInv, github
  <1>3. CloneInv(r)'
    <2>0. ws(r)' = ws(r)
      BY <1>1 DEF ws
    <2> USE <2>0 DEF CloneInv, Early, Steps, Writing, Offer
    <2> DEFINE w == ws(r)
               j == job[r]
    <2>1. CASE CreateBranch(r)
      BY <1>0, <1>1, <2>1 DEF CreateBranch
    <2>2. CASE Checkout(r)
      <3>1. /\ HeadTree(w) = Base /\ TipOf(local[w][j.branch]) = Base
            /\ work[w] = Base /\ index[w] = Base
        BY <1>0, <2>2 DEF Checkout, HeadTree, TipOf, IInv, MainThere, HasBranch
      <3>2. Replaced(w, Base) = {}
        BY <3>1 DEF Replaced
      <3>3. InTheWay(w, Base) = {}
        BY <3>2 DEF InTheWay
      <3>4. Overlay(Base, Replaced(w, Base), Base) = Base
        BY <1>0, <3>2, FixedFacts
      <3> QED
        BY <1>0, <1>1, <2>2, <3>1, <3>3, <3>4 DEF Checkout
    <2>3. CASE Apply(r)
      BY <1>0, <1>1, <2>3 DEF Apply, Written
    <2>4. CASE Format(r)
      BY <1>0, <1>1, <2>4, FixedFacts DEF Format
    <2>5. CASE Add(r)
      BY <1>0, <1>1, <2>5, FixedFacts DEF Add
    <2>6. CASE Commit(r)
      <3>1. /\ head[w] = j.branch /\ j.branch \in DOMAIN local[w]
            /\ local[w][j.branch] = <<>> /\ index[w] = Fixed(j) /\ work[w] = Fixed(j)
            /\ HeadTree(w) = Base
        BY <1>0, <2>6 DEF Commit, HeadTree, TipOf, IInv, HasBranch
      <3> QED
        BY <1>0, <1>1, <2>6, <3>1 DEF Commit, AfterCommit, Ready, Cleared
    <2> QED
      BY <2>1, <2>2, <2>3, <2>4, <2>5, <2>6
  <1> QED
    BY <1>0, <1>1, <1>2, <1>3, CloneFrame

LEMMA PushClone == ASSUME OwnClones, CInv, NEW r \in Runs, Push(r) PROVE CInv'
  <1> DEFINE b == job[r].branch
  <1>0. /\ IInv' /\ pc \in [Runs -> {"waiting"} \union Steps \union Outcomes]
        /\ CloneInv(r) /\ RemoteInv
    BY PushIInv DEF CInv, IInv, TypeOK
  <1>1. /\ job' = job /\ UNCHANGED <<git, open>>
        /\ \A q \in Runs \ {r} : pc'[q] = pc[q]
        /\ pc'[r] \in {"raised", "refinding"}
    BY <1>0 DEF Push, Goto
  <1>2. CloneInv(r)'
    BY <1>0, <1>1 DEF Push, CloneInv, Early, Steps, Writing, git, ws
  <1>3. CASE UNCHANGED remote
    BY <1>0, <1>1, <1>2, <1>3, RemoteSame, CloneFrame DEF RemoteInv, git
  <1>4. CASE remote' = Pushed(b, local[ws(r)][b])
    <2>1. local[ws(r)][b] = Offer(r) /\ Cleared(job[r]) /\ Fixed(job[r]) # Base
      BY <1>0 DEF CloneInv, Push
    <2>2. /\ DOMAIN remote' = DOMAIN remote \union {b} /\ remote'[b] = Offer(r)
          /\ \A c \in DOMAIN remote \ {b} : remote'[c] = remote[c]
      BY <1>4, <2>1 DEF Pushed
    <2>3. From(b, r)'
      BY <1>1, <2>1, <2>2 DEF From, Offer
    <2>4. ASSUME NEW c \in DOMAIN remote \ {b} PROVE \E q \in Runs : From(c, q)'
      BY <1>0, <1>1, <2>2 DEF RemoteInv, From, Offer
    <2>5. RemoteInv'
      BY <1>0, <1>1, <2>2, <2>3, <2>4 DEF RemoteInv
    <2> QED
      BY <1>0, <1>1, <1>2, <2>5, CloneFrame DEF git
  <1> QED
    BY <1>3, <1>4 DEF Push

LEMMA CrashClone == ASSUME OwnClones, CInv, Crash PROVE CInv'
  <1>1. IInv' /\ RemoteInv'
    BY CrashIInv, RemoteSame DEF CInv, Crash, RemoteInv, github
  <1>2. ASSUME NEW r \in Runs PROVE CloneInv(r)'
    <2>1. /\ job'[r] = job[r] /\ UNCHANGED git /\ CloneInv(r)
          /\ \/ pc'[r] = pc[r] /\ pc[r] \notin Steps
             \/ pc'[r] = "lost"
      BY DEF Crash, CInv
    <2> QED
      BY <2>1 DEF CloneInv, Steps, Early, Writing, Offer, git, ws
  <1> QED
    BY <1>1, <1>2 DEF CInv

LEMMA ClosesClone ==
  ASSUME OwnClones, CInv, NEW b \in Branches, SomeoneCloses(b) PROVE CInv'
  <1>1. IInv' /\ job' = job /\ pc' = pc /\ UNCHANGED git
    BY ClosesIInv DEF CInv, SomeoneCloses, run
  <1>2. /\ DOMAIN remote' \subseteq DOMAIN remote /\ open' \subseteq DOMAIN remote'
        /\ \A c \in DOMAIN remote' : remote'[c] = remote[c]
    BY DEF CInv, RemoteInv, SomeoneCloses
  <1>3. RemoteInv'
    BY <1>1, <1>2 DEF CInv, RemoteInv, From, Offer
  <1>4. \A r \in Runs : CloneInv(r)'
    BY <1>1 DEF CInv, CloneInv, Offer, git, ws
  <1> QED
    BY <1>1, <1>3, <1>4 DEF CInv

LEMMA NextCInv == ASSUME OwnClones PROVE CInv /\ [Next]_vars => CInv'
  <1> SUFFICES ASSUME CInv, [Next]_vars PROVE CInv'
    OBVIOUS
  <1>1. ASSUME NEW r \in Runs, Begin(r) \/ Step(r) \/ PostLost(r) \/ Fails(r)
        PROVE  CInv'
    BY <1>1, QuietClone, WorkingClone, PushClone DEF Step
  <1>2. CASE UNCHANGED vars
    <2>1. IInv'
      BY <1>2, NextIInv DEF CInv
    <2>2. RemoteInv'
      BY <1>2, RemoteSame DEF CInv, RemoteInv, vars, run, github
    <2>3. \A r \in Runs : CloneInv(r)'
      BY <1>2 DEF CInv, CloneInv, Offer, vars, run, git, ws
    <2> QED
      BY <2>1, <2>2, <2>3 DEF CInv
  <1> QED
    BY <1>1, <1>2, CrashClone, ClosesClone DEF Next

LEMMA DeploymentStays == [Next]_vars => OwnClones' = OwnClones
  BY DEF Next, Step, Begin, FindExisting, ShowRef, CreateBranch, Checkout, Apply, Format,
     Add, Commit, Validate, Push, FindAgain, Post, PostLost, Fails, Crash, SomeoneCloses,
     vars, run, OwnClones, ws

ClonesInv == OwnClones => CInv

(* Every clone is in the state its run's stage says, and every pushed      *)
(* branch is the one commit of a run that was cleared to push it.          *)
THEOREM CloneInvariance == Spec => []ClonesInv
  <1>1. Init => ClonesInv
    BY InitCInv DEF ClonesInv
  <1>2. ClonesInv /\ [Next]_vars => ClonesInv'
    BY NextCInv, DeploymentStays DEF ClonesInv
  <1> QED
    BY <1>1, <1>2, PTL DEF Spec

(* In clones of their own, runs push only what passed all the gates and,   *)
(* where the mode asks for it, the validation commands; never a dry run.   *)
THEOREM ClonesPushAccepted == Spec => []OnlyAcceptedPushed
  <1>1. ClonesInv => OnlyAcceptedPushed
    <2> SUFFICES ASSUME CInv, OwnClones, NEW b \in DOMAIN remote, NEW i \in DOMAIN remote[b]
                 PROVE  LET commit == remote[b][i]
                            j == job[commit.by]
                        IN  Closed(j) = {} /\ ~j.dryRun /\ (j.agentic => Passes(commit.tree))
      BY DEF OnlyAcceptedPushed, ClonesInv
    <2>1. PICK r \in Runs : From(b, r)
      BY DEF CInv, RemoteInv
    <2>2. remote[b][i] = [by |-> r, tree |-> Fixed(job[r])]
      BY <2>1 DEF From, Offer
    <2> QED
      BY <2>1, <2>2 DEF From, Cleared
  <1> QED
    BY CloneInvariance, <1>1, PTL

-----------------------------------------------------------------------------
(* Refinement: the open pull requests are those of GuardedFix. *)

Shows(b) == IF OwnClones /\ b \in open THEN TipOf(remote[b]) ELSE Base

LEMMA ShownIsOffer ==
  ASSUME CInv, NEW b \in DOMAIN remote
  PROVE  /\ TipOf(remote[b]) \in Offers[b] /\ TipOf(remote[b]) # Base
         /\ remote[b] # <<>>
  <1>1. PICK r \in Runs : From(b, r)
    BY DEF CInv, RemoteInv
  <1>2. /\ remote[b] = Offer(r) /\ job[r] \in Jobs /\ Cleared(job[r])
        /\ Fixed(job[r]) # Base /\ job[r].branch = b
    BY <1>1 DEF From, CInv, IInv, TypeOK
  <1>3. TipOf(remote[b]) = Fixed(job[r]) /\ remote[b] # <<>>
    BY <1>2 DEF TipOf, Last, Offer
  <1>4. job[r].create /\ Scoped(job[r], Fixed(job[r]))
    BY <1>2, GateFacts, FixedScoped DEF Cleared
  <1>5. b \in Branches
    BY <1>2, JobFacts
  <1> QED
    BY <1>2, <1>3, <1>4, <1>5 DEF Offers, Cleared

LEMMA InitGuards == Init => Guarded!Init
  BY DEF Init, Guarded!Init

LEMMA PushShowsSame ==
  ASSUME OwnClones, CInv, NEW r \in Runs, Push(r)
  PROVE  \A b \in Branches : Shows(b)' = Shows(b)
  <1> DEFINE c == job[r].branch
  <1>1. /\ open' = open /\ open \subseteq DOMAIN remote /\ OwnClones' = OwnClones
    BY DEF Push, CInv, RemoteInv, OwnClones, ws
  <1>2. CASE UNCHANGED remote
    BY <1>1, <1>2 DEF Shows
  <1>3. CASE remote' # remote /\ c \in open
    <2>1. /\ remote' = Pushed(c, local[ws(r)][c])
          /\ local[ws(r)][c] = Offer(r) /\ IsPrefix(remote[c], Offer(r))
      BY <1>1, <1>3 DEF Push, CInv, CloneInv
    <2>2. PICK q \in Runs : remote[c] = Offer(q)
      BY <1>1, <1>3 DEF CInv, RemoteInv, From
    <2>3. Offer(q) = Offer(r)
      BY <2>1, <2>2 DEF IsPrefix, Offer
    <2> QED
      BY <1>1, <1>3, <2>1, <2>2, <2>3 DEF Shows, Pushed
  <1>4. CASE remote' # remote /\ c \notin open
    BY <1>1, <1>4 DEF Push, Shows, Pushed
  <1> QED
    BY <1>2, <1>3, <1>4 DEF Push

LEMMA NextGuards ==
  ASSUME OwnClones, CInv, [Next]_vars
  PROVE  Guarded!Next \/ UNCHANGED [b \in Branches |-> Shows(b)]
  <1>0. OwnClones'
    BY DeploymentStays
  <1>1. CASE UNCHANGED github
    BY <1>0, <1>1 DEF Shows, github
  <1>2. ASSUME NEW r \in Runs, Post(r) \/ PostLost(r), open' # open
        PROVE  Guarded!Next
    <2>0. PICK b \in Branches : b = job[r].branch
      BY CallFacts DEF CInv, IInv
    <2>1. /\ b \notin open /\ b \in DOMAIN remote
          /\ open' = open \union {b} /\ remote' = remote
      BY <1>2, <2>0 DEF Post, PostLost, Takes
    <2>2. TipOf(remote[b]) \in Offers[b]
      BY <2>1, ShownIsOffer
    <2> DEFINE shows == [c \in Branches |-> IF OwnClones /\ c \in open
                                              THEN TipOf(remote[c]) ELSE Base]
               next == [c \in Branches |-> IF OwnClones' /\ c \in open'
                                             THEN TipOf(remote'[c]) ELSE Base]
    <2>3. shows[b] = Base /\ next = [shows EXCEPT ![b] = TipOf(remote[b])]
      BY <1>0, <2>1
    <2>4. \E tree \in Offers[b] : next = [shows EXCEPT ![b] = tree]
      BY <2>2, <2>3
    <2>5. Guarded!Open(b)
      BY <2>3, <2>4 DEF Guarded!Open
    <2> QED
      BY <2>5 DEF Guarded!Next
  <1>3. ASSUME NEW r \in Runs, Push(r) PROVE UNCHANGED [b \in Branches |-> Shows(b)]
    BY <1>3, PushShowsSame
  <1>4. ASSUME NEW b \in Branches, SomeoneCloses(b) PROVE Guarded!Next
    <2>1. /\ b \in open /\ b \in DOMAIN remote /\ open' = open \ {b}
          /\ \A c \in DOMAIN remote \ {b} : remote'[c] = remote[c]
      BY <1>4 DEF SomeoneCloses, CInv, RemoteInv
    <2>2. TipOf(remote[b]) # Base
      BY <2>1, ShownIsOffer
    <2>3. Guarded!Close(b)
      BY <1>0, <2>1, <2>2 DEF Guarded!Close, CInv, RemoteInv
    <2> QED
      BY <2>3 DEF Guarded!Next
  <1> QED
    BY <1>1, <1>2, <1>3, <1>4 DEF Next, Step, Begin, FindExisting, ShowRef, CreateBranch,
       Checkout, Apply, Format, Add, Commit, Validate, FindAgain, Post, PostLost,
       Fails, Crash, vars, github

LEMMA SharedShowsNothing ==
  ASSUME ~OwnClones, [Next]_vars PROVE UNCHANGED [b \in Branches |-> Shows(b)]
  BY DeploymentStays DEF Shows

(* In clones of their own, whatever fails or is closed in between, an open *)
(* pull request shows an offer some run was allowed to make.               *)
THEOREM ClonesShowGuardedFix == Spec => ShowsGuardedFix
  <1>1. ClonesInv /\ [Next]_vars =>
          Guarded!Next \/ UNCHANGED [b \in Branches |->
                                       IF OwnClones /\ b \in open THEN TipOf(remote[b])
                                                                 ELSE Base]
    BY NextGuards, SharedShowsNothing DEF Shows, ClonesInv
  <1> QED
    BY CloneInvariance, InitGuards, <1>1, PTL DEF Spec, ShowsGuardedFix, Guarded!Spec
=============================================================================
