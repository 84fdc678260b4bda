--------------------------- MODULE DiagnosisProofs ----------------------------
(***************************************************************************)
(* Theorems about the analysis, for every log, comparison, setting and     *)
(* answer of a model, and every retry and attempt budget.                  *)
(***************************************************************************)
EXTENDS Diagnosis, TLAPS

-----------------------------------------------------------------------------
(* Scores. *)

(* Every part of a score has its range, and so has the sum.                *)
LEMMA ScoreParts ==
  ASSUME NEW e, NEW b \in BOOLEAN, NEW ch, NEW c
  PROVE  /\ FirstFailureScore(b) \in {900, 3000}
         /\ DiffProximity(e, ch) \in {0, 500, 2500}
         /\ ModuleProximity(e, ch) \in {0, 200, 1000}
         /\ DependencyDrift(ch) \in {0, 1000}
         /\ Alignment(e, c) \in {200, 500, 1000}
         /\ EvidenceQuality(e) \in {225, 300, 1050, 1500}
  <1>1. FirstFailureScore(b) \in {900, 3000}
    BY DEF FirstFailureScore
  <1>2. DiffProximity(e, ch) \in {0, 500, 2500}
    BY DEF DiffProximity
  <1>3. ModuleProximity(e, ch) \in {0, 200, 1000}
    BY DEF ModuleProximity
  <1>4. DependencyDrift(ch) \in {0, 1000}
    BY DEF DependencyDrift
  <1>5. Alignment(e, c) \in {200, 500, 1000}
    BY DEF Alignment
  <1>6. EvidenceQuality(e) \in {225, 300, 1050, 1500}
    BY DEF EvidenceQuality
  <1> QED
    BY <1>1, <1>2, <1>3, <1>4, <1>5, <1>6

LEMMA ScoreRange ==
  ASSUME NEW e, NEW b \in BOOLEAN, NEW ch, NEW c
  PROVE  /\ Confidence(e, b, ch, c) \in Int
         /\ 0 <= Confidence(e, b, ch, c) /\ Confidence(e, b, ch, c) <= 10000
  BY ScoreParts DEF Confidence

(* What lets pr_creation proceed matches the diff or a changed module.     *)
LEMMA HighScore ==
  ASSUME NEW e, NEW b \in BOOLEAN, NEW ch, NEW c, Confidence(e, b, ch, c) >= 7201
  PROVE  e.file # NoPath /\ (e.file \in ch.files \/ StemName(e.file) \in ch.modules)
  <1>1. CASE e.file = NoPath
    <2>1. /\ DiffProximity(e, ch) = 0 /\ ModuleProximity(e, ch) = 0
          /\ EvidenceQuality(e) = 225
      BY <1>1 DEF DiffProximity, ModuleProximity, EvidenceQuality
    <2> QED
      BY <2>1, ScoreParts DEF Confidence
  <1>2. CASE e.file # NoPath /\ e.file \notin ch.files /\ StemName(e.file) \notin ch.modules
    <2>1. DiffProximity(e, ch) = 500 /\ ModuleProximity(e, ch) = 200
      BY <1>2 DEF DiffProximity, ModuleProximity
    <2> QED
      BY <2>1, ScoreParts DEF Confidence
  <1> QED
    BY <1>1, <1>2

(* Without a file and without a change of dependencies little is left.     *)
LEMMA LowScore ==
  ASSUME NEW e, NEW b \in BOOLEAN, NEW ch, NEW c, e.file = NoPath, ~Drifted(ch)
  PROVE  Confidence(e, b, ch, c) <= 4225
  <1>1. /\ DiffProximity(e, ch) = 0 /\ ModuleProximity(e, ch) = 0
        /\ EvidenceQuality(e) = 225 /\ DependencyDrift(ch) = 0
    BY DEF DiffProximity, ModuleProximity, EvidenceQuality, DependencyDrift
  <1> QED
    BY <1>1, ScoreParts DEF Confidence

-----------------------------------------------------------------------------
(* The class. *)

LEMMA SmallestRule ==
  ASSUME NEW S \in SUBSET (1..7), S # {}
  PROVE  LET least == CHOOSE i \in S : \A j \in S : i <= j
         IN  least \in S /\ \A j \in S : least <= j
  <1> SUFFICES \E i \in S : \A j \in S : i <= j
    BY Zenon
  <1>1. CASE 1 \in S
    BY <1>1
  <1>2. CASE S \cap (1..1) = {} /\ 2 \in S
    BY <1>2
  <1>3. CASE S \cap (1..2) = {} /\ 3 \in S
    BY <1>3
  <1>4. CASE S \cap (1..3) = {} /\ 4 \in S
    BY <1>4
  <1>5. CASE S \cap (1..4) = {} /\ 5 \in S
    BY <1>5
  <1>6. CASE S \cap (1..5) = {} /\ 6 \in S
    BY <1>6
  <1>7. CASE S \cap (1..6) = {} /\ 7 \in S
    BY <1>7
  <1>8. \E k \in 1..7 : k \in S
    OBVIOUS
  <1> QED
    BY <1>1, <1>2, <1>3, <1>4, <1>5, <1>6, <1>7, <1>8

LEMMA Rules == /\ DOMAIN RulePriority = 1..7
               /\ RulePriority[1] = "INFRA" /\ RulePriority[2] = "DEPENDENCY"
               /\ RulePriority[3] = "SECURITY" /\ RulePriority[4] = "TYPECHECK"
               /\ RulePriority[5] = "LINT" /\ RulePriority[6] = "TEST"
               /\ RulePriority[7] = "BUILD"
  BY DEF RulePriority

(* A class without a pattern of its own means no dependency has changed.   *)
LEMMA ClassFacts ==
  ASSUME NEW hits, NEW ch, NEW b
  PROVE  /\ Classification(hits, ch, b) \in Classes
         /\ Classification(hits, ch, b) \in {"TEST", "UNKNOWN"} => ~Drifted(ch)
  <1> DEFINE rules == {i \in DOMAIN RulePriority : Matched(hits, ch, RulePriority[i])}
             least == CHOOSE i \in rules : \A j \in rules : i <= j
  <1>1. Classification(hits, ch, b)
          = IF rules # {} THEN RulePriority[least] ELSE IF b THEN "TEST" ELSE "UNKNOWN"
    BY DEF Classification
  <1>2. rules \in SUBSET (1..7)
    BY Rules
  <1>3. CASE rules # {}
    <2>1. least \in rules /\ \A j \in rules : least <= j
      BY <1>2, <1>3, SmallestRule
    <2>2. RulePriority[least] \in Classes
      BY <2>1 DEF Classes
    <2>3. Drifted(ch) => 2 \in rules
      BY Rules DEF Matched
    <2>4. Drifted(ch) => least \in {1, 2}
      BY <2>1, <2>3, <1>2
    <2>5. Drifted(ch) => RulePriority[least] \notin {"TEST", "UNKNOWN"}
      BY <2>4, Rules
    <2> HIDE DEF least, rules
    <2> QED
      BY <1>1, <1>3, <2>2, <2>5
  <1>4. CASE rules = {}
    <2>1. ~Drifted(ch)
      BY <1>4, Rules DEF Matched
    <2>2. Classification(hits, ch, b) \in {"TEST", "UNKNOWN"}
      BY <1>1, <1>4
    <2>3. {"TEST", "UNKNOWN"} \subseteq Classes
      BY Rules DEF Classes
    <2> QED
      BY <2>1, <2>2, <2>3
  <1> QED
    BY <1>3, <1>4
-----------------------------------------------------------------------------
(* Requests: how often they are made. *)

(* The count of the request in progress is its loop variable; one that is  *)
(* over was within its budget; and a refusal for want of a network comes   *)
(* at the end of a budget.                                                 *)
RequestInv ==
  /\ attempt \in 0..MaxRetries /\ sent \in [Requests -> 0..MaxRetries + 1]
  /\ stage \in Requests => sent[stage] = attempt
  /\ stage = "logs" => \A q \in Requests \ {"logs"} : sent[q] = 0
  /\ reason # "none" => stage = "refused"
  /\ GivesUpOnlyAfterRetries

Reasons ==
  {"none", HttpError, NetworkError, "WORKFLOW_LOGS_EMPTY_ARCHIVE", "COMPARE_DIFF_EMPTY"}
  \union Useless.logs \union Useless.compare

LEMMA ReasonsApart ==
  /\ Useless["logs"] = {"WORKFLOW_LOGS_EMPTY", "WORKFLOW_LOGS_UNREADABLE",
                        "WORKFLOW_LOGS_INVALID_ARCHIVE"}
  /\ Useless["compare"] = {"GITHUB_API_INVALID_JSON", "GITHUB_API_INVALID_RESPONSE",
                           "COMPARE_FILES_MISSING"}
  /\ NetworkError # "none"
  /\ \A r \in Requests : NetworkError \notin {HttpError} \union Useless[r]
  BY DEF Useless, Requests, NetworkError, HttpError

LEMMA RequestNames ==
  /\ "logs" \in Requests /\ "compare" \in Requests
  /\ \A r \in Requests : r = "logs" \/ r = "compare"
  /\ \A s \in {"refused", "raised", "concluded", "log_ingest", "diff_analysis",
                "failure_classification", "root_cause_ranker", "fix_planner", "proposing",
                "planning", "pr_creation"} : s \notin Requests
  BY DEF Requests

(* What is known when a request is made, and counted.                      *)
LEMMA RequestMade ==
  ASSUME RequestInv, NEW r \in Requests, Fetching(r)
  PROVE  /\ MaxRetries \in Nat /\ attempt \in 0..MaxRetries /\ reason = "none" /\ stage = r
         /\ sent[r] = attempt /\ sent'[r] = attempt + 1
         /\ sent' \in [Requests -> 0..MaxRetries + 1]
         /\ \A q \in Requests \ {r} : sent'[q] = sent[q]
         /\ r = "logs" => \A q \in Requests \ {r} : sent'[q] = 0
  <1>1. MaxRetries \in Nat /\ attempt \in 0..MaxRetries
    BY IngestionAssumption DEF RequestInv
  <1>2. reason = "none" /\ stage = r
    BY RequestNames DEF RequestInv, Fetching
  <1> DEFINE Counts == 0..(MaxRetries + 1)
  <1>3. sent \in [Requests -> Counts] /\ sent[r] = attempt
    BY RequestNames DEF RequestInv, Fetching
  <1>4. attempt + 1 \in Counts
    BY <1>1
  <1>5. sent' = [sent EXCEPT ![r] = sent[r] + 1]
    BY DEF Fetching
  <1> HIDE DEF Counts
  <1>6. sent' \in [Requests -> Counts]
    BY <1>3, <1>4, <1>5
  <1>7. sent'[r] = attempt + 1 /\ \A q \in Requests \ {r} : sent'[q] = sent[q]
    BY <1>3, <1>5
  <1>8. r = "logs" => \A q \in Requests \ {r} : sent'[q] = 0
    BY <1>7, <1>2 DEF RequestInv
  <1> QED
    BY <1>1, <1>3, <1>6, <1>7, <1>8, <1>2 DEF Counts

LEMMA RequestStep ==
  ASSUME RequestInv, reason \in Reasons, [Next]_vars
  PROVE  RequestInv' /\ reason' \in Reasons
  <1>1. ASSUME NEW r \in Requests, Retry(r) PROVE RequestInv' /\ reason' \in Reasons
    <2>1. Fetching(r) /\ attempt < MaxRetries /\ attempt' = attempt + 1 /\ stage' = stage
          /\ reason' = reason
      BY <1>1 DEF Retry
    <2>2. attempt' \in 0..MaxRetries /\ attempt' = sent'[r] /\ stage' = r /\ reason' = "none"
      BY <2>1, RequestMade
    <2>3. GivesUpOnlyAfterRetries'
      BY <2>2, ReasonsApart DEF GivesUpOnlyAfterRetries
    <2>4. stage' = "logs" => \A q \in Requests \ {"logs"} : sent'[q] = 0
      BY <2>1, <2>2, RequestMade
    <2>5. /\ sent' \in [Requests -> 0..MaxRetries + 1]
          /\ stage' \in Requests => sent'[stage'] = attempt'
      BY <2>1, <2>2, RequestMade
    <2>6. RequestInv'
      BY <2>2, <2>3, <2>4, <2>5 DEF RequestInv
    <2> QED
      BY <2>2, <2>6 DEF Reasons
  <1>2. ASSUME NEW r \in Requests, Fetching(r), stage' = "refused", attempt' = attempt,
               reason' \in Reasons, reason' = NetworkError => attempt >= MaxRetries
        PROVE  RequestInv' /\ reason' \in Reasons
    <2>1. /\ attempt' \in 0..MaxRetries /\ stage' \notin Requests
          /\ sent' \in [Requests -> 0..MaxRetries + 1]
      BY <1>2, RequestMade, RequestNames
    <2>2. GivesUpOnlyAfterRetries'
      <3>1. CASE reason' # NetworkError
        BY <3>1 DEF GivesUpOnlyAfterRetries, NetworkError
      <3>2. CASE reason' = NetworkError
        <4>1. sent'[r] = MaxRetries + 1
          BY <1>2, <3>2, RequestMade
        <4>2. r = "logs" => \A q \in Requests \ {r} : sent'[q] = 0
          BY <1>2, RequestMade
        <4> QED
          BY <4>1, <4>2 DEF GivesUpOnlyAfterRetries
      <3> QED
        BY <3>1, <3>2
    <2> QED
      BY <1>2, <2>1, <2>2, RequestNames DEF RequestInv
  <1>3. ASSUME NEW r \in Requests, GiveUp(r) PROVE RequestInv' /\ reason' \in Reasons
    BY <1>2, <1>3 DEF GiveUp, Refuse, Reasons
  <1>4. ASSUME NEW r \in Requests, Deny(r) PROVE RequestInv' /\ reason' \in Reasons
    <2>1. Fetching(r) /\ attempt' = attempt /\ stage' = "refused"
          /\ reason' \in {HttpError} \union Useless[r]
      BY <1>4 DEF Deny, Refuse
    <2>2. reason' # NetworkError
      BY <2>1, ReasonsApart
    <2>3. reason' \in Reasons
      BY <2>1, RequestNames DEF Reasons, Useless
    <2> QED
      BY <1>2, <2>1, <2>2, <2>3
  <1>5. ASSUME NEW r \in Requests, Fetching(r), stage' # stage, attempt' \in {0, attempt},
               stage' \in {"compare", "log_ingest", "raised"},
               stage' = "compare" => r = "logs" /\ attempt' = 0, reason' = reason
        PROVE  RequestInv' /\ reason' \in Reasons
    <2>1. /\ attempt' \in 0..MaxRetries /\ reason' = "none"
          /\ sent' \in [Requests -> 0..MaxRetries + 1]
      BY <1>5, RequestMade
    <2>2. stage' \in Requests => sent'[stage'] = attempt'
      <3> SUFFICES ASSUME stage' = "compare" PROVE sent'[stage'] = attempt'
        BY <1>5, RequestNames
      <3>1. \A q \in Requests \ {r} : sent'[q] = 0
        BY <1>5, RequestMade
      <3>2. stage' \in Requests \ {r}
        BY <1>5, RequestNames
      <3> QED
        BY <1>5, <3>1, <3>2
    <2>3. GivesUpOnlyAfterRetries'
      BY <2>1, ReasonsApart DEF GivesUpOnlyAfterRetries
    <2> QED
      BY <1>5, <2>1, <2>2, <2>3 DEF RequestInv, Reasons
  <1>6. ASSUME NEW r \in Requests, Escape(r) PROVE RequestInv' /\ reason' \in Reasons
    <2>1. stage' # stage
      BY <1>6, RequestNames DEF Escape, Fetching
    <2> QED
      BY <1>5, <1>6, <2>1 DEF Escape
  <1>7. CASE ReceiveLogs
    <2>1. CASE Refuse("WORKFLOW_LOGS_EMPTY_ARCHIVE")
      BY <1>2, <1>7, <2>1, RequestNames DEF ReceiveLogs, Refuse, Reasons, NetworkError
    <2>2. CASE stage' = "compare" /\ attempt' = 0 /\ reason' = reason
      BY <1>5, <1>7, <2>2, RequestNames DEF ReceiveLogs, Fetching
    <2> QED
      BY <1>7, <2>1, <2>2 DEF ReceiveLogs
  <1>8. CASE ReceiveCompare
    <2>1. CASE Refuse("COMPARE_DIFF_EMPTY")
      BY <1>2, <1>8, <2>1, RequestNames DEF ReceiveCompare, Refuse, Reasons, NetworkError
    <2>2. CASE stage' = "log_ingest" /\ attempt' = attempt /\ reason' = reason
      BY <1>5, <1>8, <2>2, RequestNames DEF ReceiveCompare, Fetching
    <2> QED
      BY <1>8, <2>1, <2>2 DEF ReceiveCompare
  <1>9. CASE UNCHANGED vars
    BY <1>9 DEF RequestInv, GivesUpOnlyAfterRetries, vars, collection, Reasons
  <1>10. ASSUME stage \notin Requests, stage' \notin Requests, stage # "refused",
                UNCHANGED collection
         PROVE  RequestInv' /\ reason' \in Reasons
    BY <1>10, RequestNames DEF RequestInv, GivesUpOnlyAfterRetries, collection, Reasons
  <1>11. CASE LogIngest \/ AnalyseDiff \/ Classify \/ Rank
    BY <1>10, <1>11, RequestNames DEF LogIngest, AnalyseDiff, Classify, Rank
  <1>12. CASE BeginPlan
    BY <1>10, <1>12, RequestNames DEF BeginPlan, Fails
  <1>13. CASE Propose
    BY <1>10, <1>13, RequestNames DEF Propose, Accept, Attempt, ProviderHangs, Fails
  <1>14. CASE Plan
    BY <1>10, <1>14, RequestNames DEF Plan, Fails
  <1>15. CASE Resolve
    BY <1>10, <1>15, RequestNames DEF Resolve
  <1> QED
    BY <1>1, <1>3, <1>4, <1>6, <1>7, <1>8, <1>9, <1>11, <1>12, <1>13, <1>14, <1>15
       DEF Next, Ingest, Collect

LEMMA RequestInit == Init => RequestInv /\ reason \in Reasons
  BY IngestionAssumption, ReasonsApart
     DEF Init, InitIngestion, RequestInv, GivesUpOnlyAfterRetries, Requests, Reasons

(* A request that fails has had its whole budget, whatever the one before  *)
(* it used up.                                                             *)
THEOREM RetriesAreSpent == Spec => []GivesUpOnlyAfterRetries
  <1>2. (RequestInv /\ reason \in Reasons) /\ [Next]_vars => (RequestInv /\ reason \in Reasons)'
    BY RequestStep
  <1>3. RequestInv => GivesUpOnlyAfterRetries
    BY DEF RequestInv
  <1> QED
    BY RequestInit, <1>2, <1>3, PTL DEF Spec

-----------------------------------------------------------------------------
(* What the analysis knows at each stage. *)

Ranked == {"fix_planner", "proposing", "planning", "pr_creation", "concluded"}
Classified == Ranked \union {"root_cause_ranker"}

(* A root cause is an event of the log with its score.                     *)
Scored ==
  \/ primary = NoPrimary
  \/ \E e \in events, b \in BOOLEAN :
       /\ primary.file = IF e.file = NoPath THEN Unknown ELSE e.file
       /\ primary.score = Confidence(e, b, changes, class)

AnalysisInv ==
  /\ stage \in Stages
  /\ stage \in {"compare", "log_ingest"} => \A e \in Events(log) : e.file # Unknown
  /\ \A e \in events : e.file # Unknown
  /\ class \in Classes
  /\ stage \in Classified /\ class \in {"TEST", "UNKNOWN"} => ~Drifted(changes)
  /\ stage \notin Ranked => primary = NoPrimary
  /\ Scored

LEMMA Thresholds ==
  ASSUME NEW score \in Int
  PROVE  /\ ~ (score >= 4226 /\ score <= 4225)
         /\ score > 7200 => score >= 7201
         /\ \A m \in Int : m > 4225 /\ score >= m => score >= 4226
  OBVIOUS

LEMMA Limit == MinComment \in Int
  BY DiagnosisAssumption

(* What a high score tells of the evidence.                                *)
ScoreMeans ==
  /\ primary.score \in Int /\ 0 <= primary.score /\ primary.score <= 10000
  /\ primary.score >= 7201
       => HasFile /\ (primary.file \in changes.files \/ StemName(primary.file) \in changes.modules)
  /\ primary.score >= 4226 /\ stage = "concluded"
       => HasFile \/ class \notin {"TEST", "UNKNOWN"}

LEMMA ScoredFacts ==
  ASSUME AnalysisInv
  PROVE  ScoreMeans
  <1>1. CASE primary = NoPrimary
    <2>1. primary.score = 0
      BY <1>1 DEF NoPrimary
    <2> QED
      BY <2>1 DEF ScoreMeans
  <1>2. ASSUME NEW e \in events, NEW b \in BOOLEAN,
               primary.file = IF e.file = NoPath THEN Unknown ELSE e.file,
               primary.score = Confidence(e, b, changes, class)
        PROVE  ScoreMeans
    <2>1. primary.score \in Int /\ 0 <= primary.score /\ primary.score <= 10000
      BY <1>2, ScoreRange
    <2>2. e.file # Unknown
      BY DEF AnalysisInv
    <2>3. ASSUME primary.score >= 7201
          PROVE  HasFile /\ (primary.file \in changes.files
                               \/ StemName(primary.file) \in changes.modules)
      <3>1. e.file # NoPath
              /\ (e.file \in changes.files \/ StemName(e.file) \in changes.modules)
        BY <1>2, <2>3, HighScore
      <3> QED
        BY <1>2, <2>2, <3>1 DEF HasFile
    <2>4. ASSUME primary.score >= 4226, stage = "concluded", ~HasFile
          PROVE  class \notin {"TEST", "UNKNOWN"}
      <3>1. e.file = NoPath
        BY <1>2, <2>2, <2>4 DEF HasFile
      <3>2. Drifted(changes)
        <4> SUFFICES ASSUME ~Drifted(changes) PROVE FALSE
          OBVIOUS
        <4>1. primary.score <= 4225
          BY <1>2, <3>1, LowScore
        <4>2. primary.score >= 4226
          BY <2>4
        <4> QED
          BY <2>1, <4>1, <4>2, Thresholds
      <3> QED
        BY <2>4, <3>2 DEF AnalysisInv, Classified, Ranked
    <2> QED
      BY <2>1, <2>3, <2>4 DEF ScoreMeans
  <1>3. Scored
    BY DEF AnalysisInv
  <1> QED
    BY <1>1, <1>2, <1>3, Zenon DEF Scored

LEMMA AnalysisInit == Init => AnalysisInv
  BY DEF Init, InitIngestion, AnalysisInv, Scored, Stages, Requests, Ranked, Classified, Classes,
         RulePriority

LEMMA AnalysisStep ==
  ASSUME AnalysisInv, [Next]_vars
  PROVE  AnalysisInv'
  <1>1. ASSUME NEW r \in Requests, Retry(r) \/ GiveUp(r) \/ Deny(r) \/ Escape(r),
               UNCHANGED <<setting, analysis, planning, patch>>
        PROVE  AnalysisInv'
    <2>1. /\ UNCHANGED log /\ stage = r
          /\ stage' = stage \/ stage' \in {"refused", "raised"}
      BY <1>1 DEF Retry, GiveUp, Deny, Escape, Refuse, Fetching
    <2> QED
      BY <1>1, <2>1, RequestNames DEF AnalysisInv, Scored, Stages, Ended, Ranked, Classified, analysis
  <1>2. CASE ReceiveLogs /\ UNCHANGED <<setting, analysis, planning, patch>>
    <2>1. stage = "logs"
      BY <1>2 DEF ReceiveLogs, Fetching
    <2>2. CASE stage' = "refused"
      BY <1>2, <2>1, <2>2 DEF AnalysisInv, Scored, Stages, Ended, Ranked, Classified, analysis
    <2>3. ASSUME NEW body \in Logs, body.parts # <<>>, log' = Unpacked(body), stage' = "compare"
          PROVE  AnalysisInv'
      <3>1. \A e \in Events(log') : e.file # Unknown
        BY <2>3, NamedAssumption
      <3> QED
        BY <1>2, <2>1, <2>3, <3>1
           DEF AnalysisInv, Scored, Stages, Requests, Ranked, Classified, analysis
    <2> QED
      BY <1>2, <2>2, <2>3 DEF ReceiveLogs, Refuse
  <1>3. CASE ReceiveCompare /\ UNCHANGED <<setting, analysis, planning, patch>>
    <2>1. stage = "compare" /\ (stage' = "refused" \/ (stage' = "log_ingest" /\ UNCHANGED log))
      BY <1>3 DEF ReceiveCompare, Fetching, Refuse
    <2> QED
      BY <1>3, <2>1 DEF AnalysisInv, Scored, Stages, Ended, Ranked, Classified, analysis
  <1>4. CASE LogIngest
    <2>1. events' \subseteq Events(log)
      BY <1>4 DEF LogIngest, Selected
    <2> QED
      BY <1>4, <2>1 DEF LogIngest, AnalysisInv, Scored, Stages, Ranked, Classified
  <1>5. CASE AnalyseDiff
    BY <1>5 DEF AnalyseDiff, AnalysisInv, Scored, Stages, Ranked, Classified
  <1>6. CASE Classify
    <2>1. PICK hits, f : class' = Classification(hits, changes, f)
      BY <1>6 DEF Classify
    <2>2. /\ class' \in Classes
          /\ class' \in {"TEST", "UNKNOWN"} => ~Drifted(changes)
      BY <2>1, ClassFacts
    <2> QED
      BY <1>6, <2>2 DEF Classify, AnalysisInv, Scored, Stages, Ranked, Classified
  <1>7. CASE Rank
    <2>1. Scored'
      <3>1. CASE events = {}
        BY <1>7, <3>1 DEF Rank, AnalysisInv, Scored
      <3>2. CASE primary' \in Primaries(events, first, changes, class)
        <4>1. PICK e \in events :
                primary' = [index |-> e.index, line |-> e.line,
                            file |-> IF e.file = NoPath THEN Unknown ELSE e.file,
                            score |-> Confidence(e, e = first, changes, class)]
          BY <3>2 DEF Primaries, Candidates
        <4>2. /\ primary'.file = IF e.file = NoPath THEN Unknown ELSE e.file
              /\ primary'.score = Confidence(e, e = first, changes, class)
          BY <4>1
        <4>3. (e = first) \in BOOLEAN
          OBVIOUS
        <4> QED
          BY <1>7, <4>2, <4>3 DEF Rank, Scored
      <3> QED
        BY <1>7, <3>1, <3>2 DEF Rank
    <2> QED
      BY <1>7, <2>1 DEF Rank, AnalysisInv, Stages, Ranked, Classified
  <1>8. ASSUME stage \in Ranked, stage' \in Ranked, UNCHANGED analysis
        PROVE  AnalysisInv'
    BY <1>8 DEF AnalysisInv, Scored, Stages, Ended, Ranked, Classified, analysis
  <1>9. CASE BeginPlan \/ Plan
    BY <1>8, <1>9 DEF BeginPlan, Plan, Fails, Ranked
  <1>10. CASE Propose
    BY <1>8, <1>10 DEF Propose, Accept, Attempt, ProviderHangs, Fails, Ranked
  <1>11. CASE Resolve
    BY <1>8, <1>11 DEF Resolve, Ranked
  <1>12. CASE UNCHANGED vars
    BY <1>12 DEF AnalysisInv, Scored, vars, collection, analysis
  <1> QED
    BY <1>1, <1>2, <1>3, <1>4, <1>5, <1>6, <1>7, <1>9, <1>10, <1>11, <1>12
       DEF Next, Ingest, Collect

(* The root cause stays what the log and the change make of it.            *)
THEOREM AnalysisInvariant == Spec => []AnalysisInv
  BY AnalysisInit, AnalysisStep, PTL DEF Spec

(* A score above 0.72 names a changed file or module.                      *)
THEOREM ConfidenceIsEarned == Spec => []ConfidentMeansChanged
  <1>1. AnalysisInv => ConfidentMeansChanged
    <2> SUFFICES ASSUME AnalysisInv, primary.score > 7200
                 PROVE  HasFile /\ (primary.file \in changes.files
                                      \/ StemName(primary.file) \in changes.modules)
      BY DEF ConfidentMeansChanged
    <2>1. primary.score \in Int
      BY ScoredFacts DEF ScoreMeans
    <2>2. primary.score >= 7201
      BY <2>1, Thresholds
    <2> QED
      BY <2>2, ScoredFacts DEF ScoreMeans
  <1> QED
    BY <1>1, AnalysisInvariant, PTL

-----------------------------------------------------------------------------
(* The proposer and the planner. *)

Replies == {"success", "contract", "provider"}

(* Attempts end within their budget, and an exception of the planner ends  *)
(* the run.                                                                *)
PlanInv ==
  /\ replies \in Seq(Replies) /\ Len(replies) <= MaxAttempts
  /\ stage = "proposing" => Len(replies) < MaxAttempts
  /\ stage \notin {"proposing", "planning", "pr_creation", "concluded"} => replies = <<>>
  /\ trouble \in {"none", "NO_PRIMARY", "MISSING_KEY", "TIMEOUT", "REJECTED"}
  /\ trouble # "none" => stage = "concluded"
  /\ trouble \in {"NO_PRIMARY", "MISSING_KEY"} => replies = <<>>
  /\ trouble = "TIMEOUT" => Len(replies) < MaxAttempts

LEMMA PlanInit == Init => PlanInv
  BY DiagnosisAssumption DEF Init, InitIngestion, PlanInv

LEMMA RepliedFacts ==
  ASSUME replies \in Seq(Replies),
         Replied("success") \/ Replied("contract") \/ Replied("provider")
  PROVE  replies' \in Seq(Replies) /\ Len(replies') = Len(replies) + 1
  <1>1. PICK how \in Replies : replies' = Append(replies, how)
    BY DEF Replied, Replies
  <1> QED
    BY <1>1

LEMMA PlanStep ==
  ASSUME PlanInv, [Next]_vars
  PROVE  PlanInv'
  <1> USE DiagnosisAssumption DEF PlanInv
  <1>1. ASSUME stage \notin {"proposing", "planning", "pr_creation", "concluded"},
               stage' # "proposing", UNCHANGED planning
        PROVE  PlanInv'
    BY <1>1 DEF planning
  <1>2. CASE Ingest
    <2>1. stage \in Requests /\ stage' # "proposing" /\ UNCHANGED planning
      BY <1>2, RequestNames
         DEF Ingest, Collect, Retry, GiveUp, Deny, Escape, Refuse, Fetching, ReceiveLogs,
             ReceiveCompare
    <2> QED
      BY <1>1, <2>1, RequestNames
  <1>3. CASE LogIngest \/ AnalyseDiff \/ Classify \/ Rank
    BY <1>1, <1>3 DEF LogIngest, AnalyseDiff, Classify, Rank
  <1>4. CASE BeginPlan
    BY <1>4 DEF BeginPlan, Fails
  <1>5. ASSUME stage = "proposing", stage' \in {"proposing", "planning"}, UNCHANGED trouble,
               stage' = "proposing" => Len(replies') < MaxAttempts,
               Replied("success") \/ Replied("contract") \/ Replied("provider")
        PROVE  PlanInv'
    <2>1. replies \in Seq(Replies) /\ Len(replies) < MaxAttempts
      BY <1>5
    <2>2. /\ replies' \in Seq(Replies) /\ Len(replies') = Len(replies) + 1
          /\ Len(replies) < MaxAttempts /\ Len(replies) \in Nat
      BY <1>5, <2>1, RepliedFacts
    <2>3. Len(replies') <= MaxAttempts
      BY <2>2
    <2>4. trouble = "none"
      BY <1>5
    <2> QED
      BY <1>5, <2>2, <2>3, <2>4
  <1>6. CASE Accept \/ Attempt
    <2>1. CASE Accept
      <3>1. stage = "proposing" /\ stage' = "planning" /\ UNCHANGED trouble /\ Replied("success")
        BY <2>1 DEF Accept
      <3> QED
        BY <1>5, <3>1
    <2>2. CASE Attempt
      <3>1. Replied("contract") \/ Replied("provider")
        BY <2>2 DEF Attempt
      <3>2. /\ stage = "proposing" /\ UNCHANGED trouble
            /\ stage' = IF Len(replies') >= MaxAttempts THEN "planning" ELSE stage
        BY <2>2 DEF Attempt
      <3>3. Len(replies') \in Nat
        BY <3>1 DEF Replied
      <3>4. stage' \in {"proposing", "planning"}
              /\ (stage' = "proposing" => Len(replies') < MaxAttempts)
        BY <3>2, <3>3
      <3> QED
        BY <1>5, <3>1, <3>2, <3>4
    <2> QED
      BY <1>6, <2>1, <2>2
  <1>7. CASE ProviderHangs
    BY <1>7 DEF ProviderHangs, Fails
  <1>8. CASE Plan
    BY <1>8 DEF Plan, Fails
  <1>9. CASE Resolve
    BY <1>9 DEF Resolve, planning
  <1>10. CASE UNCHANGED vars
    BY <1>10 DEF vars, planning
  <1> QED
    BY <1>2, <1>3, <1>4, <1>6, <1>7, <1>8, <1>9, <1>10 DEF Next, Propose

(* Attempts stay within their budget, and the planner's failures are told. *)
THEOREM PlanInvariant == Spec => []PlanInv
  BY PlanInit, PlanStep, PTL DEF Spec

(* What a refused plan tells of its steps. *)
LEMMA PlannedSteps ==
  ASSUME NEW c, NEW fl, NEW ch, NEW file, NEW offered,
         \A s \in offered : s.file = file,
         Speculative(Steps(c, fl, ch, file, offered), file)
           \/ Conflicting(Steps(c, fl, ch, file, offered))
  PROVE  \/ \E s, t \in offered : ~ s.refs \subseteq {file} \/ s.op # t.op
         \/ c = "DEPENDENCY" /\ Requirements \in ch.files \ {file}
  <1> DEFINE all == Steps(c, fl, ch, file, offered)
  <1>1. /\ Plain(file).file = file /\ Plain(file).refs = {}
    BY DEF Plain
  <1>2. CASE all = {Plain(file)}
    BY <1>1, <1>2 DEF Speculative, Conflicting
  <1>3. CASE all = offered
    BY <1>3 DEF Speculative, Conflicting
  <1>4. CASE all = {Hint(file, ch)} /\ c = "DEPENDENCY"
               /\ (Hinting \union {Requirements}) \cap ch.files # {}
    <2>1. /\ Hint(file, ch).file = file
          /\ Hint(file, ch).refs = IF Hinting \cap ch.files = {} THEN {Requirements} ELSE {}
      BY DEF Hint, Plain
    <2>2. ~ Hint(file, ch).refs \subseteq {file}
      BY <1>4, <2>1 DEF Speculative, Conflicting
    <2>3. Hinting \cap ch.files = {} /\ Requirements # file
      BY <2>1, <2>2
    <2> QED
      BY <1>4, <2>3
  <1> QED
    BY <1>2, <1>3, <1>4 DEF Steps

(* The two reasons, of the proposal p, the class c and the change ch.      *)
Reasoned(p, file, c, ch) ==
  \/ \E s, t \in Offered(p, file) : ~ s.refs \subseteq {file} \/ s.op # t.op
  \/ c = "DEPENDENCY" /\ Requirements \in ch.files \ {file}

(* A plan is refused for one of two reasons, whatever the model answered.  *)
THEOREM RefusalsHaveReasons == Spec => []RefusalsExplained
  <1>1. Init => RefusalsExplained
    BY DEF Init, RefusalsExplained
  <1>2. ASSUME PlanInv, RefusalsExplained, [Next]_vars
        PROVE  RefusalsExplained'
    <2>1. trouble = "REJECTED" => Reasoned(proposal, primary.file, class, changes)
      BY <1>2 DEF RefusalsExplained, Reasoned, Offered
    <2>2. trouble # "none" => stage = "concluded"
      BY <1>2 DEF PlanInv
    <2> SUFFICES ASSUME trouble' = "REJECTED"
                 PROVE  Reasoned(proposal, primary.file, class, changes)'
      BY DEF RefusalsExplained, Reasoned, Offered
    <2>3. CASE Plan
      <3>1. UNCHANGED <<class, changes, primary, proposal>>
        BY <2>3 DEF Plan, analysis
      <3>2. trouble' = trouble
              \/ (Speculative(Planned, primary.file) \/ Conflicting(Planned))
        BY <2>3 DEF Plan
      <3>3. \A s \in Offered(proposal, primary.file) : s.file = primary.file
        BY DEF Offered
      <3>4. Speculative(Planned, primary.file) \/ Conflicting(Planned)
              => Reasoned(proposal, primary.file, class, changes)
        BY <3>3, PlannedSteps DEF Planned, Reasoned
      <3> QED
        BY <2>1, <3>1, <3>2, <3>4
    <2>4. ASSUME trouble' = "REJECTED" => trouble = "REJECTED",
                 stage = "concluded" => UNCHANGED <<class, changes, primary, proposal>>
          PROVE  Reasoned(proposal, primary.file, class, changes)'
      BY <2>1, <2>4, <2>2
    <2>5. CASE UNCHANGED vars
      BY <2>4, <2>5 DEF vars, analysis, planning
    <2>6. CASE Ingest
      <3>1. UNCHANGED trouble /\ stage \in Requests
        BY <2>6 DEF Ingest, planning, Collect, Retry, GiveUp, Deny, Escape, Fetching,
                    ReceiveLogs, ReceiveCompare, Requests
      <3> QED
        BY <2>4, <3>1, RequestNames
    <2>7. CASE LogIngest \/ AnalyseDiff \/ Classify \/ Rank \/ Resolve
      <3>1. UNCHANGED trouble /\ stage # "concluded"
        BY <2>7 DEF LogIngest, AnalyseDiff, Classify, Rank, Resolve, planning
      <3> QED
        BY <2>4, <3>1
    <2>8. CASE BeginPlan
      <3>1. stage # "concluded" /\ (trouble' # "REJECTED" \/ UNCHANGED trouble)
        BY <2>8 DEF BeginPlan, Fails
      <3> QED
        BY <2>4, <3>1
    <2>9. CASE Propose
      <3>1. stage # "concluded" /\ (trouble' # "REJECTED" \/ UNCHANGED trouble)
        BY <2>9 DEF Propose, Accept, Attempt, ProviderHangs, Fails
      <3> QED
        BY <2>4, <3>1
    <2> QED
      BY <1>2, <2>3, <2>5, <2>6, <2>7, <2>8, <2>9 DEF Next
  <1> QED
    BY <1>1, <1>2, PlanInvariant, PTL DEF Spec

-----------------------------------------------------------------------------
(* Without a proposal. *)

Refusing == Speculative(Planned, primary.file) \/ Conflicting(Planned)

(* The plan is the one of the proposal that was accepted, if any was.      *)
Settled ==
  /\ "success" \notin ToSet(replies) => proposal = NoProposal
  /\ stage \notin {"pr_creation", "concluded"} \/ trouble # "none" => steps = {}
  /\ stage \in {"pr_creation", "concluded"} /\ trouble = "none" => steps = Planned /\ ~Refusing
  /\ trouble = "REJECTED" => Refusing
  /\ stage # "concluded" => DOMAIN patch = {}
  /\ proposal = NoProposal => DOMAIN patch \subseteq {Target}

LEMMA SettledInit == Init => Settled
  BY DEF Init, InitIngestion, Settled

(* Nothing is offered, and nothing is written but a synthesized repair.    *)
LEMMA NothingProposed ==
  ASSUME NEW file, NEW c, NEW line, NEW shown, NEW worktree
  PROVE  /\ Offered(NoProposal, file) = {}
         /\ DOMAIN Resolved(c, file, line, NoProposal, shown, worktree) \subseteq {file}
  <1>1. NoProposal.steps = {} /\ NoProposal.plan = <<>>
    BY DEF NoProposal
  <1>2. DOMAIN Proposed(NoProposal, c) = {}
    BY <1>1 DEF Proposed
  <1> QED
    BY <1>1, <1>2 DEF Offered, Resolved

(* Everything the plan is made of stays.                                   *)
LEMMA PlannedStays ==
  ASSUME UNCHANGED <<class, flaky, changes, primary, proposal>>
  PROVE  Planned' = Planned /\ Refusing' = Refusing /\ Target' = Target
  BY DEF Target, Planned, Refusing, Steps, Offered, Speculative, Conflicting, Hint, Plain

LEMMA RepliesGrow ==
  ASSUME replies \in Seq(Replies), NEW how \in Replies, Replied(how)
  PROVE  ToSet(replies') = ToSet(replies) \union {how}
  <1>1. /\ Len(replies') = Len(replies) + 1 /\ Len(replies) \in Nat
        /\ replies'[Len(replies) + 1] = how
        /\ \A i \in 1..Len(replies) : replies'[i] = replies[i]
    BY DEF Replied
  <1>2. DOMAIN replies = 1..Len(replies) /\ DOMAIN replies' = 1..Len(replies')
    BY DEF Replied
  <1>3. DOMAIN replies' = (DOMAIN replies) \union {Len(replies) + 1}
    BY <1>1, <1>2
  <1> QED
    BY <1>1, <1>2, <1>3 DEF ToSet

LEMMA SettledStep ==
  ASSUME PlanInv, Settled, [Next]_vars
  PROVE  Settled'
  <1>1. /\ replies \in Seq(Replies)
        /\ trouble # "none" => stage = "concluded"
    BY DEF PlanInv
  <1>2. CASE UNCHANGED vars
    <2>1. UNCHANGED <<stage, replies, steps, trouble, patch, proposal, class, flaky, changes,
                      primary>>
      BY <1>2 DEF vars, analysis, planning
    <2> QED
      BY <2>1, PlannedStays DEF Settled
  <1>3. ASSUME stage \notin {"pr_creation", "concluded"}, stage' \notin {"pr_creation", "concluded"},
               UNCHANGED planning, UNCHANGED patch
        PROVE  Settled'
    BY <1>1, <1>3 DEF Settled, planning
  <1>4. CASE Ingest \/ LogIngest \/ AnalyseDiff \/ Classify \/ Rank
    <2>1. /\ UNCHANGED <<planning, patch>>
          /\ stage \notin {"pr_creation", "concluded"} /\ stage' \notin {"pr_creation", "concluded"}
      BY <1>4, RequestNames
         DEF Ingest, Collect, Retry, GiveUp, Deny, Escape, Refuse, Fetching, ReceiveLogs,
             ReceiveCompare, LogIngest, AnalyseDiff, Classify, Rank
    <2> QED
      BY <1>3, <2>1
  <1>5. CASE BeginPlan
    <2>1. /\ stage = "fix_planner" /\ UNCHANGED <<replies, proposal, steps, patch>>
          /\ \/ stage' = "concluded" /\ trouble' \in {"NO_PRIMARY", "MISSING_KEY"}
             \/ stage' \in {"proposing", "planning"} /\ UNCHANGED trouble
      BY <1>5 DEF BeginPlan, Fails
    <2> QED
      BY <1>1, <2>1 DEF Settled
  <1>6. CASE Accept
    <2>1. /\ stage = "proposing" /\ stage' = "planning" /\ Replied("success")
          /\ UNCHANGED <<steps, trouble, patch>>
      BY <1>6 DEF Accept
    <2>2. "success" \in ToSet(replies')
      BY <1>1, <2>1, RepliesGrow DEF Replies
    <2> QED
      BY <1>1, <2>1, <2>2 DEF Settled
  <1>7. CASE Attempt
    <2>1. /\ stage = "proposing" /\ stage' \in {"proposing", "planning"}
          /\ Replied("contract") \/ Replied("provider")
          /\ UNCHANGED <<proposal, steps, trouble, patch>>
      BY <1>7 DEF Attempt
    <2>2. "success" \in ToSet(replies) => "success" \in ToSet(replies')
      BY <1>1, <2>1, RepliesGrow DEF Replies
    <2> QED
      BY <1>1, <2>1, <2>2 DEF Settled
  <1>8. CASE ProviderHangs
    <2>1. /\ stage = "proposing" /\ stage' = "concluded" /\ trouble' = "TIMEOUT"
          /\ UNCHANGED <<replies, proposal, steps, patch>>
      BY <1>8 DEF ProviderHangs, Fails
    <2> QED
      BY <1>1, <2>1 DEF Settled
  <1>9. CASE Plan
    <2>1. /\ stage = "planning"
          /\ UNCHANGED <<class, flaky, changes, primary, proposal, replies, patch>>
          /\ \/ Refusing /\ stage' = "concluded" /\ trouble' = "REJECTED" /\ UNCHANGED steps
             \/ ~Refusing /\ stage' = "pr_creation" /\ steps' = Planned /\ UNCHANGED trouble
      BY <1>9 DEF Plan, Fails, Refusing, analysis
    <2>2. Planned' = Planned /\ Refusing' = Refusing
      BY <2>1, PlannedStays
    <2> QED
      BY <1>1, <2>1, <2>2 DEF Settled
  <1>10. CASE Resolve
    <2>1. /\ stage = "pr_creation" /\ stage' = "concluded"
          /\ UNCHANGED <<class, flaky, changes, primary, proposal, replies, steps, trouble>>
      BY <1>10 DEF Resolve, analysis, planning
    <2>2. Planned' = Planned /\ Refusing' = Refusing /\ Target' = Target
      BY <2>1, PlannedStays
    <2>3. \/ UNCHANGED patch
          \/ \E shown : patch' = Resolved(class, Target, primary.line, proposal, shown,
                                         Worktree(Target))
      BY <1>10 DEF Resolve
    <2>4. proposal = NoProposal => DOMAIN patch' \subseteq {Target}
      BY <2>1, <2>3, NothingProposed DEF Settled
    <2> QED
      BY <1>1, <2>1, <2>2, <2>4 DEF Settled
  <1> QED
    BY <1>2, <1>4, <1>5, <1>6, <1>7, <1>8, <1>9, <1>10 DEF Next, Propose

(* A model without a valid answer leaves the deterministic plan and patch. *)
THEOREM ExhaustionFallsBack == Spec => []FallsBack
  <1>1. PlanInv /\ Settled => FallsBack
    <2> SUFFICES ASSUME PlanInv, Settled, stage = "concluded", Len(replies) = MaxAttempts,
                        "success" \notin ToSet(replies)
                 PROVE  LET plan == Steps(class, flaky, changes, primary.file, {})
                        IN  /\ steps = IF Speculative(plan, primary.file) THEN {} ELSE plan
                            /\ DOMAIN patch \subseteq {Target}
      BY DEF FallsBack, Exhausted
    <2>1. proposal = NoProposal
      BY DEF Settled
    <2>2. Planned = Steps(class, flaky, changes, primary.file, {})
      BY <2>1, NothingProposed DEF Planned
    <2>3. \E s : Planned = {s}
      BY <2>2 DEF Steps
    <2>4. ~Conflicting(Planned)
      BY <2>3 DEF Conflicting
    <2>5. trouble \in {"none", "REJECTED"}
      <3>1. MaxAttempts # 0
        BY DiagnosisAssumption
      <3> QED
        BY <3>1 DEF PlanInv
    <2>6. DOMAIN patch \subseteq {Target}
      BY <2>1 DEF Settled
    <2>7. CASE Speculative(Planned, primary.file)
      BY <2>2, <2>5, <2>6, <2>7 DEF Settled, Refusing
    <2>8. CASE ~Speculative(Planned, primary.file)
      BY <2>2, <2>4, <2>5, <2>6, <2>8 DEF Settled, Refusing
    <2> QED
      BY <2>7, <2>8
  <1>2. Init => PlanInv /\ Settled
    BY PlanInit, SettledInit
  <1>3. PlanInv /\ Settled /\ [Next]_vars => (PlanInv /\ Settled)'
    BY PlanStep, SettledStep
  <1> QED
    BY <1>1, <1>2, <1>3, PTL DEF Spec

-----------------------------------------------------------------------------
(* The analysis as the server sees it. *)

Inv == AnalysisInv /\ PlanInv

(* What a finished run reports is one of the findings of Analysis.         *)
LEMMA FindingIsPossible ==
  ASSUME Inv, stage = "concluded"
  PROVE  Finding \in A!Possible
  <1> DEFINE confident == primary.score >= MinComment
             clear == class \notin {"TEST", "UNKNOWN"}
             inDiff == /\ HasFile /\ primary.line > 0
                       /\ LineMapsToDiff(diff, primary.file, primary.line)
             agentic == AgenticReason(trouble)
             done == IF trouble = "none" THEN Upstream ELSE Upstream \ {"fix_planner"}
  <1>1. Finding = [done |-> done, confident |-> confident, clear |-> clear,
                   located |-> HasFile, inDiff |-> inDiff, agentic |-> agentic]
    BY DEF Finding
  <1>2. MinComment > 4225 /\ confident => HasFile \/ clear
    <2>1. primary.score \in Int
      BY ScoredFacts DEF ScoreMeans, Inv
    <2>2. MinComment > 4225 /\ confident => primary.score >= 4226
      BY <2>1, Limit, Thresholds
    <2> QED
      BY <2>2, ScoredFacts DEF ScoreMeans, Inv
  <1>3. /\ confident \in BOOLEAN /\ clear \in BOOLEAN /\ HasFile \in BOOLEAN
        /\ inDiff \in BOOLEAN /\ agentic \in {"none"} \union A!Codes
    BY DEF HasFile, AgenticReason, A!Codes
  <1>4. inDiff => HasFile
    OBVIOUS
  <1>5. done \in {Upstream, Upstream \ {"fix_planner"}}
    OBVIOUS
  <1>6. agentic # "none" => "fix_planner" \notin done
    <2>1. trouble = "none" => agentic = "none"
      BY DEF AgenticReason
    <2> QED
      BY <2>1
  <1> HIDE DEF confident, clear, inDiff, agentic, done
  <1> QED
    BY <1>1, <1>2, <1>3, <1>4, <1>5, <1>6 DEF A!Possible

Reports == stage = "concluded" => Finding \in A!Possible

LEMMA AlwaysReports == Spec => []Reports
  <1>1. Inv => Reports
    BY FindingIsPossible DEF Reports
  <1> QED
    BY <1>1, AnalysisInvariant, PlanInvariant, PTL DEF Inv

(* An analysis implements what AppServer takes it for.                     *)
THEOREM DiagnosisIsAnAnalysis == Spec => ImplementsAnalysis
  <1>1. Init => A!Init
    BY DEF Init, InitIngestion, A!Init, A!Nothing, State, NoFinding
  <1>2. Reports' /\ [Next]_vars
          => [A!Next]_<<State, IF stage = "concluded" THEN Finding ELSE NoFinding>>
    <2> SUFFICES ASSUME Reports', [Next]_vars
                 PROVE  \/ A!Next
                        \/ UNCHANGED <<State, IF stage = "concluded" THEN Finding ELSE NoFinding>>
      OBVIOUS
    <2>1. CASE stage \notin Ended /\ stage' = "concluded"
      <3>1. Finding' \in A!Possible
        BY <2>1 DEF Reports
      <3> QED
        BY <2>1, <3>1 DEF A!Next, A!Conclude, State, Ended
    <2>2. CASE stage \notin Ended /\ stage' \in {"refused", "raised"}
      BY <2>2 DEF A!Next, A!Abandon, State, Ended
    <2>3. CASE stage \notin Ended /\ stage' \notin Ended
      BY <2>3 DEF State, Ended
    <2>4. CASE UNCHANGED vars
      <3>1. UNCHANGED <<stage, diff, class, primary, trouble>>
        BY <2>4 DEF vars, collection, analysis, planning
      <3>2. Finding' = Finding /\ State' = State
        BY <3>1 DEF Finding, State, HasFile
      <3> QED
        BY <3>1, <3>2
    <2>5. Next => stage \notin Ended
      BY DEF Next, Ended, Ingest, Collect, Retry, GiveUp, Deny, Escape, Fetching, Requests,
             ReceiveLogs, ReceiveCompare, LogIngest, AnalyseDiff, Classify, Rank, BeginPlan,
             Propose, Accept, Attempt, ProviderHangs, Plan, Resolve
    <2> QED
      BY <2>1, <2>2, <2>3, <2>4, <2>5 DEF Ended
  <1> QED
    BY <1>1, <1>2, AlwaysReports, PTL DEF Spec, ImplementsAnalysis, A!Spec

-----------------------------------------------------------------------------
(* Types. *)

Small == setting \in Settings /\ flaky \in BOOLEAN

LEMMA SmallStep == Small /\ [Next]_vars => Small'
  <1> SUFFICES ASSUME Small, [Next]_vars PROVE Small'
    OBVIOUS
  <1>1. CASE Classify
    BY <1>1 DEF Classify, Flaky, Small
  <1>2. CASE UNCHANGED <<setting, flaky>>
    BY <1>2 DEF Small
  <1>3. Next => Classify \/ UNCHANGED <<setting, flaky>>
    BY DEF Next, Ingest, LogIngest, AnalyseDiff, Rank, BeginPlan, Propose, Accept, Attempt,
           ProviderHangs, Plan, Resolve, analysis
  <1>4. UNCHANGED vars => UNCHANGED <<setting, flaky>>
    BY DEF vars, analysis
  <1> QED
    BY <1>1, <1>2, <1>3, <1>4

(* Retries, attempts and scores stay within their bounds, and a run is at  *)
(* one of its stages, for one of the reasons it knows.                     *)
THEOREM TypeCorrect == Spec => []TypeOK
  <1>1. RequestInv /\ reason \in Reasons /\ Inv /\ Small => TypeOK
    <2> SUFFICES ASSUME RequestInv, reason \in Reasons, Inv, Small PROVE TypeOK
      OBVIOUS
    <2>1. primary.score \in Nat /\ primary.score <= 10000
      BY ScoredFacts DEF ScoreMeans, Inv
    <2>2. stage \in Stages /\ class \in Classes
      BY DEF Inv, AnalysisInv
    <2>3. /\ Len(replies) <= MaxAttempts
          /\ trouble \in {"none", "NO_PRIMARY", "MISSING_KEY", "TIMEOUT", "REJECTED"}
      BY DEF Inv, PlanInv
    <2>4. /\ attempt \in 0..MaxRetries /\ sent \in [Requests -> 0..MaxRetries + 1]
      BY DEF RequestInv
    <2>5. reason \in {"none", HttpError, NetworkError, "WORKFLOW_LOGS_EMPTY_ARCHIVE",
                      "COMPARE_DIFF_EMPTY"} \union Useless.logs \union Useless.compare
      BY DEF Reasons
    <2> QED
      BY <2>1, <2>2, <2>3, <2>4, <2>5 DEF TypeOK, Small
  <1>2. Init => RequestInv /\ reason \in Reasons /\ Small
    BY RequestInit DEF Init, Small
  <1>3. RequestInv /\ reason \in Reasons /\ [Next]_vars => (RequestInv /\ reason \in Reasons)'
    BY RequestStep
  <1> QED
    BY <1>1, <1>2, <1>3, SmallStep, AnalysisInvariant, PlanInvariant, PTL DEF Spec, Inv

-----------------------------------------------------------------------------
(* Termination: what is left of the stages, retries and attempts.          *)

Left ==
  CASE stage = "logs" -> 2 * MaxRetries + MaxAttempts + 10 - attempt
    [] stage = "compare" -> MaxRetries + MaxAttempts + 9 - attempt
    [] stage = "log_ingest" -> MaxAttempts + 8
    [] stage = "diff_analysis" -> MaxAttempts + 7
    [] stage = "failure_classification" -> MaxAttempts + 6
    [] stage = "root_cause_ranker" -> MaxAttempts + 5
    [] stage = "fix_planner" -> MaxAttempts + 4
    [] stage = "proposing" -> MaxAttempts + 3 - Len(replies)
    [] stage = "planning" -> 2
    [] stage = "pr_creation" -> 1
    [] OTHER -> 0

LeftValues ==
  /\ stage = "logs" => Left = 2 * MaxRetries + MaxAttempts + 10 - attempt
  /\ stage = "compare" => Left = MaxRetries + MaxAttempts + 9 - attempt
  /\ stage = "log_ingest" => Left = MaxAttempts + 8
  /\ stage = "diff_analysis" => Left = MaxAttempts + 7
  /\ stage = "failure_classification" => Left = MaxAttempts + 6
  /\ stage = "root_cause_ranker" => Left = MaxAttempts + 5
  /\ stage = "fix_planner" => Left = MaxAttempts + 4
  /\ stage = "proposing" => Left = MaxAttempts + 3 - Len(replies)
  /\ stage = "planning" => Left = 2
  /\ stage = "pr_creation" => Left = 1
  /\ stage \in Ended => Left = 0

LEMMA LeftIs == LeftValues /\ LeftValues'
  <1>1. LeftValues
    BY Zenon DEF LeftValues, Left, Ended
  <1>2. LeftValues'
    BY Zenon DEF LeftValues, Left, Ended
  <1> QED
    BY <1>1, <1>2

Longest == 2 * MaxRetries + MaxAttempts + 10

Bounded == attempt \in 0..MaxRetries /\ PlanInv

LEMMA LeftIsBounded ==
  ASSUME Bounded, stage \in Stages
  PROVE  /\ Left \in 0..Longest
         /\ stage \in Ended <=> Left = 0
  <1>1. /\ MaxRetries \in Nat /\ MaxAttempts \in Nat /\ MaxAttempts > 0
        /\ attempt \in Nat /\ attempt <= MaxRetries
    BY IngestionAssumption, DiagnosisAssumption DEF Bounded
  <1>2. /\ Len(replies) \in Nat /\ Len(replies) <= MaxAttempts
    BY DEF Bounded, PlanInv
  <1> QED
    <2>1. CASE stage \in Ended
      BY <1>1, <2>1, LeftIs DEF LeftValues, Longest
    <2>2. CASE stage \in Stages \ Ended
      <3>1. CASE stage \in Requests
        BY <1>1, <2>2, <3>1, LeftIs DEF LeftValues, Longest, Requests
      <3>2. CASE stage = "proposing"
        BY <1>1, <1>2, <2>2, <3>2, LeftIs DEF LeftValues, Longest
      <3>3. CASE stage \in {"log_ingest", "diff_analysis", "failure_classification",
                            "root_cause_ranker", "fix_planner", "planning", "pr_creation"}
        BY <1>1, <2>2, <3>3, LeftIs DEF LeftValues, Longest
      <3> QED
        BY <2>2, <3>1, <3>2, <3>3 DEF Stages
    <2> QED
      BY <2>1, <2>2

LEMMA StepsLeave ==
  ASSUME Bounded, Bounded', Next
  PROVE  Left' < Left
  <1>1. /\ MaxRetries \in Nat /\ MaxAttempts \in Nat
        /\ attempt \in Nat /\ attempt <= MaxRetries
        /\ attempt' \in Nat /\ attempt' <= MaxRetries
    BY IngestionAssumption, DiagnosisAssumption DEF Bounded
  <1>2. /\ replies \in Seq(Replies) /\ Len(replies) \in Nat /\ Len(replies) <= MaxAttempts
        /\ Len(replies') \in Nat /\ Len(replies') <= MaxAttempts
        /\ stage = "fix_planner" => Len(replies) = 0
    BY DEF Bounded, PlanInv
  <1>3. CASE Ingest
    <2>1. ASSUME NEW r \in Requests, Retry(r) PROVE Left' < Left
      <3>1. (r = "logs" \/ r = "compare") /\ stage = r /\ stage' = r /\ attempt' = attempt + 1
        BY <2>1, RequestNames DEF Retry, Fetching
      <3> QED
        BY <1>1, <3>1, LeftIs DEF LeftValues
    <2>2. ASSUME stage \in Requests, stage' \in {"refused", "raised"} PROVE Left' < Left
      BY <1>1, <2>2, LeftIs DEF LeftValues, Requests, Ended
    <2>3. ASSUME NEW r \in Requests, GiveUp(r) \/ Deny(r) \/ Escape(r) PROVE Left' < Left
      BY <2>2, <2>3 DEF GiveUp, Deny, Escape, Refuse, Fetching
    <2>4. CASE ReceiveLogs
      <3>1. stage = "logs" /\ (stage' = "refused" \/ (stage' = "compare" /\ attempt' = 0))
        BY <2>4 DEF ReceiveLogs, Refuse, Fetching
      <3> QED
        BY <1>1, <2>2, <3>1, RequestNames, LeftIs DEF LeftValues
    <2>5. CASE ReceiveCompare
      <3>1. stage = "compare" /\ stage' \in {"refused", "log_ingest"}
        BY <2>5 DEF ReceiveCompare, Refuse, Fetching
      <3> QED
        BY <1>1, <2>2, <3>1, RequestNames, LeftIs DEF LeftValues
    <2> QED
      BY <1>3, <2>1, <2>3, <2>4, <2>5 DEF Ingest, Collect
  <1>4. CASE LogIngest \/ AnalyseDiff \/ Classify \/ Rank
    BY <1>1, <1>4, LeftIs DEF LeftValues, LogIngest, AnalyseDiff, Classify, Rank
  <1>5. CASE BeginPlan
    <2>1. /\ stage = "fix_planner" /\ stage' \in {"proposing", "planning", "concluded"}
          /\ UNCHANGED replies
      BY <1>5 DEF BeginPlan, Fails
    <2> QED
      BY <1>1, <1>2, <2>1, LeftIs DEF LeftValues, Ended
  <1>6. CASE Propose
    <2>1. /\ stage = "proposing"
          /\ \/ stage' \in {"planning", "concluded"}
             \/ stage' = stage /\ (Replied("contract") \/ Replied("provider"))
      BY <1>6 DEF Propose, Accept, Attempt, ProviderHangs, Fails
    <2>2. CASE stage' \in {"planning", "concluded"}
      BY <1>1, <1>2, <2>1, <2>2, LeftIs DEF LeftValues, Ended
    <2>3. CASE stage' = stage /\ (Replied("contract") \/ Replied("provider"))
      <3>1. Len(replies') = Len(replies) + 1
        BY <1>2, <2>3, RepliedFacts
      <3> QED
        BY <1>1, <1>2, <2>1, <2>3, <3>1, LeftIs DEF LeftValues
    <2> QED
      BY <2>1, <2>2, <2>3
  <1>7. CASE Plan \/ Resolve
    BY <1>7, LeftIs DEF LeftValues, Ended, Plan, Fails, Resolve
  <1> QED
    BY <1>3, <1>4, <1>5, <1>6, <1>7 DEF Next

WithinBudget == Left \in 0..Longest /\ (Left = 0 <=> stage \in Ended)
Spends == Left' < Left

(* An analysis has a budget, fixed by the retries and the attempts alone:  *)
(* every step uses some of it up, whatever GitHub and the provider answer  *)
(* and however they fail, and only an analysis that ended has none left.   *)
(* No loop of the ingestion or the proposer starts over.                   *)
THEOREM AnalysesAreShort == Spec => []WithinBudget /\ [][Spends]_vars
  <1>1. Bounded /\ Bounded' /\ [Next]_vars => [Spends]_vars
    BY StepsLeave DEF Spends
  <1>2. Bounded /\ TypeOK => WithinBudget
    BY LeftIsBounded DEF TypeOK, WithinBudget
  <1>3. TypeOK /\ PlanInv => Bounded
    BY DEF TypeOK, Bounded
  <1> QED
    BY <1>1, <1>2, <1>3, TypeCorrect, PlanInvariant, PTL DEF Spec
==================================================
