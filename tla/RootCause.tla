------------------------------ MODULE RootCause -------------------------------
(***************************************************************************)
(* The class of a failure and its root cause: run_failure_classification   *)
(* (src/agents/failure_classification.py) and run_root_cause_ranker        *)
(* (src/agents/root_cause_ranker.py), over the events of LogText and the   *)
(* changes of DiffText.  Scores are in ten thousandths, the four decimals  *)
(* the code rounds to.                                                     *)
(***************************************************************************)
EXTENDS Integers, FiniteSets, Paths

RulePriority == <<"INFRA", "DEPENDENCY", "SECURITY", "TYPECHECK", "LINT", "TEST", "BUILD">>
Classes == {RulePriority[i] : i \in DOMAIN RulePriority} \union {"UNKNOWN"}

Drifted(changes) == changes.lockfiles \union changes.manifests # {}

-----------------------------------------------------------------------------
(* _detect_flaky_test_pattern: a run of the history is the set of its test *)
(* identifiers and the set of its distinct signatures.                     *)

Overlapping(tests, history) == {i \in DOMAIN history : history[i].tests \cap tests # {}}

Flaky(tests, history) ==
  LET matched == Overlapping(tests, history)
  IN  /\ Cardinality(matched) >= 2
      /\ Cardinality(UNION {history[i].signatures : i \in matched}) >= 2

Matched(hits, changes, class) ==
  class \in hits \/ (class = "DEPENDENCY" /\ Drifted(changes))

Bug_Classification(hits, changes, flaky) ==
  LET rules == {i \in DOMAIN RulePriority : RulePriority[i] \in hits}
  IN  IF rules # {} THEN RulePriority[CHOOSE i \in rules : \A j \in rules : i <= j]
      ELSE IF flaky THEN "TEST" ELSE "UNKNOWN"

Classification(hits, changes, flaky) ==
  LET rules == {i \in DOMAIN RulePriority : Matched(hits, changes, RulePriority[i])}
  IN  IF rules # {} THEN RulePriority[CHOOSE i \in rules : \A j \in rules : i <= j]
      ELSE IF flaky THEN "TEST" ELSE "UNKNOWN"

-----------------------------------------------------------------------------
(* The score of an event: _score_candidate and CandidateScore.confidence,  *)
(* every score multiplied by its weight.                                   *)

FirstFailureScore(first) == IF first THEN 3000 ELSE 900

DiffProximity(e, changes) ==
  IF e.file = NoPath THEN 0 ELSE IF e.file \in changes.files THEN 2500 ELSE 500

ModuleProximity(e, changes) ==
  IF e.file = NoPath THEN 0 ELSE IF StemName(e.file) \in changes.modules THEN 1000 ELSE 200

DependencyDrift(changes) == IF Drifted(changes) THEN 1000 ELSE 0

Alignment(e, class) ==
  IF class \in e.words \ {"SECURITY", "BUILD", "UNKNOWN"} THEN 1000
  ELSE IF class = "UNKNOWN" THEN 500 ELSE 200

(* A wrapper line ("# ...", "process completed ...") counts for little. *)
EvidenceQuality(e) ==
  IF e.file = NoPath THEN 225
  ELSE IF e.wrapper THEN 300
  ELSE IF e.line > 0 THEN 1500 ELSE 1050

Bug_Confidence(e, first, changes, class) ==
  FirstFailureScore(first) + 2500 + ModuleProximity(e, changes)
  + DependencyDrift(changes) + Alignment(e, class) + EvidenceQuality(e)

Confidence(e, first, changes, class) ==
  FirstFailureScore(first) + DiffProximity(e, changes) + ModuleProximity(e, changes)
  + DependencyDrift(changes) + Alignment(e, class) + EvidenceQuality(e)

(* _sort_key: confidence, then the position in the log, by a stable_id of  *)
(* four digits, whose order is the position's up to 9999 candidates.       *)
RanksBefore(c, d) == c.score > d.score \/ (c.score = d.score /\ c.index <= d.index)

Candidates(events, first, changes, class) ==
  {[index |-> e.index, line |-> e.line,
    file |-> IF e.file = NoPath THEN Unknown ELSE e.file,
    score |-> Confidence(e, e = first, changes, class)] : e \in events}

Primaries(events, first, changes, class) ==
  LET all == Candidates(events, first, changes, class)
  IN  {c \in all : \A d \in all : RanksBefore(c, d)}
=============================================================================
