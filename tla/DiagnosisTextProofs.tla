-------------------------- MODULE DiagnosisTextProofs --------------------------
(***************************************************************************)
(* Theorems about the texts the analysis prints and reads: what the log    *)
(* and the printed diff still say, at the end of an analysis, of what      *)
(* GitHub sent, and what is made of a file; for every log, comparison,     *)
(* checkout and answer of a model, of any length.                          *)
(***************************************************************************)
EXTENDS DiagnosisProofs, DataProofs

-----------------------------------------------------------------------------
(* Sequences. *)

LEMMA OwnRange ==
  ASSUME NEW S, NEW s \in Seq(S)
  PROVE  /\ s \in Seq(ToSet(s)) /\ ToSet(s) \subseteq S
         /\ DOMAIN s = 1 .. Len(s) /\ Len(s) \in Nat /\ DOMAIN s \subseteq Nat
         /\ \A i \in DOMAIN s : s[i] \in ToSet(s) /\ s[i] \in S
  <1>1. /\ DOMAIN s = 1 .. Len(s) /\ Len(s) \in Nat
        /\ \A i \in DOMAIN s : s[i] \in S
    OBVIOUS
  <1>2. ToSet(s) = {s[i] : i \in DOMAIN s}
    BY DEF ToSet
  <1>3. \A i \in DOMAIN s : s[i] \in ToSet(s)
    BY <1>2
  <1>4. s \in Seq(ToSet(s))
    BY <1>1, <1>3
  <1> QED
    BY <1>1, <1>2, <1>3, <1>4

LEMMA Wider ==
  ASSUME NEW S, NEW T, NEW s \in Seq(T), T \subseteq S
  PROVE  s \in Seq(S)
  OBVIOUS

LEMMA NotEmpty ==
  ASSUME NEW S, NEW s \in Seq(S), s # <<>>
  PROVE  Len(s) \in Nat /\ Len(s) >= 1 /\ 1 \in DOMAIN s
  OBVIOUS

-----------------------------------------------------------------------------
(* Paths. *)

LEMMA NoDirectories ==
  /\ NoPath.dir = <<>> /\ Unknown.dir = <<>> /\ <<>> \in Seq(ToSet(<<>>))
  /\ Unnamed(NoPath)
  <1>1. NoPath.dir = <<>> /\ Unknown.dir = <<>>
    BY Zenon DEF NoPath, Unknown, Path
  <1>2. <<>> \in Seq(ToSet(<<>>))
    BY DEF ToSet
  <1>3. NoPath.ext = "" /\ NoPath.stem = ""
    BY Zenon DEF NoPath, Path
  <1>4. Unnamed(NoPath)
    BY <1>3, Zenon DEF Unnamed
  <1> QED
    BY <1>1, <1>2, <1>4

(* A path that is normalised names a file below the root.                  *)
LEMMA RelativeFacts ==
  ASSUME NEW p, p.dir \in Seq(ToSet(p.dir)), Relative(p) # NoPath
  PROVE  Inside(Relative(p))
  <1> DEFINE Kept(part) == IF part \in Dots THEN <<>> ELSE <<part>>
             seqs == [i \in DOMAIN p.dir |-> Kept(p.dir[i])]
             T == ToSet(p.dir) \ Dots
             q == Path(FlattenSeq(seqs), p.stem, p.ext)
  <1>1. Relative(p) = q /\ ~Unnamed(p)
    BY Zenon DEF Relative
  <1>2. DOMAIN p.dir = 1 .. Len(p.dir) /\ Len(p.dir) \in Nat
        /\ \A i \in DOMAIN p.dir : p.dir[i] \in ToSet(p.dir)
    BY OwnRange
  <1>3. ASSUME NEW i \in DOMAIN p.dir PROVE Kept(p.dir[i]) \in Seq(T)
    <2> HIDE DEF T
    <2>1. p.dir[i] \notin Dots => p.dir[i] \in T
      BY <1>2 DEF T
    <2> QED
      BY <2>1
  <1> HIDE DEF T, Kept
  <1>4. seqs \in Seq(Seq(T))
    BY <1>2, <1>3
  <1> HIDE DEF seqs
  <1>5. FlattenSeq(seqs) \in Seq(T)
    BY <1>4, Flattening DEF IsFlat, FlatAt
  <1>6. q.dir = FlattenSeq(seqs) /\ q.stem = p.stem /\ q.ext = p.ext
    BY Zenon DEF Path
  <1> HIDE DEF q
  <1>7. \A i \in DOMAIN q.dir : q.dir[i] \in T
    BY <1>5, <1>6
  <1>8. ~Unnamed(q)
    BY <1>1, <1>6, Zenon DEF Unnamed
  <1> QED
    BY <1>1, <1>7, <1>8, Zenon DEF Inside, T

-----------------------------------------------------------------------------
(* The log. *)

(* Whatever GitHub sends is a text, an archive unpacked.                   *)
LEMMA UnpackedIsText ==
  ASSUME NEW body \in Logs, body.parts # <<>>
  PROVE  IsText(Unpacked(body))
  <1> DEFINE parts == body.parts
             lines == UNION {ToSet(m.lines) : m \in ToSet(parts)}
             heads == {Heading(m.marks) : m \in ToSet(parts)}
             S == {Blank} \union heads \union lines
             seqs == [i \in DOMAIN parts |-> Part(parts[i])]
  <1>1. /\ parts \in Seq(ToSet(parts))
        /\ \A m \in ToSet(parts) : IsText(m.lines)
    BY LogsAssumption
  <1>2. /\ DOMAIN parts = 1 .. Len(parts) /\ Len(parts) \in Nat /\ 1 \in DOMAIN parts
        /\ \A i \in DOMAIN parts : parts[i] \in ToSet(parts)
    BY <1>1, OwnRange, NotEmpty
  <1>3. \A l \in S : l.number \in Nat \union {NoNumber} /\ l.file.dir \in Seq(ToSet(l.file.dir))
    <2> DEFINE Sound(l) == l.number \in Nat \union {NoNumber} /\ l.file.dir \in Seq(ToSet(l.file.dir))
    <2>1. \A l \in lines : Sound(l)
      BY <1>1 DEF IsText
    <2>2. Blank.number = NoNumber /\ Blank.file = NoPath
      BY DEF Blank
    <2>3. \A l \in heads : l.number = NoNumber /\ l.file = NoPath
      BY <2>2 DEF Heading, Blank
    <2>4. ASSUME NEW l, l.number = NoNumber, l.file = NoPath PROVE Sound(l)
      <3>1. l.file.dir = <<>>
        BY <2>4, NoDirectories, Zenon
      <3>2. l.file.dir \in Seq(ToSet(l.file.dir))
        BY <3>1, NoDirectories, Zenon
      <3> QED
        BY <2>4, <3>2
    <2> HIDE DEF Sound
    <2>5. \A l \in S : Sound(l)
      BY <2>1, <2>2, <2>3, <2>4
    <2> QED
      BY <2>5 DEF Sound
  <1>4. ASSUME NEW i \in DOMAIN parts PROVE parts[i].lines \in Seq(S) /\ Part(parts[i]) \in Seq(S)
    <2>1. ToSet(parts[i].lines) \subseteq S /\ parts[i].lines \in Seq(ToSet(parts[i].lines))
      BY <1>1, <1>2 DEF IsText
    <2>2. parts[i].lines \in Seq(S)
      BY <2>1, Wider
    <2>3. Heading(parts[i].marks) \in S /\ Blank \in S
      BY <1>2
    <2> HIDE DEF S
    <2>4. <<Heading(parts[i].marks)>> \in Seq(S) /\ <<Blank>> \in Seq(S)
      BY <2>3
    <2>5. <<Heading(parts[i].marks)>> \o parts[i].lines \in Seq(S)
      BY <2>2, <2>4, ConcatFacts
    <2> QED
      BY <2>2, <2>4, <2>5, ConcatFacts DEF Part
  <1> HIDE DEF S
  <1>5. seqs \in Seq(Seq(S))
    BY <1>2, <1>4
  <1>6. Unpacked(body) \in Seq(S)
    <2>1. CASE body.zip
      BY <1>5, <2>1, Flattening DEF Unpacked, IsFlat, FlatAt
    <2>2. CASE ~body.zip
      BY <1>2, <1>4, <2>2 DEF Unpacked
    <2> QED
      BY <2>1, <2>2
  <1> QED
    BY <1>3, <1>6, OwnRange DEF IsText

(* What an event says of its file and line is printed within five lines.   *)
LEMMA EventIsPrinted ==
  ASSUME NEW text, IsText(text), NEW i \in DOMAIN text,
         NEW e, e = Event(text, i)
  PROVE  LET near == {j \in DOMAIN text : /\ text[j].file # NoPath
                                          /\ e.index - 5 <= j /\ j <= e.index + 5}
             named == {j \in near : text[j].file = e.file}
         IN  /\ e.line \in Nat
             /\ e.file # NoPath => named # {}
             /\ e.file # NoPath /\ e.line > 0 /\ (\A j \in near : text[j].number # NoNumber)
                  => \E j \in named : text[j].number = e.line
  <1> DEFINE near == {j \in DOMAIN text : /\ text[j].file # NoPath
                                         /\ e.index - 5 <= j /\ j <= e.index + 5}
             named == {j \in near : text[j].file = e.file}
             located == Located(text, i)
             numbered == Numbered(text, i)
  <1>1. DOMAIN text \subseteq Nat /\ \A j \in DOMAIN text : text[j].number \in Nat \union {NoNumber}
    BY OwnRange DEF IsText
  <1>2. /\ e.index = i
        /\ e.file = IF located = {} THEN NoPath ELSE text[Max(located)].file
        /\ e.line = IF numbered = {} THEN 0 ELSE text[Max(numbered)].number
    BY DEF Event
  <1>3. /\ located = {j \in DOMAIN text : j <= i + 5 /\ i <= j + 5 /\ text[j].file # NoPath}
        /\ numbered = {j \in located : text[j].number # NoNumber}
    BY DEF Located, Numbered, Near
  <1>4. near = located
    BY <1>1, <1>2, <1>3
  <1> HIDE DEF near, named, located, numbered
  <1>5. /\ located \in SUBSET Nat /\ numbered \in SUBSET Nat
        /\ i + 5 \in Nat /\ \A j \in located : j <= i + 5
        /\ \A j \in numbered : j <= i + 5 /\ j \in located
        /\ located \subseteq DOMAIN text
    BY <1>1, <1>3
  <1>6. located # {} => Max(located) \in located
    BY <1>5, MaxIsGreatest
  <1>7. numbered # {} => Max(numbered) \in numbered
    BY <1>5, MaxIsGreatest
  <1>8. e.line \in Nat
    <2>1. numbered # {} => Max(numbered) \in DOMAIN text
      BY <1>5, <1>7
    <2>2. numbered # {} => text[Max(numbered)].number \in Nat
      BY <1>1, <1>3, <1>7, <2>1
    <2> QED
      BY ONLY <1>2, <2>2
  <1>9. ASSUME e.file # NoPath
        PROVE  Max(located) \in named
    BY <1>2, <1>4, <1>6, <1>9 DEF named
  <1>10. ASSUME e.file # NoPath, e.line > 0, \A j \in near : text[j].number # NoNumber
         PROVE  text[Max(located)].number = e.line
    <2>1. numbered = located
      BY <1>3, <1>4, <1>10
    <2> QED
      BY <1>2, <1>10, <2>1
  <1>11. /\ e.file # NoPath => named # {}
         /\ e.file # NoPath /\ e.line > 0 /\ (\A j \in near : text[j].number # NoNumber)
              => \E j \in named : text[j].number = e.line
    BY <1>9, <1>10 DEF named
  <1> QED
    BY ONLY <1>8, <1>11 DEF named, near

-----------------------------------------------------------------------------
(* What the texts hold at each stage. *)

Gathering == Requests \union {"refused", "raised"}
Reading == Gathering \union {"log_ingest"}
Comparing == Reading \union {"diff_analysis"}

(* The diff is the print of one comparison, once there is one.             *)
DiffHeld ==
  IF stage \in Gathering THEN files = <<>> /\ diff = <<>>
  ELSE files \in Comparisons /\ diff = Diff(files)

(* Events are read from the log that was received, and changes from the    *)
(* diff.                                                                   *)
EventsHeld ==
  /\ IsText(log)
  /\ events \subseteq Events(log)
  /\ stage \in Reading => events = {}

ChangesHeld == changes = IF stage \in Comparing THEN NoChanges ELSE DiffAnalysis(diff)

(* The root cause is one of the events. *)
PrimaryHeld ==
  \/ primary = NoPrimary
  \/ \E e \in events : /\ primary.index = e.index /\ primary.line = e.line
                       /\ primary.file = IF e.file = NoPath THEN Unknown ELSE e.file

(* Contents come from an accepted proposal or a repair.                    *)
ProposalHeld == proposal = NoProposal \/ (proposal \in Proposals /\ ~BreaksContract(proposal))

PatchHeld ==
  \/ patch = <<>>
  \/ /\ stage = "concluded"
     /\ patch = Resolved(class, Target, primary.line, proposal, ShownContent(diff, Target),
                         Worktree(Target))

TextInv ==
  /\ stage \in Stages /\ setting \in Settings
  /\ DiffHeld /\ EventsHeld /\ ChangesHeld /\ PrimaryHeld /\ ProposalHeld /\ PatchHeld
  /\ stage \notin Ranked => primary = NoPrimary

LEMMA TextInit == Init => TextInv
  <1> SUFFICES ASSUME Init PROVE TextInv
    OBVIOUS
  <1>1. /\ stage = "logs" /\ setting \in Settings /\ log = <<>> /\ diff = <<>> /\ files = <<>>
        /\ events = {} /\ changes = NoChanges /\ primary = NoPrimary /\ proposal = NoProposal
        /\ patch = <<>>
    BY DEF Init, InitIngestion
  <1>2. "logs" \in Gathering /\ "logs" \in Reading /\ "logs" \in Comparing /\ "logs" \in Stages
    BY DEF Gathering, Reading, Comparing, Stages, Requests
  <1>3. IsText(<<>>)
    BY DEF IsText, ToSet
  <1> QED
    BY <1>1, <1>2, <1>3
       DEF TextInv, DiffHeld, EventsHeld, ChangesHeld, PrimaryHeld, ProposalHeld, PatchHeld

LEMMA StageSets ==
  /\ Requests = {"logs", "compare"} /\ Gathering = {"logs", "compare", "refused", "raised"}
  /\ Reading = {"logs", "compare", "refused", "raised", "log_ingest"}
  /\ Comparing = {"logs", "compare", "refused", "raised", "log_ingest", "diff_analysis"}
  /\ Ranked = {"fix_planner", "proposing", "planning", "pr_creation", "concluded"}
  /\ Stages = {"logs", "compare", "refused", "raised", "log_ingest", "diff_analysis",
               "failure_classification", "root_cause_ranker", "fix_planner", "proposing",
               "planning", "pr_creation", "concluded"}
  BY DEF Requests, Gathering, Reading, Comparing, Ranked, Stages, Ended

(* What an analysis that is under way keeps while stage, planner and patch *)
(* go on.                                                                  *)
LEMMA TextsStay ==
  ASSUME TextInv, UNCHANGED <<setting, log, diff, files, events, changes, primary>>,
         stage' \in Stages, (stage' \in Gathering) = (stage \in Gathering),
         (stage' \in Comparing) = (stage \in Comparing), stage' \in Reading => stage \in Reading,
         stage' \in Ranked \/ primary = NoPrimary, ProposalHeld', PatchHeld'
  PROVE  TextInv'
  <1>1. DiffHeld' /\ EventsHeld' /\ ChangesHeld' /\ PrimaryHeld'
    BY DEF TextInv, DiffHeld, EventsHeld, ChangesHeld, PrimaryHeld
  <1> QED
    BY <1>1 DEF TextInv

LEMMA GatheringStep ==
  ASSUME TextInv, Ingest
  PROVE  TextInv'
  <1>1. /\ stage \in Requests /\ stage \in Gathering /\ stage # "concluded" /\ stage \notin Ranked
        /\ UNCHANGED <<setting, analysis, planning, patch>>
    <2>1. stage \in Requests
      BY DEF Ingest, Collect, Retry, GiveUp, Deny, Escape, Fetching, ReceiveLogs, ReceiveCompare,
             Requests
    <2> QED
      BY <2>1, StageSets DEF Ingest
  <1>2. /\ UNCHANGED <<setting, events, changes, class, primary, proposal, patch>>
        /\ events = {} /\ changes = NoChanges /\ primary = NoPrimary /\ patch = <<>>
    BY <1>1, StageSets DEF TextInv, EventsHeld, ChangesHeld, PatchHeld, analysis, planning
  <1>3. ProposalHeld' /\ PatchHeld' /\ PrimaryHeld'
    BY <1>2 DEF TextInv, ProposalHeld, PatchHeld, PrimaryHeld
  <1>4. ASSUME UNCHANGED <<log, diff, files>>, stage' = stage \/ stage' \in {"refused", "raised"}
        PROVE  TextInv'
    <2>1. /\ stage' \in Stages /\ stage' \in Gathering /\ stage \in Gathering
          /\ stage' \in Comparing /\ stage \in Comparing /\ stage \in Reading
      BY <1>1, <1>4, StageSets
    <2> QED
      BY <1>2, <1>3, <1>4, <2>1, TextsStay
  <1>5. CASE \E r \in Requests : Retry(r) \/ GiveUp(r) \/ Deny(r) \/ Escape(r)
    BY <1>4, <1>5 DEF Retry, GiveUp, Deny, Escape, Refuse
  <1>6. CASE ReceiveLogs
    <2>1. CASE Refuse("WORKFLOW_LOGS_EMPTY_ARCHIVE") /\ UNCHANGED log
      BY <1>4, <2>1 DEF Refuse
    <2>2. ASSUME NEW body \in Logs, body.parts # <<>>, log' = Unpacked(body),
                 stage' = "compare", UNCHANGED <<diff, files>>
          PROVE  TextInv'
      <3>1. IsText(log')
        BY <2>2, UnpackedIsText
      <3>2. DiffHeld' /\ EventsHeld' /\ ChangesHeld'
        BY <1>1, <1>2, <2>2, <3>1, StageSets DEF TextInv, DiffHeld, EventsHeld, ChangesHeld
      <3> QED
        BY <1>2, <1>3, <2>2, <3>2, StageSets DEF TextInv
    <2> QED
      BY <1>6, <2>1, <2>2 DEF ReceiveLogs, Refuse
  <1>7. CASE ReceiveCompare
    <2>1. CASE Refuse("COMPARE_DIFF_EMPTY") /\ UNCHANGED log
      BY <1>4, <2>1 DEF Refuse
    <2>2. ASSUME NEW list \in Comparisons, files' = list, diff' = Diff(list),
                 stage' = "log_ingest", UNCHANGED log
          PROVE  TextInv'
      <3>1. DiffHeld' /\ EventsHeld' /\ ChangesHeld'
        BY <1>2, <2>2, StageSets DEF TextInv, DiffHeld, EventsHeld, ChangesHeld
      <3> QED
        BY <1>2, <1>3, <2>2, <3>1, StageSets DEF TextInv
    <2> QED
      BY <1>7, <2>1, <2>2 DEF ReceiveCompare, Refuse
  <1> QED
    BY <1>5, <1>6, <1>7 DEF Ingest, Collect

LEMMA ReadingStep ==
  ASSUME TextInv, LogIngest \/ AnalyseDiff \/ Classify \/ Rank
  PROVE  TextInv'
  <1>1. /\ stage # "concluded" /\ stage \notin Ranked /\ primary = NoPrimary /\ patch = <<>>
        /\ UNCHANGED <<setting, log, diff, files, proposal, patch>>
    BY StageSets DEF LogIngest, AnalyseDiff, Classify, Rank, TextInv, PatchHeld, collection,
                     planning
  <1>2. ProposalHeld' /\ PatchHeld'
    BY <1>1 DEF TextInv, ProposalHeld, PatchHeld
  <1>3. CASE LogIngest
    <2>1. /\ stage = "log_ingest" /\ stage' = "diff_analysis" /\ events' = Selected(log)
          /\ UNCHANGED <<changes, primary>>
      BY <1>3 DEF LogIngest
    <2>2. events' \subseteq Events(log)
      BY <2>1 DEF Selected
    <2>3. DiffHeld' /\ EventsHeld' /\ ChangesHeld' /\ PrimaryHeld'
      BY <1>1, <2>1, <2>2, StageSets
         DEF TextInv, DiffHeld, EventsHeld, ChangesHeld, PrimaryHeld
    <2> QED
      BY <1>1, <1>2, <2>1, <2>3, StageSets DEF TextInv
  <1>4. CASE AnalyseDiff
    <2>1. /\ stage = "diff_analysis" /\ stage' = "failure_classification"
          /\ changes' = DiffAnalysis(diff) /\ UNCHANGED <<events, primary>>
      BY <1>4 DEF AnalyseDiff
    <2>2. DiffHeld' /\ EventsHeld' /\ ChangesHeld' /\ PrimaryHeld'
      BY <1>1, <2>1, StageSets
         DEF TextInv, DiffHeld, EventsHeld, ChangesHeld, PrimaryHeld
    <2> QED
      BY <1>1, <1>2, <2>1, <2>2, StageSets DEF TextInv
  <1>5. CASE Classify
    <2>1. /\ stage = "failure_classification" /\ stage' = "root_cause_ranker"
          /\ UNCHANGED <<events, changes, primary>>
      BY <1>5 DEF Classify
    <2> QED
      BY <1>1, <1>2, <2>1, StageSets, TextsStay
  <1>6. CASE Rank
    <2>1. /\ stage = "root_cause_ranker" /\ stage' = "fix_planner"
          /\ UNCHANGED <<events, changes>>
      BY <1>6 DEF Rank
    <2>2. DiffHeld' /\ EventsHeld' /\ ChangesHeld'
      BY <1>1, <2>1, StageSets DEF TextInv, DiffHeld, EventsHeld, ChangesHeld
    <2>3. PrimaryHeld'
      <3>1. CASE UNCHANGED primary
        BY <1>1, <3>1 DEF PrimaryHeld
      <3>2. CASE primary' \in Primaries(events, first, changes, class)
        <4>1. PICK e \in events :
                primary' = [index |-> e.index, line |-> e.line,
                            file |-> IF e.file = NoPath THEN Unknown ELSE e.file,
                            score |-> Confidence(e, e = first, changes, class)]
          BY <3>2 DEF Primaries, Candidates
        <4>2. /\ primary'.index = e.index /\ primary'.line = e.line
              /\ primary'.file = IF e.file = NoPath THEN Unknown ELSE e.file
          BY <4>1
        <4> QED
          BY <2>1, <4>2 DEF PrimaryHeld
      <3> QED
        BY <1>6, <3>1, <3>2 DEF Rank
    <2> QED
      BY <1>1, <1>2, <2>1, <2>2, <2>3, StageSets DEF TextInv
  <1> QED
    BY <1>3, <1>4, <1>5, <1>6

LEMMA PlanningStep ==
  ASSUME TextInv, BeginPlan \/ Propose \/ Plan \/ Resolve
  PROVE  TextInv'
  <1>1. /\ stage \in Ranked /\ stage # "concluded" /\ stage' \in Ranked /\ patch = <<>>
        /\ UNCHANGED <<setting, log, diff, files, events, changes, class, primary>>
    <2>1. CASE BeginPlan \/ Plan \/ Resolve
      BY <2>1, StageSets DEF BeginPlan, Plan, Resolve, Fails, TextInv, PatchHeld, collection,
                             analysis
    <2>2. CASE Propose
      BY <2>2, StageSets DEF Propose, Accept, Attempt, ProviderHangs, Fails, TextInv, PatchHeld,
                             collection, analysis
    <2> QED
      BY <2>1, <2>2
  <1>2. ProposalHeld'
    <2>1. CASE Accept
      BY <2>1 DEF Accept, ProposalHeld
    <2>2. CASE UNCHANGED proposal
      BY <2>2 DEF TextInv, ProposalHeld
    <2>3. Accept \/ UNCHANGED proposal
      BY DEF BeginPlan, Plan, Resolve, Propose, Attempt, ProviderHangs, planning
    <2> QED
      BY <2>1, <2>2, <2>3
  <1>3. PatchHeld'
    <2>1. CASE Resolve
      <3> DEFINE made == Resolved(class, Target, primary.line, proposal,
                                  ShownContent(diff, Target), Worktree(Target))
      <3>1. stage' = "concluded" /\ UNCHANGED proposal /\ (patch' = <<>> \/ patch' = made)
        BY <1>1, <2>1 DEF Resolve, planning
      <3>2. Target' = Target /\ Worktree(Target)' = Worktree(Target)
        BY <1>1 DEF Target, Worktree
      <3>3. made' = made
        BY <1>1, <3>1, <3>2
      <3> QED
        BY <3>1, <3>3 DEF PatchHeld
    <2>2. CASE UNCHANGED patch
      BY <1>1, <2>2 DEF PatchHeld
    <2>3. Resolve \/ UNCHANGED patch
      BY DEF BeginPlan, Plan, Propose, Accept, Attempt, ProviderHangs
    <2> QED
      BY <2>1, <2>2, <2>3
  <1> QED
    BY <1>1, <1>2, <1>3, StageSets, TextsStay

(* What the analysis holds is what GitHub sent and what was read from it.  *)
THEOREM TextInvariant == Spec => []TextInv
  <1>1. TextInv /\ [Next]_vars => TextInv'
    <2> SUFFICES ASSUME TextInv, [Next]_vars PROVE TextInv'
      OBVIOUS
    <2>1. CASE UNCHANGED vars
      BY <2>1 DEF vars, collection, analysis, planning, TextInv, DiffHeld, EventsHeld,
                  ChangesHeld, PrimaryHeld, ProposalHeld, PatchHeld, Target, Worktree
    <2> QED
      BY <2>1, GatheringStep, ReadingStep, PlanningStep DEF Next
  <1> QED
    BY TextInit, <1>1, PTL DEF Spec

(* The evidence of the root cause is in the log near its line.             *)
THEOREM EvidenceIsInTheLog == Spec => []EvidenceIsPrinted
  <1>1. TextInv /\ AnalysisInv => EvidenceIsPrinted
    <2> SUFFICES ASSUME TextInv, AnalysisInv PROVE EvidenceIsPrinted
      OBVIOUS
    <2>1. CASE primary = NoPrimary
      BY <2>1 DEF EvidenceIsPrinted, HasFile, NoPrimary
    <2>2. ASSUME NEW e \in events, primary.index = e.index, primary.line = e.line,
                 primary.file = IF e.file = NoPath THEN Unknown ELSE e.file
          PROVE  EvidenceIsPrinted
      <3>1. PICK i \in DOMAIN log : e = Event(log, i)
        BY DEF TextInv, EventsHeld, Events
      <3>2. IsText(log)
        BY DEF TextInv, EventsHeld
      <3>3. CASE e.file = NoPath
        BY <2>2, <3>3 DEF EvidenceIsPrinted, HasFile
      <3>4. CASE e.file # NoPath
        <4>1. primary.file = e.file
          BY <2>2, <3>4
        <4> QED
          BY <2>2, <3>1, <3>2, <3>4, <4>1, EventIsPrinted DEF EvidenceIsPrinted
      <3> QED
        BY <3>3, <3>4
    <2> QED
      BY <2>1, <2>2 DEF TextInv, PrimaryHeld
  <1> QED
    BY <1>1, TextInvariant, AnalysisInvariant, PTL

-----------------------------------------------------------------------------
(* The printed diff: one block of lines for every file with a name, three  *)
(* header lines and what is made of the patch.                             *)

Block(f) == IF Named(f) THEN Rendered(f) ELSE <<>>
Blocks(list) == [i \in DOMAIN list |-> Block(list[i])]
Before(f) == IF f.status = "renamed" /\ f.previous # NoPath THEN f.previous ELSE f.name

(* A line of a patch is a file header only if its text looks like one.    *)
LEMMA PrintedKinds ==
  ASSUME NEW sign \in Signs, NEW text
  PROVE  /\ Printed(sign, text).kind # "diff"
         /\ Printed(sign, text).kind = "---" => sign = "-" /\ text \in MinusLike
         /\ Printed(sign, text).kind = "+++" => sign = "+" /\ text \in PlusLike
  <1>1. CASE sign = "@@"
    BY <1>1 DEF Printed, Hunk
  <1>2. CASE sign = "-" /\ text \in MinusLike
    <2>1. Printed(sign, text) = OldName(Misread(text))
      BY <1>2 DEF Printed
    <2>2. Printed(sign, text).kind = "---"
      BY <2>1 DEF OldName
    <2> QED
      BY <1>2, <2>2
  <1>3. CASE sign = "+" /\ text \in PlusLike
    <2>1. Printed(sign, text) = NewName(Misread(text))
      BY <1>3 DEF Printed
    <2>2. Printed(sign, text).kind = "+++"
      BY <2>1 DEF NewName
    <2> QED
      BY <1>3, <2>1, <2>2
  <1>4. CASE sign = "+" /\ text \in PlusPlus /\ text \notin PlusLike
    <2>1. Printed(sign, text).kind = "+++x"
      BY <1>4 DEF Printed
    <2> QED
      BY <1>4, <2>1
  <1>5. CASE /\ sign # "@@" /\ ~ (sign = "-" /\ text \in MinusLike)
             /\ ~ (sign = "+" /\ text \in PlusLike \union PlusPlus)
    <2>1. Printed(sign, text).kind = sign
      BY <1>5 DEF Printed
    <2>2. sign # "diff" /\ sign # "---" /\ sign # "+++"
      BY Zenon DEF Signs
    <2> QED
      BY <2>1, <2>2, Zenon
  <1> QED
    BY <1>1, <1>2, <1>3, <1>4, <1>5

LEMMA BodyFacts ==
  ASSUME NEW f, IsFile(f)
  PROVE  /\ Body(f) \in Seq(ToSet(Body(f))) /\ DOMAIN Body(f) = 1 .. Len(Body(f))
         /\ Len(Body(f)) \in Nat
         /\ \A k \in DOMAIN Body(f) : Body(f)[k].kind # "diff"
         /\ f.patch = <<>> => \A k \in DOMAIN Body(f) : Body(f)[k].kind \in {"@@", "#"}
         /\ f.patch # <<>>
              => /\ DOMAIN Body(f) = DOMAIN f.patch
                 /\ \A k \in DOMAIN f.patch :
                      Body(f)[k] = Printed(f.patch[k][1], f.patch[k][2])
  <1>1. CASE f.patch = <<>>
    <2>1. Body(f) = <<Hunk(0), Unavailable>>
      BY <1>1 DEF Body
    <2>2. /\ Hunk(0).kind = "@@" /\ Unavailable.kind = "#"
      BY DEF Hunk, Unavailable
    <2>3. Body(f) \in Seq({Hunk(0), Unavailable})
      BY <2>1
    <2>4. \A k \in DOMAIN Body(f) : Body(f)[k] \in {Hunk(0), Unavailable}
      BY <2>3, OwnRange
    <2>5. \A k \in DOMAIN Body(f) : Body(f)[k].kind \in {"@@", "#"}
      BY <2>2, <2>4
    <2> QED
      BY <1>1, <2>3, <2>5, OwnRange
  <1>2. CASE f.patch # <<>>
    <2>1. Body(f) = [k \in DOMAIN f.patch |-> Printed(f.patch[k][1], f.patch[k][2])]
      BY <1>2 DEF Body
    <2>2. f.patch \in Seq(ToSet(f.patch)) /\ DOMAIN f.patch = 1 .. Len(f.patch)
            /\ Len(f.patch) \in Nat
      BY OwnRange DEF IsFile
    <2> DEFINE S == {Printed(f.patch[k][1], f.patch[k][2]) : k \in DOMAIN f.patch}
    <2>3. Body(f) \in Seq(S)
      BY <2>1, <2>2
    <2>4. \A k \in DOMAIN f.patch : f.patch[k][1] \in Signs
      BY DEF IsFile
    <2>5. ASSUME NEW k \in DOMAIN f.patch PROVE Body(f)[k].kind # "diff"
      <3> DEFINE sign == f.patch[k][1]
                 text == f.patch[k][2]
      <3>1. sign \in Signs /\ Body(f)[k] = Printed(sign, text)
        BY <2>1, <2>4
      <3> HIDE DEF sign, text
      <3>2. Printed(sign, text).kind # "diff"
        BY ONLY <3>1, PrintedKinds
      <3> QED
        BY <3>1, <3>2
    <2> HIDE DEF S
    <2> QED
      BY <1>2, <2>1, <2>3, <2>5, OwnRange
  <1> QED
    BY <1>1, <1>2

LEMMA RenderedFacts ==
  ASSUME NEW f, IsFile(f)
  PROVE  /\ Rendered(f) \in Seq(ToSet(Rendered(f)))
         /\ Len(Rendered(f)) = 3 + Len(Body(f))
         /\ Rendered(f)[1] = Header(Before(f), f.name)
         /\ Rendered(f)[2] = OldName(IF f.status = "added" THEN DevNull ELSE Before(f))
         /\ Rendered(f)[3] = NewName(IF f.status = "removed" THEN DevNull ELSE f.name)
         /\ \A k \in 1 .. Len(Body(f)) : Rendered(f)[3 + k] = Body(f)[k]
  <1> DEFINE a == Header(Before(f), f.name)
             b == OldName(IF f.status = "added" THEN DevNull ELSE Before(f))
             c == NewName(IF f.status = "removed" THEN DevNull ELSE f.name)
             S == {a, b, c} \union ToSet(Body(f))
  <1>1. Rendered(f) = <<a, b, c>> \o Body(f)
    BY DEF Rendered, Before
  <1> HIDE DEF a, b, c
  <1>2. <<a, b, c>> \in Seq(S) /\ Len(<<a, b, c>>) = 3
    OBVIOUS
  <1>3. Body(f) \in Seq(S)
    BY BodyFacts, Wider
  <1>4. Len(Body(f)) \in Nat
    BY BodyFacts
  <1> HIDE DEF S
  <1>5. /\ Rendered(f) \in Seq(S) /\ Len(Rendered(f)) = 3 + Len(Body(f))
        /\ Rendered(f)[1] = a /\ Rendered(f)[2] = b /\ Rendered(f)[3] = c
        /\ \A k \in 1 .. Len(Body(f)) : Rendered(f)[3 + k] = Body(f)[k]
    <2>1. /\ \A j \in 1 .. 3 : (<<a, b, c>> \o Body(f))[j] = <<a, b, c>>[j]
          /\ \A k \in 1 .. Len(Body(f)) : (<<a, b, c>> \o Body(f))[3 + k] = Body(f)[k]
          /\ <<a, b, c>> \o Body(f) \in Seq(S)
          /\ Len(<<a, b, c>> \o Body(f)) = 3 + Len(Body(f))
      BY <1>2, <1>3, ConcatFacts
    <2>2. 1 \in 1 .. 3 /\ 2 \in 1 .. 3 /\ 3 \in 1 .. 3
      OBVIOUS
    <2>3. <<a, b, c>>[1] = a /\ <<a, b, c>>[2] = b /\ <<a, b, c>>[3] = c
      OBVIOUS
    <2> QED
      BY <1>1, <2>1, <2>2, <2>3
  <1>6. Rendered(f) \in Seq(ToSet(Rendered(f)))
    BY <1>5, OwnRange
  <1> QED
    BY <1>5, <1>6 DEF a, b, c

(* Where the lines of the diff come from: file i has its block between     *)
(* off[i - 1] and off[i].                                                  *)
Laid(list, off) ==
  /\ Offsets(Blocks(list), off)
  /\ DOMAIN Diff(list) = 1 .. off[Len(list)]
  /\ \A i \in 1 .. Len(list) : \A j \in 1 .. Len(Block(list[i])) :
       Diff(list)[off[i - 1] + j] = Block(list[i])[j]

LEMMA BlocksFacts ==
  ASSUME NEW list \in Comparisons
  PROVE  /\ list \in Seq(ToSet(list)) /\ DOMAIN list = 1 .. Len(list) /\ Len(list) \in Nat
         /\ \A i \in 1 .. Len(list) : IsFile(list[i])
         /\ Len(Blocks(list)) = Len(list)
         /\ \A i \in 1 .. Len(list) : Blocks(list)[i] = Block(list[i])
         /\ \E S : Blocks(list) \in Seq(Seq(S))
  <1>1. list \in Seq(ToSet(list)) /\ \A f \in ToSet(list) : IsFile(f)
    BY ComparisonsAssumption
  <1>2. /\ DOMAIN list = 1 .. Len(list) /\ Len(list) \in Nat
        /\ \A i \in 1 .. Len(list) : IsFile(list[i])
    BY <1>1, OwnRange
  <1> DEFINE S == UNION {ToSet(Rendered(list[i])) : i \in DOMAIN list}
  <1>3. ASSUME NEW i \in DOMAIN list PROVE Block(list[i]) \in Seq(S)
    <2>1. Rendered(list[i]) \in Seq(ToSet(Rendered(list[i])))
      BY <1>2, RenderedFacts
    <2>2. ToSet(Rendered(list[i])) \subseteq S
      OBVIOUS
    <2> HIDE DEF S
    <2>3. Rendered(list[i]) \in Seq(S) /\ <<>> \in Seq(S)
      BY <2>1, <2>2, Wider
    <2> QED
      BY <2>3 DEF Block
  <1> HIDE DEF S
  <1>4. Blocks(list) \in Seq(Seq(S)) /\ Len(Blocks(list)) = Len(list)
    BY <1>2, <1>3 DEF Blocks
  <1>5. \A i \in 1 .. Len(list) : Blocks(list)[i] = Block(list[i])
    BY <1>2 DEF Blocks
  <1> QED
    BY <1>1, <1>2, <1>4, <1>5

LEMMA Layout ==
  ASSUME NEW list \in Comparisons
  PROVE  \E off : Laid(list, off)
  <1>1. PICK S : Blocks(list) \in Seq(Seq(S))
    BY BlocksFacts
  <1>2. Diff(list) = FlattenSeq(Blocks(list))
    BY DEF Diff, Blocks, Block
  <1>3a. PICK off : FlatAt(Blocks(list), S, off)
    BY <1>1, Flattening DEF IsFlat
  <1>3. /\ Offsets(Blocks(list), off)
        /\ Diff(list) \in Seq(S) /\ Len(Diff(list)) = off[Len(Blocks(list))]
        /\ \A i \in 1 .. Len(Blocks(list)) : \A j \in 1 .. Len(Blocks(list)[i]) :
             Diff(list)[off[i - 1] + j] = Blocks(list)[i][j]
    BY <1>2, <1>3a DEF FlatAt
  <1>4. DOMAIN Diff(list) = 1 .. off[Len(list)]
    BY <1>3, BlocksFacts, OwnRange
  <1>5. \A i \in 1 .. Len(list) : \A j \in 1 .. Len(Block(list[i])) :
          Diff(list)[off[i - 1] + j] = Block(list[i])[j]
    <2>1. /\ Len(Blocks(list)) = Len(list)
          /\ \A i \in 1 .. Len(list) : Blocks(list)[i] = Block(list[i])
      BY BlocksFacts
    <2> QED
      BY ONLY <1>3, <2>1
  <1> QED
    BY <1>3, <1>4, <1>5 DEF Laid

LEMMA DiffIsASequence ==
  ASSUME NEW list \in Comparisons
  PROVE  Diff(list) \in Seq(ToSet(Diff(list)))
  <1>1. PICK S : Blocks(list) \in Seq(Seq(S))
    BY BlocksFacts
  <1>2. Diff(list) = FlattenSeq(Blocks(list))
    BY DEF Diff, Blocks, Block
  <1>3. Diff(list) \in Seq(S)
    BY <1>1, <1>2, Flattening DEF IsFlat, FlatAt
  <1> QED
    BY <1>3, OwnRange

(* The lines of a file. *)
LEMMA Place ==
  ASSUME NEW list \in Comparisons, NEW off, Laid(list, off),
         NEW i \in 1 .. Len(list), Named(list[i])
  PROVE  /\ off[i - 1] \in Nat /\ Len(Body(list[i])) \in Nat /\ IsFile(list[i])
         /\ off[i] = off[i - 1] + (3 + Len(Body(list[i])))
         /\ \A j \in 1 .. 3 + Len(Body(list[i])) : /\ off[i - 1] + j \in DOMAIN Diff(list)
                                                  /\ off[i - 1] + j \in Nat
         /\ Diff(list)[off[i - 1] + 1] = Header(Before(list[i]), list[i].name)
         /\ Diff(list)[off[i - 1] + 2]
              = OldName(IF list[i].status = "added" THEN DevNull ELSE Before(list[i]))
         /\ Diff(list)[off[i - 1] + 3]
              = NewName(IF list[i].status = "removed" THEN DevNull ELSE list[i].name)
         /\ \A k \in 1 .. Len(Body(list[i])) :
              Diff(list)[off[i - 1] + (3 + k)] = Body(list[i])[k]
  <1> DEFINE f == list[i]
             n == 3 + Len(Body(f))
             base == off[i - 1]
  <1>1. IsFile(f)
    BY BlocksFacts
  <1>2. Block(f) = Rendered(f) /\ Len(Block(f)) = n /\ Len(Body(f)) \in Nat
    BY <1>1, RenderedFacts, BodyFacts DEF Block
  <1>3. PICK S : Blocks(list) \in Seq(Seq(S))
    BY BlocksFacts
  <1>4. /\ Len(Blocks(list)) = Len(list) /\ Blocks(list)[i] = Block(f) /\ Len(list) \in Nat
    BY BlocksFacts
  <1>5. Offsets(Blocks(list), off) /\ DOMAIN Diff(list) = 1 .. off[Len(list)]
          /\ \A j \in 1 .. Len(Block(f)) : Diff(list)[base + j] = Block(f)[j]
    BY DEF Laid
  <1>6. base \in Nat /\ off[i] \in Nat /\ off[i] = base + n
    BY <1>2, <1>3, <1>4, <1>5, OffsetFacts
  <1>7. off[i] <= off[Len(list)] /\ off[Len(list)] \in Nat
    <2>1. i \in 0 .. Len(Blocks(list)) /\ Len(list) \in i .. Len(Blocks(list))
      BY <1>4
    <2>2. off[Len(list)] \in Nat
      BY <1>4, <1>5 DEF Offsets
    <2> QED
      BY <1>3, <1>5, <2>1, <2>2, OffsetsGrow
  <1>8. \A j \in 1 .. n : Diff(list)[base + j] = Rendered(f)[j]
    BY <1>2, <1>5
  <1> HIDE DEF base, f
  <1>9. n \in Nat /\ 1 \in 1 .. n /\ 2 \in 1 .. n /\ 3 \in 1 .. n
        /\ \A k \in 1 .. Len(Body(f)) : 3 + k \in 1 .. n
    BY <1>2
  <1>10. \A j \in 1 .. n : base + j \in DOMAIN Diff(list) /\ base + j \in Nat
    BY <1>5, <1>6, <1>7, <1>9
  <1>11. /\ Diff(list)[base + 1] = Header(Before(f), f.name)
         /\ Diff(list)[base + 2] = OldName(IF f.status = "added" THEN DevNull ELSE Before(f))
         /\ Diff(list)[base + 3] = NewName(IF f.status = "removed" THEN DevNull ELSE f.name)
    BY <1>1, <1>8, <1>9, RenderedFacts
  <1>12. \A k \in 1 .. Len(Body(f)) : Diff(list)[base + (3 + k)] = Body(f)[k]
    BY <1>1, <1>8, <1>9, RenderedFacts
  <1> QED
    BY ONLY <1>1, <1>2, <1>6, <1>10, <1>11, <1>12 DEF base, f, n

(* Every line is one of a file's. *)
LEMMA Origin ==
  ASSUME NEW list \in Comparisons, NEW off, Laid(list, off), NEW p \in DOMAIN Diff(list)
  PROVE  \E i \in 1 .. Len(list) : /\ Named(list[i])
                                   /\ \E j \in 1 .. 3 + Len(Body(list[i])) : p = off[i - 1] + j
  <1>1. PICK S : Blocks(list) \in Seq(Seq(S))
    BY BlocksFacts
  <1>2. /\ Len(Blocks(list)) = Len(list)
        /\ Offsets(Blocks(list), off) /\ p \in 1 .. off[Len(Blocks(list))]
    BY BlocksFacts DEF Laid
  <1>0. PICK i \in 1 .. Len(list) : \E j \in 1 .. Len(Blocks(list)[i]) : p = off[i - 1] + j
    <2>1. InABlock(Blocks(list), off, p)
      BY <1>1, <1>2, OffsetsCover
    <2> QED
      BY <1>2, <2>1 DEF InABlock
  <1>3. PICK j \in 1 .. Len(Blocks(list)[i]) : p = off[i - 1] + j
    BY <1>0
  <1>4. j \in 1 .. Len(Block(list[i])) /\ IsFile(list[i])
    BY <1>3, BlocksFacts
  <1>5. Named(list[i])
    <2>1. Len(<<>>) = 0 /\ 1 .. 0 = {}
      OBVIOUS
    <2> QED
      BY <1>4, <2>1 DEF Block
  <1>6. j \in 1 .. 3 + Len(Body(list[i]))
    BY <1>4, <1>5, RenderedFacts DEF Block
  <1> QED
    BY <1>3, <1>5, <1>6

(* It is one line of one file. *)
LEMMA Apart ==
  ASSUME NEW list \in Comparisons, NEW off, Laid(list, off),
         NEW i \in 1 .. Len(list), Named(list[i]), NEW k \in 1 .. Len(list), Named(list[k]),
         NEW j \in 1 .. 3 + Len(Body(list[i])), NEW l \in 1 .. 3 + Len(Body(list[k])),
         off[i - 1] + j = off[k - 1] + l
  PROVE  i = k /\ j = l
  <1>1. PICK S : Blocks(list) \in Seq(Seq(S))
    BY BlocksFacts
  <1>2. /\ Offsets(Blocks(list), off) /\ Len(Blocks(list)) = Len(list)
        /\ Blocks(list)[i] = Block(list[i]) /\ Blocks(list)[k] = Block(list[k])
        /\ IsFile(list[i]) /\ IsFile(list[k])
    BY BlocksFacts DEF Laid
  <1>3. j \in 1 .. Len(Blocks(list)[i]) /\ l \in 1 .. Len(Blocks(list)[k])
    BY <1>2, RenderedFacts DEF Block
  <1> QED
    BY <1>1, <1>2, <1>3, OffsetsApart

(* A file begins behind the end of every file before it. *)
LEMMA Behindhand ==
  ASSUME NEW list \in Comparisons, NEW off, Laid(list, off),
         NEW i \in 1 .. Len(list), NEW k \in 1 .. Len(list), i < k
  PROVE  off[i] <= off[k - 1]
  <1>1. PICK S : Blocks(list) \in Seq(Seq(S))
    BY BlocksFacts
  <1>2. Offsets(Blocks(list), off) /\ Len(Blocks(list)) = Len(list) /\ Len(list) \in Nat
    BY BlocksFacts DEF Laid
  <1>3. i \in 0 .. Len(Blocks(list)) /\ k - 1 \in i .. Len(Blocks(list))
    BY <1>2
  <1> QED
    BY <1>1, <1>2, <1>3, OffsetsGrow

(* A section begins where a file does. *)
LEMMA SectionsAreFiles ==
  ASSUME NEW list \in Comparisons, NEW off, Laid(list, off), NEW p \in DOMAIN Diff(list)
  PROVE  p \in Sections(Diff(list))
           <=> \E i \in 1 .. Len(list) : Named(list[i]) /\ p = off[i - 1] + 1
  <1> DEFINE d == Diff(list)
  <1>1. ASSUME NEW i \in 1 .. Len(list), Named(list[i]), p = off[i - 1] + 1
        PROVE  p \in Sections(d)
    <2>1. d[p] = Header(Before(list[i]), list[i].name)
      BY <1>1, Place
    <2>2. d[p].kind = "diff"
      BY <2>1 DEF Header
    <2> QED
      BY <2>2 DEF Sections
  <1>2. ASSUME p \in Sections(d)
        PROVE  \E i \in 1 .. Len(list) : Named(list[i]) /\ p = off[i - 1] + 1
    <2>1. PICK i \in 1 .. Len(list) :
            Named(list[i]) /\ \E j \in 1 .. 3 + Len(Body(list[i])) : p = off[i - 1] + j
      BY Origin
    <2>2. PICK j \in 1 .. 3 + Len(Body(list[i])) : p = off[i - 1] + j
      BY <2>1
    <2>3. d[p].kind = "diff"
      BY <1>2 DEF Sections
    <2>4. j # 2 /\ j # 3
      <3>1. \A q : OldName(q).kind # "diff" /\ NewName(q).kind # "diff"
        BY DEF OldName, NewName
      <3>2. j = 2 => \E q : d[p] = OldName(q)
        BY <2>1, <2>2, Place
      <3>3. j = 3 => \E q : d[p] = NewName(q)
        BY <2>1, <2>2, Place
      <3> QED
        BY <2>3, <3>1, <3>2, <3>3
    <2>5. ASSUME j > 3 PROVE FALSE
      <3> DEFINE k == j - 3
      <3>1. Len(Body(list[i])) \in Nat
        BY <2>1, Place
      <3>2. k \in 1 .. Len(Body(list[i])) /\ j = 3 + k
        BY <2>2, <2>5, <3>1
      <3> HIDE DEF k
      <3>3. d[p] = Body(list[i])[k]
        BY <2>1, <2>2, <3>2, Place
      <3>4. Body(list[i])[k].kind # "diff"
        BY <2>1, <3>2, Place, BodyFacts
      <3> QED
        BY <2>3, <3>3, <3>4
    <2>6. j = 1
      <3>1. Len(Body(list[i])) \in Nat
        BY <2>1, Place
      <3> QED
        BY <2>2, <2>4, <2>5, <3>1
    <2> QED
      BY <2>1, <2>2, <2>6
  <1> QED
    BY <1>1, <1>2

(* A section holds the lines of its file. *)
LEMMA SectionIsTheFile ==
  ASSUME NEW list \in Comparisons, NEW off, Laid(list, off),
         NEW i \in 1 .. Len(list), Named(list[i]), NEW p \in DOMAIN Diff(list)
  PROVE  p \in Section(Diff(list), off[i - 1] + 1)
           <=> \E j \in 1 .. 3 + Len(Body(list[i])) : p = off[i - 1] + j
  <1> DEFINE d == Diff(list)
             base == off[i - 1]
             n == 3 + Len(Body(list[i]))
  <1>1. base \in Nat /\ n \in Nat /\ off[i] = base + n
    BY Place
  <1>2. PICK m \in 1 .. Len(list) :
          Named(list[m]) /\ \E l \in 1 .. 3 + Len(Body(list[m])) : p = off[m - 1] + l
    BY Origin
  <1>3. PICK l \in 1 .. 3 + Len(Body(list[m])) : p = off[m - 1] + l
    BY <1>2
  <1>4. off[m - 1] \in Nat /\ l \in Nat /\ l >= 1 /\ off[m] = off[m - 1] + (3 + Len(Body(list[m])))
        /\ Len(Body(list[m])) \in Nat /\ l <= 3 + Len(Body(list[m]))
    BY <1>2, <1>3, Place
  <1>5. p \in Section(d, base + 1)
          <=> p >= base + 1 /\ Sections(d) \cap ((base + 1) + 1 .. p) = {}
    BY DEF Section
  <1> HIDE DEF base, n
  <1>6. ASSUME m = i PROVE p \in Section(d, base + 1)
    <2>1. p >= base + 1 /\ p <= base + n
      BY <1>1, <1>3, <1>4, <1>6 DEF base, n
    <2>2. ASSUME NEW q \in Sections(d), q \in (base + 1) + 1 .. p PROVE FALSE
      <3>1. PICK k \in 1 .. Len(list) : Named(list[k]) /\ q = off[k - 1] + 1
        BY <2>2, SectionsAreFiles DEF Sections
      <3> DEFINE j == q - base
      <3>2. j \in 1 .. n /\ q = base + j /\ j # 1
        BY <1>1, <2>1, <2>2
      <3>3. 1 \in 1 .. 3 + Len(Body(list[k]))
        BY <3>1, Place
      <3> HIDE DEF j
      <3>4. j = 1
        BY <3>1, <3>2, <3>3, Apart DEF base, n
      <3> QED
        BY <3>2, <3>4
    <2> QED
      BY <1>5, <2>1, <2>2
  <1>7. ASSUME m # i PROVE p \notin Section(d, base + 1)
    <2>1. CASE m < i
      <3>1. off[m] <= base
        BY <1>2, <2>1, Behindhand DEF base
      <3>2. p <= base
        BY <1>1, <1>3, <1>4, <3>1
      <3> QED
        BY <1>1, <1>3, <1>4, <1>5, <3>2
    <2>2. CASE i < m
      <3>1. off[i] <= off[m - 1]
        BY <1>2, <2>2, Behindhand
      <3>2. n >= 3
        BY Place DEF n
      <3>3. off[m - 1] + 1 \in (base + 1) + 1 .. p
        BY <1>1, <1>3, <1>4, <3>1, <3>2
      <3>4. off[m - 1] + 1 \in Sections(d)
        <4>1. off[m - 1] + 1 \in DOMAIN d
          BY <1>2, Place
        <4> QED
          BY <1>2, <4>1, SectionsAreFiles
      <3> QED
        BY <1>5, <3>3, <3>4
    <2>3. m < i \/ i < m
      BY <1>7
    <2> QED
      BY <2>1, <2>2, <2>3
  <1>8. (\E j \in 1 .. n : p = base + j) <=> m = i
    <2>1. ASSUME NEW j \in 1 .. n, p = base + j PROVE m = i
      BY <1>2, <1>3, <2>1, Apart DEF base, n
    <2>2. ASSUME m = i PROVE \E j \in 1 .. n : p = base + j
      BY <1>3, <2>2 DEF base, n
    <2> QED
      BY <2>1, <2>2
  <1> QED
    BY ONLY <1>6, <1>7, <1>8 DEF base, n, d

-----------------------------------------------------------------------------
(* parse_git_diff and run_diff_analysis read the paths that were printed.  *)

(* No line of a patch is taken for a header. *)
LEMMA PlainBody ==
  ASSUME NEW list \in Comparisons, Plainly(list), NEW i \in 1 .. Len(list),
         NEW k \in 1 .. Len(Body(list[i]))
  PROVE  Body(list[i])[k].kind \notin {"diff", "---", "+++"}
  <1> DEFINE f == list[i]
  <1>1. IsFile(f) /\ i \in DOMAIN list
    BY BlocksFacts
  <1>2. k \in DOMAIN Body(f)
    BY <1>1, BodyFacts
  <1>3. CASE f.patch = <<>>
    <2>1. Body(f)[k].kind \in {"@@", "#"}
      BY <1>1, <1>2, <1>3, BodyFacts
    <2> QED
      BY <2>1
  <1>4. CASE f.patch # <<>>
    <2> DEFINE sign == f.patch[k][1]
               text == f.patch[k][2]
    <2>1. Body(f)[k] = Printed(sign, text) /\ k \in DOMAIN f.patch
      BY <1>1, <1>2, <1>4, BodyFacts
    <2>2. sign \in Signs
      BY <1>1, <2>1 DEF IsFile
    <2>3. ~ (sign = "-" /\ text \in MinusLike) /\ ~ (sign = "+" /\ text \in PlusLike)
      BY <1>1, <2>1 DEF Plainly, Changes
    <2> HIDE DEF sign, text, f
    <2>4. /\ Printed(sign, text).kind # "diff"
          /\ Printed(sign, text).kind = "---" => sign = "-" /\ text \in MinusLike
          /\ Printed(sign, text).kind = "+++" => sign = "+" /\ text \in PlusLike
      BY ONLY <2>2, PrintedKinds
    <2> QED
      BY <2>1, <2>3, <2>4 DEF f
  <1> QED
    BY <1>3, <1>4

LEMMA KindsOfHeaders ==
  /\ \A a, b : Header(a, b).kind = "diff" /\ Header(a, b).old = a /\ Header(a, b).new = b
  /\ \A p : OldName(p).kind = "---" /\ OldName(p).path = p
  /\ \A p : NewName(p).kind = "+++" /\ NewName(p).path = p
  BY DEF Header, OldName, NewName

(* The names in front of a patch are those parse_git_diff ends up with.    *)
LEMMA LastPaths ==
  ASSUME NEW list \in Comparisons, NEW off, Laid(list, off), Plainly(list),
         NEW i \in 1 .. Len(list), Named(list[i]), NEW a, NEW b
  PROVE  /\ LastPath(Diff(list), off[i - 1] + 1, "---", a)
              = IF list[i].status = "added" THEN DevNull ELSE Before(list[i])
         /\ LastPath(Diff(list), off[i - 1] + 1, "+++", b)
              = IF list[i].status = "removed" THEN DevNull ELSE list[i].name
  <1> DEFINE d == Diff(list)
             f == list[i]
             base == off[i - 1]
             n == 3 + Len(Body(f))
             Headers(kind) == {q \in Section(d, base + 1) : d[q].kind = kind}
  <1>1. /\ base \in Nat /\ Len(Body(f)) \in Nat
        /\ \A j \in 1 .. n : base + j \in DOMAIN d /\ base + j \in Nat
        /\ d[base + 1] = Header(Before(f), f.name)
        /\ d[base + 2] = OldName(IF f.status = "added" THEN DevNull ELSE Before(f))
        /\ d[base + 3] = NewName(IF f.status = "removed" THEN DevNull ELSE f.name)
        /\ \A k \in 1 .. Len(Body(f)) : d[base + (3 + k)] = Body(f)[k]
    BY Place
  <1>2. \A q \in DOMAIN d : q \in Section(d, base + 1) <=> \E j \in 1 .. n : q = base + j
    BY SectionIsTheFile
  <1>3. Section(d, base + 1) \subseteq DOMAIN d
    BY DEF Section
  <1>4. \A k \in 1 .. Len(Body(f)) : Body(f)[k].kind \notin {"diff", "---", "+++"}
    BY PlainBody
  <1> HIDE DEF d, base, f
  <1>5. 1 \in 1 .. n /\ 2 \in 1 .. n /\ 3 \in 1 .. n
    BY <1>1
  <1>6. ASSUME NEW j \in 1 .. n
        PROVE  /\ d[base + j].kind = "---" <=> j = 2
               /\ d[base + j].kind = "+++" <=> j = 3
    <2>1. CASE j \in {1, 2, 3}
      BY <1>1, <2>1, KindsOfHeaders
    <2>2. CASE j \notin {1, 2, 3}
      <3> DEFINE k == j - 3
      <3>1. k \in 1 .. Len(Body(f)) /\ j = 3 + k
        BY <1>1, <2>2
      <3> HIDE DEF k
      <3>2. d[base + j] = Body(f)[k]
        BY <1>1, <3>1
      <3> QED
        BY <1>4, <2>2, <3>1, <3>2
    <2> QED
      BY <2>1, <2>2
  <1>7. Headers("---") = {base + 2} /\ Headers("+++") = {base + 3}
    <2>1. base + 2 \in Headers("---") /\ base + 3 \in Headers("+++")
      BY <1>1, <1>2, <1>5, <1>6
    <2>2. ASSUME NEW q \in Headers("---") PROVE q = base + 2
      BY <1>2, <1>3, <1>6, <2>2
    <2>3. ASSUME NEW q \in Headers("+++") PROVE q = base + 3
      BY <1>2, <1>3, <1>6, <2>3
    <2> HIDE DEF Headers
    <2> QED
      BY <2>1, <2>2, <2>3
  <1>8. Max({base + 2}) = base + 2 /\ Max({base + 3}) = base + 3
    <2>1. ASSUME NEW g \in Nat PROVE Max({g}) = g
      <3>1. {g} \in SUBSET Nat /\ g \in {g} /\ \A m \in {g} : g >= m
        OBVIOUS
      <3> QED
        BY ONLY <3>1, MaxIs
    <2> QED
      BY <1>1, <1>5, <2>1
  <1>9. /\ LastPath(d, base + 1, "---", a)
             = IF Headers("---") = {} THEN a ELSE d[Max(Headers("---"))].path
        /\ LastPath(d, base + 1, "+++", b)
             = IF Headers("+++") = {} THEN b ELSE d[Max(Headers("+++"))].path
    BY DEF LastPath
  <1> HIDE DEF Headers
  <1>10. /\ LastPath(d, base + 1, "---", a) = d[base + 2].path
         /\ LastPath(d, base + 1, "+++", b) = d[base + 3].path
    BY <1>7, <1>8, <1>9
  <1>11. /\ LastPath(d, base + 1, "---", a) = IF f.status = "added" THEN DevNull ELSE Before(f)
         /\ LastPath(d, base + 1, "+++", b) = IF f.status = "removed" THEN DevNull ELSE f.name
    BY ONLY <1>1, <1>10, KindsOfHeaders
  <1> QED
    BY <1>11 DEF d, f, base

(* Whatever happened to a file, its name is what the analysis reports.     *)
LEMMA ChangedName ==
  ASSUME NEW f, IsFile(f), NEW r,
         r.old = IF f.status = "added" THEN DevNull ELSE Before(f),
         r.new = IF f.status = "removed" THEN DevNull ELSE f.name
  PROVE  ChangedPath(r) = f.name
  <1>1. f.name # DevNull
    BY DEF IsFile
  <1>2. CASE f.status = "removed"
    <2>1. r.old = f.name /\ r.new = DevNull
      BY <1>2 DEF Before
    <2> QED
      BY <1>1, <2>1 DEF ChangedPath, Deleted
  <1>3. CASE f.status # "removed"
    BY <1>1, <1>3 DEF ChangedPath, Deleted
  <1> QED
    BY <1>2, <1>3

LEMMA AnalysisRecovers ==
  ASSUME NEW list \in Comparisons, Plainly(list)
  PROVE  DiffAnalysis(Diff(list)).files = {list[i].name : i \in DOMAIN list} \ {NoPath}
  <1> DEFINE d == Diff(list)
             Read(s) == [old |-> LastPath(d, s, "---", d[s].old),
                         new |-> LastPath(d, s, "+++", d[s].new)]
  <1>1. PICK off : Laid(list, off)
    BY Layout
  <1>2. DiffAnalysis(d).files = {ChangedPath(r) : r \in {Read(s) : s \in Sections(d)}}
    BY DEF DiffAnalysis, ParseGitDiff
  <1>3. DOMAIN list = 1 .. Len(list) /\ \A i \in 1 .. Len(list) : IsFile(list[i])
    BY BlocksFacts
  <1>4. Sections(d) \subseteq DOMAIN d
    BY DEF Sections
  <1>5. ASSUME NEW i \in 1 .. Len(list), Named(list[i])
        PROVE  ChangedPath(Read(off[i - 1] + 1)) = list[i].name
    <2>1. /\ Read(off[i - 1] + 1).old
               = IF list[i].status = "added" THEN DevNull ELSE Before(list[i])
          /\ Read(off[i - 1] + 1).new
               = IF list[i].status = "removed" THEN DevNull ELSE list[i].name
      BY <1>1, <1>5, LastPaths
    <2> HIDE DEF Read
    <2> QED
      BY <1>3, <2>1, ChangedName
  <1> HIDE DEF Read
  <1>6. ASSUME NEW s \in Sections(d)
        PROVE  ChangedPath(Read(s)) \in {list[i].name : i \in DOMAIN list} \ {NoPath}
    <2>1. PICK i \in 1 .. Len(list) : Named(list[i]) /\ s = off[i - 1] + 1
      BY <1>1, <1>4, SectionsAreFiles
    <2> QED
      BY <1>3, <1>5, <2>1 DEF Named
  <1>7. ASSUME NEW i \in DOMAIN list, list[i].name # NoPath
        PROVE  \E s \in Sections(d) : ChangedPath(Read(s)) = list[i].name
    <2>1. i \in 1 .. Len(list) /\ Named(list[i])
      BY <1>3, <1>7 DEF Named
    <2>2. 1 \in 1 .. 3 + Len(Body(list[i]))
      BY <1>1, <2>1, Place
    <2>3. off[i - 1] + 1 \in DOMAIN d
      BY <1>1, <2>1, <2>2, Place
    <2>4. off[i - 1] + 1 \in Sections(d)
      BY <1>1, <2>1, <2>3, SectionsAreFiles
    <2> QED
      BY <1>5, <2>1, <2>4
  <1> HIDE DEF d
  <1>8. {ChangedPath(r) : r \in {Read(s) : s \in Sections(d)}}
          = {list[i].name : i \in DOMAIN list} \ {NoPath}
    BY <1>6, <1>7
  <1> QED
    BY <1>2, <1>8 DEF d

(* The diff analysis recovers the files the compare API named. *)
THEOREM DiffIsUnderstood == Spec => []RecoversChangedFiles
  <1>1. TextInv => RecoversChangedFiles
    <2> SUFFICES ASSUME TextInv, stage \notin {"log_ingest", "diff_analysis"}, Plainly(files)
                 PROVE  changes.files = {files[i].name : i \in DOMAIN files} \ {NoPath}
      BY DEF RecoversChangedFiles
    <2>1. CASE stage \in Gathering
      <3>1. files = <<>> /\ changes = NoChanges
        BY <2>1, StageSets DEF TextInv, DiffHeld, ChangesHeld
      <3>2. DOMAIN files = {} /\ changes.files = {}
        BY <3>1 DEF NoChanges
      <3> QED
        BY <3>2
    <2>2. CASE stage \notin Gathering
      <3>1. files \in Comparisons /\ diff = Diff(files) /\ changes = DiffAnalysis(diff)
        BY <2>2, StageSets DEF TextInv, DiffHeld, ChangesHeld
      <3> QED
        BY <3>1, AnalysisRecovers
    <2> QED
      BY <2>1, <2>2
  <1> QED
    BY <1>1, TextInvariant, PTL

-----------------------------------------------------------------------------
(* What is made of a file. *)

LEMMA ContentIsASequence ==
  ASSUME NEW S, NEW d \in Seq(S), NEW path
  PROVE  \E T : ShownContent(d, path) \in Seq(T)
  <1> DEFINE T == {d[j].text : j \in DOMAIN d}
             seqs == [j \in DOMAIN d |-> IF Shows(d, path, j) THEN <<d[j].text>> ELSE <<>>]
  <1>1. ShownContent(d, path) = FlattenSeq(seqs)
    BY DEF ShownContent
  <1>2. DOMAIN d = 1 .. Len(d) /\ Len(d) \in Nat
    OBVIOUS
  <1>3. ASSUME NEW j \in DOMAIN d PROVE <<d[j].text>> \in Seq(T) /\ <<>> \in Seq(T)
    BY <1>3
  <1> HIDE DEF T
  <1>4. seqs \in Seq(Seq(T))
    BY <1>2, <1>3
  <1> HIDE DEF seqs
  <1>5. FlattenSeq(seqs) \in Seq(T)
    BY <1>4, Flattening DEF IsFlat, FlatAt
  <1> QED
    BY <1>1, <1>5

(* The synthesis changes one line, the one of the evidence if there is     *)
(* such a line, and one that does not silence the checker yet.             *)
LEMMA RepairFacts ==
  ASSUME NEW S, NEW lines \in Seq(S), NEW number \in Nat, Rewritten(lines, number) # <<>>
  PROVE  \E i \in DOMAIN lines :
           /\ lines[i] \notin Ignoring
           /\ Rewritten(lines, number) = [lines EXCEPT ![i] = Repaired[lines[i]]]
           /\ number \in DOMAIN lines => i = number
  <1> DEFINE n == Len(lines)
             a == Max({number, 1})
             i == Min({a, n})
  <1>1. Rewritten(lines, number) = IF lines = <<>> \/ lines[i] \in Ignoring THEN <<>>
                                   ELSE [lines EXCEPT ![i] = Repaired[lines[i]]]
    BY DEF Rewritten
  <1>2. lines # <<>> /\ lines[i] \notin Ignoring
    BY <1>1
  <1>3. n \in Nat /\ n >= 1 /\ DOMAIN lines = 1 .. n
    BY <1>2
  <1> HIDE DEF n
  <1>4. a \in Nat /\ a >= 1 /\ (number >= 1 => a = number)
    <2>1. CASE number >= 1
      <3>1. {number, 1} \in SUBSET Nat /\ number \in {number, 1}
              /\ \A m \in {number, 1} : number >= m
        BY <2>1
      <3>2. a = number
        BY <3>1, MaxIs
      <3> QED
        BY <2>1, <3>2
    <2>2. CASE number = 0
      <3>1. {number, 1} \in SUBSET Nat /\ 1 \in {number, 1}
              /\ \A m \in {number, 1} : 1 >= m
        BY <2>2
      <3>2. a = 1
        BY <3>1, MaxIs
      <3> QED
        BY <2>2, <3>2
    <2> QED
      BY <2>1, <2>2
  <1> HIDE DEF a
  <1>5. i \in 1 .. n /\ (a <= n => i = a)
    <2>1. CASE a <= n
      <3>1. {a, n} \in SUBSET Nat /\ a \in {a, n} /\ \A m \in {a, n} : a <= m
        BY <1>3, <1>4, <2>1
      <3>2. i = a
        BY <3>1, MinIs
      <3> QED
        BY <1>3, <1>4, <2>1, <3>2
    <2>2. CASE ~ (a <= n)
      <3>1. {a, n} \in SUBSET Nat /\ n \in {a, n} /\ \A m \in {a, n} : n <= m
        BY <1>3, <1>4, <2>2
      <3>2. i = n
        BY <3>1, MinIs
      <3> QED
        BY <1>3, <2>2, <3>2
    <2> QED
      BY <2>1, <2>2
  <1> HIDE DEF i
  <1>6. number \in DOMAIN lines => i = number
    BY <1>3, <1>4, <1>5
  <1> QED
    BY <1>1, <1>2, <1>3, <1>5, <1>6

(* The contents of an accepted proposal. *)
LEMMA ProposedFacts ==
  ASSUME NEW raw \in Proposals \union {NoProposal}, ~BreaksContract(raw) \/ raw = NoProposal,
         NEW c, NEW p \in DOMAIN Proposed(raw, c)
  PROVE  /\ Inside(p) /\ Proposed(raw, c)[p] # <<>>
         /\ c = "TYPECHECK"
              => \A j \in DOMAIN Proposed(raw, c)[p] : Proposed(raw, c)[p][j] \notin Ignoring
  <1> DEFINE plan == raw.plan
             Silences(item) == \E j \in DOMAIN item.content : item.content[j] \in Ignoring
             kept == {i \in DOMAIN plan : /\ OpOf(plan[i].op) \in Writing
                                         /\ ~(c = "TYPECHECK" /\ Silences(plan[i]))}
             paths == {plan[i].file : i \in kept}
             Of(f) == {i \in kept : plan[i].file = f}
  <1>1. Proposed(raw, c) = [f \in paths |-> plan[Max(Of(f))].content]
    BY DEF Proposed
  <1>2. plan \in Seq(ToSet(plan))
    <2>1. CASE raw = NoProposal
      BY <2>1 DEF NoProposal, ToSet
    <2>2. CASE raw \in Proposals
      BY <2>2, ContentsAssumption
    <2> QED
      BY <2>1, <2>2
  <1>3. DOMAIN plan = 1 .. Len(plan) /\ Len(plan) \in Nat
    BY <1>2, OwnRange
  <1>4. p \in paths /\ Proposed(raw, c)[p] = plan[Max(Of(p))].content
    BY <1>1
  <1>5. Of(p) # {} /\ Of(p) \in SUBSET Nat /\ \A m \in Of(p) : m <= Len(plan)
    BY <1>3, <1>4
  <1> DEFINE k == Max(Of(p))
  <1>6. k \in Of(p)
    <2> HIDE DEF Of, plan
    <2> QED
      BY ONLY <1>3, <1>5, MaxIsGreatest
  <1>7. raw # NoProposal
    <2> SUFFICES ASSUME raw = NoProposal PROVE FALSE
      OBVIOUS
    <2>1. plan = <<>>
      BY DEF NoProposal
    <2> QED
      BY <1>6, <2>1
  <1>8. k \in DOMAIN plan /\ plan[k].file = p /\ OpOf(plan[k].op) \in Writing
          /\ ~(c = "TYPECHECK" /\ Silences(plan[k]))
    <2> HIDE DEF k, plan, Silences
    <2> QED
      BY <1>6, Zenon
  <1> HIDE DEF k
  <1>9. ~ (OpOf(plan[k].op) \in Writing /\ plan[k].content = <<>>) /\ Inside(plan[k].file)
    BY <1>7, <1>8 DEF BreaksContract, Safe
  <1>10. Proposed(raw, c)[p] = plan[k].content
    BY <1>4 DEF k
  <1> QED
    BY <1>8, <1>9, <1>10

LEMMA LineIsANumber ==
  ASSUME TextInv
  PROVE  primary.line \in Nat
  <1>1. CASE primary = NoPrimary
    BY <1>1 DEF NoPrimary
  <1>2. ASSUME NEW e \in events, primary.line = e.line
        PROVE  primary.line \in Nat
    <2>1. PICK i \in DOMAIN log : e = Event(log, i)
      BY DEF TextInv, EventsHeld, Events
    <2>2. IsText(log)
      BY DEF TextInv, EventsHeld
    <2> QED
      BY <1>2, <2>1, <2>2, EventIsPrinted
  <1> QED
    BY <1>1, <1>2 DEF TextInv, PrimaryHeld

LEMMA FileIsAPath ==
  ASSUME TextInv
  PROVE  primary.file.dir \in Seq(ToSet(primary.file.dir))
  <1>1. CASE primary.file = Unknown
    BY <1>1, NoDirectories
  <1>2. ASSUME NEW e \in events, primary.file = e.file, e.file # NoPath
        PROVE  primary.file.dir \in Seq(ToSet(primary.file.dir))
    <2>1. PICK i \in DOMAIN log : e = Event(log, i)
      BY DEF TextInv, EventsHeld, Events
    <2>2. IsText(log)
      BY DEF TextInv, EventsHeld
    <2>3. PICK j \in DOMAIN log : log[j].file = e.file
      BY <1>2, <2>1, <2>2, EventIsPrinted
    <2>4. log[j] \in ToSet(log)
      BY <2>2, OwnRange DEF IsText
    <2> QED
      BY <1>2, <2>2, <2>3, <2>4 DEF IsText
  <1>3. \/ primary.file = Unknown
        \/ \E e \in events : primary.file = e.file /\ e.file # NoPath
    BY DEF TextInv, PrimaryHeld, NoPrimary
  <1> QED
    BY <1>1, <1>2, <1>3

(* A repair differs from what it repairs in one line. *)
LEMMA RewrittenRepairs ==
  ASSUME NEW S, NEW lines \in Seq(S), primary.line \in Nat, NEW p,
         Rewritten(lines, primary.line) # <<>>
  PROVE  RepairsOneLine(lines, Rewritten(lines, primary.line), p)
  BY RepairFacts DEF RepairsOneLine

(* pr_creation is given safe paths and contents that are a model's or a    *)
(* repair of one line.                                                     *)
THEOREM PatchStaysHonest == Spec => []PatchIsHonest
  <1>1. TextInv => PatchIsHonest
    <2> SUFFICES ASSUME TextInv, NEW p \in DOMAIN patch
                 PROVE  /\ Inside(p) /\ patch[p] # <<>>
                        /\ class = "TYPECHECK" =>
                             \/ \A i \in DOMAIN patch[p] : patch[p][i] \notin Ignoring
                             \/ /\ p = Target
                                /\ \E old \in {ShownContent(diff, p)} \union
                                     {setting.checkout[q] :
                                        q \in DOMAIN setting.checkout \intersect {p}} :
                                        RepairsOneLine(old, patch[p], p)
      BY DEF PatchIsHonest
    <2> DEFINE shown == ShownContent(diff, Target)
               tree == Worktree(Target)
               fix == Synthesized(primary.line, shown, tree)
    <2>1. patch = Resolved(class, Target, primary.line, proposal, shown, tree)
      <3>1. patch # <<>>
        OBVIOUS
      <3> QED
        BY <3>1 DEF TextInv, PatchHeld
    <2>2. primary.line \in Nat
      BY LineIsANumber
    <2>3. \E T : shown \in Seq(T)
      <3>1. diff \in Seq(ToSet(diff))
        <4>1. CASE diff = <<>>
          BY <4>1
        <4>2. CASE \E list \in Comparisons : diff = Diff(list)
          BY <4>2, DiffIsASequence
        <4> QED
          BY <4>1, <4>2 DEF TextInv, DiffHeld
      <3> QED
        BY <3>1, ContentIsASequence
    <2>4. tree \in Seq(ToSet(tree))
      <3>1. CASE Target \in DOMAIN setting.checkout
        BY <3>1, ContentsAssumption DEF TextInv, Worktree
      <3>2. CASE Target \notin DOMAIN setting.checkout
        BY <3>2, NoDirectories DEF Worktree
      <3> QED
        BY <3>1, <3>2
    <2>5. CASE class = "TYPECHECK" /\ Target # NoPath /\ fix # <<>>
      <3>1. patch = [f \in {Target} |-> fix]
        BY <2>1, <2>5 DEF Resolved
      <3>2. p = Target /\ patch[p] = fix
        BY <3>1
      <3>5. Inside(p)
        BY <2>5, <3>2, FileIsAPath, RelativeFacts DEF Target
      <3>3. CASE Rewritten(shown, primary.line) # <<>>
        <4>1. fix = Rewritten(shown, primary.line)
          BY <3>3 DEF Synthesized
        <4>2. RepairsOneLine(shown, fix, p)
          BY <2>2, <2>3, <3>3, <4>1, RewrittenRepairs
        <4> QED
          BY <2>5, <3>2, <3>5, <4>2
      <3>4. CASE Rewritten(shown, primary.line) = <<>>
        <4>1. fix = Rewritten(tree, primary.line)
          BY <3>4 DEF Synthesized
        <4>2. RepairsOneLine(tree, fix, p)
          BY <2>2, <2>4, <2>5, <4>1, RewrittenRepairs
        <4>3. Target \in DOMAIN setting.checkout /\ tree = setting.checkout[Target]
          <5> SUFFICES ASSUME tree = <<>> PROVE FALSE
            BY DEF Worktree
          <5>1. Rewritten(<<>>, primary.line) = <<>>
            BY DEF Rewritten
          <5> QED
            BY <2>5, <4>1, <5>1
        <4> QED
          BY <2>5, <3>2, <3>5, <4>2, <4>3
      <3> QED
        BY <3>3, <3>4
    <2>6. CASE ~ (class = "TYPECHECK" /\ Target # NoPath /\ fix # <<>>)
      <3>1. patch = Proposed(proposal, class)
        BY <2>1, <2>6 DEF Resolved
      <3>2. /\ proposal \in Proposals \union {NoProposal}
            /\ ~BreaksContract(proposal) \/ proposal = NoProposal
        BY DEF TextInv, ProposalHeld
      <3> QED
        BY <3>1, <3>2, ProposedFacts
    <2> QED
      BY <2>5, <2>6
  <1> QED
    BY <1>1, TextInvariant, PTL

-----------------------------------------------------------------------------
(* _line_maps_to_diff numbers the lines as GitHub shows them.              *)

(* What a scanner takes a printed line for, and what a line of a patch is. *)
IsHead(line) == line.kind \in {"diff", "+++"}
IsHunk(line) == line.kind = "@@"
IsShown(line) == line.kind \in {"+", " "}
Opening(sign) == sign = "@@"
Kept(sign) == sign \in {"+", " "}
Doubled(sign, text) == sign = "+" /\ text \in PlusLike \union PlusPlus

LEMMA PrintedMarks ==
  ASSUME NEW sign \in Signs, NEW text
  PROVE  /\ IsHunk(Printed(sign, text)) <=> Opening(sign)
         /\ Opening(sign) => ~Kept(sign)
         /\ IsShown(Printed(sign, text)) => Kept(sign)
         /\ Kept(sign) /\ ~Doubled(sign, text) => IsShown(Printed(sign, text))
         /\ IsHead(Printed(sign, text))
              => /\ Doubled(sign, text) /\ ~IsShown(Printed(sign, text))
                 /\ \E t \in PlusLike : Printed(sign, text) = NewName(Misread(t))
  <1> DEFINE line == Printed(sign, text)
  <1>1. CASE sign = "@@"
    <2>1. line.kind = "@@"
      BY <1>1 DEF Printed, Hunk
    <2> HIDE DEF line
    <2>2. IsHunk(line) /\ ~IsShown(line) /\ ~IsHead(line)
      BY <2>1, Zenon DEF IsHunk, IsShown, IsHead
    <2>3. Opening(sign) /\ ~Kept(sign)
      BY <1>1, Zenon DEF Opening, Kept
    <2> QED
      BY <2>2, <2>3 DEF line
  <1>2. CASE sign = "-" /\ text \in MinusLike
    <2>1. line.kind = "---"
      BY <1>2 DEF Printed, OldName
    <2> HIDE DEF line
    <2>2. ~IsHunk(line) /\ ~IsShown(line) /\ ~IsHead(line)
      BY <2>1, Zenon DEF IsHunk, IsShown, IsHead
    <2>3. ~Opening(sign) /\ ~Kept(sign)
      BY <1>2, Zenon DEF Opening, Kept
    <2> QED
      BY <2>2, <2>3 DEF line
  <1>3. CASE sign = "+" /\ text \in PlusLike
    <2>1. line = NewName(Misread(text))
      BY <1>3 DEF Printed
    <2> HIDE DEF line
    <2>2. line.kind = "+++"
      BY <2>1 DEF NewName
    <2>3. ~IsHunk(line) /\ ~IsShown(line)
      BY <2>2, Zenon DEF IsHunk, IsShown
    <2>4. ~Opening(sign) /\ Doubled(sign, text)
      BY <1>3, Zenon DEF Opening, Doubled
    <2>5. text \in PlusLike
      BY <1>3
    <2> QED
      BY <2>1, <2>3, <2>4, <2>5 DEF line
  <1>4. CASE sign = "+" /\ text \in PlusPlus /\ text \notin PlusLike
    <2>1. line.kind = "+++x"
      BY <1>4 DEF Printed
    <2> HIDE DEF line
    <2>2. ~IsHunk(line) /\ ~IsShown(line) /\ ~IsHead(line)
      BY <2>1, Zenon DEF IsHunk, IsShown, IsHead
    <2>3. ~Opening(sign) /\ Doubled(sign, text)
      BY <1>4, Zenon DEF Opening, Doubled
    <2> QED
      BY <2>2, <2>3 DEF line
  <1>5. CASE /\ sign # "@@" /\ ~ (sign = "-" /\ text \in MinusLike)
             /\ ~ (sign = "+" /\ text \in PlusLike \union PlusPlus)
    <2>1. line.kind = sign
      BY <1>5 DEF Printed
    <2> HIDE DEF line
    <2>2. ~IsHunk(line) /\ ~IsHead(line)
      BY <1>5, <2>1, Zenon DEF IsHunk, IsHead, Signs
    <2>3. ~Opening(sign) /\ (IsShown(line) <=> Kept(sign))
      BY <1>5, <2>1, Zenon DEF Opening, IsShown, Kept
    <2> QED
      BY <2>2, <2>3 DEF line
  <1> QED
    BY <1>1, <1>2, <1>3, <1>4, <1>5

LEMMA PatchKinds ==
  ASSUME NEW f, IsFile(f), f.patch # <<>>, NEW k \in DOMAIN f.patch
  PROVE  /\ IsHunk(Body(f)[k]) <=> Opening(f.patch[k][1])
         /\ Opening(f.patch[k][1]) => Body(f)[k].start = f.patch[k][2] /\ ~NewLine(f, k)
         /\ IsShown(Body(f)[k]) => NewLine(f, k) /\ ~IsHead(Body(f)[k])
         /\ NewLine(f, k) /\ ~Doubled(f.patch[k][1], f.patch[k][2]) => IsShown(Body(f)[k])
         /\ IsHead(Body(f)[k])
              => /\ Doubled(f.patch[k][1], f.patch[k][2])
                 /\ \E t \in PlusLike : Body(f)[k] = NewName(Misread(t))
  <1> DEFINE sign == f.patch[k][1]
             text == f.patch[k][2]
  <1>1. Body(f)[k] = Printed(sign, text) /\ sign \in Signs
    BY BodyFacts DEF IsFile
  <1>2. NewLine(f, k) <=> Kept(sign)
    BY DEF NewLine, Kept
  <1>3. Opening(sign) => Printed(sign, text).start = text
    BY DEF Opening, Printed, Hunk
  <1> HIDE DEF sign, text
  <1>4. /\ IsHunk(Printed(sign, text)) <=> Opening(sign)
        /\ Opening(sign) => ~Kept(sign)
        /\ IsShown(Printed(sign, text)) => Kept(sign)
        /\ Kept(sign) /\ ~Doubled(sign, text) => IsShown(Printed(sign, text))
        /\ IsHead(Printed(sign, text))
             => /\ Doubled(sign, text) /\ ~IsShown(Printed(sign, text))
                /\ \E t \in PlusLike : Printed(sign, text) = NewName(Misread(t))
    BY ONLY <1>1, PrintedMarks
  <1> QED
    BY <1>1, <1>2, <1>3, <1>4 DEF sign, text

(* The scanner takes a header for that of a path. *)
Names(line, path) == line.kind = "+++" /\ Scanned(line.path) = Stripped(path)

LEMMA HeaderNames ==
  ASSUME NEW q, NEW path
  PROVE  Names(NewName(q), path) <=> Scanned(q) = Stripped(path)
  <1>1. NewName(q).kind = "+++" /\ NewName(q).path = q
    BY DEF NewName
  <1> QED
    BY <1>1, Zenon DEF Names

(* No name that is misread is that of /dev/null. *)
LEMMA MisreadIsNamed ==
  ASSUME NEW text
  PROVE  Scanned(Misread(text)) = Stripped(Misread(text))
  <1>1. Misread(text).dir = <<"misread">> /\ DevNull.dir = <<"dev">>
    BY Zenon DEF Misread, DevNull, Path
  <1>2. <<"misread">> # <<"dev">>
    OBVIOUS
  <1>3. Misread(text) # DevNull
    BY <1>1, <1>2, Zenon
  <1> QED
    BY <1>3, Zenon DEF Scanned

Heads(d, p) == Behind(d, p, {"diff", "+++"})
Hunks(d, p) == Behind(d, p, {"@@"})

LEMMA ScannerFacts ==
  ASSUME NEW d, NEW p
  PROVE  /\ \A q : q \in Heads(d, p) <=> q \in DOMAIN d /\ q < p /\ IsHead(d[q])
         /\ \A q : q \in Hunks(d, p) <=> q \in DOMAIN d /\ q < p /\ IsHunk(d[q])
         /\ LineNumber(d, p)
              = d[Max(Hunks(d, p))].start
                + Cardinality({q \in {j \in DOMAIN d : j < p /\ IsShown(d[j])} :
                                 q > Max(Hunks(d, p))})
         /\ \A path : InHunkOf(d, p, path)
              <=> /\ Heads(d, p) # {} /\ Names(d[Max(Heads(d, p))], path)
                  /\ Hunks(d, p) # {} /\ Max(Hunks(d, p)) > Max(Heads(d, p))
         /\ \A path : IsHead(NewName(path)) /\ ~IsShown(NewName(path))
         /\ \A path : ~IsShown(OldName(path))
         /\ \A a, b : ~IsShown(Header(a, b)) /\ \A path : Header(a, b) # NewName(path)
  <1>1. /\ \A q : q \in Heads(d, p) <=> q \in DOMAIN d /\ q < p /\ IsHead(d[q])
        /\ \A q : q \in Hunks(d, p) <=> q \in DOMAIN d /\ q < p /\ IsHunk(d[q])
    BY Zenon DEF Heads, Hunks, Behind, IsHead, IsHunk
  <1>2. Behind(d, p, {"+", " "}) = {j \in DOMAIN d : j < p /\ IsShown(d[j])}
    BY Zenon DEF Behind, IsShown
  <1>3. LineNumber(d, p)
          = d[Max(Hunks(d, p))].start
            + Cardinality({q \in {j \in DOMAIN d : j < p /\ IsShown(d[j])} :
                             q > Max(Hunks(d, p))})
    BY <1>2, Zenon DEF LineNumber, Hunks
  <1>4. \A path : InHunkOf(d, p, path)
          <=> /\ Heads(d, p) # {} /\ Names(d[Max(Heads(d, p))], path)
              /\ Hunks(d, p) # {} /\ Max(Hunks(d, p)) > Max(Heads(d, p))
    BY Zenon DEF InHunkOf, Heads, Hunks, Names
  <1>5. ASSUME NEW path PROVE IsHead(NewName(path)) /\ ~IsShown(NewName(path))
    BY KindsOfHeaders, Zenon DEF IsHead, IsShown
  <1>6. ASSUME NEW path PROVE ~IsShown(OldName(path))
    BY KindsOfHeaders, Zenon DEF IsShown
  <1>7. ASSUME NEW a, NEW b PROVE ~IsShown(Header(a, b))
    BY KindsOfHeaders, Zenon DEF IsShown
  <1>8. ASSUME NEW a, NEW b, NEW path PROVE Header(a, b) # NewName(path)
    <2>1. Header(a, b).kind # NewName(path).kind
      BY KindsOfHeaders, Zenon
    <2> QED
      BY <2>1, Zenon
  <1> QED
    BY ONLY <1>1, <1>3, <1>4, <1>5, <1>6, <1>7, <1>8, Zenon

(* Line k of a patch, which hunk header h precedes, behind nothing that    *)
(* looks like a file header.                                               *)
Follows(f, h, k) ==
  /\ h \in DOMAIN f.patch /\ k \in DOMAIN f.patch /\ h < k /\ Opening(f.patch[h][1])
  /\ \A m \in DOMAIN f.patch : h < m /\ m < k => ~Opening(f.patch[m][1])
  /\ \A m \in DOMAIN f.patch : m < k => ~IsHead(Body(f)[m])

(* A number behind three headers and not behind line k is that of a line. *)
LEMMA Between ==
  ASSUME NEW base \in Nat, NEW n \in Nat, NEW k \in 1 .. n, NEW q \in Nat,
         q < base + (3 + k), q > base + 3
  PROVE  \E m \in 1 .. n : m < k /\ q = base + (3 + m)
  <1> DEFINE m == q - (base + 3)
  <1>1. m \in 1 .. n /\ m < k /\ q = base + (3 + m)
    OBVIOUS
  <1> QED
    BY <1>1

(* The lines the scanner counts between header h and line k. *)
Counted(f, h, k) == {m \in h .. (k - 1) : IsShown(Body(f)[m])}

Scans(list, off, i, h, k) ==
  /\ Laid(list, off) /\ i \in 1 .. Len(list)
  /\ Named(list[i]) /\ list[i].patch # <<>> /\ Follows(list[i], h, k)

(* There the scanner is in its file and in its hunk, and counts the lines  *)
(* it takes for lines of the file.                                         *)
LEMMA ScannedLine ==
  ASSUME NEW list \in Comparisons, NEW off, NEW i, NEW h, NEW k, Scans(list, off, i, h, k),
         NEW p, p = off[i - 1] + (3 + k)
  PROVE  /\ off[i - 1] + 3 \in Heads(Diff(list), p)
         /\ Max(Heads(Diff(list), p)) = off[i - 1] + 3
         /\ off[i - 1] + (3 + h) \in Hunks(Diff(list), p)
         /\ Max(Hunks(Diff(list), p)) = off[i - 1] + (3 + h)
         /\ LineNumber(Diff(list), p)
              = list[i].patch[h][2] + Cardinality(Counted(list[i], h, k))
  <1> DEFINE d == Diff(list)
             f == list[i]
             base == off[i - 1]
             n == Len(Body(f))
             heads == Heads(d, p)
             hunks == Hunks(d, p)
             g == base + (3 + h)
             T == {q \in {j \in DOMAIN d : j < p /\ IsShown(d[j])} : q > g}
  <1>1. /\ base \in Nat /\ n \in Nat /\ IsFile(f) /\ f.patch # <<>>
        /\ \A j \in 1 .. 3 + n : base + j \in DOMAIN d /\ base + j \in Nat
        /\ d[base + 3] = NewName(IF f.status = "removed" THEN DevNull ELSE f.name)
        /\ \A m \in 1 .. n : d[base + (3 + m)] = Body(f)[m]
        /\ p = base + (3 + k)
    BY Place DEF Scans
  <1>2. DOMAIN d \subseteq Nat
    BY DiffIsASequence, OwnRange
  <1>3. /\ \A q : q \in heads <=> q \in DOMAIN d /\ q < p /\ IsHead(d[q])
        /\ \A q : q \in hunks <=> q \in DOMAIN d /\ q < p /\ IsHunk(d[q])
        /\ IsHead(d[base + 3])
    <2>1. /\ \A q : q \in heads <=> q \in DOMAIN d /\ q < p /\ IsHead(d[q])
          /\ \A q : q \in hunks <=> q \in DOMAIN d /\ q < p /\ IsHunk(d[q])
      BY ScannerFacts
    <2>2. \A path : IsHead(NewName(path))
      BY ScannerFacts
    <2> QED
      BY <1>1, <2>1, <2>2
  <1>4. Follows(f, h, k)
    BY DEF Scans
  <1>5. Max(hunks) = g => LineNumber(d, p) = d[g].start + Cardinality(T)
    BY ScannerFacts
  <1> HIDE DEF d, f, base, heads, hunks
  <1>6. DOMAIN f.patch = 1 .. n
    BY <1>1, BodyFacts
  <1> HIDE DEF n
  <1>7. h \in 1 .. n /\ k \in 1 .. n /\ h < k /\ Opening(f.patch[h][1])
    BY <1>4, <1>6 DEF Follows
  <1>8. ASSUME NEW m \in 1 .. n
        PROVE  /\ IsHunk(Body(f)[m]) <=> Opening(f.patch[m][1])
               /\ Opening(f.patch[m][1]) => Body(f)[m].start = f.patch[m][2] /\ ~NewLine(f, m)
               /\ IsShown(Body(f)[m]) => NewLine(f, m)
               /\ m < k => ~IsHead(Body(f)[m])
               /\ h < m /\ m < k => ~Opening(f.patch[m][1])
    <2>1. m \in DOMAIN f.patch
      BY <1>6
    <2> QED
      BY <1>1, <1>4, <2>1, PatchKinds DEF Follows
  (* A line between the header and line k is one of the patch. *)
  <1>9. ASSUME NEW q \in DOMAIN d, q < p, q > base + 3
        PROVE  \E m \in 1 .. n : m < k /\ q = base + (3 + m) /\ d[q] = Body(f)[m]
    <2>1. q \in Nat
      BY <1>2
    <2>2. k \in 1 .. n /\ q < base + (3 + k) /\ base \in Nat /\ n \in Nat
      BY <1>1, <1>7, <1>9
    <2>3. \E m \in 1 .. n : m < k /\ q = base + (3 + m)
      BY ONLY <1>9, <2>1, <2>2, Between
    <2> QED
      BY <1>1, <2>3
  <1>10. base + 3 \in Nat /\ base + 3 \in DOMAIN d /\ base + 3 < p /\ p \in Nat
    <2>1. 3 \in 1 .. 3 + n
      BY <1>1
    <2> QED
      BY <1>1, <1>7, <2>1
  <1>11. base + 3 \in heads
    BY <1>3, <1>10
  <1>12. heads \in SUBSET Nat /\ hunks \in SUBSET Nat
    BY <1>2, <1>3
  <1>13. ASSUME NEW q \in heads PROVE base + 3 >= q
    <2> SUFFICES ASSUME q > base + 3 PROVE FALSE
      BY <1>10, <1>12
    <2>1. q \in DOMAIN d /\ q < p /\ IsHead(d[q])
      BY <1>3
    <2>2. PICK m \in 1 .. n : m < k /\ d[q] = Body(f)[m]
      BY <1>9, <2>1
    <2> QED
      BY <1>8, <2>1, <2>2
  <1>14. Max(heads) = base + 3
    BY <1>11, <1>12, <1>13, MaxIs
  <1>15. g \in Nat /\ g \in DOMAIN d /\ g < p /\ g > base + 3 /\ d[g] = Body(f)[h]
    <2>1. 3 + h \in 1 .. 3 + n
      BY <1>1, <1>7
    <2>2. d[g] = Body(f)[h] /\ g \in Nat /\ g \in DOMAIN d
      BY <1>1, <1>7, <2>1
    <2>3. g < p /\ g > base + 3
      BY <1>1, <1>7
    <2> QED
      BY <2>2, <2>3
  <1> HIDE DEF T
  <1>16. IsHunk(d[g]) /\ d[g].start = f.patch[h][2]
    BY <1>7, <1>8, <1>15
  <1>17. g \in hunks
    BY <1>3, <1>15, <1>16
  <1>18. ASSUME NEW q \in hunks PROVE g >= q
    <2> SUFFICES ASSUME q > g PROVE FALSE
      BY <1>12, <1>15
    <2>1. q \in DOMAIN d /\ q < p /\ IsHunk(d[q]) /\ q \in Nat
      BY <1>2, <1>3
    <2>2. q > base + 3
      BY <1>10, <1>15, <2>1
    <2>3. PICK m \in 1 .. n : m < k /\ q = base + (3 + m) /\ d[q] = Body(f)[m]
      BY <1>9, <2>1, <2>2
    <2>4. h < m
      BY <1>1, <1>7, <2>3
    <2> QED
      BY <1>8, <2>1, <2>3, <2>4
  <1>19. Max(hunks) = g
    BY <1>12, <1>15, <1>17, <1>18, MaxIs
  <1>20. Cardinality(T) = Cardinality(Counted(f, h, k))
    <2> DEFINE W == Counted(f, h, k)
               b == base + 3
    <2>1. W \subseteq h .. (k - 1) /\ \A m \in h .. (k - 1) : m \in W <=> IsShown(Body(f)[m])
      BY DEF Counted
    <2>2. h .. (k - 1) \subseteq 1 .. n /\ h .. (k - 1) \subseteq Nat
      BY <1>1, <1>7
    <2>3. \A q : q \in T <=> q \in DOMAIN d /\ q < p /\ q > g /\ IsShown(d[q])
      BY DEF T
    <2>4. b \in Nat /\ g = b + h /\ p = b + k /\ \A m \in 1 .. n : base + (3 + m) = b + m
      <3>1. base \in Nat /\ n \in Nat /\ h \in 1 .. n /\ k \in 1 .. n /\ p = base + (3 + k)
        BY <1>1, <1>7
      <3> QED
        BY ONLY <3>1
    <2>5. ASSUME NEW m \in 1 .. n PROVE b + m \in DOMAIN d /\ d[b + m] = Body(f)[m]
      <3>1. 3 + m \in 1 .. 3 + n /\ b + m = base + (3 + m)
        BY <1>1, <2>4
      <3> HIDE DEF b
      <3> QED
        BY <1>1, <3>1
    <2>6. ASSUME NEW q \in DOMAIN d, q < p, q > b
          PROVE  \E m \in 1 .. n : m < k /\ q = b + m /\ d[q] = Body(f)[m]
      BY <1>9, <2>4, <2>6
    <2> HIDE DEF W, b, g
    <2>7. T \in SUBSET Nat /\ W \in SUBSET Nat
      BY <1>2, <2>1, <2>2, <2>3
    <2>8. IsFiniteSet(W)
      <3>1. h \in Nat /\ k - 1 \in Int
        BY <1>7
      <3>2. IsFiniteSet(h .. (k - 1))
        BY <3>1, FS_Interval
      <3> QED
        BY <2>1, <3>2, FS_Subset
    <2>9. ASSUME NEW m \in W PROVE b + m \in T
      <3>1. m \in h .. (k - 1) /\ m \in 1 .. n /\ IsShown(Body(f)[m])
        BY <2>1, <2>2
      <3>2. m # h
        BY <1>7, <1>8, <3>1
      <3>3. b + m < p /\ b + m > g
        BY <1>7, <2>4, <3>1, <3>2
      <3>4. b + m \in DOMAIN d /\ d[b + m] = Body(f)[m]
        BY <2>5, <3>1
      <3> QED
        BY <2>3, <3>1, <3>3, <3>4
    <2>10. ASSUME NEW q \in T PROVE \E m \in W : q = b + m
      <3>1. q \in DOMAIN d /\ q < p /\ q > g /\ IsShown(d[q]) /\ q \in Nat
        BY <2>3, <2>7
      <3>2. q > b
        BY <1>7, <2>4, <3>1
      <3>3. PICK m \in 1 .. n : m < k /\ q = b + m /\ d[q] = Body(f)[m]
        BY <2>6, <3>1, <3>2
      <3>4. m \in h .. (k - 1)
        BY <1>7, <2>4, <3>1, <3>3
      <3> QED
        BY <2>1, <3>1, <3>3, <3>4
    <2>11. Cardinality(T) = Cardinality(W)
      BY <2>4, <2>7, <2>8, <2>9, <2>10, ShiftedCardinality
    <2> QED
      BY <2>11 DEF W
  <1>21. LineNumber(d, p) = f.patch[h][2] + Cardinality(Counted(f, h, k))
    <2> HIDE DEF g
    <2> QED
      BY <1>5, <1>16, <1>19, <1>20
  <1> QED
    BY ONLY <1>11, <1>14, <1>17, <1>19, <1>21 DEF d, f, base, heads, hunks, g

(* The hunk header of a line is the last one before it. *)
LEMMA HunkIs ==
  ASSUME NEW f, IsFile(f), NEW h \in DOMAIN f.patch, NEW k \in DOMAIN f.patch, h < k,
         Opening(f.patch[h][1]),
         \A m \in DOMAIN f.patch : h < m /\ m < k => ~Opening(f.patch[m][1])
  PROVE  HunkOf(f, k) = h
  <1> DEFINE T == {m \in DOMAIN f.patch : m < k /\ Opening(f.patch[m][1])}
  <1>1. HunkOf(f, k) = Max(T)
    BY Zenon DEF HunkOf, Opening
  <1>2. DOMAIN f.patch \subseteq Nat
    BY OwnRange DEF IsFile
  <1>3. T \in SUBSET Nat /\ h \in T
    BY <1>2
  <1>4. \A m \in T : h >= m
    BY <1>2
  <1> HIDE DEF T
  <1> QED
    BY <1>1, <1>3, <1>4, MaxIs

(* Every line of the new file has a hunk header before it. *)
LEMMA HunkPrecedes ==
  ASSUME NEW f, IsFile(f), NEW k \in DOMAIN f.patch, NewLine(f, k)
  PROVE  /\ HunkOf(f, k) \in DOMAIN f.patch /\ HunkOf(f, k) < k
         /\ Opening(f.patch[HunkOf(f, k)][1])
         /\ \A m \in DOMAIN f.patch : HunkOf(f, k) < m /\ m < k => ~Opening(f.patch[m][1])
  <1> DEFINE T == {m \in DOMAIN f.patch : m < k /\ Opening(f.patch[m][1])}
             h == HunkOf(f, k)
  <1>1. h = Max(T)
    BY Zenon DEF HunkOf, Opening
  <1>2. DOMAIN f.patch \subseteq Nat /\ f.patch \in Seq(ToSet(f.patch)) /\ f.patch # <<>>
    BY OwnRange DEF IsFile
  <1>3. 1 \in DOMAIN f.patch /\ DOMAIN f.patch = 1 .. Len(f.patch)
    BY <1>2, NotEmpty, OwnRange
  <1>4. Opening(f.patch[1][1])
    BY <1>2, Zenon DEF IsFile, Opening
  <1>5. k # 1
    <2>1. Opening(f.patch[k][1]) => ~NewLine(f, k)
      BY <1>2, PatchKinds
    <2> QED
      BY <1>4, <2>1
  <1>6. 1 \in T
    BY <1>3, <1>4, <1>5
  <1>7. /\ T \in SUBSET Nat /\ k \in Nat
        /\ \A m : m \in T <=> m \in DOMAIN f.patch /\ m < k /\ Opening(f.patch[m][1])
    BY <1>2
  <1> HIDE DEF T
  <1>8. h \in T /\ \A m \in T : m <= h
    <2>1. \A m \in T : m <= k
      BY <1>7
    <2> QED
      BY <1>1, <1>6, <1>7, <2>1, MaxIsGreatest
  <1> HIDE DEF h
  <1>9. ASSUME NEW m \in DOMAIN f.patch, h < m, m < k PROVE ~Opening(f.patch[m][1])
    BY <1>2, <1>7, <1>8, <1>9
  <1> QED
    BY <1>7, <1>8, <1>9 DEF h

(* A line the scanner finds is shown under its number in the pull request, *)
(* and in the file that was asked for.                                     *)
IsShownLine(f, path, line) ==
  /\ Named(f) /\ Stripped(f.name) = Stripped(path)
  /\ f.status # "removed" /\ line \in ShownLines(f)

LEMMA FoundInFile ==
  ASSUME NEW list \in Comparisons, NEW off, Laid(list, off),
         NEW i \in 1 .. Len(list), Named(list[i]), NEW j \in 1 .. 3 + Len(Body(list[i])),
         NEW p \in DOMAIN Diff(list), p = off[i - 1] + j, IsShown(Diff(list)[p]),
         NEW path, InHunkOf(Diff(list), p, path), Stripped(path) # NoPath,
         ~ \E text \in PlusLike : Stripped(Misread(text)) = Stripped(path)
  PROVE  IsShownLine(list[i], path, LineNumber(Diff(list), p))
  <1> DEFINE d == Diff(list)
             line == LineNumber(d, p)
             f == list[i]
             base == off[i - 1]
             n == Len(Body(f))
             heads == Heads(d, p)
             hunks == Hunks(d, p)
  <1>5. /\ base \in Nat /\ n \in Nat /\ IsFile(f)
        /\ \A m \in 1 .. 3 + n : base + m \in DOMAIN d /\ base + m \in Nat
        /\ d[base + 1] = Header(Before(f), f.name)
        /\ d[base + 2] = OldName(IF f.status = "added" THEN DevNull ELSE Before(f))
        /\ d[base + 3] = NewName(IF f.status = "removed" THEN DevNull ELSE f.name)
        /\ \A m \in 1 .. n : d[base + (3 + m)] = Body(f)[m]
    <2>1. /\ off[i - 1] \in Nat /\ Len(Body(list[i])) \in Nat /\ IsFile(list[i])
          /\ \A m \in 1 .. 3 + Len(Body(list[i])) :
               off[i - 1] + m \in DOMAIN Diff(list) /\ off[i - 1] + m \in Nat
          /\ \A m \in 1 .. Len(Body(list[i])) :
               Diff(list)[off[i - 1] + (3 + m)] = Body(list[i])[m]
      BY Place
    <2>2. Diff(list)[off[i - 1] + 1] = Header(Before(list[i]), list[i].name)
      BY Place
    <2>3. /\ Diff(list)[off[i - 1] + 2]
               = OldName(IF list[i].status = "added" THEN DevNull ELSE Before(list[i]))
          /\ Diff(list)[off[i - 1] + 3]
               = NewName(IF list[i].status = "removed" THEN DevNull ELSE list[i].name)
      BY Place
    <2> QED
      BY <2>1, <2>2, <2>3
  <1>6. DOMAIN d \subseteq Nat
    BY DiffIsASequence, OwnRange
  <1>7. /\ \A q : q \in heads <=> q \in DOMAIN d /\ q < p /\ IsHead(d[q])
        /\ \A q : q \in hunks <=> q \in DOMAIN d /\ q < p /\ IsHunk(d[q])
    BY ScannerFacts
  <1>8. /\ heads # {} /\ Names(d[Max(heads)], path)
        /\ hunks # {} /\ Max(hunks) > Max(heads)
    BY ScannerFacts
  <1>9. j \notin {1, 2, 3} /\ IsHead(d[base + 3])
    <2>1. ~IsShown(d[base + 1]) /\ ~IsShown(d[base + 2]) /\ ~IsShown(d[base + 3])
          /\ IsHead(d[base + 3])
      <3>1. /\ \A q : IsHead(NewName(q)) /\ ~IsShown(NewName(q)) /\ ~IsShown(OldName(q))
            /\ \A q, r : ~IsShown(Header(q, r))
        BY ScannerFacts
      <3> QED
        BY <1>5, <3>1
    <2> QED
      BY <2>1
  <1>10. /\ p = base + j /\ j \in 1 .. 3 + n /\ IsShown(d[p]) /\ p \in DOMAIN d
         /\ ~ \E text \in PlusLike : Stripped(Misread(text)) = Stripped(path)
         /\ Stripped(path) # NoPath /\ Named(f)
    OBVIOUS
  <1> HIDE DEF d, line, base, f, heads, hunks, n
  <1>4. n \in Nat
    BY <1>5
  <1> DEFINE k == j - 3
  <1>11. k \in 1 .. n /\ k \in Nat /\ p = base + (3 + k)
    BY <1>5, <1>9, <1>10
  <1> HIDE DEF k
  <1>12. d[p] = Body(f)[k] /\ IsShown(Body(f)[k])
    BY <1>5, <1>10, <1>11
  <1>13. f.patch # <<>>
    <2> SUFFICES ASSUME f.patch = <<>> PROVE FALSE
      OBVIOUS
    <2>1. k \in DOMAIN Body(f)
      BY <1>5, <1>11, BodyFacts DEF n
    <2>2. Body(f)[k].kind \in {"@@", "#"}
      BY <1>5, <2>1, BodyFacts, Zenon
    <2>3. ~IsShown(Body(f)[k])
      BY <2>2, Zenon DEF IsShown
    <2> QED
      BY <1>12, <2>3
  <1>14. DOMAIN f.patch = 1 .. n
    BY <1>5, <1>13, BodyFacts DEF n
  <1>15. NewLine(f, k)
    BY <1>5, <1>11, <1>12, <1>13, <1>14, PatchKinds
  (* The scanner is in file i. *)
  <1>16. heads \in SUBSET Nat /\ hunks \in SUBSET Nat /\ base + 3 \in heads /\ p \in Nat
         /\ base + 3 \in Nat
    <2>1. 3 \in 1 .. 3 + n
      BY <1>5
    <2>2. base + 3 \in DOMAIN d /\ base + 3 < p /\ p \in Nat /\ base + 3 \in Nat
      BY <1>5, <1>11, <2>1
    <2>3. heads \in SUBSET Nat /\ hunks \in SUBSET Nat
      BY <1>6, <1>7
    <2> QED
      BY <1>7, <1>9, <2>2, <2>3
  <1> DEFINE H == Max(heads)
             M == Max(hunks)
  <1>17. H \in heads /\ \A q \in heads : q <= H
    <2>1. \A q \in heads : q <= p
      BY <1>7, <1>16
    <2> QED
      BY <1>8, <1>16, <2>1, MaxIsGreatest
  <1>18. M \in hunks /\ \A q \in hunks : q <= M
    <2>1. \A q \in hunks : q <= p
      BY <1>7, <1>16
    <2> QED
      BY <1>8, <1>16, <2>1, MaxIsGreatest
  <1>19. Names(d[H], path) /\ M > H
    BY <1>8
  <1> HIDE DEF H, M
  <1>20. ASSUME NEW q \in DOMAIN d, q < p, q > base + 3
         PROVE  \E m \in 1 .. n : m < k /\ q = base + (3 + m) /\ d[q] = Body(f)[m]
    <2>1. q \in Nat /\ q < base + (3 + k) /\ base \in Nat /\ n \in Nat /\ k \in 1 .. n
      BY <1>5, <1>6, <1>11, <1>20
    <2>2. \E m \in 1 .. n : m < k /\ q = base + (3 + m)
      BY ONLY <1>20, <2>1, Between
    <2> QED
      BY <1>5, <2>2
  <1>21. H = base + 3
    <2> SUFFICES ASSUME H > base + 3 PROVE FALSE
      BY <1>16, <1>17
    <2>1. H \in DOMAIN d /\ H < p /\ IsHead(d[H])
      BY <1>7, <1>17
    <2>2. PICK m \in 1 .. n : d[H] = Body(f)[m]
      BY <1>20, <2>1
    <2>3. PICK text \in PlusLike : d[H] = NewName(Misread(text))
      <3>1. IsHead(Body(f)[m]) => \E t \in PlusLike : Body(f)[m] = NewName(Misread(t))
        <4>1. m \in DOMAIN f.patch /\ IsFile(f)
          BY <1>5, <1>14
        <4> QED
          BY <1>13, <4>1, PatchKinds
      <3> QED
        BY <2>1, <2>2, <3>1
    <2>4. Scanned(Misread(text)) = Stripped(path)
      BY <1>19, <2>3, HeaderNames, Zenon
    <2> QED
      BY <1>10, <2>4, MisreadIsNamed, Zenon
  <1>22. Named(f) /\ Stripped(f.name) = Stripped(path) /\ f.status # "removed"
    <2>1. Scanned(IF f.status = "removed" THEN DevNull ELSE f.name) = Stripped(path)
      BY <1>5, <1>19, <1>21, HeaderNames, Zenon
    <2>2. Scanned(DevNull) = NoPath /\ (f.name # DevNull => Scanned(f.name) = Stripped(f.name))
      BY Zenon DEF Scanned
    <2>3. f.name # DevNull
      BY <1>5 DEF IsFile
    <2>4. CASE f.status = "removed"
      BY <1>10, <2>1, <2>2, <2>4, Zenon
    <2>5. CASE f.status # "removed"
      BY <1>10, <2>1, <2>2, <2>3, <2>5, Zenon
    <2> QED
      BY <2>4, <2>5
  <1>23. PICK h \in 1 .. n : h < k /\ M = base + (3 + h) /\ d[M] = Body(f)[h]
    BY <1>7, <1>18, <1>19, <1>20, <1>21
  <1>24. ASSUME NEW m \in 1 .. n
         PROVE  /\ IsHunk(Body(f)[m]) <=> Opening(f.patch[m][1])
                /\ Opening(f.patch[m][1]) => ~NewLine(f, m)
                /\ IsShown(Body(f)[m]) => NewLine(f, m)
    BY <1>5, <1>13, <1>14, PatchKinds
  <1>25. Opening(f.patch[h][1])
    BY <1>7, <1>18, <1>23, <1>24
  <1>26. ASSUME NEW m \in 1 .. n, m < k
         PROVE  /\ base + (3 + m) \in DOMAIN d /\ base + (3 + m) < p
                /\ d[base + (3 + m)] = Body(f)[m]
                /\ base + (3 + m) > base + 3
                /\ h < m => base + (3 + m) > M
    <2>1. 3 + m \in 1 .. 3 + n
      BY <1>5
    <2>2. base + (3 + m) \in DOMAIN d /\ d[base + (3 + m)] = Body(f)[m]
      BY <1>5, <2>1
    <2>3. /\ base + (3 + m) < p /\ base + (3 + m) > base + 3
          /\ h < m => base + (3 + m) > M
      BY <1>5, <1>11, <1>23, <1>26
    <2> QED
      BY <2>2, <2>3
  <1>27. \A m \in 1 .. n : h < m /\ m < k => ~Opening(f.patch[m][1])
    <2> SUFFICES ASSUME NEW m \in 1 .. n, h < m, m < k, Opening(f.patch[m][1]) PROVE FALSE
      OBVIOUS
    <2>1. base + (3 + m) \in hunks /\ base + (3 + m) > M
      BY <1>7, <1>24, <1>26
    <2>2. base + (3 + m) \in Nat /\ M \in Nat /\ base + (3 + m) <= M
      BY <1>16, <1>18, <2>1
    <2> QED
      BY <2>1, <2>2
  <1>28. \A m \in 1 .. n : m < k => ~IsHead(Body(f)[m])
    <2> SUFFICES ASSUME NEW m \in 1 .. n, m < k, IsHead(Body(f)[m]) PROVE FALSE
      OBVIOUS
    <2>1. base + (3 + m) \in heads /\ base + (3 + m) > H
      BY <1>7, <1>21, <1>26
    <2>2. base + (3 + m) \in Nat /\ H \in Nat /\ base + (3 + m) <= H
      BY <1>16, <1>17, <2>1
    <2> QED
      BY <2>1, <2>2
  <1>29. Follows(f, h, k)
    BY <1>11, <1>14, <1>23, <1>25, <1>27, <1>28 DEF Follows
  <1>30. line = f.patch[h][2] + Cardinality(Counted(f, h, k))
    <2>1. LineNumber(Diff(list), p) = list[i].patch[h][2] + Cardinality(Counted(list[i], h, k))
      <3>1. Scans(list, off, i, h, k)
        BY <1>13, <1>29 DEF f, Scans
      <3>2. p = off[i - 1] + (3 + k)
        BY <1>11 DEF base
      <3> QED
        BY <3>1, <3>2, ScannedLine
    <2> QED
      BY <2>1 DEF d, f, line
  (* The scanner may have counted too few lines: another line of the hunk  *)
  (* then has the number.                                                  *)
  <1> DEFINE P == {m \in DOMAIN f.patch : NewLine(f, m)}
  <1>31. P \in SUBSET Nat /\ P \subseteq 1 .. n /\ \A m \in 1 .. n : m \in P <=> NewLine(f, m)
    <2>1. 1 .. n \subseteq Nat /\ DOMAIN f.patch = 1 .. n
      BY <1>4, <1>14
    <2> QED
      BY ONLY <2>1 DEF P
  <1>32. Counted(f, h, k) \in SUBSET (P \cap (h .. (k - 1)))
    <2>1. h .. (k - 1) \subseteq 1 .. n
      BY <1>5, <1>11, <1>23
    <2> HIDE DEF P
    <2> QED
      BY <1>24, <1>31, <2>1 DEF Counted
  <1>33. h \in Nat /\ 1 <= h /\ h <= k /\ k \in Nat /\ k <= n
    <2>1. h \in 1 .. n /\ k \in 1 .. n /\ h < k
      BY <1>11, <1>23
    <2> QED
      BY ONLY <1>4, <2>1
  <1> HIDE DEF P
  <1>40. Reaches(P, h, k, Cardinality(Counted(f, h, k)))
    <2>1. k \in P
      BY <1>11, <1>15, <1>31
    <2> QED
      <3>1. /\ h \in Nat /\ k \in Nat /\ h <= k /\ P \in SUBSET Nat /\ k \in P
            /\ Counted(f, h, k) \subseteq P \cap (h .. (k - 1))
        BY <1>31, <1>32, <1>33, <2>1
      <3> QED
        BY ONLY <3>1, CountIsReached
  <1>34. PICK q \in h .. k :
           q \in P /\ Cardinality(P \cap (h .. (q - 1))) = Cardinality(Counted(f, h, k))
    BY <1>40 DEF Reaches
  <1>35. q \in 1 .. n /\ NewLine(f, q) /\ h < q /\ q <= k
    BY <1>11, <1>24, <1>25, <1>31, <1>33, <1>34
  <1>36. HunkOf(f, q) = h
    <2>1. \A m \in DOMAIN f.patch : h < m /\ m < q => ~Opening(f.patch[m][1])
      BY <1>4, <1>14, <1>27, <1>33, <1>35
    <2> QED
      BY <1>5, <1>14, <1>25, <1>35, <2>1, HunkIs
  <1>37. {m \in h .. (q - 1) : NewLine(f, m)} = P \cap (h .. (q - 1))
    <2>1. h .. (q - 1) \subseteq 1 .. n
      BY <1>4, <1>33, <1>35
    <2> QED
      BY <1>31, <2>1
  <1>38. NumberOf(f, q) = line
    BY <1>30, <1>34, <1>36, <1>37 DEF NumberOf
  <1>39. line \in ShownLines(f)
    BY <1>14, <1>35, <1>38 DEF ShownLines
  <1> QED
    BY <1>22, <1>39 DEF f, d, line, IsShownLine

LEMMA FoundIsShown ==
  ASSUME NEW list \in Comparisons, NEW path, NEW line, LineMapsToDiff(Diff(list), path, line),
         Stripped(path) # NoPath,
         ~ \E text \in PlusLike : Stripped(Misread(text)) = Stripped(path)
  PROVE  \E i \in DOMAIN list : IsShownLine(list[i], path, line)
  <1>1. PICK off : Laid(list, off)
    BY Layout
  <1>2. PICK p \in DOMAIN Diff(list) : /\ IsShown(Diff(list)[p])
                                       /\ InHunkOf(Diff(list), p, path)
                                       /\ LineNumber(Diff(list), p) = line
    BY Zenon DEF LineMapsToDiff, IsShown
  <1>3. PICK i \in 1 .. Len(list) :
          Named(list[i]) /\ \E j \in 1 .. 3 + Len(Body(list[i])) : p = off[i - 1] + j
    BY <1>1, Origin
  <1>4. PICK j \in 1 .. 3 + Len(Body(list[i])) : p = off[i - 1] + j
    BY <1>3
  <1>5. IsShownLine(list[i], path, LineNumber(Diff(list), p))
    BY <1>1, <1>2, <1>3, <1>4, FoundInFile
  <1>6. i \in DOMAIN list
    BY BlocksFacts
  <1> QED
    BY <1>2, <1>5, <1>6

(* A line that is shown is found, where no added line begins with "++".    *)
LEMMA ShownIsFound ==
  ASSUME NEW list \in Comparisons, NEW off, Laid(list, off), NEW i \in 1 .. Len(list),
         Named(list[i]), list[i].status # "removed",
         \A m \in DOMAIN list[i].patch : ~Doubled(list[i].patch[m][1], list[i].patch[m][2]),
         NEW k \in DOMAIN list[i].patch, NewLine(list[i], k),
         NEW path, Stripped(list[i].name) = Stripped(path)
  PROVE  LineMapsToDiff(Diff(list), path, NumberOf(list[i], k))
  <1> DEFINE d == Diff(list)
             f == list[i]
             base == off[i - 1]
             n == Len(Body(f))
             h == HunkOf(f, k)
             p == base + (3 + k)
  <1>1. IsFile(f) /\ n \in Nat /\ base \in Nat /\ DOMAIN f.patch \subseteq Nat
        /\ f.patch # <<>>
    <2>1. IsFile(f)
      BY BlocksFacts
    <2>2. f.patch \in Seq(ToSet(f.patch)) /\ DOMAIN f.patch \subseteq Nat
      BY <2>1, OwnRange DEF IsFile
    <2>3. f.patch # <<>>
      OBVIOUS
    <2> QED
      BY <2>1, <2>2, <2>3, Place
  <1>2. DOMAIN f.patch = 1 .. n /\ k \in 1 .. n
    BY <1>1, BodyFacts
  <1>3. \A m \in 1 .. 3 + n : base + m \in DOMAIN d
    BY Place
  <1>4. \A m \in 1 .. n : d[base + (3 + m)] = Body(f)[m]
    BY Place
  <1>5. d[base + 3] = NewName(f.name) /\ f.name # DevNull
    BY <1>1, Place DEF IsFile
  <1>6. /\ h \in DOMAIN f.patch /\ h < k /\ Opening(f.patch[h][1])
        /\ \A m \in DOMAIN f.patch : h < m /\ m < k => ~Opening(f.patch[m][1])
    BY <1>1, HunkPrecedes
  <1>7. ASSUME NEW m \in DOMAIN f.patch
        PROVE  ~IsHead(Body(f)[m]) /\ (IsShown(Body(f)[m]) <=> NewLine(f, m))
    BY <1>1, <1>7, PatchKinds
  <1>8. Scans(list, off, i, h, k)
    <2>1. Follows(f, h, k)
      BY <1>6, <1>7 DEF Follows
    <2> QED
      BY <1>1, <2>1 DEF Scans
  <1>9. NewLine(f, k)
    OBVIOUS
  <1>10. NumberOf(f, k) = f.patch[h][2] + Cardinality({m \in h .. (k - 1) : NewLine(f, m)})
    BY DEF NumberOf
  <1>11. /\ base + 3 \in Heads(d, p) /\ Max(Heads(d, p)) = base + 3
         /\ base + (3 + h) \in Hunks(d, p) /\ Max(Hunks(d, p)) = base + (3 + h)
         /\ LineNumber(d, p) = f.patch[h][2] + Cardinality(Counted(f, h, k))
    <2> HIDE DEF h
    <2> QED
      BY <1>8, ScannedLine
  <1>12. Stripped(f.name) = Stripped(path) /\ NumberOf(f, k) = NumberOf(list[i], k)
    OBVIOUS
  <1> HIDE DEF d, f, base, n, h
  <1>13. h \in 1 .. n /\ h < k
    BY <1>2, <1>6
  <1>14. h .. (k - 1) \subseteq 1 .. n
    <2>1. n \in Nat /\ h \in 1 .. n /\ k \in 1 .. n /\ h < k
      BY <1>1, <1>2, <1>13
    <2> QED
      BY ONLY <2>1
  <1>15. Counted(f, h, k) = {m \in h .. (k - 1) : NewLine(f, m)}
    BY <1>2, <1>7, <1>14 DEF Counted
  <1>16. LineNumber(d, p) = NumberOf(f, k)
    BY <1>10, <1>11, <1>15
  <1>17. p \in DOMAIN d /\ d[p] = Body(f)[k]
    <2>1. 3 + k \in 1 .. 3 + n
      <3>1. n \in Nat /\ k \in 1 .. n
        BY <1>1, <1>2
      <3> QED
        BY ONLY <3>1
    <2> QED
      BY <1>2, <1>3, <1>4, <2>1
  <1>18. IsShown(d[p])
    BY <1>2, <1>7, <1>9, <1>17
  <1>19. base + (3 + h) > base + 3
    <2>1. base \in Nat /\ h \in 1 .. n /\ n \in Nat
      BY <1>1, <1>13
    <2> QED
      BY ONLY <2>1
  <1> HIDE DEF p
  <1>20. InHunkOf(d, p, path)
    <2>1. Names(d[base + 3], path)
      <3>1. Scanned(f.name) = Stripped(path)
        BY <1>5, <1>12, Zenon DEF Scanned
      <3> QED
        BY <1>5, <3>1, HeaderNames, Zenon
    <2>2. /\ Heads(d, p) # {} /\ Names(d[Max(Heads(d, p))], path)
          /\ Hunks(d, p) # {} /\ Max(Hunks(d, p)) > Max(Heads(d, p))
      BY <1>11, <1>19, <2>1
    <2> QED
      BY <2>2, ScannerFacts
  <1>21. LineMapsToDiff(d, path, NumberOf(f, k))
    BY <1>16, <1>17, <1>18, <1>20, Zenon DEF LineMapsToDiff, IsShown
  <1> QED
    BY <1>12, <1>21 DEF d

LEMMA ShownLineIsFound ==
  ASSUME NEW list \in Comparisons, ~Changes(list, "+", PlusLike \union PlusPlus),
         NEW i \in DOMAIN list, NEW path, NEW line, IsShownLine(list[i], path, line)
  PROVE  LineMapsToDiff(Diff(list), path, line)
  <1>1. PICK off : Laid(list, off)
    BY Layout
  <1>2. i \in 1 .. Len(list) /\ Named(list[i]) /\ list[i].status # "removed"
        /\ Stripped(list[i].name) = Stripped(path)
    BY BlocksFacts DEF IsShownLine
  <1>3. PICK k \in DOMAIN list[i].patch : NewLine(list[i], k) /\ NumberOf(list[i], k) = line
    BY DEF IsShownLine, ShownLines
  <1>4. \A m \in DOMAIN list[i].patch : ~Doubled(list[i].patch[m][1], list[i].patch[m][2])
    BY Zenon DEF Changes, Doubled
  <1>5. LineMapsToDiff(Diff(list), path, NumberOf(list[i], k))
    BY <1>1, <1>2, <1>3, <1>4, ShownIsFound
  <1> QED
    BY <1>3, <1>5

(* An inline comment lands on a line that is shown, and is not withheld    *)
(* from one.                                                               *)
THEOREM InlineCommentsLand == Spec => []InlineLandsOnShownLine
  <1>1. TextInv => InlineLandsOnShownLine
    <2> SUFFICES ASSUME TextInv PROVE InlineLandsOnShownLine
      OBVIOUS
    <2> DEFINE path == primary.file
               line == primary.line
               named == Stripped(path) # NoPath
               shown == \E i \in DOMAIN files : IsShownLine(files[i], path, line)
               plain == ~Changes(files, "+", PlusLike \union PlusPlus)
               misread == \E text \in PlusLike : Stripped(Misread(text)) = Stripped(path)
    <2>1. Finding.inDiff <=> HasFile /\ line > 0 /\ LineMapsToDiff(diff, path, line)
      BY DEF Finding
    <2>2. /\ LineMapsToDiff(diff, path, line) /\ named => shown \/ misread
          /\ shown /\ plain => LineMapsToDiff(diff, path, line)
      <3>1. CASE files \in Comparisons /\ diff = Diff(files)
        <4>1. ASSUME LineMapsToDiff(diff, path, line), named, ~misread PROVE shown
          BY <3>1, <4>1, FoundIsShown
        <4>2. ASSUME shown, plain PROVE LineMapsToDiff(diff, path, line)
          BY <3>1, <4>2, ShownLineIsFound
        <4> QED
          BY <4>1, <4>2
      <3>2. CASE files = <<>> /\ diff = <<>>
        <4>1. DOMAIN files = {} /\ DOMAIN diff = {}
          BY <3>2
        <4>2. ~LineMapsToDiff(diff, path, line)
          BY <4>1, Zenon DEF LineMapsToDiff
        <4> QED
          BY <4>1, <4>2
      <3> QED
        BY <3>1, <3>2 DEF TextInv, DiffHeld
    <2>3. shown <=> \E i \in DOMAIN files : /\ files[i].name # NoPath
                                            /\ Stripped(files[i].name) = Stripped(path)
                                            /\ files[i].status # "removed"
                                            /\ line \in ShownLines(files[i])
      BY Zenon DEF IsShownLine, Named
    <2>4. InlineLandsOnShownLine
            <=> /\ Finding.inDiff /\ named => shown \/ misread
                /\ shown /\ HasFile /\ line > 0 /\ plain => Finding.inDiff
      BY <2>3, Zenon DEF InlineLandsOnShownLine
    <2> HIDE DEF named, shown, plain, misread, path, line
    <2> QED
      BY <2>1, <2>2, <2>4
  <1> QED
    BY <1>1, TextInvariant, PTL
=============================================================================
