------------------------------- MODULE LogText --------------------------------
(***************************************************************************)
(* From a CI log to the failure the diagnosis starts from: parse_ci_log    *)
(* (src/parsers/ci_log_parser.py) and run_log_ingest                       *)
(* (src/agents/log_ingest.py).                                             *)
(*                                                                         *)
(* A line of the log is a record of what its readers look for:             *)
(*   stage   "same", or the stage that begins here ("global" at an end)    *)
(*   marks   of "error" (an error word), "heading" ("# ..."), "exit"       *)
(*           (process completed ...), "noise", "annotated" (##[error]),    *)
(*           "signal" (one of SIGNAL_SIGNATURE_SNIPPETS)                   *)
(*   file    the file it names, or NoPath; number, the line, or NoNumber   *)
(*   hits    the classes with a pattern it contains                        *)
(*   words   the classes one of whose alignment words it contains          *)
(*   tests   the identifiers of tests it contains                          *)
(***************************************************************************)
EXTENDS Integers, FiniteSetsExt, Paths

CONSTANT NoisyStages      \* the stages NOISE_STAGE_SNIPPETS names

NoNumber == -1
Blank == [stage |-> "same", marks |-> {}, file |-> NoPath, number |-> NoNumber,
          hits |-> {}, words |-> {}, tests |-> {}]
Heading(marks) == [Blank EXCEPT !.marks = marks \union {"heading"}]

Near(log, i, n) == {j \in DOMAIN log : j <= i + n /\ i <= j + n}

ErrorLine(l) == "error" \in l.marks \/ l.file # NoPath

(* The stage of a line is the one that began last.                         *)
Stage(log, i) ==
  LET begun == {j \in DOMAIN log : j <= i /\ log[j].stage # "same"}
  IN  IF begun = {} THEN "global" ELSE log[Max(begun)].stage

FirstSeen(log, stage) ==
  IF stage = "global" THEN 0 ELSE Min({i \in DOMAIN log : Stage(log, i) = stage})

(* _find_stack_context: the last file named within five lines, and the     *)
(* last line number; a file named without a number leaves the number of    *)
(* another.  Line 0 and no line are the same to every reader.             *)
Bug_Located(log, i) == {j \in Near(log, i, 6) : log[j].file # NoPath}
Located(log, i) == {j \in Near(log, i, 5) : log[j].file # NoPath}
Numbered(log, i) == {j \in Located(log, i) : log[j].number # NoNumber}

Event(log, i) ==
  LET excerpt == Near(log, i, 1)
  IN  [index |-> i,
       rank |-> FirstSeen(log, Stage(log, i)),
       quiet |-> Stage(log, i) \in NoisyStages \/ log[i].marks \cap {"heading", "noise"} # {},
       wrapper |-> log[i].marks \cap {"heading", "exit"} # {},
       words |-> log[i].words,
       file |-> IF Located(log, i) = {} THEN NoPath ELSE log[Max(Located(log, i))].file,
       line |-> IF Numbered(log, i) = {} THEN 0 ELSE log[Max(Numbered(log, i))].number,
       marks |-> UNION {log[j].marks : j \in excerpt},
       hits |-> UNION {log[j].hits : j \in excerpt},
       tests |-> UNION {log[j].tests : j \in excerpt}]

Events(log) == {Event(log, i) : i \in {j \in DOMAIN log : ErrorLine(log[j])}}

(* _event_signal_score. *)
SignalScore(e) ==
  (IF e.file # NoPath THEN 3 ELSE 0) + (IF e.line > 0 THEN 1 ELSE 0)
  + (IF "annotated" \in e.marks THEN 2 ELSE 0) + (IF "signal" \in e.marks THEN 3 ELSE 0)

Selected(log) ==
  LET loud == {e \in Events(log) : ~e.quiet} IN IF loud # {} THEN loud ELSE Events(log)

(* _priority_sort_key; all the events carry the timestamp of the run. *)
Sooner(e, f) ==
  \/ SignalScore(e) > SignalScore(f)
  \/ /\ SignalScore(e) = SignalScore(f)
     /\ e.rank < f.rank \/ (e.rank = f.rank /\ e.index <= f.index)

FirstFailures(log) == {e \in Selected(log) : \A f \in Selected(log) : Sooner(e, f)}
=============================================================================
