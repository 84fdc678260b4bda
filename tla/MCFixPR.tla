------------------------------- MODULE MCFixPR --------------------------------
EXTENDS FixPR, TLC

CONSTANTS r1, r2, r3, f1, f2, fix, fix2, old, raw, neat, wrong, garbled,
          directory

MCFiles == {f1, f2}
MCContents == {old, raw, neat, wrong, garbled}
MCBase == [f \in MCFiles |-> old]
MCFormatted == [c \in MCContents |-> IF c = raw THEN neat ELSE c]

One(f, c) == [g \in {f} |-> c]

(* An agentic payload that patches one file and may change only that one. *)
Sound ==
  [create |-> TRUE, offline |-> FALSE, agentic |-> TRUE, commands |-> TRUE,
   prohibited |-> FALSE, dryRun |-> FALSE, confidence |-> 75, minConfidence |-> 75,
   repo |-> directory, branch |-> fix, patch |-> One(f1, raw), evidence |-> {f1}, planned |-> {f1},
   maxFixFiles |-> 1]
Failing == [Sound EXCEPT !.patch = One(f2, wrong), !.evidence = {f2}, !.planned = {}]
Trial == [Sound EXCEPT !.dryRun = TRUE, !.agentic = FALSE]
Untested == [Sound EXCEPT !.agentic = FALSE, !.patch = One(f1, wrong)]
Broken == [Sound EXCEPT !.patch = One(f2, garbled), !.evidence = {f2}, !.planned = {}]
Elsewhere == [Sound EXCEPT !.branch = fix2, !.patch = One(f2, neat), !.evidence = {f2},
                           !.planned = {}]
TooMany == [Sound EXCEPT !.evidence = {f1, f2}, !.planned = {},
                         !.patch = [f \in {f1, f2} |-> raw]]

Calls == {Sound, Failing, Trial, Untested, Broken, Elsewhere, TooMany}

ThreeRuns == {r1, r2, r3}
Places == ThreeRuns \union {directory}
MCJobs == {[call EXCEPT !.repo = w] : call \in Calls, w \in Places}

(* The Action clones the repository for every run; the runs of the app's   *)
(* server share its directory, here with two fix branches.                 *)
Apart == {[r \in ThreeRuns |-> [calls[r] EXCEPT !.repo = r]] :
            calls \in [ThreeRuns -> Calls \ {Elsewhere}]}
Together == [ThreeRuns -> {Sound, Failing, Elsewhere}]
Either == Apart \union Together
InTurn == [ThreeRuns -> Calls]
SoundAlways == {[r \in ThreeRuns |-> Sound]}

Interchangeable == Permutations(ThreeRuns)
=============================================================================
