------------------------------- MODULE FixPlan --------------------------------
(***************************************************************************)
(* From a root cause to a fix: the contract of an agentic proposal         *)
(* (validate_agentic_patch_proposal), the steps the fix planner takes or   *)
(* refuses (run_fix_planner), and the file contents pr_creation is given   *)
(* (_resolve_validated_changes_for_pr_creation).                           *)
(*                                                                         *)
(* A step names the file it changes, the file names its instruction        *)
(* mentions (refs) and the operation its wording implies.  A content is a  *)
(* sequence of texts; the empty one stands for None.                       *)
(***************************************************************************)
EXTENDS Naturals, DiffText

CONSTANTS
  Backslashed,              \* paths with a backslash in them
  Ignoring,                 \* texts that contain "type: ignore"
  Repaired                  \* what the type-check synthesis makes of a text

(* normalize_repo_relative_path: a plain path is taken, as it is, or none. *)
Safe(p) == Inside(p) /\ p \notin Backslashed

-----------------------------------------------------------------------------
(* The contract of a proposal: steps and a patch plan. *)

OpOf(op) == IF op \in {"edit", "update", "replace"} THEN "modify" ELSE op
Writing == {"modify", "create"}

BreaksContract(raw) ==
  \/ raw.malformed
  \/ \E step \in raw.steps : ~Safe(step.file)
  \/ \E i \in DOMAIN raw.plan :
       LET item == raw.plan[i]
       IN  \/ OpOf(item.op) \notin Writing \union {"delete", "rename"}
           \/ OpOf(item.op) \in Writing /\ item.content = <<>>
           \/ ~Safe(item.file)

-----------------------------------------------------------------------------
(* The plan.  allowed_files are the files of the evidence: one file. *)

Root(stem, ext) == Path(<<>>, stem, ext)
Requirements == Root("requirements", ".txt")

(* What gives a dependency hint: only files in the root directory.         *)
Hinting ==
  {Root("package-lock", ".json"), Root("pnpm-lock", ".yaml"), Root("yarn", ".lock"),
   Root("package", ".json"), Root("poetry", ".lock"), Root("uv", ".lock"),
   Root("Pipfile", ".lock")}

Plain(file) == [file |-> file, refs |-> {}, op |-> "modify"]

(* The last hint, "pip install -r requirements.txt", names a file.         *)
Hint(file, changes) ==
  [Plain(file) EXCEPT !.refs = IF Hinting \cap changes.files = {} THEN {Requirements} ELSE {}]

Steps(class, flaky, changes, file, offered) ==
  LET hinted == (Hinting \union {Requirements}) \cap changes.files # {}
  IN  IF class = "TEST" /\ flaky THEN {Plain(file)}
      ELSE IF class = "DEPENDENCY" /\ hinted THEN {Hint(file, changes)}
      ELSE IF offered # {} THEN offered ELSE {Plain(file)}

(* The candidate steps the planner is offered: those for an allowed file.  *)
Bug_Offered(proposal, file) == proposal.steps
Offered(proposal, file) == {step \in proposal.steps : step.file = file}

Speculative(steps, file) == \E s \in steps : s.file # file \/ ~ s.refs \subseteq {file}
Conflicting(steps) == \E s, t \in steps : s.file = t.file /\ s.op # t.op

-----------------------------------------------------------------------------
(* The contents. *)

(* _synthesize_typecheck_change: the evidence's line, or the last one,     *)
(* repaired, unless it silences the checker already.                       *)
Bug_Rewritten(lines, number) ==
  LET i == Min({number + 1, Len(lines)})
  IN  IF lines = <<>> \/ lines[i] \in Ignoring THEN <<>>
      ELSE Append(SubSeq(lines, 1, i), Repaired[lines[i]])

Rewritten(lines, number) ==
  LET i == Min({Max({number, 1}), Len(lines)})
  IN  IF lines = <<>> \/ lines[i] \in Ignoring THEN <<>>
      ELSE [lines EXCEPT ![i] = Repaired[lines[i]]]

(* What the diff shows of the file is preferred to the working tree.       *)
Synthesized(number, shown, worktree) ==
  LET fix == Rewritten(shown, number)
  IN  IF fix # <<>> THEN fix ELSE Rewritten(worktree, number)

(* The contents of the proposal; the last one for a file counts.           *)
Proposed(proposal, class) ==
  LET plan == proposal.plan
      Silences(item) == \E i \in DOMAIN item.content : item.content[i] \in Ignoring
      kept == {i \in DOMAIN plan : /\ OpOf(plan[i].op) \in Writing
                                  /\ ~(class = "TYPECHECK" /\ Silences(plan[i]))}
  IN  [f \in {plan[i].file : i \in kept} |->
         plan[Max({i \in kept : plan[i].file = f})].content]

(* The steps and the evidence are of one file, normalised once more.       *)
Resolved(class, file, line, proposal, shown, worktree) ==
  LET fix == Synthesized(line, shown, worktree)
  IN  IF class = "TYPECHECK" /\ file # NoPath /\ fix # <<>>
      THEN [f \in {file} |-> fix]
      ELSE Proposed(proposal, class)
=============================================================================
