------------------------------ MODULE MCDiagnosis -----------------------------
(***************************************************************************)
(* Diagnosis on a small repository: two modules, a test and the dependency *)
(* files, the failures their logs show and the changes behind them.        *)
(***************************************************************************)
EXTENDS Diagnosis, TLC

App == Path(<<"src">>, "app", ".py")
Lib == Path(<<"src">>, "lib", ".py")
Lock == Root("poetry", ".lock")
Outside == Path(<<"..">>, "app", ".py")
Above == Path(<<"..", "src">>, "app", ".py")
Dotted == Path(<<".", "src">>, "app", ".py")
Workflow == Path(<<".github">>, "ci", ".yml")
Github == Path(<<"github">>, "ci", ".yml")
MCBare == [name \in {".github"} |-> "github"]
MCBackslashed == {Path(<<>>, "src\\app", ".py")}

(* Texts of lines; "assign" is an assignment the synthesis can turn into   *)
(* an integer, to the others it appends "type: ignore".                    *)
MCMinusLike == {"minus"}
MCPlusLike == {"plus"}
MCPlusPlus == {"plusplus"}
MCIgnoring == {"one!", "two!", "minus!", "plus!", "plusplus!"}
MCRepaired ==
  [one |-> "one!", two |-> "two!", assign |-> "number", number |-> "number!",
   minus |-> "minus!", plus |-> "plus!", plusplus |-> "plusplus!"]
MCNoisyStages == {"checkout"}

-----------------------------------------------------------------------------
(* Changes. *)

File(name, status, hunks) ==
  [name |-> name, status |-> status, previous |-> NoPath, patch |-> hunks]

Edited == File(App, "modified",
  << <<"@@", 1>>, <<" ", "one">>, <<"-", "two">>, <<"+", "assign">>,
     <<"@@", 4>>, <<"+", "two">>, <<" ", "one">> >>)
Added == File(Lib, "added", << <<"@@", 1>>, <<"+", "one">>, <<"+", "assign">> >>)
Removed == File(App, "removed", << <<"@@", 0>>, <<"-", "one">> >>)
Renamed == [File(Lib, "renamed", << <<"@@", 1>>, <<" ", "one">>, <<"+", "two">> >>)
              EXCEPT !.previous = App]
Unpatched == File(App, "modified", <<>>)
Lookalike == File(App, "modified",
  << <<"@@", 1>>, <<"-", "minus">>, <<"+", "one">>, <<"+", "plus">>, <<"+", "two">> >>)
Counter == File(Lib, "added",
  << <<"@@", 1>>, <<"+", "one">>, <<"+", "plusplus">>, <<"+", "assign">> >>)
Pinned == File(Requirements, "modified", << <<"@@", 1>>, <<"+", "one">> >>)
Locked == File(Lock, "modified", <<>>)
Nameless == File(NoPath, "modified", <<>>)
Ci == File(Workflow, "modified", << <<"@@", 1>>, <<" ", "one">>, <<"+", "two">> >>)

MCComparisons ==
  {<<Nameless>>, <<Edited>>, <<Added, Edited>>, <<Removed>>, <<Renamed>>,
   <<Ci, Unpatched, Added>>,
   <<Lookalike, Counter>>, <<Pinned>>, <<Locked, Edited>>, <<Pinned, Locked>>}

-----------------------------------------------------------------------------
(* Logs. *)

At(line, file, number) == [line EXCEPT !.file = file, !.number = number]
Error(c) == [Blank EXCEPT !.marks = {"error"}, !.hits = {c}, !.words = {c}]
Loud(line) == [line EXCEPT !.marks = @ \union {"annotated", "signal"}]
Mute == [Blank EXCEPT !.marks = {"error"}]
Test == [Error("TEST") EXCEPT !.tests = {"t1"}]
Noise == [Mute EXCEPT !.marks = {"error", "noise"}]
Quiet == [Error("LINT") EXCEPT !.stage = "checkout"]
Blanks(n) == [i \in 1..n |-> Blank]

Places == {<<NoPath, NoNumber>>, <<App, NoNumber>>, <<App, 2>>, <<App, 4>>, <<Lib, 2>>,
           <<Requirements, 1>>}
Odd == {<<Above, 2>>, <<Dotted, 2>>, <<Github, 2>>}
Kinds == {Error("TYPECHECK"), Error("DEPENDENCY"), Test, Mute}

(* One line that says it all; a message and a location behind it, inside   *)
(* and outside the window; two locations; a noisy stage before, or alone.  *)
Single == {<<Loud(At(k, p[1], p[2]))>> : <<k, p>> \in (Kinds \X Places) \union ({Error("TYPECHECK")} \X Odd)}
Apart == {<<Loud(Error("TYPECHECK"))>> \o Blanks(n) \o <<At(Blank, Lib, 2)>> : n \in {4, 5}}
Twice == {<<Test, At(Blank, App, 2), At(Blank, Lib, m)>> : m \in {NoNumber, 0, 1}}
Staged == {<<Quiet>> \o tail : tail \in {<<>>, <<[Mute EXCEPT !.stage = "test"]>>}}
Nothing == {<<Blank>>, <<Noise>>}

Text(lines) == [zip |-> FALSE, parts |-> << [marks |-> {}, lines |-> lines] >>]
Archive(parts) == [zip |-> TRUE, parts |-> parts]

MCLogs ==
  {Text(lines) : lines \in Single \union Apart \union Twice \union Staged \union Nothing}
  \union {Archive(<<>>), Archive(<<[marks |-> {"error"}, lines |-> <<Test>>],
                               [marks |-> {}, lines |-> <<At(Mute, App, 1)>>]>>)}

-----------------------------------------------------------------------------
(* Settings, and what a model may answer. *)

Deterministic ==
  [assist |-> FALSE, hosted |-> FALSE, key |-> FALSE, history |-> <<>>, checkout |-> <<>>,
   undecodable |-> {}]
Runs == << [tests |-> {"t1"}, signatures |-> {"s1"}], [tests |-> {"t1"}, signatures |-> {"s2"}] >>
Tree == [p \in {App} |-> <<"one", "assign", "plus", "one!", "two">>]

MCSettings ==
  {Deterministic,
   [Deterministic EXCEPT !.history = Runs, !.checkout = Tree],
   [Deterministic EXCEPT !.assist = TRUE, !.undecodable = {App}],
   [Deterministic EXCEPT !.assist = TRUE, !.hosted = TRUE],
   [Deterministic EXCEPT !.assist = TRUE, !.hosted = TRUE, !.key = TRUE, !.checkout = Tree]}

Write(op, file, content) == [op |-> op, file |-> file, content |-> content]
Answer(answered, plan) == [malformed |-> FALSE, steps |-> answered, plan |-> plan]

MCProposals ==
  {[NoProposal EXCEPT !.malformed = TRUE],
   Answer({Plain(App)}, <<Write("edit", App, <<"two">>), Write("modify", App, <<"one!">>)>>),
   Answer({Plain(Lib), [Plain(App) EXCEPT !.refs = {Lib}]}, <<Write("create", Lib, <<"assign">>)>>),
   Answer({Plain(App), [Plain(App) EXCEPT !.op = "delete"]}, <<Write("delete", App, <<>>)>>),
   Answer({Plain(Outside)}, <<>>),
   Answer({}, <<Write("modify", Outside, <<"two">>)>>),
   Answer({Plain(App)}, <<Write("create", Lib, <<>>)>>),
   Answer({}, <<Write("modify", Dotted, <<"two">>)>>),
   Answer({}, <<Write("modify", Path(<<>>, "src\\app", ".py"), <<"two">>)>>)}
=============================================================================
