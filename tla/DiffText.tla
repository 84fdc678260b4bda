------------------------------- MODULE DiffText -------------------------------
(***************************************************************************)
(* The text of a change.  fetch_compare_diff prints what the compare API   *)
(* answers as a unified diff (src/github_app_ingestion.py), and four       *)
(* readers take that text apart again, each with a scanner of its own:     *)
(* parse_git_diff with run_diff_analysis, _line_maps_to_diff of the        *)
(* runtime, and _extract_file_content_from_unified_diff of the             *)
(* orchestrator.  A printed line is a record of its kind; a line of a file *)
(* is an opaque text, except that some texts look like a file header once  *)
(* they are printed behind their sign.                                     *)
(***************************************************************************)
EXTENDS Naturals, Paths

CONSTANTS
  MinusLike, PlusLike,      \* texts that begin with "-- ", with "++ "
  PlusPlus                  \* texts that begin with "++"

(* The path a reader sees in a text that looks like a header. *)
Misread(text) == Path(<<"misread">>, text, "")

-----------------------------------------------------------------------------
(* Printing.  A file of the answer has a name, a status, its previous name *)
(* and its patch, without blank lines at its end: pairs of a sign and a    *)
(* text, or of "@@" and the number of the first line a hunk shows; "eof"   *)
(* is the sign of "\ No newline".  Where GitHub sends no patch it is empty. *)

Signs == {"@@", "+", "-", " ", "eof"}

IsFile(f) ==
  /\ f.name # DevNull /\ f.patch \in Seq(ToSet(f.patch))
  /\ \A i \in DOMAIN f.patch : f.patch[i][1] \in Signs
  /\ f.patch # <<>> => f.patch[1][1] = "@@"

Header(a, b) == [kind |-> "diff", old |-> a, new |-> b]
OldName(p) == [kind |-> "---", path |-> p]
NewName(p) == [kind |-> "+++", path |-> p]
Hunk(start) == [kind |-> "@@", start |-> start]
Unavailable == [kind |-> "#"]

(* A removed "-- x" is printed "--- x", an added "++ x" is "+++ x"; an     *)
(* added "++x" is "+++x", which no reader takes for an added line.         *)
Printed(sign, text) ==
  CASE sign = "@@" -> Hunk(text)
    [] sign = "-" /\ text \in MinusLike -> OldName(Misread(text))
    [] sign = "+" /\ text \in PlusLike -> NewName(Misread(text))
    [] sign = "+" /\ text \in PlusPlus \ PlusLike -> [kind |-> "+++x", text |-> text]
    [] OTHER -> [kind |-> sign, text |-> text]

Body(f) ==
  IF f.patch = <<>> THEN <<Hunk(0), Unavailable>>
  ELSE [i \in DOMAIN f.patch |-> Printed(f.patch[i][1], f.patch[i][2])]

Rendered(f) ==
  LET before == IF f.status = "renamed" /\ f.previous # NoPath THEN f.previous ELSE f.name
  IN  <<Header(before, f.name),
        OldName(IF f.status = "added" THEN DevNull ELSE before),
        NewName(IF f.status = "removed" THEN DevNull ELSE f.name)>> \o Body(f)

Named(f) == f.name # NoPath
Diff(files) ==
  FlattenSeq([i \in DOMAIN files |-> IF Named(files[i]) THEN Rendered(files[i]) ELSE <<>>])

-----------------------------------------------------------------------------
(* parse_git_diff: the old and the new path of every file; a line that     *)
(* looks like a header is one, wherever it stands, and the last one counts. *)

Sections(diff) == {i \in DOMAIN diff : diff[i].kind = "diff"}
Section(diff, i) == {j \in DOMAIN diff : j >= i /\ Sections(diff) \cap (i + 1)..j = {}}

LastPath(diff, i, kind, default) ==
  LET headers == {j \in Section(diff, i) : diff[j].kind = kind}
  IN  IF headers = {} THEN default ELSE diff[Max(headers)].path

ParseGitDiff(diff) ==
  {[old |-> LastPath(diff, i, "---", diff[i].old),
    new |-> LastPath(diff, i, "+++", diff[i].new)] : i \in Sections(diff)}

Deleted(r) == r.old # DevNull /\ r.new = DevNull

Bug_ChangedPath(r) == r.new
ChangedPath(r) == IF Deleted(r) THEN r.old ELSE r.new

(* run_diff_analysis. *)
DiffAnalysis(diff) ==
  LET read == ParseGitDiff(diff)
      files == {ChangedPath(r) : r \in read}
  IN  [files |-> files,
       modules |-> {ModuleName(p) : p \in files},
       lockfiles |-> {p \in files : FileName(p) \in Lockfiles},
       manifests |-> {p \in files : FileName(p) \in Manifests}]

-----------------------------------------------------------------------------
(* _line_maps_to_diff: is this line of the new file one the diff shows?    *)
(* The scanner is in the file the last header named, and counts the lines  *)
(* of the new file from the number in the last hunk header behind it.  It  *)
(* compares paths without the dots and slashes they begin with, and takes  *)
(* /dev/null for no path.                                                  *)

Behind(diff, i, kinds) == {j \in DOMAIN diff : j < i /\ diff[j].kind \in kinds}

Scanned(p) == IF p = DevNull THEN NoPath ELSE Stripped(p)

InHunkOf(diff, i, path) ==
  LET headers == Behind(diff, i, {"diff", "+++"})
      hunks == Behind(diff, i, {"@@"})
  IN  /\ headers # {} /\ diff[Max(headers)].kind = "+++"
      /\ Scanned(diff[Max(headers)].path) = Stripped(path)
      /\ hunks # {} /\ Max(hunks) > Max(headers)

Bug_LineNumber(diff, i) ==
  LET hunk == Max(Behind(diff, i, {"@@"}))
  IN  diff[hunk].start + Cardinality({j \in Behind(diff, i, {"+", "-", " "}) : j > hunk})

LineNumber(diff, i) ==
  LET hunk == Max(Behind(diff, i, {"@@"}))
  IN  diff[hunk].start + Cardinality({j \in Behind(diff, i, {"+", " "}) : j > hunk})

LineMapsToDiff(diff, path, line) ==
  \E i \in DOMAIN diff : /\ diff[i].kind \in {"+", " "} /\ InHunkOf(diff, i, path)
                         /\ LineNumber(diff, i) = line

(* _extract_file_content_from_unified_diff: what the hunks of a file show  *)
(* of its new content.  Lines outside the hunks are not part of it.        *)
Shows(diff, path, j) ==
  /\ diff[j].kind \in {"+", " "}
  /\ \E i \in 1..j : /\ diff[i] = Header(path, path)
                     /\ \A k \in 1..(i - 1) : diff[k] # Header(path, path)
                     /\ \A k \in (i + 1)..j : diff[k].kind # "diff"

ShownContent(diff, path) ==
  FlattenSeq([j \in DOMAIN diff |-> IF Shows(diff, path, j) THEN <<diff[j].text>> ELSE <<>>])
=============================================================================
