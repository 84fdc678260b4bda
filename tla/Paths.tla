-------------------------------- MODULE Paths ---------------------------------
(***************************************************************************)
(* Repository paths as the analysis reads them: directories, stem, suffix. *)
(* A directory is a name, or one of Dots: "/" for the slash a path begins  *)
(* with, or that another slash follows.  Names are opaque: a dot inside a  *)
(* directory's name or a stem is not told apart from the letters.          *)
(***************************************************************************)
EXTENDS SequencesExt

CONSTANT Bare             \* names that begin with dots, without those

Path(dir, stem, ext) == [dir |-> dir, stem |-> stem, ext |-> ext]
NoPath == Path(<<>>, "", "")
DevNull == Path(<<"dev">>, "null", "")
Unknown == Path(<<>>, "unknown", "")       \* evidence without a file

FileName(p) == <<p.stem, p.ext>>

Dots == {"/", ".", ".."}
Unnamed(p) == p.ext = "" /\ p.stem \in Dots \union {""}

(* A plain path to a file below the root.                                  *)
Inside(p) == ~Unnamed(p) /\ \A i \in DOMAIN p.dir : p.dir[i] \notin Dots

(* _normalize_repo_relative_path: no path for one that may lead out of the *)
(* repository, and else the plain one.                                     *)
Relative(p) ==
  LET Kept(part) == IF part \in Dots THEN <<>> ELSE <<part>>
  IN  IF Unnamed(p) \/ ".." \in ToSet(p.dir) \/ (p.dir # <<>> /\ p.dir[1] = "/")
      THEN NoPath
      ELSE Path(FlattenSeq([i \in DOMAIN p.dir |-> Kept(p.dir[i])]), p.stem, p.ext)

(* lstrip("./"): every dot and slash a path begins with is dropped.        *)
Undotted(name) ==
  IF name \in Dots THEN "" ELSE IF name \in DOMAIN Bare THEN Bare[name] ELSE name

Stripped(p) ==
  LET names == {i \in DOMAIN p.dir : p.dir[i] \notin Dots}
      first == Min(names)
  IN  IF names = {} THEN Path(<<>>, Undotted(p.stem), p.ext)
      ELSE [p EXCEPT !.dir =
              <<Undotted(p.dir[first])>> \o SubSeq(p.dir, first + 1, Len(p.dir))]

Lockfiles ==
  {<<"poetry", ".lock">>, <<"package-lock", ".json">>, <<"yarn", ".lock">>,
   <<"pnpm-lock", ".yaml">>, <<"Pipfile", ".lock">>, <<"uv", ".lock">>}

Manifests ==
  {<<"pyproject", ".toml">>, <<"requirements", ".txt">>, <<"Pipfile", "">>,
   <<"setup", ".py">>, <<"setup", ".cfg">>, <<"package", ".json">>}

(* _to_module_name of the diff analysis: a dotted name, as a sequence.     *)
ModuleName(p) ==
  LET Kept(part) == part \notin {"src", "tests"}
      dirs == SelectSeq(p.dir, Kept)
  IN  IF FileName(p) \in Lockfiles \union Manifests THEN <<"dependency">>
      ELSE IF p.ext # "" \/ Kept(p.stem) THEN Append(dirs, p.stem)
      ELSE IF dirs = <<>> THEN <<"root">> ELSE dirs

(* _module_name of the ranker: the stem alone. *)
StemName(p) == <<p.stem>>
=============================================================================
