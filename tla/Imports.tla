-------------------------------- MODULE Imports --------------------------------
(***************************************************************************)
(* The import graph of a disk: what the paths in import statements lead    *)
(* to, and what a load of an entry file should say of the graph.  There is *)
(* no walk here: aint-loader's walk is in Loader.                          *)
(*                                                                         *)
(* A path is the sequence of its segments from the root of the disk; there *)
(* are no symbolic links.  A disk d is [files, manifests, locks]: texts by *)
(* path, the directories with an aint.toml, and an aint.lock by directory. *)
(* An entry e is the argument of load: [path, bare], bare if it was given  *)
(* without a directory.                                                    *)
(***************************************************************************)
EXTENDS Syntax, SequencesExt, TLC

CONSTANT ProgramOf(_)     \* the program of a text, or Absent if it does not parse

NoAlias == ""             \* of the entry file
NoPath  == <<"", "">>

-----------------------------------------------------------------------------
(* Paths *)

Parent(path) == IF path = <<>> THEN path ELSE Front(path)

IsDir(d, dir) == \/ \E f \in DOMAIN d.files : IsStrictPrefix(dir, f)
                 \/ \E m \in d.manifests : IsPrefix(dir, m)

Segments(pieces) ==
  FoldLeft(LAMBDA ss, c : IF c = "/" THEN Append(ss, "") ELSE [ss EXCEPT ![Len(ss)] = @ \o c], <<"">>, pieces)

\* canonicalize: no dots, and everything on the way exists.
Canonical(d, path) ==
  FoldLeft(LAMBDA dir, s :
             IF dir = NoPath \/ ~IsDir(d, dir) THEN NoPath
             ELSE CASE s \in {"", "."} -> dir
                    [] s = ".." -> Parent(dir)
                    [] OTHER -> IF IsDir(d, Append(dir, s)) \/ Append(dir, s) \in DOMAIN d.files
                                THEN Append(dir, s) ELSE NoPath,
           <<>>, path)

IsImport(s) == s.kind = "ImportFile"
PathOf(s)   == Segments([i \in DOMAIN s.parts[1].parts |-> s.parts[1].parts[i].text])
IsRelativeImport(path) == Len(path) > 1 /\ path[1] \in {".", ".."}
\* A path that is not relative is the name of a package as a whole.
PackageName(path) == FoldLeft(LAMBDA n, s : IF n = "" THEN s ELSE n \o "/" \o s, "", path)

\* The nearest of dir and the directories above it that has an aint.toml.
FindPackageRoot(d, dir) ==
  LET roots == {m \in d.manifests : IsPrefix(m, dir)}
  IN IF Canonical(d, dir) = NoPath \/ roots = {} THEN NoPath
     ELSE CHOOSE m \in roots : \A n \in roots : Len(n) <= Len(m)

-----------------------------------------------------------------------------
(* The graph *)

Start(d, e)  == Canonical(d, e.path)
Root(d, e)   == FindPackageRoot(d, Parent(e.path))
Locked(d, e) == LET root == Root(d, e) IN
                IF root \in DOMAIN d.locks /\ d.locks[root].ok THEN d.locks[root].dirs ELSE <<>>

\* The path that the import s of a file f asks for.
Wanted(d, e, f, s) ==
  LET path == PathOf(s)
      name == PackageName(path)
  IN IF IsRelativeImport(path) THEN Parent(f) \o path
     ELSE IF name \in DOMAIN Locked(d, e) THEN Append(Locked(d, e)[name], "lib.an") ELSE NoPath

\* The program of a file, and the file that each of its imports leads to, by its place.
Vertex(d, e, f, program) ==
  [program |-> program,
   to |-> [i \in {j \in DOMAIN program.parts : IsImport(program.parts[j])} |->
             Canonical(d, Wanted(d, e, f, program.parts[i]))]]
Graph(d, e) == [f \in DOMAIN d.files |-> Vertex(d, e, f, ProgramOf(d.files[f]))]

\* The least set of files with the entry and every file that one of the set imports.
Closed(g, start, files) ==
  /\ start \in DOMAIN g => start \in files
  /\ \A f \in files : \A i \in DOMAIN g[f].to : g[f].to[i] \in DOMAIN g => g[f].to[i] \in files
Reached(g, start) == {f \in DOMAIN g : \A files \in SUBSET DOMAIN g : Closed(g, start, files) => f \in files}

\* Every import statement of the files, and where it leads.
Edges(g, files) == UNION {{[from |-> f, at |-> i, to |-> g[f].to[i]] : i \in DOMAIN g[f].to} : f \in files}

-----------------------------------------------------------------------------
(* Its faults *)

\* Two imports of one file have the same alias.
TwiceUsed(program) ==
  \E i, j \in DOMAIN program.parts :
    /\ i < j /\ IsImport(program.parts[i]) /\ IsImport(program.parts[j])
    /\ program.parts[i].text = program.parts[j].text

\* A statement that may not stand in an imported file.
Illegal(program) ==
  \E i \in DOMAIN program.parts :
    program.parts[i].kind \notin {"Fn", "AsyncFn", "Enum", "Tool", "Infer", "Import", "ImportFile"}

ImportsPackage(program, name) ==
  \E i \in DOMAIN program.parts :
    LET s == program.parts[i] IN IsImport(s) /\ ~IsRelativeImport(PathOf(s)) /\ PackageName(PathOf(s)) = name

\* Each file is imported once, but the entry, which is not imported.
Faultless(g, start, files) ==
  /\ start \in files
  /\ \A f \in files : \A i \in DOMAIN g[f].to : g[f].to[i] \in files \ {start}
  /\ \A a, b \in Edges(g, files) : a.to = b.to => a = b
  /\ \A f \in files : /\ g[f].program # Absent /\ ~TwiceUsed(g[f].program)
                      /\ f = start \/ ~Illegal(g[f].program)

\* What an error says.
Holds(d, e, g, files, error, at) ==
  /\ error = "Io" =>
       /\ Canonical(d, at) \notin DOMAIN d.files
       /\ \/ at = e.path
          \/ \E f \in files : \E i \in DOMAIN g[f].to : at = Wanted(d, e, f, g[f].program.parts[i])
  /\ error = "Parse" => at \in files /\ g[at].program = Absent
  /\ error = "Cycle" =>
       /\ Len(at) > 1 /\ at[Len(at)] = at[1]
       /\ \A i \in 1..Len(at) - 1 : at[i] \in files /\ \E k \in DOMAIN g[at[i]].to : g[at[i]].to[k] = at[i + 1]
  /\ error = "DuplicateImport" => \E a, b \in Edges(g, files) : a # b /\ a.to = at /\ b.to = at
  /\ error = "DuplicateAlias" => at \in files /\ TwiceUsed(g[at].program)
  /\ error = "IllegalTopLevelStatement" => at \in files \ {Start(d, e)} /\ Illegal(g[at].program)
  /\ error = "InvalidLockfile" => Root(d, e) \in DOMAIN d.locks /\ ~d.locks[Root(d, e)].ok
  /\ error \in {"NoPackageRoot", "NoLockfile", "UnknownPackage"} =>
       at[1] \in files /\ ImportsPackage(g[at[1]].program, at[2])
  /\ error = "NoPackageRoot" => Root(d, e) = NoPath
  /\ error = "NoLockfile" => Root(d, e) # NoPath /\ Root(d, e) \notin DOMAIN d.locks
  /\ error = "UnknownPackage" => Root(d, e) \in DOMAIN d.locks /\ at[2] \notin DOMAIN Locked(d, e)
=============================================================================
