-------------------------------- MODULE Loader --------------------------------
(***************************************************************************)
(* aint-loader: `load` walks the imports of an entry file depth first and  *)
(* makes one flat program of the files it reaches, with the declarations   *)
(* of an imported file renamed.  The disk does not change during a load.   *)
(***************************************************************************)
EXTENDS Imports, FiniteSets

CONSTANT RenamedStatement(_, _, _)   \* a statement with the names of a set renamed by an alias

VARIABLES
  disk,      \* see Imports
  entry,     \* the argument of load
  packages,  \* the PackageContext: [is, dirs]
  frames,    \* the calls of resolve_file, the outermost first: [file, alias, rest, flat, aliases]
  visited,
  asked,     \* the next call of resolve_file: [call, path, alias], or Nothing
  result     \* [is, at]: "idle", "started", "loading", "loaded" with the program, or an error

loadVars == <<entry, packages, frames, visited, asked, result>>

Nothing == [call |-> FALSE, path |-> <<>>, alias |-> NoAlias]

LoadErrors ==
  {"Io", "Parse", "Cycle", "DuplicateImport", "DuplicateAlias", "IllegalTopLevelStatement",
   "UnknownPackage", "NoPackageRoot", "NoLockfile", "InvalidLockfile"}

-----------------------------------------------------------------------------
(* Renaming *)

Constants(e) == {e.text \o "_" \o e.parts[1].parts[i].text : i \in DOMAIN e.parts[1].parts}

\* Faulty: the constants of an enum are forgotten.
DeclaresWithoutConstants(s) ==
  IF s.kind \in {"Fn", "AsyncFn", "Tool", "Infer", "Enum"} THEN {s.text} ELSE {}

\* The names a statement at the top level puts into the rename map.
Declares(s) ==
  CASE s.kind \in {"Fn", "AsyncFn", "Tool", "Infer"} -> {s.text}
    [] s.kind = "Enum" -> {s.text} \cup Constants(s)
    [] OTHER -> {}

\* The names that collect_rename_map maps, each x to alias_x.
RenameMap(statements) == UNION {Declares(statements[i]) : i \in DOMAIN statements}

-----------------------------------------------------------------------------
(* The walk *)

Stop(error, at) == result' = [is |-> error, at |-> at] /\ UNCHANGED <<packages, frames, visited, asked>>

Loading == result.is = "loading"
Top     == Last(frames)
Walking == Loading /\ ~asked.call
Replace(frame) == frames' = Append(Front(frames), frame)

Resolve(dirs, is) ==
  /\ packages' = [is |-> is, dirs |-> dirs]
  /\ asked' = [call |-> TRUE, path |-> entry.path, alias |-> NoAlias]
  /\ result' = [is |-> "loading", at |-> <<>>]
  /\ UNCHANGED <<frames, visited>>

\* PackageContext::discover.  The parent of a bare file name is the empty path, which does
\* not exist.
Discover ==
  /\ result.is = "started"
  /\ LET root == IF entry.bare THEN NoPath ELSE Root(disk, entry) IN
     \/ root = NoPath /\ Resolve(<<>>, "NoPackageRoot")
     \/ /\ root # NoPath
        /\ \/ root \notin DOMAIN disk.locks /\ Resolve(<<>>, "NoLockfile")
           \/ root \in DOMAIN disk.locks /\ ~disk.locks[root].ok /\ Stop("InvalidLockfile", root)
           \/ root \in DOMAIN disk.locks /\ disk.locks[root].ok /\ Resolve(disk.locks[root].dirs, "Resolved")
  /\ UNCHANGED <<disk, entry>>

OnStack(f) == \E i \in DOMAIN frames : frames[i].file = f

\* Faulty: the file is not marked as visited.
PushUnvisited(f, program) ==
  /\ frames' = Append(frames, [file |-> f, alias |-> asked.alias, rest |-> program.parts,
                               flat |-> <<>>, aliases |-> {}])
  /\ asked' = Nothing
  /\ UNCHANGED <<packages, visited, result>>

\* resolve_file, up to the statements.
Push(f, program) ==
  /\ visited' = visited \cup {f}
  /\ frames' = Append(frames, [file |-> f, alias |-> asked.alias, rest |-> program.parts,
                               flat |-> <<>>, aliases |-> {}])
  /\ asked' = Nothing
  /\ UNCHANGED <<packages, result>>

Enter ==
  /\ Loading /\ asked.call
  /\ LET f == Canonical(disk, asked.path) IN
     \/ f \notin DOMAIN disk.files /\ Stop("Io", asked.path)
     \/ /\ OnStack(f)
        /\ LET start == CHOOSE i \in DOMAIN frames : frames[i].file = f
           IN Stop("Cycle", Append([i \in 1..Len(frames) - start + 1 |-> frames[start + i - 1].file], f))
     \/ f \in visited /\ ~OnStack(f) /\ Stop("DuplicateImport", f)
     \/ /\ f \in DOMAIN disk.files \ visited
        /\ LET program == ProgramOf(disk.files[f])
           IN IF program = Absent THEN Stop("Parse", f) ELSE Push(f, program)
  /\ UNCHANGED <<disk, entry>>

Ask(path, s) ==
  /\ asked' = [call |-> TRUE, path |-> path, alias |-> s.text]
  /\ Replace([Top EXCEPT !.rest = Tail(@), !.aliases = @ \cup {s.text}])
  /\ UNCHANGED <<packages, visited, result>>

\* PackageContext::resolve.
PackageImport(s, name) ==
  \/ packages.is # "Resolved" /\ Stop(packages.is, <<Top.file, name>>)
  \/ packages.is = "Resolved" /\ name \notin DOMAIN packages.dirs /\ Stop("UnknownPackage", <<Top.file, name>>)
  \/ packages.is = "Resolved" /\ name \in DOMAIN packages.dirs /\ Ask(Append(packages.dirs[name], "lib.an"), s)

TakeImport ==
  /\ Walking /\ Top.rest # <<>> /\ IsImport(Head(Top.rest))
  /\ LET s == Head(Top.rest)
         path == PathOf(s)
     IN IF s.text \in Top.aliases THEN Stop("DuplicateAlias", Top.file)
        ELSE IF IsRelativeImport(path) THEN Ask(Parent(Top.file) \o path, s)
        ELSE PackageImport(s, PackageName(path))
  /\ UNCHANGED <<disk, entry>>

\* Faulty: tests may stand in an imported file.
ImportableWithTests == {"Fn", "AsyncFn", "Enum", "Tool", "Infer", "Import", "Test"}

\* What may stand at the top level of an imported file.
Importable == {"Fn", "AsyncFn", "Enum", "Tool", "Infer", "Import"}

TakeStatement ==
  /\ Walking /\ Top.rest # <<>> /\ ~IsImport(Head(Top.rest))
  /\ LET s == Head(Top.rest) IN
     \/ Top.alias # NoAlias /\ s.kind \notin Importable /\ Stop("IllegalTopLevelStatement", Top.file)
     \/ /\ Top.alias = NoAlias \/ s.kind \in Importable
        /\ Replace([Top EXCEPT !.rest = Tail(@), !.flat = Append(@, s)])
        /\ UNCHANGED <<packages, visited, asked, result>>
  /\ UNCHANGED <<disk, entry>>

\* The file is done: it is spliced into the one that imports it, or is the program.
LeaveFile ==
  /\ Walking /\ Top.rest = <<>>
  /\ frames' =
       IF Top.alias = NoAlias THEN <<>>
       ELSE LET names  == RenameMap(Top.flat)
                callers == Front(frames)
            IN [callers EXCEPT ![Len(callers)].flat =
                  @ \o [i \in DOMAIN Top.flat |-> RenamedStatement(Top.flat[i], names, Top.alias)]]
  /\ result' = IF Top.alias = NoAlias THEN [is |-> "loaded", at |-> Top.flat] ELSE result
  /\ UNCHANGED <<disk, entry, packages, visited, asked>>

LoadStep == Discover \/ Enter \/ TakeImport \/ TakeStatement \/ LeaveFile

\* load is called.
StartLoad(path, bare) ==
  /\ entry' = [path |-> path, bare |-> bare]
  /\ packages' = [is |-> "", dirs |-> <<>>]
  /\ frames' = <<>> /\ visited' = {} /\ asked' = Nothing
  /\ result' = [is |-> "started", at |-> <<>>]

Idle == /\ entry = [path |-> <<>>, bare |-> FALSE] /\ packages = [is |-> "", dirs |-> <<>>]
        /\ frames = <<>> /\ visited = {} /\ asked = Nothing /\ result = [is |-> "idle", at |-> <<>>]

Finished == result.is = "loaded" \/ result.is \in LoadErrors

-----------------------------------------------------------------------------
(* A load by itself: between two loads the disk may change in any way.     *)

\* What the parser gives of each file is a list of statements, and no import lacks its alias.
IsSequence(s) == Len(s) \in Nat /\ s = [i \in 1..Len(s) |-> s[i]]
IsProgram(program) ==
  /\ IsSequence(program.parts)
  /\ \A i \in 1..Len(program.parts) : IsImport(program.parts[i]) => program.parts[i].text # NoAlias
Readable(d) == IsFiniteSet(DOMAIN d.files) /\ \A f \in DOMAIN d.files : IsProgram(ProgramOf(d.files[f]))

LoaderInit == Idle /\ Readable(disk)
LoaderNext == Readable(disk') /\ (LoadStep \/ StartLoad(entry'.path, entry'.bare) \/ Idle')
LoaderSpec == LoaderInit /\ [][LoaderNext]_<<disk, loadVars>>

-----------------------------------------------------------------------------
(* What should hold *)

Truly(g, files) ==
  IF result.is = "loaded" THEN Faultless(g, Start(disk, entry), files)
  ELSE Holds(disk, entry, g, files, result.is, result.at)
TrulyReached(g) == Truly(g, Reached(g, Start(disk, entry)))

\* A load succeeds exactly on a graph without a cycle, a diamond, a repeated alias, a
\* statement that may not be imported, or a missing or unparsable file; and of the faults
\* of a graph, the one that is reported is there, the chain of a cycle included, wherever
\* the walk met it.  (For an entry given without a directory, see PackageRootFound.)
TrueErrors == Finished /\ ~entry.bare => TrulyReached(Graph(disk, entry))

\* Contradicted by the code, see PROJECT.json "findings": an import is refused for want of
\* a package only if no directory above the entry file has an aint.toml.
PackageRootFound == result.is = "NoPackageRoot" => Root(disk, entry) = NoPath

\* What is left to do of a load, the weightiest first.
LoadToDo ==
  <<CASE result.is = "started" -> 2 [] result.is = "loading" -> 1 [] OTHER -> 0,
    Cardinality(DOMAIN disk.files \ visited),
    Len(frames),
    IF frames = <<>> THEN 0 ELSE Len(Top.rest)>>

Precedes(s, t) == \E i \in DOMAIN s : s[i] < t[i] /\ \A j \in 1..i - 1 : s[j] = t[j]

\* Every load ends: each of its steps leaves less to do, of what can be counted, on every disk.
LoadsEnd ==
  [][LoadStep => /\ LoadToDo \in Nat \X Nat \X Nat \X Nat
                 /\ Precedes(LoadToDo', LoadToDo)]_<<disk, loadVars>>
=============================================================================
