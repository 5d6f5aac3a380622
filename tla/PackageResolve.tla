---------------------------- MODULE PackageResolve ----------------------------
(***************************************************************************)
(* `aint add`: it learns the name of the new dependency, writes it into    *)
(* aint.toml, walks the whole graph of dependencies depth first, and       *)
(* rewrites aint.lock.  Git dependencies are materialized by running git   *)
(* in a cache of working copies that every project on the machine shares.  *)
(*                                                                         *)
(* Each process works in a project of its own.  Every git command is a     *)
(* step, so the commands of two processes interleave; a remote may be      *)
(* pushed to, or be out of reach, at any time; a process may be killed.    *)
(* A package in a working copy depends on git packages, or on directories  *)
(* outside of it.                                                          *)
(***************************************************************************)
EXTENDS Integers, Sequences, FiniteSets

CONSTANTS
  Projects,          \* directories in which `aint add` is run, one process each
  Libraries,         \* other directories with packages
  Urls, CacheDir(_), \* git remotes, and cache_dir_for
  Names,             \* package names, as a sequence in the order of a BTreeMap
  Branches, Tags, DefaultBranch,
  Commits,
  GitManifest(_, _), \* aint.toml of a remote at a commit, or None
  Worlds,            \* aint.toml of each project and library at the start
  Remotes,           \* refs of the remotes at the start
  Additions,         \* dependencies that may be added
  None,              \* Rust's None; no file, no directory, no ref
  Partial,           \* a clone that is under way, or was broken off
  MaxAdds, MaxPushes, MaxKills  \* bounds

NameSet == {Names[i] : i \in DOMAIN Names}
Refs    == Branches \cup Tags
Dirs    == Projects \cup Libraries
Copies  == {CacheDir(u) : u \in Urls}

Dependencies ==
  [kind : {"path"}, dir : Dirs] \cup [kind : {"git"}, url : Urls, rev : Refs \cup {None}]
Manifests ==
  [name : NameSet, deps : UNION {[ns -> Dependencies] : ns \in SUBSET NameSet}]

\* What git clone leaves: the remote it came from, its own refs, those it knows
\* of the remote, and the commit that is checked out.
WorkingCopies ==
  [origin : Urls, local : [Refs -> Commits \cup {None}],
   tracking : [Refs -> Commits \cup {None}], head : Commits]

\* Where a dependency is materialized.
PlaceOf(dep) == IF dep.kind = "path" THEN dep.dir ELSE CacheDir(dep.url)

\* A remote has the branch it is cloned at, and the cache is no package's own directory.
ASSUME PackageAssumptions ==
  /\ Names \in Seq(NameSet)
  /\ Worlds \subseteq [Dirs -> Manifests \cup {None}]
  /\ \A u \in Urls, c \in Commits : GitManifest(u, c) \in Manifests \cup {None}
  /\ Remotes \subseteq [Urls -> [Refs -> Commits \cup {None}]]
  /\ DefaultBranch \in Branches /\ \A w \in Remotes, u \in Urls : w[u][DefaultBranch] # None
  /\ \A u \in Urls : CacheDir(u) \notin Dirs
  /\ None \notin Manifests \cup Commits \cup WorkingCopies /\ Partial \notin WorkingCopies \cup {None}
  /\ Additions \subseteq Dependencies
  /\ MaxAdds \in Nat /\ MaxPushes \in Nat /\ MaxKills \in Nat

VARIABLES
  toml,              \* toml[d]: aint.toml of the package in directory d
  lock,              \* lock[d]: aint.lock of project d
  remote,            \* remote[u][r]: the commit of ref r
  cache,             \* cache[c]: None, Partial or a working copy
  pc,                \* where the process in a project is
  request,           \* the dependency being added
  frames,            \* the recursion of visit, outermost first
  resolved,          \* the graph so far: the place (None for the root) and git source of each package
  commit,            \* what rev_parse_head returned for the dependency at hand
  result,            \* how the last add ended
  \* History and bounds:
  first,             \* first[d][n]: the manifest walked for n, and the dependency that led to it
  disturbed,         \* disturbed[d]: working copies that another process changed meanwhile
  adds, pushes, kills

walk  == <<request, frames, resolved, commit, first>>
local == <<walk, disturbed>>
vars == <<toml, lock, remote, cache, pc, result, local, adds, pushes, kills>>

Errors == {"manifest", "name_mismatch", "conflict", "cycle", "git"}

-----------------------------------------------------------------------------
\* The next dependency: the least name of those left.
FirstName(S) == Names[CHOOSE i \in DOMAIN Names :
                        Names[i] \in S /\ \A j \in DOMAIN Names : Names[j] \in S => i <= j]

Top(p)     == frames[p][Len(frames[p])]
Adding(p)  == frames[p] = <<>>
DepName(p) == FirstName(Top(p).todo)
Dep(p)     == IF Adding(p) THEN request[p] ELSE Top(p).deps[DepName(p)]
Copy(p)    == CacheDir(Dep(p).url)
Whole(c)   == cache[c] # None /\ cache[c] # Partial

ManifestAt(place) ==
  IF place \in Dirs THEN toml[place]
  ELSE IF Whole(place) THEN GitManifest(cache[place].origin, cache[place].head)
  ELSE None

Frame(m) == [name |-> m.name, deps |-> m.deps, todo |-> DOMAIN m.deps]
OnStack(p, n) == \E i \in DOMAIN frames[p] : frames[p][i].name = n

Extend(f, n, v) == [m \in DOMAIN f \cup {n} |-> IF m = n THEN v ELSE f[m]]

Goto(p, l) == pc' = [pc EXCEPT ![p] = l]

\* The process ends, and all it knew is gone.
Exit(p, r) ==
  /\ Goto(p, "idle")
  /\ result' = [result EXCEPT ![p] = r]
  /\ request' = [request EXCEPT ![p] = None]
  /\ frames' = [frames EXCEPT ![p] = <<>>]
  /\ resolved' = [resolved EXCEPT ![p] = <<>>]
  /\ first' = [first EXCEPT ![p] = <<>>]
  /\ commit' = [commit EXCEPT ![p] = None]
  /\ disturbed' = [disturbed EXCEPT ![p] = {}]

\* Every other process's walk may be looking at the same copy.
Disturb(p, c) ==
  disturbed' = [q \in Projects |-> IF q = p THEN disturbed[q] ELSE disturbed[q] \cup {c}]

-----------------------------------------------------------------------------
(* Materializing a git dependency *)

CheckCache(p) ==
  /\ pc[p] = "exists"
  /\ \/ cache[Copy(p)] = None /\ Goto(p, "clone")
     \/ cache[Copy(p)] # None /\ Dep(p).rev # None /\ Goto(p, "fetch")
     \/ cache[Copy(p)] # None /\ Dep(p).rev = None /\ Goto(p, "rev_parse")
  /\ UNCHANGED <<toml, lock, remote, cache, result, local, adds, pushes, kills>>

\* git clone makes the directory, and refuses one that is there.
StartClone(p) ==
  /\ pc[p] = "clone" /\ cache[Copy(p)] = None
  /\ cache' = [cache EXCEPT ![Copy(p)] = Partial]
  /\ Goto(p, "cloning")
  /\ UNCHANGED <<toml, lock, remote, result, local, adds, pushes, kills>>

Cloned(u) ==
  [origin |-> u, tracking |-> remote[u], head |-> remote[u][DefaultBranch],
   local |-> [r \in Refs |-> IF r = DefaultBranch THEN remote[u][r] ELSE None]]

FinishClone(p) ==
  /\ pc[p] = "cloning"
  /\ cache' = [cache EXCEPT ![Copy(p)] = Cloned(Dep(p).url)]
  /\ Goto(p, IF Dep(p).rev = None THEN "rev_parse" ELSE "checkout")
  /\ Disturb(p, Copy(p))
  /\ UNCHANGED <<toml, lock, remote, result, walk, adds, pushes, kills>>

\* Faulty: a clone that fails is tried again.
CloneRetried(p) ==
  /\ \/ pc[p] = "clone" /\ UNCHANGED cache
     \/ pc[p] = "cloning" /\ cache' = [cache EXCEPT ![Copy(p)] = None]
  /\ Goto(p, "exists")
  /\ UNCHANGED <<toml, lock, remote, result, local, adds, pushes, kills>>

\* The remote is out of reach, or the directory is there; git removes what it made.
CloneFails(p) ==
  /\ \/ pc[p] = "clone" /\ UNCHANGED cache
     \/ pc[p] = "cloning" /\ cache' = [cache EXCEPT ![Copy(p)] = None]
  /\ Exit(p, "git")
  /\ UNCHANGED <<toml, lock, remote, adds, pushes, kills>>

\* Best-effort: a fetch that fails, for any reason, is ignored.
Fetch(p) ==
  /\ pc[p] = "fetch"
  /\ \/ UNCHANGED cache
     \/ /\ Whole(Copy(p))
        /\ cache' = [cache EXCEPT ![Copy(p)].tracking = remote[cache[Copy(p)].origin]]
  /\ Goto(p, "checkout")
  /\ UNCHANGED <<toml, lock, remote, result, local, adds, pushes, kills>>

\* git checkout: a ref the copy has of its own stays where it is; one it only
\* knows of the remote is made its own.
RefCommit(c, r) ==
  IF ~Whole(c) THEN None
  ELSE IF cache[c].local[r] # None THEN cache[c].local[r]
  ELSE cache[c].tracking[r]

\* Faulty: a copy that is there is taken as it is.
CheckoutIfCloned(p) ==
  /\ pc[p] = "checkout"
  /\ \/ Whole(Copy(p)) /\ Goto(p, "rev_parse") /\ UNCHANGED <<result, local>>
     \/ ~Whole(Copy(p)) /\ Exit(p, "git")
  /\ UNCHANGED <<toml, lock, remote, cache, adds, pushes, kills>>

\* Another process's checkout holds the lock of the copy.
CopyLocked(p, c) == \E q \in Projects \ {p} : pc[q] = "checkout" /\ Copy(q) = c

Checkout(p) ==
  /\ pc[p] = "checkout"
  /\ LET c == Copy(p)
         r == Dep(p).rev
     IN  \/ /\ RefCommit(c, r) # None
            /\ cache' = [cache EXCEPT ![c].head = RefCommit(c, r), ![c].local[r] = RefCommit(c, r)]
            /\ Goto(p, "rev_parse")
            /\ Disturb(p, c)
            /\ UNCHANGED <<result, walk>>
         \/ /\ RefCommit(c, r) = None \/ CopyLocked(p, c)
            /\ Exit(p, "git")
            /\ UNCHANGED cache
  /\ UNCHANGED <<toml, lock, remote, adds, pushes, kills>>

RevParseHead(p) ==
  /\ pc[p] = "rev_parse"
  /\ \/ /\ Whole(Copy(p))
        /\ commit' = [commit EXCEPT ![p] = cache[Copy(p)].head]
        /\ Goto(p, "manifest")
        /\ UNCHANGED <<result, request, frames, resolved, first, disturbed>>
     \/ ~Whole(Copy(p)) /\ Exit(p, "git")
  /\ UNCHANGED <<toml, lock, remote, cache, adds, pushes, kills>>

-----------------------------------------------------------------------------
(* aint add *)

Add(p, d) ==
  /\ pc[p] = "idle" /\ adds < MaxAdds /\ toml[p] # None
  /\ adds' = adds + 1
  /\ request' = [request EXCEPT ![p] = d]
  /\ result' = [result EXCEPT ![p] = "none"]
  /\ Goto(p, IF d.kind = "git" THEN "exists" ELSE "manifest")
  /\ UNCHANGED <<toml, lock, remote, cache, frames, resolved, commit, first, disturbed,
                 pushes, kills>>

\* The dependency's own manifest, which may be missing with its directory, says
\* what it is called; aint.toml is rewritten.
WriteToml(p) ==
  /\ pc[p] = "manifest" /\ Adding(p)
  /\ LET m == ManifestAt(PlaceOf(request[p])) IN
       \/ m = None /\ Exit(p, "manifest") /\ UNCHANGED toml
       \/ /\ m # None
          /\ toml' = [toml EXCEPT ![p].deps = Extend(@, m.name, request[p])]
          /\ Goto(p, "resolve")
          /\ UNCHANGED <<result, local>>
  /\ UNCHANGED <<lock, remote, cache, adds, pushes, kills>>

Resolve(p) ==
  /\ pc[p] = "resolve"
  /\ frames' = [frames EXCEPT ![p] = <<Frame(toml[p])>>]
  /\ resolved' = [resolved EXCEPT ![p] = Extend(<<>>, toml[p].name, [path |-> None, source |-> None])]
  /\ first' = [first EXCEPT ![p] = Extend(<<>>, toml[p].name, [manifest |-> toml[p], dep |-> None])]
  /\ Goto(p, "visit")
  /\ UNCHANGED <<toml, lock, remote, cache, result, request, commit, disturbed, adds, pushes, kills>>

\* Faulty: the lock file only gains the entry of the new dependency.
WriteLockAppending(p) ==
  /\ pc[p] = "lock"
  /\ LET new  == {n \in DOMAIN resolved[p] : resolved[p][n].path = PlaceOf(request[p])}
         kept == IF lock[p] = None THEN {} ELSE DOMAIN lock[p] \ new
     IN  lock' = [lock EXCEPT ![p] =
                    [n \in new \cup kept |-> IF n \in new THEN resolved[p][n] ELSE @[n]]]
  /\ Exit(p, "added")
  /\ UNCHANGED <<toml, remote, cache, adds, pushes, kills>>

WriteLock(p) ==
  /\ pc[p] = "lock"
  /\ lock' = [lock EXCEPT ![p] = resolved[p]]
  /\ Exit(p, "added")
  /\ UNCHANGED <<toml, remote, cache, adds, pushes, kills>>

-----------------------------------------------------------------------------
(* The walk *)

\* The loop of visit: the next dependency of the innermost package, or back to its dependent.
Visit(p) ==
  /\ pc[p] = "visit"
  /\ \/ /\ Top(p).todo # {}
        /\ commit' = [commit EXCEPT ![p] = None]
        /\ Goto(p, IF Dep(p).kind = "git" THEN "exists" ELSE "manifest")
        /\ UNCHANGED frames
     \/ /\ Top(p).todo = {} /\ Len(frames[p]) > 1
        /\ frames' = [frames EXCEPT ![p] = SubSeq(@, 1, Len(@) - 1)]
        /\ UNCHANGED <<pc, commit>>
     \/ /\ Top(p).todo = {} /\ Len(frames[p]) = 1
        /\ Goto(p, "lock")
        /\ UNCHANGED <<frames, commit>>
  /\ UNCHANGED <<toml, lock, remote, cache, result, request, resolved, first, disturbed,
                 adds, pushes, kills>>

Source(p) == IF Dep(p).kind = "path" THEN None ELSE [git |-> Dep(p).url, commit |-> commit[p]]
Rest(p)   == [frames[p] EXCEPT ![Len(frames[p])].todo = @ \ {DepName(p)}]

\* A diamond: the package is in the graph already, at the same place.
Skip(p) ==
  /\ frames' = [frames EXCEPT ![p] = Rest(p)]
  /\ Goto(p, "visit")
  /\ UNCHANGED <<result, request, resolved, first, commit, disturbed>>

Descend(p, m) ==
  /\ resolved' = [resolved EXCEPT ![p] =
                    Extend(@, m.name, [path |-> PlaceOf(Dep(p)), source |-> Source(p)])]
  /\ first' = [first EXCEPT ![p] = Extend(@, m.name, [manifest |-> m, dep |-> Dep(p)])]
  /\ frames' = [frames EXCEPT ![p] = Append(Rest(p), Frame(m))]
  /\ Goto(p, "visit")
  /\ UNCHANGED <<result, request, commit, disturbed>>

SamePath(p, n) == resolved[p][n].path = PlaceOf(Dep(p))

\* Faulty: a name that is in the graph is not looked at again.
DecideByName(p, m) ==
  \/ m.name # DepName(p) /\ Exit(p, "name_mismatch")
  \/ m.name = DepName(p) /\ OnStack(p, m.name) /\ Exit(p, "cycle")
  \/ m.name = DepName(p) /\ ~OnStack(p, m.name) /\ m.name \in DOMAIN resolved[p] /\ Skip(p)
  \/ m.name = DepName(p) /\ ~OnStack(p, m.name) /\ m.name \notin DOMAIN resolved[p] /\ Descend(p, m)

\* Faulty: only the graph is looked at, not the stack.
DecideByGraph(p, m) ==
  \/ m.name # DepName(p) /\ Exit(p, "name_mismatch")
  \/ /\ m.name = DepName(p) /\ m.name \in DOMAIN resolved[p]
     /\ IF SamePath(p, m.name) THEN Skip(p) ELSE Exit(p, "conflict")
  \/ m.name = DepName(p) /\ m.name \notin DOMAIN resolved[p] /\ Descend(p, m)

Decide(p, m) ==
  \/ m.name # DepName(p) /\ Exit(p, "name_mismatch")
  \/ m.name = DepName(p) /\ OnStack(p, m.name) /\ Exit(p, "cycle")
  \/ /\ m.name = DepName(p) /\ ~OnStack(p, m.name) /\ m.name \in DOMAIN resolved[p]
     /\ IF SamePath(p, m.name) THEN Skip(p) ELSE Exit(p, "conflict")
  \/ m.name = DepName(p) /\ ~OnStack(p, m.name) /\ m.name \notin DOMAIN resolved[p] /\ Descend(p, m)

ReadManifest(p) ==
  /\ pc[p] = "manifest" /\ ~Adding(p)
  /\ LET m == ManifestAt(PlaceOf(Dep(p))) IN
       \/ m = None /\ Exit(p, "manifest")
       \/ m # None /\ Decide(p, m)
  /\ UNCHANGED <<toml, lock, remote, cache, adds, pushes, kills>>

-----------------------------------------------------------------------------
(* The world *)

Push(u, b, c) ==
  /\ pushes < MaxPushes /\ remote[u][b] \notin {c, None}
  /\ remote' = [remote EXCEPT ![u][b] = c]
  /\ pushes' = pushes + 1
  /\ UNCHANGED <<toml, lock, cache, pc, result, local, adds, kills>>

\* A clone stays as far as it got, is removed by git, or is finished by git,
\* which may outlive the process; the file being written may be cut.
Kill(p) ==
  /\ pc[p] # "idle" /\ kills < MaxKills
  /\ kills' = kills + 1
  /\ Exit(p, "killed")
  /\ \/ UNCHANGED <<toml, lock>>
     \/ pc[p] = "manifest" /\ Adding(p) /\ toml' = [toml EXCEPT ![p] = None] /\ UNCHANGED lock
     \/ pc[p] = "lock" /\ lock' = [lock EXCEPT ![p] = None] /\ UNCHANGED toml
  /\ \/ UNCHANGED cache
     \/ /\ pc[p] = "cloning"
        /\ \E c \in {None, Cloned(Dep(p).url)} : cache' = [cache EXCEPT ![Copy(p)] = c]
  /\ UNCHANGED <<remote, adds, pushes>>

-----------------------------------------------------------------------------
Init ==
  /\ toml \in Worlds
  /\ remote \in Remotes
  /\ lock = [p \in Projects |-> None]
  /\ cache = [c \in Copies |-> None]
  /\ pc = [p \in Projects |-> "idle"]
  /\ result = [p \in Projects |-> "none"]
  /\ request = [p \in Projects |-> None]
  /\ frames = [p \in Projects |-> <<>>]
  /\ resolved = [p \in Projects |-> <<>>]
  /\ first = [p \in Projects |-> <<>>]
  /\ commit = [p \in Projects |-> None]
  /\ disturbed = [p \in Projects |-> {}]
  /\ adds = 0 /\ pushes = 0 /\ kills = 0

Materialize(p) ==
  \/ CheckCache(p) \/ StartClone(p) \/ FinishClone(p) \/ CloneFails(p)
  \/ Fetch(p) \/ Checkout(p) \/ RevParseHead(p)

Step(p) ==
  \/ Materialize(p)
  \/ WriteToml(p) \/ Resolve(p) \/ Visit(p) \/ ReadManifest(p) \/ WriteLock(p)

Next ==
  \/ \E p \in Projects : Step(p) \/ Kill(p) \/ \E d \in Additions : Add(p, d)
  \/ \E u \in Urls, b \in Branches, c \in Commits : Push(u, b, c)

Spec == Init /\ [][Next]_vars

\* No command of git takes for ever, and a running process is scheduled.
FairSpec == Spec /\ \A p \in Projects : WF_vars(Step(p))
-----------------------------------------------------------------------------
(* Properties *)

Deps(p, n) == first[p][n].manifest.deps

(* The graph that is locked is closed: each package of it has every         *)
(* dependency that its manifest declared, at the place it declared it,      *)
(* under the name it declared.                                              *)
GraphClosed ==
  \A p \in Projects : pc[p] = "lock" =>
    \A n \in DOMAIN resolved[p] :
      /\ first[p][n].manifest.name = n
      /\ \A d \in DOMAIN Deps(p, n) :
           d \in DOMAIN resolved[p] /\ resolved[p][d].path = PlaceOf(Deps(p, n)[d])

(* The graph that is locked has no cycle, and nothing that the project does *)
(* not need: some package of any part of it depends on nothing within the   *)
(* part, and on any part without the project's own somebody depends.        *)
GraphRooted ==
  \A p \in Projects : pc[p] = "lock" =>
    \A S \in (SUBSET DOMAIN resolved[p]) \ {{}} :
      /\ \E n \in S : DOMAIN Deps(p, n) \cap S = {}
      /\ first[p][toml[p].name].manifest = toml[p]
      /\ toml[p].name \in S \/ \E n \in DOMAIN resolved[p] \ S : DOMAIN Deps(p, n) \cap S # {}

(* Unless another process changed the working copy meanwhile, the commit of *)
(* a git package is the one its dependent asked for, and the dependencies   *)
(* walked are those of that commit.                                         *)
PinsHonoured ==
  \A p \in Projects : \A n \in DOMAIN resolved[p] :
    LET place == resolved[p][n].path
        source == resolved[p][n].source
    IN  source # None /\ place \notin disturbed[p] =>
          /\ first[p][n].manifest = GitManifest(cache[place].origin, source.commit)
          /\ first[p][n].dep.rev # None =>
               source.commit = cache[place].local[first[p][n].dep.rev]

(* After an `aint add` that reports success each dependency of aint.toml    *)
(* can be imported: aint.lock has it, at the place aint.toml says.          *)
AddedIsImportable ==
  \A p \in Projects : pc[p] = "idle" /\ result[p] = "added" =>
    \A n \in DOMAIN toml[p].deps :
      n \in DOMAIN lock[p] /\ lock[p][n].path = PlaceOf(toml[p].deps[n])

(* Every `aint add` ends, whatever depends on whatever and whatever the     *)
(* others change meanwhile.                                                 *)
AddEnds == \A p \in Projects : pc[p] # "idle" ~> pc[p] = "idle"

(* Contradicted by the code: the working copy is shared, and another pin of *)
(* the same remote, in this graph or in another project, moves it.          *)
(* What aint.lock says of a git package is what is on disk.                 *)
LockDescribesWorkingCopy ==
  (\A p \in Projects : pc[p] = "idle") =>
    \A p \in Projects : lock[p] # None =>
      \A n \in DOMAIN lock[p] :
        LET entry == lock[p][n]
        IN  entry.source # None => cache[entry.path].head = entry.source.commit
=============================================================================
