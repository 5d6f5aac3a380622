--------------------------- MODULE MCPackageResolve ---------------------------
(* Two projects.  One has a library beside it and a second directory with a *)
(* package of the same name; the libraries may depend on each other, on a   *)
(* project and on a remote.  The remote has a branch and a tag; what its    *)
(* package depends on changed between the two.                              *)
EXTENDS PackageResolve

CONSTANTS app, tool, liba, libb, libb2, url, main, v1, c1, c2

MCNames == <<"app", "a", "b", "lib", "tool">>
Path(d)   == [kind |-> "path", dir |-> d]
Git(u, r) == [kind |-> "git", url |-> u, rev |-> r]

MCCacheDir(u) == <<"cache", u>>
Depends(n, ds) == [name |-> n, deps |-> ds]
Nothing == <<>>
On(n, d) == [x \in {n} |-> d]

\* At its first commit the remote's package needs nothing, later libb.
MCGitManifest(u, c) == Depends("lib", IF c = c1 THEN Nothing ELSE On("b", Path(libb)))

\* A chain; a conflict; a cycle; two pins of the remote; a dependency under a wrong name.
World(ofApp, ofA, ofB) ==
  [d \in {app, tool, liba, libb, libb2} |->
     CASE d = app  -> Depends("app", ofApp)
       [] d = tool -> Depends("tool", Nothing)
       [] d = liba -> Depends("a", ofA)
       [] d = libb -> Depends("b", ofB)
       [] d = libb2 -> Depends("b", Nothing)]
MCWorlds ==
  {World(Nothing, On("b", Path(libb)), Nothing),
   World(On("b", Path(libb2)), On("b", Path(libb)), Nothing),
   World(Nothing, On("b", Path(libb)), On("a", Path(liba))),
   World(On("lib", Git(url, v1)), On("lib", Git(url, main)), Nothing),
   World(Nothing, On("lib", Git(url, main)), On("a", Path(libb2)))}

MCRemotes == {[u \in {url} |-> [r \in {main, v1} |-> c1]]}
MCAdditions == {Path(liba), Path(tool), Git(url, v1), Git(url, main), Git(url, None)}
=============================================================================
