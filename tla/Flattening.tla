------------------------------ MODULE Flattening ------------------------------
(***************************************************************************)
(* The renaming of aint-loader, and what names mean in a graph of files    *)
(* and in the flat program.                                                *)
(***************************************************************************)
EXTENDS Loader, Parser, Trees

-----------------------------------------------------------------------------
(* Renaming *)

BuiltinTypes == {"Int", "Float", "Bool", "String", "Unit", "Node", "List", "Option", "Distribution"}

\* A node that has a name in `text` which is renamed.
Named(n) == \/ n.kind \in {"Identifier", "Fn", "AsyncFn", "Infer", "Tool", "Enum", "Mock"}
            \/ n.kind = "Type" /\ n.text \notin BuiltinTypes

RECURSIVE Renamed(_, _, _)
\* Every name of a tree, whatever scope it stands in; not parameters, lets, props, roles and variants.
Renamed(n, names, alias) ==
  LET New(x) == IF x \in names THEN alias \o "_" \o x ELSE x
      parts  == [i \in DOMAIN n.parts |-> Renamed(n.parts[i], names, alias)]
  IN CASE n.kind = "Permissions" ->
            [n EXCEPT !.parts = [i \in DOMAIN n.parts |-> Leaf("Name", New(n.parts[i].text))]]
       [] Named(n) -> [n EXCEPT !.text = New(n.text), !.parts = parts]
       [] OTHER -> [n EXCEPT !.parts = parts]

-----------------------------------------------------------------------------
(* What names mean *)

\* The names that may be used in f, with what they name: a file and a name in it.
RECURSIVE Scope(_, _)
Scope(g, f) ==
  UNION {{[name |-> x, of |-> <<f, x>>] : x \in Declares(s)} : s \in ToSet(g[f].program.parts)}
    \cup UNION {{[name |-> g[f].program.parts[i].text \o "_" \o o.name, of |-> o.of] : o \in Scope(g, g[f].to[i])} :
                  i \in DOMAIN g[f].to}
Means(scope, x) == {o.of : o \in {p \in scope : p.name = x}}

\* The statements of f and of the files it imports, in their place.
RECURSIVE Spliced(_, _)
Spliced(g, f) ==
  FlattenSeq([i \in DOMAIN g[f].program.parts |->
    IF i \in DOMAIN g[f].to THEN Spliced(g, g[f].to[i]) ELSE <<[file |-> f, stmt |-> g[f].program.parts[i]]>>])

RECURSIVE Mentioned(_), Blank(_)
\* The names in a tree that declare something or refer to it, in their order.
Mentioned(n) ==
  (IF Named(n) THEN <<n.text>> ELSE <<>>)
    \o FlattenSeq([i \in DOMAIN n.parts |-> IF n.kind = "Permissions" THEN <<n.parts[i].text>> ELSE Mentioned(n.parts[i])])
\* The tree without them.
Blank(n) ==
  [n EXCEPT !.text = IF Named(n) THEN "" ELSE @,
            !.parts = [i \in DOMAIN @ |-> IF n.kind = "Permissions" THEN Absent ELSE Blank(@[i])]]

\* The names a statement and its renamed form declare, in pairs.
Pairing(s, t) ==
  {<<s.text, t.text>>}
    \cup IF s.kind = "Enum" THEN {<<s.text \o "_" \o v.text, t.text \o "_" \o v.text>> : v \in ToSet(s.parts[1].parts)}
         ELSE {}

\* What the names of a flat program mean, if its statements come from those of `source`.
FlatScope(flat, source) ==
  UNION {IF Declares(source[i].stmt) = {} THEN {}
         ELSE {[name |-> p[2], of |-> <<source[i].file, p[1]>>] : p \in Pairing(source[i].stmt, flat[i])} :
           i \in DOMAIN source}

\* No file has two names alike, and names that are not declared at the top level, those of
\* parameters, locals and the library, are names of no file.  On other graphs the renaming
\* captures names, see the README.
Apart(g, scopes) ==
  \A f \in DOMAIN scopes :
    /\ \A o, p \in scopes[f] : o.name = p.name => o = p
    /\ \A n \in NodesOf(g[f].program) :
         (Named(n) /\ Means(scopes[f], n.text) = {}) \/ n.kind \in {"Let", "Param"} =>
           \A h \in DOMAIN scopes : Means(scopes[h], n.text) = {}

\* A name means in the flat program what it meant in its file.
SameNames(names, scope, was, now) ==
  /\ Len(was) = Len(now)
  /\ \A i \in DOMAIN was : /\ Means(names, now[i]) = Means(scope, was[i])
                           /\ Means(scope, was[i]) = {} => now[i] = was[i]

Flattens(scopes, source, flat) ==
  /\ Len(flat) = Len(source)
  /\ \A i \in DOMAIN flat :
       /\ Blank(flat[i]) = Blank(source[i].stmt)
       /\ SameNames(FlatScope(flat, source), scopes[source[i].file], Mentioned(source[i].stmt), Mentioned(flat[i]))

Keeps(g, scopes) == Apart(g, scopes) => Flattens(scopes, Spliced(g, Start(disk, entry)), result.at)
Scoped(g) == Keeps(g, [f \in Reached(g, Start(disk, entry)) |-> Scope(g, f)])

\* The flat program is the statements of the files in the order of their imports, and
\* every name in it means what it meant in its file: the declaration of that file, or
\* of one that it imports under its alias, however deep; other names are as they were.
FlatProgram == result.is = "loaded" => Scoped(Graph(disk, entry))
=============================================================================
