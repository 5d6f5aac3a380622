------------------------------ MODULE MCMigrate ------------------------------
(* A library, a file that tests libraries, and another library that imports *)
(* the first.  The tests may speak of either or both; their file may fail   *)
(* to parse or to type-check at the start, or hold a statement that does    *)
(* not survive being printed.                                               *)
EXTENDS Migrate

CONSTANTS base, checks, lib

MCFiles == <<base, checks, lib>>
MCFileSet == {base, checks, lib}

\* exports: the signature offered to importers; expects: the one used of imports.
TextsOf(imports) ==
  [parses : {TRUE}, modern : BOOLEAN, prints : {TRUE},
   exports : IF lib \in imports THEN {1} ELSE {1, 2}, expects : IF imports = {} THEN {1} ELSE {1, 2},
   does : {1, 2}, imports : {imports}, tests : BOOLEAN]

MCCut == [parses |-> FALSE, modern |-> TRUE, prints |-> TRUE, exports |-> 1, expects |-> 1,
          does |-> 1, imports |-> {}, tests |-> FALSE]
Unprintable == [parses |-> TRUE, modern |-> FALSE, prints |-> FALSE, exports |-> 1,
                expects |-> 1, does |-> 1, imports |-> {lib}, tests |-> TRUE]

MCTexts == UNION {TextsOf(i) : i \in {{}, {base}, {lib}, {base, lib}}} \cup {MCCut, Unprintable}

MCParses(t)    == t.parses
MCRewritten(t) == IF t.prints THEN [t EXCEPT !.modern = TRUE] ELSE MCCut
MCHasTests(t)  == t.tests
MCImports(t)   == t.imports

\* What load(f) reads: f, its imports and theirs.
Loaded(d, f) == LET one == {f} \cup d[f].imports IN one \cup UNION {d[g].imports : g \in one}

\* The first file, in the order of the batch, that one of the checks stops at.
FirstOf(S) == CHOOSE f \in S : \A i, j \in 1..3 : MCFiles[i] = f /\ MCFiles[j] \in S => i <= j

\* A test block may only be in the file that is run; what tests see is what the code does.
MCOutcome(d, f) ==
  LET loaded   == Loaded(d, f)
      unparsed == {g \in loaded : ~d[g].parses \/ (g # f /\ d[g].tests)}
      illTyped == {g \in loaded : \E h \in d[g].imports : d[g].expects # d[h].exports}
  IN  IF unparsed # {} THEN [ok |-> FALSE, results |-> <<"load", FirstOf(unparsed)>>]
      ELSE IF illTyped # {} THEN [ok |-> FALSE, results |-> <<"type", FirstOf(illTyped)>>]
      ELSE [ok |-> TRUE, results |-> <<"ran", IF d[f].tests THEN {d[g].does : g \in loaded} ELSE {}>>]

Starting(i) == {t \in TextsOf(i) : t.exports = 1 /\ t.does = 1}
MCInitial ==
  {d \in [MCFileSet -> MCTexts] :
     /\ d[base] \in {t \in Starting({}) : ~t.tests}
     /\ d[lib] \in {t \in Starting({base}) : ~t.tests /\ t.expects = 1}
     /\ d[checks] \in {t \in Starting({base}) \cup Starting({lib}) \cup Starting({base, lib}) : t.tests}
                      \cup {MCCut, Unprintable}}

(* A proposal may change anything, add or drop tests and imports, or be no  *)
(* program at all.  Imports that would make a cycle, which no loader        *)
(* accepts, are left out: only the file of tests gains an import of lib.    *)
MCProposals(t) ==
  {MCCut} \cup {u \in MCTexts : /\ u.parses /\ u.modern
                                /\ lib \in u.imports => t.tests
                                /\ base \in u.imports => t.imports # {}}
=============================================================================
