------------------------------- MODULE FrontEnd -------------------------------
(***************************************************************************)
(* The commands that read and write the files of a project, one after the  *)
(* other: `aint check`, `run` and `test` load a program, `aint fmt` and    *)
(* the deterministic half of `aint migrate` rewrite a file.  A session is  *)
(* a disk and a script of commands.                                        *)
(***************************************************************************)
EXTENDS Flattening, Rewrite, TestRunner

CONSTANT
  Sessions   \* [disk, script]; a command is [do, path, bare, check]

\* ProgramOf is Parse and RenamedStatement is Renamed.
ASSUME ReadableSessions == \A s \in Sessions : Readable(s.disk)

VARIABLES
  script,    \* the commands to come
  doing,     \* the command that loads a program now, or NoCommand
  original,  \* the text that `migrate` would put back
  log        \* history variable: the commands that ended, with what they said

vars == <<disk, loadVars, script, doing, original, log>>

Command(do, path, bare, check) == [do |-> do, path |-> path, bare |-> bare, check |-> check]
NoCommand == Command("", <<>>, FALSE, FALSE)

-----------------------------------------------------------------------------
Cmd == Head(script)
Ready(dos) == doing = NoCommand /\ script # <<>> /\ Cmd.do \in dos

File   == Canonical(disk, Cmd.path)
Source == disk.files[File]
Put(f, text) == disk' = [disk EXCEPT !.files = (f :> text) @@ @]

Said(error, output, tests) == [error |-> error, output |-> output, tests |-> tests]
Silent == Said("none", <<>>, <<>>)

Entry(c, exit, said, before, after) ==
  [do |-> c.do, path |-> c.path, check |-> c.check, exit |-> exit, said |-> said, before |-> before, after |-> after]
\* The next command has ended at once.
Exit(exit, after) ==
  /\ log' = Append(log, Entry(Cmd, exit, Silent, IF File \in DOMAIN disk.files THEN Source ELSE <<>>, after))
  /\ script' = Tail(script)
  /\ IF File \in DOMAIN disk.files /\ after # Source THEN Put(File, after) ELSE UNCHANGED disk
  /\ UNCHANGED <<loadVars, doing, original>>

Unreadable == File \notin DOMAIN disk.files

-----------------------------------------------------------------------------
(* aint fmt *)

Fmt ==
  /\ Ready({"fmt"})
  /\ \/ Unreadable /\ Exit("failed", <<>>)
     \/ /\ ~Unreadable
        /\ LET formatted == Format(Source) IN
           \/ formatted.error # "none" /\ Exit("failed", Source)
           \/ formatted.error = "none" /\ formatted.text = Source /\ Exit("ok", Source)
           \/ formatted.error = "none" /\ formatted.text # Source /\ Cmd.check /\ Exit("failed", Source)
           \/ formatted.error = "none" /\ formatted.text # Source /\ ~Cmd.check /\ Exit("ok", formatted.text)

-----------------------------------------------------------------------------
(* aint check, run and test *)

\* parse_and_check begins.
Load(c) == StartLoad(c.path, c.bare) /\ doing' = c /\ script' = Tail(script)

LoadProgram ==
  /\ Ready({"check", "run", "test"})
  /\ Load(Cmd)
  /\ UNCHANGED <<disk, original, log>>

Walk == /\ doing # NoCommand
        /\ LoadStep
        /\ UNCHANGED <<script, doing, original, log>>

LoadedProgram == Program(result.at)

Tested(outcomes) ==
  Said(IF \A i \in DOMAIN outcomes : outcomes[i].outcome.error = "none" THEN "none" ELSE "test", <<>>, outcomes)
Ran(outcome) == Said(outcome.error, outcome.output, <<>>)

\* What the command says of the program it has loaded.
Says(do) ==
  IF result.is # "loaded" THEN Said(result.is, <<>>, <<>>)
  ELSE IF ~WellTyped(LoadedProgram) THEN Said("type", <<>>, <<>>)
  ELSE CASE do = "check" -> Silent
         [] do = "run"   -> Ran(Interpreted(LoadedProgram))
         [] do = "test"  -> Tested(RunTests(LoadedProgram))

Quit == /\ doing' = NoCommand /\ original' = <<>>
        /\ entry' = [path |-> <<>>, bare |-> FALSE] /\ packages' = [is |-> "", dirs |-> <<>>]
        /\ frames' = <<>> /\ visited' = {} /\ asked' = Nothing /\ result' = [is |-> "idle", at |-> <<>>]

Conclude ==
  /\ doing.do \in {"check", "run", "test"} /\ Finished
  /\ LET said == Says(doing.do)
     IN log' = Append(log, Entry(doing, IF said.error = "none" THEN "ok" ELSE "failed", said, <<>>, <<>>))
  /\ Quit
  /\ UNCHANGED <<disk, script>>

-----------------------------------------------------------------------------
(* aint migrate, of one file and without a model *)

\* A path that does not exist is refused before any file is looked at.
MigrateFile ==
  /\ Ready({"migrate"})
  /\ \/ Unreadable /\ Exit("failed", <<>>)
     \/ ~Unreadable /\ Parse(Source) = Absent /\ Exit("ok", Source)
     \/ /\ ~Unreadable /\ Parse(Source) # Absent
        /\ LET migrated == Migrated(Parse(Source))
               text == FormatProgram(migrated)
           IN \/ migrated = Parse(Source) /\ Exit("ok", Source)
              \/ migrated # Parse(Source) /\ Parse(text) = Absent /\ Exit("failed", Source)
              \/ migrated # Parse(Source) /\ Parse(text) # Absent /\ Cmd.check /\ Exit("failed", Source)
              \/ /\ migrated # Parse(Source) /\ Parse(text) # Absent /\ ~Cmd.check
                 /\ Put(File, text) /\ original' = Source /\ Load(Cmd) /\ UNCHANGED log

\* verify_type_checks has loaded the file as it is now.
Verified ==
  /\ doing.do = "migrate" /\ Finished
  /\ LET f  == Canonical(disk, doing.path)
         ok == result.is = "loaded" /\ WellTyped(LoadedProgram)
     IN /\ IF ok THEN UNCHANGED disk ELSE Put(f, original)
        /\ log' = Append(log, Entry(doing, IF ok THEN "ok" ELSE "failed", Silent, original,
                                    IF ok THEN disk.files[f] ELSE original))
  /\ Quit
  /\ UNCHANGED script

-----------------------------------------------------------------------------
Init ==
  /\ \E s \in Sessions : disk = s.disk /\ script = s.script
  /\ Idle
  /\ doing = NoCommand /\ original = <<>> /\ log = <<>>

Done == script = <<>> /\ doing = NoCommand /\ UNCHANGED vars

Next == Fmt \/ LoadProgram \/ Walk \/ Conclude \/ MigrateFile \/ Verified \/ Done

Spec == Init /\ [][Next]_vars

-----------------------------------------------------------------------------
\* What is left to do, the weightiest first.
ToDo == <<Len(script), IF doing = NoCommand THEN 0 ELSE 1>> \o LoadToDo

(* Every command ends: whatever the files hold and however they import     *)
(* each other, each step of each command leaves less to do (no walk goes   *)
(* round a cycle, or visits a file twice).  A run without a deadlock shows *)
(* that no command stops half-way.                                         *)
CommandsEnd == [][Precedes(ToDo', ToDo)]_vars

\* Two slashes begin a comment if the lexer is not within a string when it comes to them.
HasComment(text) ==
  \E i \in 1..Len(text) - 1 :
    text[i] = "/" /\ text[i + 1] = "/" /\ Tokenize(SubSeq(text, 1, i - 1)) # NoTokens

RECURSIVE Leftmost(_)
\* The expression whose first token is that of e.
Leftmost(e) == IF e.kind \in {"Binary", "Call", "Index"} THEN Leftmost(e.parts[1]) ELSE e

Begins(e) == Leftmost(e).kind
\* Written behind an expression, it continues it.
Continues(e) == \/ Leftmost(e).kind = "List"
                \/ Leftmost(e).kind = "Unary" /\ Leftmost(e).text = "-"
                \/ FormatProgram(Program(<<ExprStmt(e)>>))[1] = "("

EndsInExpression(s) == s.kind \in {"Let", "Expr", "Return", "Assert", "Mock"}

\* The printer leaves out brackets that some trees need, see the README: an expression
\* statement that begins with `if` or `fn`, a node literal in a condition, and what stands
\* behind an expression and would continue it.
Printable(program) ==
  \A n \in NodesOf(program) :
    /\ n.kind = "Expr" => Begins(n.parts[1]) \notin {"IfExpr", "Lambda"}
    /\ n.kind \in {"If", "IfExpr"} => \A m \in NodesOf(n.parts[1]) : m.kind # "NodeLiteral"
    /\ n.kind \in {"Program", "Block"} => \A i \in 2..Len(n.parts) :
         n.parts[i].kind = "Expr" /\ EndsInExpression(n.parts[i - 1]) => ~Continues(n.parts[i].parts[1])
    /\ n.kind = "NodeLiteral" /\ n.parts[2].parts # <<>> /\ n.parts[1].parts # <<>> => ~Continues(n.parts[2].parts[1])
    /\ n.kind = "Path" => \A i \in DOMAIN n.parts : Escaped(n.parts[i].text) = <<n.parts[i].text>>

\* `aint fmt` refuses a text exactly if it has a comment, which it would lose, or does not
\* parse; --check writes nothing; and what it writes is the same program, and formatted.
FormatKeeps ==
  log # <<>> /\ Last(log).do = "fmt" /\ Last(log).before # <<>> =>
    LET was == Last(log).before
        now == Last(log).after
        refused == Parse(was) = Absent \/ HasComment(was)
    IN /\ refused \/ Last(log).check => now = was
       /\ refused => Last(log).exit = "failed"
       /\ ~refused /\ ~Last(log).check => Last(log).exit = "ok"
       /\ ~refused /\ Printable(Parse(was)) =>
            /\ Parse(now) = Parse(was)
            /\ ~Last(log).check => Format(now).text = now

Rewrites == {i \in DOMAIN log : log[i].do \in {"fmt", "migrate"} /\ log[i].before # <<>>}
AllPrintable ==
  \A i \in Rewrites : LET program == Parse(log[i].before) IN Printable(program) /\ Printable(Migrated(program))

\* No sequence of `fmt` and `migrate`, of any of the files, changes what a command says of
\* a program that uses them: whether it loads and type-checks, what it prints, how it
\* fails, and what each of its tests says (a type error may go: `1 == true` becomes `1`).
\* And the rewrite of `migrate` fails only on a file that could not be loaded, or did not
\* type-check, before (migrate_cmd.rs: "never expected").
MeaningKept ==
  log # <<>> =>
    LET now == Last(log) IN
    \A i \in DOMAIN log :
      log[i].path = now.path =>
        /\ log[i].do = now.do /\ now.do \in {"check", "run", "test"} =>
             log[i].said = now.said \/ log[i].said.error = "type" \/ ~AllPrintable
        /\ log[i].do = "check" /\ log[i].exit = "ok" /\ now.do = "migrate" /\ now.exit = "failed" =>
             now.check \/ ~AllPrintable
=============================================================================
