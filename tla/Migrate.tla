-------------------------------- MODULE Migrate --------------------------------
(***************************************************************************)
(* `aint migrate`: one pass over the source files of a project.  Each file *)
(* is first rewritten deterministically, and checked; with --ai the model  *)
(* then proposes a new text, which is written, judged by the tests of the  *)
(* whole batch, and kept or taken back.                                    *)
(*                                                                         *)
(* What a text is, and what the loader, the type checker and a test run    *)
(* say of a file, is left to the parameters: Outcome(d, f) is any function *)
(* of the texts on disk.  A write may fail, and the process may be killed, *)
(* before or in the middle of any write.                                   *)
(***************************************************************************)
EXTENDS Integers, Sequences, FiniteSets

CONSTANTS
  Files,             \* the .an files of the batch, in the order of the walk
  Texts,             \* what a file may contain
  Cut,               \* the text left by a write that stopped half-way
  Parses(_),         \* the text can be read and parses
  Rewritten(_),      \* migrate_deterministic, printed; the text itself if it found nothing
  HasTests(_),       \* the text has a test block
  Imports(_),        \* the files a text imports
  Outcome(_, _),     \* Outcome(d, f).ok: f loads and type-checks; .results: of its tests, or why not
  Initial,           \* the projects considered: texts on disk before the run
  Proposals(_),      \* texts the model may answer with, asked about a text
  MaxFaults          \* bound: failed writes and kills

FileSet == {Files[i] : i \in DOMAIN Files}
Disks   == [FileSet -> Texts]
Put(d, f, t) == [d EXCEPT ![f] = t]

ASSUME MigrateAssumptions ==
  /\ Files \in Seq(FileSet)
  /\ \A i, j \in DOMAIN Files : Files[i] = Files[j] => i = j
  /\ Cut \in Texts
  /\ Initial \subseteq Disks
  /\ \A t \in Texts : /\ Parses(t) \in BOOLEAN /\ HasTests(t) \in BOOLEAN
                      /\ Rewritten(t) \in Texts
                      /\ Parses(t) => Proposals(t) \subseteq Texts
  /\ MaxFaults \in Nat

(* The claim of crates/migrate: a rewrite that still type-checks changes    *)
(* neither its file's tests nor any importer's.                             *)
ASSUME RewritePreserves ==
  \A d \in Disks : \A f, g \in FileSet :
    LET e == Put(d, f, Rewritten(d[f]))
    IN  Parses(d[f]) /\ Outcome(e, f).ok => Outcome(e, g) = Outcome(d, g)

\* A text that says u after it said t has the imports and the tests of t.
KeepsShape(t, u) ==
  Parses(t) /\ Parses(u) => Imports(u) = Imports(t) /\ (HasTests(u) <=> HasTests(t))

(* What a rewrite replaces lies inside of bodies and expressions.           *)
ASSUME RewriteKeepsShape == \A t \in Texts : KeepsShape(t, Rewritten(t))

VARIABLES
  ai, check_only,    \* the command's options
  process,           \* "running", "exited" or "killed"
  disk,
  batch_baselines,   \* outcomes before any write, with --ai
  pos,               \* the file being migrated is Files[pos]
  step,              \* where migrate_file is
  current_text,
  proposal,
  outcome,           \* outcome[f]: the FileOutcome reported, or "pending"
  verdict,           \* verdict[f]: what became of f's proposal
  \* History variables, read by properties only:
  original,          \* disk before the run
  asked,             \* files sent to the model
  faults

optVars == <<ai, check_only, batch_baselines, original>>
vars == <<optVars, process, disk, pos, step, current_text, proposal,
          outcome, verdict, asked, faults>>

Steps == {"baselines", "scan", "write", "verify", "revert", "cover", "ask",
          "propose", "judge", "restore"}

-----------------------------------------------------------------------------
File == Files[pos]
At(s) == process = "running" /\ pos \in DOMAIN Files /\ step = s

UseAi == ai /\ ~check_only

\* migrate_file returns, and the next file is scanned.
Report(o, v) ==
  /\ outcome' = [outcome EXCEPT ![File] = o]
  /\ verdict' = [verdict EXCEPT ![File] = v]
  /\ pos' = pos + 1
  /\ step' = "scan"

Goto(s) == step' = s /\ UNCHANGED <<outcome, verdict, pos>>

\* The outcome of a file whose deterministic rewrite is settled.
Settled == IF current_text = original[File] THEN "unchanged" ELSE "changed"

\* Before any write, so what every file says is what it said originally.
EstablishBaselines ==
  /\ At("baselines")
  /\ batch_baselines' = IF UseAi THEN [f \in FileSet |-> Outcome(disk, f)] ELSE <<>>
  /\ Goto("scan")
  /\ UNCHANGED <<ai, check_only, original, process, disk, current_text, proposal, asked, faults>>

-----------------------------------------------------------------------------
(* The deterministic tier *)

\* Faulty: --check is only looked at when the rewrite has been written.
ScanUnchecked ==
  /\ At("scan")
  /\ current_text' = disk[File]
  /\ CASE ~Parses(disk[File])               -> Report("unchanged", "none")
       [] Parses(disk[File]) /\ Rewritten(disk[File]) = disk[File] -> Goto("cover")
       [] OTHER                             -> Goto("write")
  /\ UNCHANGED <<optVars, process, disk, proposal, asked, faults>>

\* The text parses: is there anything to rewrite?
ScanParsed(text, next) ==
  \/ next = text /\ Goto("cover")
  \/ next # text /\ ~Parses(next) /\ Report("bug", "none")
  \/ next # text /\ Parses(next) /\ check_only /\ Report("changed", "none")
  \/ next # text /\ Parses(next) /\ ~check_only /\ Goto("write")

\* Faulty: an unparsable file is passed over without a report.
ScanSilently ==
  /\ At("scan")
  /\ current_text' = disk[File]
  /\ \/ ~Parses(disk[File]) /\ pos' = pos + 1 /\ UNCHANGED <<step, outcome, verdict>>
     \/ Parses(disk[File]) /\ ScanParsed(disk[File], Rewritten(disk[File]))
  /\ UNCHANGED <<optVars, process, disk, proposal, asked, faults>>

Scan ==
  /\ At("scan")
  /\ current_text' = disk[File]
  /\ \/ ~Parses(disk[File]) /\ Report("unchanged", "none")
     \/ Parses(disk[File]) /\ ScanParsed(disk[File], Rewritten(disk[File]))
  /\ UNCHANGED <<optVars, process, disk, proposal, asked, faults>>

WriteRewrite ==
  /\ At("write")
  /\ disk' = Put(disk, File, Rewritten(current_text))
  /\ Goto("verify")
  /\ UNCHANGED <<optVars, process, current_text, proposal, asked, faults>>

VerifyTypeChecks ==
  /\ At("verify")
  /\ IF Outcome(disk, File).ok
     THEN current_text' = disk[File] /\ Goto("cover")
     ELSE UNCHANGED current_text /\ Goto("revert")
  /\ UNCHANGED <<optVars, process, disk, proposal, asked, faults>>

RevertRewrite ==
  /\ At("revert")
  /\ disk' = Put(disk, File, current_text)
  /\ Report("bug", "none")
  /\ UNCHANGED <<optVars, process, current_text, proposal, asked, faults>>

-----------------------------------------------------------------------------
(* The AI-assisted tier *)

\* imports_file: the importer's text is read and parsed anew.
ImportsFile(other, f) == Parses(disk[other]) /\ f \in Imports(disk[other])
HasTestBlock(text)    == Parses(text) /\ HasTests(text)

\* Faulty: any file of the batch with tests counts as a companion.
CoverageOfBatch == \E other \in FileSet : HasTestBlock(disk[other])

HasVerifiableCoverage ==
  \/ HasTestBlock(current_text)
  \/ \E other \in FileSet \ {File} :
       ImportsFile(other, File) /\ HasTestBlock(disk[other])

Cover ==
  /\ At("cover")
  /\ \/ ~UseAi /\ Report(Settled, "none")
     \/ UseAi /\ ~HasVerifiableCoverage /\ Report(Settled, "skipped")
     \/ /\ UseAi /\ HasVerifiableCoverage
        /\ IF batch_baselines[File].ok THEN Goto("ask") ELSE Report(Settled, "rejected")
  /\ UNCHANGED <<optVars, process, disk, current_text, proposal, asked, faults>>

ModelFails ==
  /\ At("ask")
  /\ asked' = asked \cup {File}
  /\ Report(Settled, "rejected")
  /\ UNCHANGED <<optVars, process, disk, current_text, proposal, faults>>

ModelProposes ==
  /\ At("ask")
  /\ asked' = asked \cup {File}
  /\ proposal' \in Proposals(current_text)
  /\ IF Parses(proposal') THEN Goto("propose") ELSE Report(Settled, "rejected")
  /\ UNCHANGED <<optVars, process, disk, current_text, faults>>

WriteProposal ==
  /\ At("propose")
  /\ disk' = Put(disk, File, proposal)
  /\ Goto("judge")
  /\ UNCHANGED <<optVars, process, current_text, proposal, asked, faults>>

\* verify_type_checks, then the file's own tests.
OwnTestsAgree == Outcome(disk, File).ok /\ Outcome(disk, File) = batch_baselines[File]

VerifyBatchUnaffected ==
  \A other \in FileSet \ {File} : Outcome(disk, other) = batch_baselines[other]

\* Faulty: only the tests of the file itself are run again.
JudgeAlone ==
  /\ At("judge")
  /\ IF OwnTestsAgree THEN Report("changed", "accepted") ELSE Goto("restore")
  /\ UNCHANGED <<optVars, process, disk, current_text, proposal, asked, faults>>

Judge ==
  /\ At("judge")
  /\ IF OwnTestsAgree /\ VerifyBatchUnaffected
     THEN Report("changed", "accepted")
     ELSE Goto("restore")
  /\ UNCHANGED <<optVars, process, disk, current_text, proposal, asked, faults>>

\* Faulty: a rejected file goes back to the text before the rewrite.
RestoreOriginal ==
  /\ At("restore")
  /\ disk' = Put(disk, File, original[File])
  /\ Report(Settled, "rejected")
  /\ UNCHANGED <<optVars, process, current_text, proposal, asked, faults>>

Restore ==
  /\ At("restore")
  /\ disk' = Put(disk, File, current_text)
  /\ Report(Settled, "rejected")
  /\ UNCHANGED <<optVars, process, current_text, proposal, asked, faults>>

-----------------------------------------------------------------------------
(* Failed writes and kills *)

Writing == step \in {"write", "revert", "propose", "restore"}

\* fs::write could not open the file, or stopped in the middle of it.
Failed == disk' \in {disk, Put(disk, File, Cut)}

\* Only the first write of a file looks at the error; no text is put back.
WriteFails ==
  /\ Writing /\ At(step) /\ faults < MaxFaults
  /\ faults' = faults + 1
  /\ Failed
  /\ \/ step = "write"   /\ Report("unchanged", "none")
     \/ step = "revert"  /\ Report("bug", "none")
     \/ step \in {"propose", "restore"} /\ Report(Settled, "rejected")
  /\ UNCHANGED <<optVars, process, current_text, proposal, asked>>

\* Also what a proposal can do to the process that runs its tests.
Kill ==
  /\ process = "running" /\ faults < MaxFaults
  /\ faults' = faults + 1
  /\ process' = "killed"
  /\ IF Writing /\ At(step) THEN Failed ELSE UNCHANGED disk
  /\ UNCHANGED <<optVars, pos, step, current_text, proposal, outcome, verdict, asked>>

Exit ==
  /\ process = "running" /\ pos \notin DOMAIN Files
  /\ process' = "exited"
  /\ UNCHANGED <<optVars, disk, pos, step, current_text, proposal, outcome, verdict, asked, faults>>

-----------------------------------------------------------------------------
Init ==
  /\ ai \in BOOLEAN /\ check_only \in BOOLEAN
  /\ disk \in Initial
  /\ original = disk
  /\ process = "running"
  /\ batch_baselines = <<>>
  /\ pos = 1
  /\ step = "baselines"
  /\ current_text = Cut
  /\ proposal = Cut
  /\ outcome = [f \in FileSet |-> "pending"]
  /\ verdict = [f \in FileSet |-> "none"]
  /\ asked = {}
  /\ faults = 0

MigrateFile ==
  \/ Scan \/ WriteRewrite \/ VerifyTypeChecks \/ RevertRewrite
  \/ Cover \/ WriteProposal \/ Judge \/ Restore

Model == ModelFails \/ ModelProposes

AtRest == process # "running" /\ UNCHANGED vars

Next == EstablishBaselines \/ MigrateFile \/ Model \/ WriteFails \/ Kill \/ Exit \/ AtRest

Spec == Init /\ [][Next]_vars
-----------------------------------------------------------------------------
(* Properties *)

TypeOK ==
  /\ ai \in BOOLEAN /\ check_only \in BOOLEAN
  /\ process \in {"running", "exited", "killed"}
  /\ disk \in Disks /\ original \in Disks
  /\ pos \in 1..(Len(Files) + 1)
  /\ step \in Steps
  /\ current_text \in Texts /\ proposal \in Texts
  /\ outcome \in [FileSet -> {"pending", "unchanged", "changed", "bug"}]
  /\ verdict \in [FileSet -> {"none", "skipped", "rejected", "accepted"}]
  /\ asked \subseteq FileSet
  /\ faults \in 0..MaxFaults
  /\ \A i \in DOMAIN Files : outcome[Files[i]] = "pending" <=> i >= pos

\* A text that is written and not yet judged.
OnTrial == pos \in DOMAIN Files /\ step \in {"verify", "revert", "judge", "restore"}

(* Nothing regresses: whenever no text is on trial, every file of the batch *)
(* loads, type-checks and tests as it did before the run, whatever the      *)
(* model proposed and however the files import each other.                  *)
BatchIntact ==
  faults = 0 /\ ~OnTrial =>
    \A f \in FileSet : Outcome(disk, f) = Outcome(original, f)

\* A file without a report is being migrated or is as it was; the text of a
\* reported file is the one that the report speaks of.
Truthful(f) ==
  \/ process = "running" /\ pos \in DOMAIN Files /\ f = File
  \/ outcome[f] = "pending" /\ disk[f] = original[f]
  \/ outcome[f] \in {"unchanged", "bug"} /\ disk[f] = original[f]
  \/ outcome[f] = "changed" /\ check_only /\ disk[f] = original[f]
  \/ /\ outcome[f] = "changed" /\ ~check_only /\ verdict[f] # "accepted"
     /\ disk[f] = Rewritten(original[f])
  \/ /\ outcome[f] = "changed" /\ ~check_only /\ verdict[f] = "accepted"
     /\ disk[f] \in Proposals(original[f]) \cup Proposals(Rewritten(original[f]))

Damaged == {f \in FileSet : ~Truthful(f)}

(* A rejected proposal leaves nothing behind, nor does a rewrite that       *)
(* failed its check: the text on disk is the one the report speaks of, and  *)
(* a file not reached is as it was, except that each failed write and each  *)
(* kill may cost one file.                                                  *)
DamageBounded == Cardinality(Damaged) <= faults

(* --check writes nothing, whatever the other options.                      *)
CheckOnlyReads == [][check_only => disk' = disk]_vars

\* In d, the file g tests f: it imports f and has test blocks.
TestedBy(d, f, g) == Parses(d[g]) /\ f \in Imports(d[g]) /\ HasTests(d[g])

Covered(d, f) ==
  \/ Parses(d[f]) /\ HasTests(d[f])
  \/ \E g \in FileSet \ {f} : TestedBy(d, f, g)

\* f was covered before the run, or is by a proposal that passed its tests.
OracleAtHand(f) ==
  \/ Covered(original, f)
  \/ \E g \in FileSet \ {f} : verdict[g] = "accepted" /\ TestedBy(disk, f, g)

(* Only a file that type-checked before the run is sent to the model, and   *)
(* only if test blocks of the batch cover it: ones that were there before   *)
(* the run, or ones of a text that was itself accepted.  What a text on     *)
(* trial or a rejected one said of it is never what let it be sent.         *)
AskedOnlyIfCovered ==
  faults = 0 => \A f \in asked : Outcome(original, f).ok /\ OracleAtHand(f)

=============================================================================
