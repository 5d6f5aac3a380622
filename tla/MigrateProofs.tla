---------------------------- MODULE MigrateProofs ----------------------------
(***************************************************************************)
(* Theorems about Migrate, for every batch of files, every meaning of      *)
(* their texts and tests, every proposal of the model, and any number of   *)
(* failed writes and kills.                                                *)
(*                                                                         *)
(* The invariant IInv says what current_text, proposal and the text on     *)
(* disk have to do with each other at each step of migrate_file.           *)
(***************************************************************************)
EXTENDS Migrate, FiniteSetTheorems, TLAPS

\* A report has been given for each file before pos and for no other.
Bookkeeping ==
  /\ pos \in 1..(Len(Files) + 1)
  /\ step \in Steps
  /\ outcome \in [FileSet -> {"pending", "unchanged", "changed", "bug"}]
  /\ verdict \in [FileSet -> {"none", "skipped", "rejected", "accepted"}]
  /\ \A i \in DOMAIN Files : outcome[Files[i]] = "pending" <=> i >= pos

\* Where migrate_file is, what it holds and what is on disk.
Tracking ==
  process = "running" /\ pos \in DOMAIN Files =>
    /\ step \in {"write", "cover", "ask", "propose"} => current_text = disk[File]
    /\ step \in {"write", "verify", "revert"} =>
         /\ ~check_only /\ Parses(current_text) /\ Parses(Rewritten(current_text))
         /\ current_text = original[File]
    /\ step \in {"verify", "revert"} => disk[File] = Rewritten(current_text)
    /\ step \in {"cover", "ask", "propose", "judge", "restore"} =>
         /\ Parses(current_text)
         /\ \/ current_text = original[File]
            \/ ~check_only /\ current_text = Rewritten(original[File])
    /\ step \in {"ask", "propose", "judge", "restore"} => UseAi
    /\ step \in {"propose", "judge", "restore"} => proposal \in Proposals(current_text)
    /\ step \in {"judge", "restore"} => disk[File] = proposal

\* No file is written before its turn.
Untouched ==
  \A i \in DOMAIN Files :
    i > pos \/ (i = pos /\ step \in {"baselines", "scan"}) =>
      disk[Files[i]] = original[Files[i]]

BaselinesFixed ==
  /\ step = "baselines" => disk = original /\ pos = 1
  /\ step # "baselines" /\ UseAi =>
       batch_baselines = [f \in FileSet |-> Outcome(original, f)]

IInv == TypeOK /\ Tracking /\ Untouched /\ BaselinesFixed

-----------------------------------------------------------------------------
(* Files and disks *)

(* The file being migrated is one of the batch, and not reported on yet.    *)
LEMMA FileFacts ==
  ASSUME TypeOK, pos \in DOMAIN Files
  PROVE  /\ File \in FileSet
         /\ DOMAIN Files = 1..Len(Files) /\ Len(Files) \in Nat
         /\ outcome[File] = "pending"
  BY MigrateAssumptions DEF File, FileSet, TypeOK

(* Writing one file leaves every other as it was.                           *)
LEMMA PutFacts ==
  ASSUME NEW d \in Disks, NEW f \in FileSet, NEW t \in Texts
  PROVE  /\ Put(d, f, t) \in Disks
         /\ Put(d, f, t)[f] = t
         /\ \A g \in FileSet : g # f => Put(d, f, t)[g] = d[g]
         /\ \A u : Put(Put(d, f, t), f, u) = Put(d, f, u)
         /\ Put(d, f, d[f]) = d
  BY DEF Put, Disks

(* A write that fails damages no file but the one it was meant for.         *)
LEMMA FailedWrite ==
  ASSUME TypeOK, pos \in DOMAIN Files, Failed
  PROVE  disk' \in Disks /\ \A g \in FileSet : g # File => disk'[g] = disk[g]
  <1>1. File \in FileSet /\ disk \in Disks
    BY FileFacts DEF TypeOK
  <1>2. Cut \in Texts
    BY MigrateAssumptions
  <1>3. Put(disk, File, Cut) \in Disks
        /\ \A g \in FileSet : g # File => Put(disk, File, Cut)[g] = disk[g]
    BY <1>1, <1>2, PutFacts
  <1> QED  BY <1>1, <1>3 DEF Failed

(* No two files of the batch are the same.                                  *)
LEMMA FilesDistinct ==
  ASSUME NEW i \in DOMAIN Files, NEW j \in DOMAIN Files, Files[i] = Files[j]
  PROVE  i = j
  BY MigrateAssumptions

-----------------------------------------------------------------------------
(* Types *)

(* Reporting on the file at pos, or going on to its next step, keeps the    *)
(* books.                                                                   *)
LEMMA BooksKept ==
  ASSUME TypeOK, pos \in DOMAIN Files
  PROVE  /\ \A o \in {"unchanged", "changed", "bug"},
              v \in {"none", "skipped", "rejected", "accepted"} :
              Report(o, v) => Bookkeeping'
         /\ \A s \in Steps : Goto(s) => Bookkeeping'
  <1>1. ASSUME NEW o \in {"unchanged", "changed", "bug"},
               NEW v \in {"none", "skipped", "rejected", "accepted"}, Report(o, v)
        PROVE  Bookkeeping'
    <2>1. pos' = pos + 1 /\ step' = "scan"
          /\ outcome' = [outcome EXCEPT ![File] = o] /\ verdict' = [verdict EXCEPT ![File] = v]
      BY <1>1 DEF Report
    <2>2. pos' \in 1..(Len(Files) + 1) /\ step' \in Steps
      BY <2>1, FileFacts DEF Steps
    <2>3. outcome' \in [FileSet -> {"pending", "unchanged", "changed", "bug"}]
          /\ verdict' \in [FileSet -> {"none", "skipped", "rejected", "accepted"}]
      BY <2>1, FileFacts DEF TypeOK
    <2>4. ASSUME NEW i \in DOMAIN Files
          PROVE  outcome'[Files[i]] = "pending" <=> i >= pos'
      <3>1. Files[i] \in FileSet /\ i \in Nat
        BY FileFacts DEF FileSet
      <3>2. CASE i = pos
        BY <3>1, <3>2, <2>1, FileFacts DEF File, TypeOK
      <3>3. CASE i # pos
        <4>1. Files[i] # File
          BY <3>3, FilesDistinct DEF File
        <4>2. outcome'[Files[i]] = outcome[Files[i]]
          BY <4>1, <3>1, <2>1 DEF TypeOK
        <4>3. outcome[Files[i]] = "pending" <=> i >= pos
          BY DEF TypeOK
        <4> QED  BY <4>2, <4>3, <3>1, <3>3, <2>1 DEF TypeOK
      <3> QED  BY <3>2, <3>3
    <2> QED  BY <2>2, <2>3, <2>4 DEF Bookkeeping
  <1>2. ASSUME NEW s \in Steps, Goto(s) PROVE Bookkeeping'
    BY <1>2 DEF Goto, Bookkeeping, TypeOK
  <1> QED  BY <1>1, <1>2

(* Any step of the pass keeps every variable's type.                        *)
LEMMA StepTyped ==
  ASSUME IInv, [Next]_vars
  PROVE  TypeOK'
  <1>0. TypeOK
    BY DEF IInv
  <1> DEFINE Others == /\ ai \in BOOLEAN /\ check_only \in BOOLEAN
                       /\ process \in {"running", "exited", "killed"}
                       /\ disk \in Disks /\ original \in Disks
                       /\ current_text \in Texts /\ proposal \in Texts
                       /\ asked \subseteq FileSet
                       /\ faults \in 0..MaxFaults
  <1>1. Bookkeeping' /\ Others' => TypeOK'
    BY DEF Bookkeeping, TypeOK
  <1>2. Others /\ MaxFaults \in Nat
    BY <1>0, MigrateAssumptions DEF TypeOK
  <1>3. \A f \in FileSet : disk[f] \in Texts /\ original[f] \in Texts
    BY <1>2 DEF Disks
  <1> HIDE DEF Others
  <1>4. ASSUME EstablishBaselines PROVE TypeOK'
    <2>1. Bookkeeping'
      BY <1>0, <1>4, BooksKept DEF EstablishBaselines, At, Steps
    <2>2. Others'
      BY <1>4, <1>2 DEF EstablishBaselines, Others
    <2> QED  BY <2>1, <2>2, <1>1
  <1>5. ASSUME Scan PROVE TypeOK'
    <2>1. pos \in DOMAIN Files
      BY <1>5 DEF Scan, At
    <2>2. Bookkeeping'
      BY <1>0, <1>5, <2>1, BooksKept DEF Scan, ScanParsed, Steps
    <2>3. Others'
      BY <1>0, <1>5, <1>2, <1>3, <2>1, FileFacts DEF Scan, Others, optVars
    <2> QED  BY <2>2, <2>3, <1>1
  <1>6. ASSUME WriteRewrite PROVE TypeOK'
    <2>1. pos \in DOMAIN Files /\ Rewritten(current_text) \in Texts
      BY <1>6, <1>0, MigrateAssumptions DEF WriteRewrite, At, TypeOK
    <2>2. Bookkeeping'
      BY <1>0, <1>6, <2>1, BooksKept DEF WriteRewrite, Steps
    <2>3. disk' \in Disks
      BY <1>0, <1>6, <2>1, FileFacts, PutFacts DEF WriteRewrite, TypeOK
    <2>4. Others'
      BY <1>6, <1>2, <2>3 DEF WriteRewrite, Others, optVars
    <2> QED  BY <2>2, <2>4, <1>1
  <1>7. ASSUME VerifyTypeChecks PROVE TypeOK'
    <2>1. pos \in DOMAIN Files
      BY <1>7 DEF VerifyTypeChecks, At
    <2>2. Bookkeeping'
      BY <1>0, <1>7, <2>1, BooksKept DEF VerifyTypeChecks, Steps
    <2>3. Others'
      BY <1>0, <1>7, <1>2, <1>3, <2>1, FileFacts DEF VerifyTypeChecks, Others, optVars
    <2> QED  BY <2>2, <2>3, <1>1
  <1>8. ASSUME RevertRewrite \/ Restore PROVE TypeOK'
    <2>1. pos \in DOMAIN Files /\ disk' = Put(disk, File, current_text)
      BY <1>8 DEF RevertRewrite, Restore, At
    <2>2. Bookkeeping'
      BY <1>0, <1>8, <2>1, BooksKept DEF RevertRewrite, Restore, Settled
    <2>3. disk' \in Disks
      BY <1>0, <2>1, FileFacts, PutFacts DEF TypeOK
    <2>4. Others'
      BY <1>8, <1>2, <2>3 DEF RevertRewrite, Restore, Others, optVars
    <2> QED  BY <2>2, <2>4, <1>1
  <1>9. ASSUME Cover \/ Judge PROVE TypeOK'
    <2>1. pos \in DOMAIN Files
      BY <1>9 DEF Cover, Judge, At
    <2>2. Bookkeeping'
      BY <1>0, <1>9, <2>1, BooksKept DEF Cover, Judge, Settled, Steps
    <2>3. Others'
      BY <1>9, <1>2 DEF Cover, Judge, Others, optVars
    <2> QED  BY <2>2, <2>3, <1>1
  <1>10. ASSUME WriteProposal PROVE TypeOK'
    <2>1. pos \in DOMAIN Files
      BY <1>10 DEF WriteProposal, At
    <2>2. Bookkeeping'
      BY <1>0, <1>10, <2>1, BooksKept DEF WriteProposal, Steps
    <2>3. disk' \in Disks
      BY <1>0, <1>10, <2>1, FileFacts, PutFacts DEF WriteProposal, TypeOK
    <2>4. Others'
      BY <1>10, <1>2, <2>3 DEF WriteProposal, Others, optVars
    <2> QED  BY <2>2, <2>4, <1>1
  <1>11. ASSUME Model PROVE TypeOK'
    <2>1. At("ask") /\ asked' = asked \cup {File}
      BY <1>11 DEF Model, ModelFails, ModelProposes
    <2>2. File \in FileSet /\ pos \in DOMAIN Files
      BY <1>0, <2>1, FileFacts DEF At
    <2>3. Bookkeeping'
      BY <1>0, <1>11, <2>2, BooksKept DEF Model, ModelFails, ModelProposes, Settled, Steps
    <2>4. proposal' \in Texts
      <3>1. CASE ModelFails
        BY <3>1, <1>0 DEF ModelFails, TypeOK
      <3>2. CASE ModelProposes
        <4>1. Parses(current_text)
          BY <2>1 DEF IInv, Tracking, At
        <4> QED  BY <4>1, <3>2, <1>0, MigrateAssumptions DEF ModelProposes, TypeOK
      <3> QED  BY <3>1, <3>2, <1>11 DEF Model
    <2>5. Others'
      BY <1>11, <1>2, <2>1, <2>2, <2>4 DEF Model, ModelFails, ModelProposes, Others, optVars
    <2> QED  BY <2>3, <2>5, <1>1
  <1>12. ASSUME WriteFails PROVE TypeOK'
    <2>1. pos \in DOMAIN Files /\ Failed
      BY <1>12 DEF WriteFails, At
    <2>2. Bookkeeping'
      BY <1>0, <1>12, <2>1, BooksKept DEF WriteFails, Settled
    <2>3. disk' \in Disks
      BY <1>0, <2>1, FailedWrite
    <2>4. faults' \in 0..MaxFaults
      BY <1>12, <1>2 DEF WriteFails, Others
    <2>5. Others'
      BY <1>12, <1>2, <2>3, <2>4 DEF WriteFails, Others, optVars
    <2> QED  BY <2>2, <2>5, <1>1
  <1>13. ASSUME Kill PROVE TypeOK'
    <2>1. Bookkeeping'
      BY <1>0, <1>13 DEF Kill, Bookkeeping, TypeOK
    <2>2. disk' \in Disks
      <3>1. CASE pos \in DOMAIN Files /\ Failed
        BY <1>0, <3>1, FailedWrite
      <3>2. CASE disk' = disk
        BY <3>2, <1>0 DEF TypeOK
      <3> QED  BY <1>13, <3>1, <3>2 DEF Kill, At
    <2>3. faults' \in 0..MaxFaults
      BY <1>13, <1>2 DEF Kill, Others
    <2>4. Others'
      BY <1>13, <1>2, <2>2, <2>3 DEF Kill, Others, optVars
    <2> QED  BY <2>1, <2>4, <1>1
  <1>14. ASSUME Exit PROVE TypeOK'
    <2>1. Bookkeeping'
      BY <1>0, <1>14 DEF Exit, Bookkeeping, TypeOK
    <2>2. Others'
      BY <1>14, <1>2 DEF Exit, Others, optVars
    <2> QED  BY <2>1, <2>2, <1>1
  <1>15. ASSUME UNCHANGED vars PROVE TypeOK'
    BY <1>0, <1>15 DEF vars, optVars, TypeOK
  <1> QED
    BY <1>4, <1>5, <1>6, <1>7, <1>8, <1>9, <1>10, <1>11, <1>12, <1>13, <1>14, <1>15
    DEF Next, MigrateFile, AtRest

-----------------------------------------------------------------------------
(* What the pass knows of the file it is at *)

(* Once a file is reported on, nothing is known or said of the next one.    *)
LEMMA ReportFollows ==
  ASSUME IInv, pos \in DOMAIN Files, step # "baselines",
         pos' = pos + 1, step' = "scan", UNCHANGED optVars,
         \A g \in FileSet : g # File => disk'[g] = disk[g]
  PROVE  Tracking' /\ Untouched' /\ BaselinesFixed'
  <1>0. TypeOK
    BY DEF IInv
  <1>1. Tracking'
    BY DEF Tracking
  <1>2. Untouched'
    <2>1. SUFFICES ASSUME NEW i \in DOMAIN Files, i >= pos'
                   PROVE  disk'[Files[i]] = original'[Files[i]]
      BY <1>0, FileFacts DEF Untouched, TypeOK
    <2>2. i > pos /\ Files[i] \in FileSet
      BY <1>0, <2>1, FileFacts DEF FileSet, TypeOK
    <2>3. Files[i] # File
      BY <1>0, <2>2, FilesDistinct, FileFacts DEF File, TypeOK
    <2> QED  BY <2>2, <2>3 DEF IInv, Untouched, optVars
  <1>3. BaselinesFixed'
    BY DEF IInv, BaselinesFixed, UseAi, optVars
  <1> QED  BY <1>1, <1>2, <1>3

(* Going on with a file touches no other.                                   *)
LEMMA GotoFollows ==
  ASSUME IInv, pos \in DOMAIN Files, step # "baselines",
         pos' = pos, step' \in Steps \ {"baselines", "scan"}, UNCHANGED optVars,
         \A g \in FileSet : g # File => disk'[g] = disk[g]
  PROVE  Untouched' /\ BaselinesFixed'
  <1>0. TypeOK
    BY DEF IInv
  <1>1. Untouched'
    <2>1. SUFFICES ASSUME NEW i \in DOMAIN Files, i > pos'
                   PROVE  disk'[Files[i]] = original'[Files[i]]
      BY DEF Untouched
    <2>2. i > pos /\ Files[i] \in FileSet
      BY <1>0, <2>1, FileFacts DEF FileSet, TypeOK
    <2>3. Files[i] # File
      BY <1>0, <2>2, FilesDistinct, FileFacts DEF File, TypeOK
    <2> QED  BY <2>2, <2>3 DEF IInv, Untouched, optVars
  <1>2. BaselinesFixed'
    BY DEF IInv, BaselinesFixed, UseAi, optVars
  <1> QED  BY <1>1, <1>2

(* The invariant holds at the start.                                        *)
LEMMA InitIInv == Init => IInv
  <1> SUFFICES ASSUME Init PROVE IInv
    OBVIOUS
  <1>1. TypeOK
    <2>1. Len(Files) \in Nat /\ DOMAIN Files = 1..Len(Files)
      BY MigrateAssumptions
    <2>2. disk \in Disks /\ Cut \in Texts /\ MaxFaults \in Nat
      BY MigrateAssumptions DEF Init
    <2>3. \A i \in DOMAIN Files : Files[i] \in FileSet /\ i >= 1
      BY <2>1 DEF FileSet
    <2>4. \A i \in DOMAIN Files : outcome[Files[i]] = "pending" <=> i >= pos
      BY <2>3 DEF Init
    <2> QED  BY <2>1, <2>2, <2>4 DEF Init, TypeOK, Steps
  <1>2. Tracking
    BY DEF Init, Tracking
  <1>3. Untouched /\ BaselinesFixed
    BY DEF Init, Untouched, BaselinesFixed
  <1> QED  BY <1>1, <1>2, <1>3 DEF IInv

(* Every step of the pass keeps the invariant.                              *)
LEMMA StepIInv == IInv /\ [Next]_vars => IInv'
  <1> SUFFICES ASSUME IInv, [Next]_vars PROVE Tracking' /\ Untouched' /\ BaselinesFixed'
    BY StepTyped DEF IInv
  <1> DEFINE Goal == Tracking' /\ Untouched' /\ BaselinesFixed'
             Others == \A g \in FileSet : g # File => disk'[g] = disk[g]
  <1>0. TypeOK
    BY DEF IInv
  <1> HIDE DEF Goal, Others
  <1>1. ASSUME pos \in DOMAIN Files, step # "baselines", UNCHANGED optVars, Others,
               NEW o, NEW v, Report(o, v)
        PROVE  Goal
    BY <1>1, ReportFollows DEF Report, Goal, Others
  <1>2. ASSUME pos \in DOMAIN Files, step # "baselines", UNCHANGED optVars, Others,
               NEW s \in Steps \ {"baselines", "scan"}, Goto(s), Tracking'
        PROVE  Goal
    BY <1>2, GotoFollows DEF Goto, Goal, Others
  <1>3. disk' = disk => Others
    BY DEF Others
  <1>4. ASSUME pos \in DOMAIN Files, NEW t \in Texts, disk' = Put(disk, File, t)
        PROVE  Others /\ disk'[File] = t
    BY <1>0, <1>4, PutFacts, FileFacts DEF Others, TypeOK
  <1>5. ASSUME EstablishBaselines PROVE Goal
    <2>1. pos \in DOMAIN Files /\ step = "baselines" /\ pos' = pos /\ step' = "scan"
          /\ UNCHANGED <<ai, check_only, original, disk>>
      BY <1>5 DEF EstablishBaselines, At, Goto
    <2>2. disk = original /\ pos = 1
      BY <2>1 DEF IInv, BaselinesFixed
    <2>3. Tracking'
      BY <2>1 DEF Tracking
    <2>4. Untouched'
      BY <2>1, <2>2 DEF Untouched
    <2>5. BaselinesFixed'
      BY <1>5, <2>1, <2>2 DEF EstablishBaselines, BaselinesFixed, UseAi
    <2> QED  BY <2>3, <2>4, <2>5 DEF Goal
  <1>6. ASSUME Scan PROVE Goal
    <2>1. pos \in DOMAIN Files /\ step = "scan" /\ disk' = disk /\ UNCHANGED optVars
          /\ current_text' = disk[File]
      BY <1>6 DEF Scan, At
    <2>2. current_text' = original[File]
      BY <1>0, <2>1, FileFacts DEF IInv, Untouched, File, TypeOK
    <2>3. CASE \E o, v : Report(o, v)
      BY <1>1, <1>3, <2>1, <2>3
    <2>4. CASE Parses(disk[File]) /\ Goto("cover")
      <3>1. Tracking'
        BY <2>1, <2>2, <2>4 DEF Tracking, Goto, File, optVars
      <3> QED  BY <1>2, <1>3, <2>1, <2>4, <3>1 DEF Steps
    <2>5. CASE /\ Parses(disk[File]) /\ Parses(Rewritten(disk[File]))
               /\ ~check_only /\ Goto("write")
      <3>1. Tracking'
        BY <2>1, <2>2, <2>5 DEF Tracking, Goto, File, optVars
      <3> QED  BY <1>2, <1>3, <2>1, <2>5, <3>1 DEF Steps
    <2> QED  BY <1>6, <2>3, <2>4, <2>5 DEF Scan, ScanParsed
  <1>7. ASSUME WriteRewrite PROVE Goal
    <2>1. pos \in DOMAIN Files /\ process = "running" /\ step = "write" /\ UNCHANGED optVars
          /\ UNCHANGED <<process, current_text>> /\ Goto("verify")
          /\ disk' = Put(disk, File, Rewritten(current_text))
      BY <1>7 DEF WriteRewrite, At
    <2>2. Others /\ disk'[File] = Rewritten(current_text)
      BY <1>0, <1>4, <2>1, MigrateAssumptions DEF TypeOK
    <2>3. Tracking'
      BY <2>1, <2>2 DEF IInv, Tracking, Goto, File, optVars
    <2> QED  BY <1>2, <2>1, <2>2, <2>3 DEF Steps
  <1>8. ASSUME VerifyTypeChecks PROVE Goal
    <2>1. pos \in DOMAIN Files /\ process = "running" /\ step = "verify" /\ disk' = disk
          /\ UNCHANGED <<optVars, process>> /\ Others
      BY <1>8, <1>3 DEF VerifyTypeChecks, At
    <2>2. CASE Outcome(disk, File).ok
      <3>1. current_text' = disk[File] /\ Goto("cover")
        BY <1>8, <2>2 DEF VerifyTypeChecks
      <3>2. disk[File] = Rewritten(original[File]) /\ ~check_only
            /\ Parses(disk[File])
        BY <2>1 DEF IInv, Tracking
      <3>3. Tracking'
        BY <2>1, <3>1, <3>2 DEF Tracking, Goto, File, optVars
      <3> QED  BY <1>2, <2>1, <3>1, <3>3 DEF Steps
    <2>3. CASE ~Outcome(disk, File).ok
      <3>1. UNCHANGED current_text /\ Goto("revert")
        BY <1>8, <2>3 DEF VerifyTypeChecks
      <3>2. Tracking'
        BY <2>1, <3>1 DEF IInv, Tracking, Goto, File, optVars
      <3> QED  BY <1>2, <2>1, <3>1, <3>2 DEF Steps
    <2> QED  BY <2>2, <2>3
  <1>9. ASSUME RevertRewrite \/ Restore PROVE Goal
    <2>1. pos \in DOMAIN Files /\ step # "baselines" /\ UNCHANGED optVars
          /\ disk' = Put(disk, File, current_text)
      BY <1>9 DEF RevertRewrite, Restore, At
    <2>2. Others
      BY <1>0, <1>4, <2>1 DEF TypeOK
    <2> QED  BY <1>1, <1>9, <2>1, <2>2 DEF RevertRewrite, Restore
  <1>10. ASSUME Cover PROVE Goal
    <2>1. pos \in DOMAIN Files /\ process = "running" /\ step = "cover" /\ disk' = disk
          /\ UNCHANGED <<optVars, process, current_text>> /\ Others
      BY <1>10, <1>3 DEF Cover, At
    <2>2. CASE \E o, v : Report(o, v)
      BY <1>1, <2>1, <2>2
    <2>3. CASE UseAi /\ Goto("ask")
      <3>1. Tracking'
        BY <2>1, <2>3 DEF IInv, Tracking, Goto, File, optVars, UseAi
      <3> QED  BY <1>2, <2>1, <2>3, <3>1 DEF Steps
    <2> QED  BY <1>10, <2>2, <2>3 DEF Cover
  <1>11. ASSUME Model PROVE Goal
    <2>1. pos \in DOMAIN Files /\ process = "running" /\ step = "ask" /\ disk' = disk
          /\ UNCHANGED <<optVars, process, current_text>> /\ Others
      BY <1>11, <1>3 DEF Model, ModelFails, ModelProposes, At
    <2>2. CASE \E o, v : Report(o, v)
      BY <1>1, <2>1, <2>2
    <2>3. CASE proposal' \in Proposals(current_text) /\ Goto("propose")
      <3>1. Tracking'
        BY <2>1, <2>3 DEF IInv, Tracking, Goto, File, optVars, UseAi
      <3> QED  BY <1>2, <2>1, <2>3, <3>1 DEF Steps
    <2> QED  BY <1>11, <2>2, <2>3 DEF Model, ModelFails, ModelProposes
  <1>12. ASSUME WriteProposal PROVE Goal
    <2>1. pos \in DOMAIN Files /\ process = "running" /\ step = "propose" /\ UNCHANGED optVars
          /\ UNCHANGED <<process, current_text, proposal>> /\ Goto("judge")
          /\ disk' = Put(disk, File, proposal)
      BY <1>12 DEF WriteProposal, At
    <2>2. Others /\ disk'[File] = proposal
      BY <1>0, <1>4, <2>1 DEF TypeOK
    <2>3. Tracking'
      BY <2>1, <2>2 DEF IInv, Tracking, Goto, File, optVars, UseAi
    <2> QED  BY <1>2, <2>1, <2>2, <2>3 DEF Steps
  <1>13. ASSUME Judge PROVE Goal
    <2>1. pos \in DOMAIN Files /\ process = "running" /\ step = "judge" /\ disk' = disk
          /\ UNCHANGED <<optVars, process, current_text, proposal>> /\ Others
      BY <1>13, <1>3 DEF Judge, At
    <2>2. CASE \E o, v : Report(o, v)
      BY <1>1, <2>1, <2>2
    <2>3. CASE Goto("restore")
      <3>1. Tracking'
        BY <2>1, <2>3 DEF IInv, Tracking, Goto, File, optVars, UseAi
      <3> QED  BY <1>2, <2>1, <2>3, <3>1 DEF Steps
    <2> QED  BY <1>13, <2>2, <2>3 DEF Judge
  <1>14. ASSUME WriteFails PROVE Goal
    <2>1. pos \in DOMAIN Files /\ step # "baselines" /\ UNCHANGED optVars /\ Failed
      BY <1>14 DEF WriteFails, At, Writing
    <2>2. Others
      BY <1>0, <2>1, FailedWrite DEF Others
    <2> QED  BY <1>1, <1>14, <2>1, <2>2 DEF WriteFails
  <1>15. ASSUME Kill PROVE Goal
    <2>1. process' = "killed" /\ UNCHANGED <<optVars, pos, step>>
      BY <1>15 DEF Kill
    <2>2. Tracking'
      BY <2>1 DEF Tracking
    <2>3. CASE step \in {"baselines", "scan"} \/ pos \notin DOMAIN Files
      <3>1. disk' = disk
        BY <1>15, <2>3 DEF Kill, At, Writing
      <3> QED  BY <2>1, <2>2, <3>1 DEF IInv, Untouched, BaselinesFixed, UseAi, optVars, Goal
    <2>4. CASE pos \in DOMAIN Files /\ step \in Steps \ {"baselines", "scan"}
      <3>1. Others
        BY <1>0, <1>3, <1>15, <2>4, FailedWrite DEF Kill, Others
      <3> QED  BY <2>1, <2>2, <2>4, <3>1, GotoFollows DEF Goal, Others
    <2> QED  BY <1>0, <2>3, <2>4 DEF TypeOK
  <1>16. ASSUME Exit PROVE Goal
    BY <1>16 DEF Exit, IInv, Tracking, Untouched, BaselinesFixed, UseAi, optVars, Goal
  <1>17. ASSUME UNCHANGED vars PROVE Goal
    BY <1>17 DEF vars, optVars, IInv, Tracking, Untouched, BaselinesFixed, UseAi, File, Goal
  <1> QED
    BY <1>5, <1>6, <1>7, <1>8, <1>9, <1>10, <1>11, <1>12, <1>13, <1>14, <1>15, <1>16, <1>17
    DEF Next, MigrateFile, AtRest, Goal
-----------------------------------------------------------------------------
(* The batch *)

(* What a file under trial would say, were the text before it put back, and *)
(* what every file says when none is, is what it said before the run.       *)
Harmless ==
  faults = 0 =>
    /\ ~OnTrial => \A g \in FileSet : Outcome(disk, g) = Outcome(original, g)
    /\ OnTrial => \A g \in FileSet :
         Outcome(Put(disk, File, current_text), g) = Outcome(original, g)

(* Every step without a fault leaves the batch as harmless as it was.       *)
LEMMA StepHarmless == IInv /\ Harmless /\ [Next]_vars => Harmless'
  <1> SUFFICES ASSUME IInv, Harmless, [Next]_vars, faults' = 0 PROVE Harmless'
    BY DEF Harmless
  <1>0. TypeOK
    BY DEF IInv
  <1> DEFINE Before == \A g \in FileSet : Outcome(disk, g) = Outcome(original, g)
             Back   == \A g \in FileSet :
                         Outcome(Put(disk, File, current_text), g) = Outcome(original, g)
  <1>1. ASSUME ~OnTrial, ~OnTrial', UNCHANGED <<disk, original, faults>>
        PROVE  Harmless'
    BY <1>1 DEF Harmless
  <1>2. ASSUME NEW t \in Texts, step \in {"write", "propose"}, At(step), ~OnTrial, OnTrial',
               disk' = Put(disk, File, t), UNCHANGED <<original, faults, pos, current_text>>
        PROVE  Harmless'
    <2>1. File \in FileSet /\ File' = File /\ disk \in Disks /\ current_text \in Texts
      BY <1>0, <1>2, FileFacts DEF At, File, TypeOK
    <2>2. current_text = disk[File]
      BY <1>2 DEF IInv, Tracking, At
    <2>3. Put(disk', File, current_text) = disk
      BY <1>2, <2>1, <2>2, PutFacts
    <2> QED  BY <1>2, <2>1, <2>3 DEF Harmless
  <1>3. CASE EstablishBaselines \/ Scan \/ Cover \/ Model
    <2>1. ~OnTrial /\ ~OnTrial' /\ UNCHANGED <<disk, original, faults>>
      BY <1>3 DEF EstablishBaselines, Scan, ScanParsed, Cover, Model, ModelFails, ModelProposes,
                  At, Goto, Report, OnTrial, optVars
    <2> QED  BY <1>1, <2>1
  <1>4. CASE WriteRewrite
    <2>1. At(step) /\ step = "write" /\ UNCHANGED <<original, faults, pos, current_text>>
          /\ ~OnTrial /\ OnTrial' /\ disk' = Put(disk, File, Rewritten(current_text))
      BY <1>4 DEF WriteRewrite, At, Goto, OnTrial, optVars
    <2>2. Rewritten(current_text) \in Texts
      BY <1>0, MigrateAssumptions DEF TypeOK
    <2> QED  BY <1>2, <2>1, <2>2
  <1>5. CASE VerifyTypeChecks
    <2>1. pos \in DOMAIN Files /\ process = "running" /\ step = "verify" /\ OnTrial
          /\ UNCHANGED <<original, faults, pos, disk>>
      BY <1>5 DEF VerifyTypeChecks, At, Goto, OnTrial, optVars
    <2>2. Back
      BY <2>1 DEF Harmless
    <2>3. CASE Outcome(disk, File).ok
      <3> DEFINE d == Put(disk, File, current_text)
      <3>1. File \in FileSet /\ disk \in Disks /\ current_text \in Texts
            /\ Rewritten(current_text) \in Texts
        BY <1>0, <2>1, FileFacts, MigrateAssumptions DEF TypeOK
      <3>2. Parses(current_text) /\ disk[File] = Rewritten(current_text)
        BY <2>1 DEF IInv, Tracking
      <3>3. d \in Disks /\ d[File] = current_text
            /\ Put(d, File, Rewritten(current_text)) = disk
        BY <3>1, <3>2, PutFacts
      <3>4. \A g \in FileSet : Outcome(disk, g) = Outcome(d, g)
        BY <2>3, <3>1, <3>2, <3>3, RewritePreserves
      <3>5. ~OnTrial'
        BY <1>5, <2>3 DEF VerifyTypeChecks, Goto, OnTrial
      <3> QED  BY <2>1, <2>2, <3>4, <3>5 DEF Harmless
    <2>4. CASE ~Outcome(disk, File).ok
      <3>1. OnTrial' /\ UNCHANGED current_text /\ File' = File
        BY <1>5, <2>1, <2>4 DEF VerifyTypeChecks, Goto, OnTrial, File
      <3> QED  BY <2>1, <2>2, <3>1 DEF Harmless
    <2> QED  BY <2>3, <2>4
  <1>6. CASE RevertRewrite \/ Restore
    <2>1. OnTrial /\ ~OnTrial' /\ UNCHANGED <<original, faults>>
          /\ disk' = Put(disk, File, current_text)
      BY <1>6 DEF RevertRewrite, Restore, At, Report, OnTrial, optVars
    <2> QED  BY <2>1 DEF Harmless
  <1>7. CASE WriteProposal
    <2>1. At(step) /\ step = "propose" /\ UNCHANGED <<original, faults, pos, current_text>>
          /\ ~OnTrial /\ OnTrial' /\ disk' = Put(disk, File, proposal) /\ proposal \in Texts
      BY <1>7, <1>0 DEF WriteProposal, At, Goto, OnTrial, optVars, TypeOK
    <2> QED  BY <1>2, <2>1
  <1>8. CASE Judge
    <2>1. pos \in DOMAIN Files /\ process = "running" /\ step = "judge" /\ OnTrial
          /\ UNCHANGED <<original, faults, disk, current_text>>
      BY <1>8 DEF Judge, At, OnTrial, optVars
    <2>2. CASE OwnTestsAgree /\ VerifyBatchUnaffected
      <3>1. batch_baselines = [f \in FileSet |-> Outcome(original, f)]
        BY <2>1 DEF IInv, Tracking, BaselinesFixed
      <3>2. Before
        BY <2>1, <2>2, <3>1, <1>0, FileFacts DEF OwnTestsAgree, VerifyBatchUnaffected
      <3>3. ~OnTrial'
        BY <1>8, <2>2 DEF Judge, Report, OnTrial
      <3> QED  BY <2>1, <3>2, <3>3 DEF Harmless
    <2>3. CASE ~(OwnTestsAgree /\ VerifyBatchUnaffected)
      <3>1. OnTrial' /\ File' = File
        BY <1>8, <2>1, <2>3 DEF Judge, Goto, OnTrial, File
      <3> QED  BY <2>1, <3>1 DEF Harmless
    <2> QED  BY <2>2, <2>3
  <1>9. CASE WriteFails \/ Kill
    BY <1>9, <1>0 DEF WriteFails, Kill, TypeOK
  <1>10. CASE Exit
    <2>1. ~OnTrial /\ ~OnTrial' /\ UNCHANGED <<disk, original, faults>>
      BY <1>10 DEF Exit, OnTrial, optVars
    <2> QED  BY <1>1, <2>1
  <1>11. CASE UNCHANGED vars
    BY <1>11 DEF vars, optVars, Harmless, OnTrial, File
  <1> QED
    BY <1>3, <1>4, <1>5, <1>6, <1>7, <1>8, <1>9, <1>10, <1>11 DEF Next, MigrateFile, AtRest
-----------------------------------------------------------------------------
(* Damage *)

(* The batch, and so what is damaged of it, is finite.                      *)
LEMMA FilesFinite == IsFiniteSet(FileSet)
  <1>1. Len(Files) \in Nat /\ DOMAIN Files = 1..Len(Files)
    BY MigrateAssumptions
  <1>2. IsFiniteSet(DOMAIN Files)
    BY <1>1, FS_Interval
  <1>3. Files \in Surjection(DOMAIN Files, FileSet)
    BY MigrateAssumptions DEF Surjection, FileSet
  <1> QED  BY <1>2, <1>3, FS_Surjection DEF ExistsSurjection

(* A report on one file says nothing of another.                            *)
LEMMA OthersTruthful ==
  ASSUME IInv, pos \in DOMAIN Files, UNCHANGED optVars,
         \A g \in FileSet : g # File => disk'[g] = disk[g],
         \/ \E o, v : Report(o, v)
         \/ UNCHANGED <<outcome, verdict>>,
         NEW f \in FileSet, f # File, Truthful(f)
  PROVE  Truthful(f)'
  <1>1. outcome'[f] = outcome[f] /\ verdict'[f] = verdict[f]
    BY DEF Report, IInv, TypeOK
  <1> QED  BY <1>1 DEF Truthful, optVars

(* After any step, a file without a report is the one being migrated, or is *)
(* as it was.                                                               *)
LEMMA PendingTruthful ==
  ASSUME IInv', process' = "running" \/ pos' \notin DOMAIN Files,
         NEW f \in FileSet, outcome'[f] = "pending"
  PROVE  Truthful(f)'
  <1>0. TypeOK'
    BY DEF IInv
  <1>1. PICK i \in DOMAIN Files : f = Files[i]
    BY DEF FileSet
  <1>2. i >= pos' /\ i \in 1..Len(Files) /\ pos' \in 1..(Len(Files) + 1) /\ Len(Files) \in Nat
        /\ DOMAIN Files = 1..Len(Files)
    BY <1>0, <1>1, MigrateAssumptions DEF TypeOK
  <1>3. CASE i = pos'
    BY <1>1, <1>2, <1>3 DEF Truthful, File
  <1>4. CASE i > pos'
    <2>1. disk'[f] = original'[f]
      BY <1>1, <1>4 DEF IInv, Untouched
    <2> QED  BY <2>1 DEF Truthful
  <1> QED  BY <1>2, <1>3, <1>4

(* A step without a fault damages no file that was not damaged before.      *)
LEMMA NoDamage ==
  ASSUME IInv, [Next]_vars, ~WriteFails, ~Kill
  PROVE  Damaged' \subseteq Damaged
  <1>0. TypeOK
    BY DEF IInv
  <1> SUFFICES ASSUME NEW f \in FileSet, Truthful(f) PROVE Truthful(f)'
    BY DEF Damaged
  <1> DEFINE Others == \A g \in FileSet : g # File => disk'[g] = disk[g]
  <1>1. ASSUME process' = "running" \/ pos' \notin DOMAIN Files, outcome'[f] = "pending"
        PROVE  Truthful(f)'
    <2>1. IInv'
      BY StepIInv
    <2> QED  BY <1>1, <2>1, PendingTruthful
  <1>2. ASSUME pos \in DOMAIN Files, process' = "running", UNCHANGED optVars, Others,
               \/ \E o, v : Report(o, v) /\ (f = File => Truthful(f)')
               \/ \E s : Goto(s)
        PROVE  Truthful(f)'
    <2>1. outcome[File] = "pending"
      BY <1>0, <1>2, FileFacts
    <2>2. CASE f # File
      BY <1>2, <2>2, OthersTruthful DEF Goto
    <2>3. CASE f = File /\ \E s : Goto(s)
      BY <1>1, <1>2, <2>1, <2>3 DEF Goto
    <2> QED  BY <1>2, <2>2, <2>3
  <1> HIDE DEF Others
  <1>3. ASSUME NEW t \in Texts, pos \in DOMAIN Files, disk' = Put(disk, File, t)
        PROVE  Others /\ disk'[File] = t
    <2>1. File \in FileSet /\ disk \in Disks
      BY <1>0, <1>3, FileFacts DEF TypeOK
    <2>2. Put(disk, File, t)[File] = t
          /\ \A g \in FileSet : g # File => Put(disk, File, t)[g] = disk[g]
      BY <2>1, PutFacts
    <2> QED  BY <1>3, <2>2 DEF Others
  \* What a report on File must say for it to be the truth.
  <1>4. ASSUME pos \in DOMAIN Files, UNCHANGED optVars, NEW o, NEW v, Report(o, v),
               f = File,
               \/ o \in {"unchanged", "bug"} /\ disk'[File] = original[File]
               \/ o = "changed" /\ check_only /\ disk'[File] = original[File]
               \/ o = "changed" /\ ~check_only /\ v # "accepted"
                  /\ disk'[File] = Rewritten(original[File])
               \/ o = "changed" /\ ~check_only /\ v = "accepted"
                  /\ disk'[File] \in Proposals(original[File])
                                       \cup Proposals(Rewritten(original[File]))
        PROVE  Truthful(f)'
    <2>1. outcome'[f] = o /\ verdict'[f] = v
      BY <1>4, <1>0, FileFacts DEF Report, TypeOK
    <2> QED  BY <1>4, <2>1 DEF Truthful, optVars
  <1>5. ASSUME pos \in DOMAIN Files, UNCHANGED optVars, NEW v \in {"none", "skipped", "rejected"},
               Report(Settled, v), f = File, disk'[File] = current_text,
               \/ current_text = original[File]
               \/ ~check_only /\ current_text = Rewritten(original[File])
        PROVE  Truthful(f)'
    <2>1. CASE current_text = original[File]
      BY <1>4, <1>5, <2>1 DEF Settled
    <2>2. CASE current_text # original[File]
      BY <1>4, <1>5, <2>2 DEF Settled
    <2> QED  BY <2>1, <2>2
  <1>6. CASE EstablishBaselines
    <2>1. UNCHANGED <<outcome, verdict, pos, process, disk, check_only, original>>
      BY <1>6 DEF EstablishBaselines, Goto
    <2> QED  BY <2>1 DEF Truthful, File
  <1>7. CASE Scan
    <2>1. pos \in DOMAIN Files /\ process' = "running" /\ disk' = disk /\ UNCHANGED optVars
          /\ step = "scan"
      BY <1>7 DEF Scan, At
    <2>2. disk'[File] = original[File]
      BY <1>0, <2>1, FileFacts DEF IInv, Untouched, File, TypeOK
    <2>3. \/ Report("unchanged", "none")
          \/ Report("bug", "none")
          \/ check_only /\ Report("changed", "none")
          \/ \E s : Goto(s)
      BY <1>7 DEF Scan, ScanParsed
    <2> QED  BY <1>2, <1>4, <2>1, <2>2, <2>3 DEF Others
  <1>8. CASE WriteRewrite \/ WriteProposal
    <2>1. /\ pos \in DOMAIN Files /\ process' = "running" /\ UNCHANGED optVars /\ \E s : Goto(s)
          /\ \/ disk' = Put(disk, File, Rewritten(current_text))
             \/ disk' = Put(disk, File, proposal)
      BY <1>8 DEF WriteRewrite, WriteProposal, At
    <2>2. Rewritten(current_text) \in Texts /\ proposal \in Texts
      BY <1>0, MigrateAssumptions DEF TypeOK
    <2> QED  BY <1>2, <1>3, <2>1, <2>2
  <1>9. CASE VerifyTypeChecks
    <2>1. pos \in DOMAIN Files /\ process' = "running" /\ UNCHANGED optVars /\ disk' = disk /\ \E s : Goto(s)
      BY <1>9 DEF VerifyTypeChecks, At
    <2> QED  BY <1>2, <2>1 DEF Others
  <1>10. CASE RevertRewrite
    <2>1. pos \in DOMAIN Files /\ process' = "running" /\ UNCHANGED optVars /\ disk' = Put(disk, File, current_text)
          /\ Report("bug", "none") /\ current_text \in Texts
      BY <1>10, <1>0 DEF RevertRewrite, At, TypeOK
    <2>2. current_text = original[File]
      BY <1>10, <2>1 DEF RevertRewrite, At, IInv, Tracking
    <2> QED  BY <1>2, <1>3, <1>4, <2>1, <2>2
  <1>11. CASE Restore
    <2>1. pos \in DOMAIN Files /\ process' = "running" /\ UNCHANGED optVars /\ disk' = Put(disk, File, current_text)
          /\ Report(Settled, "rejected") /\ current_text \in Texts
      BY <1>11, <1>0 DEF Restore, At, TypeOK
    <2>2. \/ current_text = original[File]
          \/ ~check_only /\ current_text = Rewritten(original[File])
      BY <1>11, <2>1 DEF Restore, At, IInv, Tracking
    <2>3. f = File => Truthful(f)'
      BY <1>3, <1>5, <2>1, <2>2
    <2> QED  BY <1>2, <1>3, <2>1, <2>3
  <1>12. CASE Cover \/ Model
    <2>1. /\ pos \in DOMAIN Files /\ process' = "running" /\ UNCHANGED optVars /\ disk' = disk
          /\ disk[File] = current_text
          /\ \/ current_text = original[File]
             \/ ~check_only /\ current_text = Rewritten(original[File])
      BY <1>12 DEF Cover, Model, ModelFails, ModelProposes, At, IInv, Tracking
    <2>2. \/ \E v \in {"none", "skipped", "rejected"} : Report(Settled, v)
          \/ \E s : Goto(s)
      BY <1>12 DEF Cover, Model, ModelFails, ModelProposes
    <2>3. ASSUME NEW v \in {"none", "skipped", "rejected"}, Report(Settled, v), f = File
          PROVE  Truthful(f)'
      BY <1>5, <2>1, <2>3
    <2> QED  BY <1>2, <2>1, <2>2, <2>3 DEF Others
  <1>13. CASE Judge
    <2>1. /\ pos \in DOMAIN Files /\ process' = "running" /\ UNCHANGED optVars /\ disk' = disk
          /\ \/ Report("changed", "accepted") \/ \E s : Goto(s)
      BY <1>13 DEF Judge, At
    <2>2. /\ disk'[File] \in Proposals(original[File]) \cup Proposals(Rewritten(original[File]))
          /\ ~check_only
      BY <1>13, <2>1 DEF Judge, At, IInv, Tracking, UseAi
    <2> QED  BY <1>2, <1>4, <2>1, <2>2 DEF Others
  <1>14. CASE Exit \/ UNCHANGED vars
    <2>1. UNCHANGED <<outcome, verdict, pos, disk, check_only, original>>
          /\ (pos \in DOMAIN Files => process' = process)
      BY <1>14 DEF Exit, vars, optVars
    <2> QED  BY <2>1 DEF Truthful, File
  <1> QED
    BY <1>6, <1>7, <1>8, <1>9, <1>10, <1>11, <1>12, <1>13, <1>14 DEF Next, MigrateFile, AtRest

(* A failed write or a kill damages at most the file it hits.               *)
LEMMA OneDamaged ==
  ASSUME IInv, WriteFails \/ Kill
  PROVE  \E f : Damaged' \subseteq Damaged \cup {f}
  <1>0. TypeOK
    BY DEF IInv
  <1>1. SUFFICES ASSUME NEW f \in FileSet, f # File, Truthful(f) PROVE Truthful(f)'
    BY DEF Damaged
  <1>2. CASE WriteFails
    <2>1. /\ pos \in DOMAIN Files /\ UNCHANGED optVars
          /\ \A g \in FileSet : g # File => disk'[g] = disk[g]
          /\ \E o, v : Report(o, v)
      BY <1>0, <1>2, FailedWrite DEF WriteFails, At
    <2> QED  BY <1>1, <2>1, OthersTruthful
  <1>3. CASE Kill
    <2>1. UNCHANGED <<outcome, verdict, pos, check_only, original>> /\ disk'[f] = disk[f]
      BY <1>0, <1>1, <1>3, FailedWrite DEF Kill, At, optVars
    <2> QED  BY <1>1, <2>1 DEF Truthful
  <1> QED  BY <1>2, <1>3

(* Damage grows with the faults only.                                       *)
LEMMA StepDamage == IInv /\ DamageBounded /\ [Next]_vars => DamageBounded'
  <1> SUFFICES ASSUME IInv, DamageBounded, [Next]_vars PROVE DamageBounded'
    OBVIOUS
  <1>1. Damaged \in SUBSET FileSet /\ IsFiniteSet(Damaged)
    BY FilesFinite, FS_Subset DEF Damaged
  <1>2. Cardinality(Damaged) \in Nat /\ Cardinality(Damaged) <= faults /\ faults \in Int
    BY <1>1, FS_CardinalityType DEF DamageBounded, IInv, TypeOK
  <1>3. CASE ~WriteFails /\ ~Kill
    <2>1. Cardinality(Damaged') <= Cardinality(Damaged) /\ Cardinality(Damaged') \in Nat
      BY <1>1, <1>3, NoDamage, FS_Subset, FS_CardinalityType
    <2>2. faults' = faults
      BY <1>3 DEF Next, EstablishBaselines, MigrateFile, Model, Exit, AtRest, vars, Scan,
           WriteRewrite, VerifyTypeChecks, RevertRewrite, Cover, WriteProposal, Judge, Restore,
           ModelFails, ModelProposes
    <2> QED  BY <1>2, <2>1, <2>2 DEF DamageBounded
  <1>4. CASE WriteFails \/ Kill
    <2>1. PICK f : Damaged' \subseteq Damaged \cup {f}
      BY <1>4, OneDamaged
    <2>2. IsFiniteSet(Damaged \cup {f})
          /\ Cardinality(Damaged \cup {f}) <= Cardinality(Damaged) + 1
          /\ Cardinality(Damaged \cup {f}) \in Nat
      BY <1>1, <1>2, FS_AddElement
    <2>3. Cardinality(Damaged') <= Cardinality(Damaged \cup {f}) /\ Cardinality(Damaged') \in Nat
      BY <2>1, <2>2, FS_Subset, FS_CardinalityType
    <2>4. faults' = faults + 1
      BY <1>4 DEF WriteFails, Kill
    <2> QED  BY <1>2, <2>2, <2>3, <2>4 DEF DamageBounded
  <1> QED  BY <1>3, <1>4

-----------------------------------------------------------------------------
(* Who is sent to the model *)

\* A file that migrate_file went on with, or changed, parsed before the run.
ParsedBefore ==
  /\ \A f \in FileSet : outcome[f] = "changed" => Parses(original[f])
  /\ process = "running" /\ pos \in DOMAIN Files /\ step \notin {"baselines", "scan"} =>
       Parses(original[File])

\* The text of f is a proposal for one that parsed.
Accepted(f) ==
  /\ Parses(original[f])
  /\ \E t \in {original[f], Rewritten(original[f])} : Parses(t) /\ disk[f] \in Proposals(t)

\* Only a report gives a verdict, and a file about to be sent may be.
Oracles ==
  /\ ParsedBefore
  /\ \A f \in FileSet :
       verdict[f] = "accepted" => outcome[f] # "pending" /\ (faults = 0 => Accepted(f))
  /\ faults = 0 /\ process = "running" /\ pos \in DOMAIN Files /\ step = "ask" =>
       Outcome(original, File).ok /\ OracleAtHand(File)
  /\ AskedOnlyIfCovered

(* A run without faults damages no file.                                    *)
LEMMA NoneDamaged ==
  ASSUME DamageBounded, faults = 0
  PROVE  Damaged = {}
  <1>1. IsFiniteSet(Damaged) /\ Cardinality(Damaged) \in Nat
    BY FilesFinite, FS_Subset, FS_CardinalityType DEF Damaged
  <1>2. Cardinality(Damaged) = 0
    BY <1>1 DEF DamageBounded
  <1> QED  BY <1>1, <1>2, FS_EmptySet

(* A companion of File on the disk of a run without faults was one before   *)
(* the run, or is one because its proposal was accepted.                    *)
LEMMA CompanionFound ==
  ASSUME IInv, Oracles, DamageBounded, faults = 0, pos \in DOMAIN Files, process = "running",
         NEW g \in FileSet \ {File}, TestedBy(disk, File, g)
  PROVE  OracleAtHand(File)
  <1>1. Damaged = {}
    BY NoneDamaged
  <1>2. Truthful(g)
    BY <1>1 DEF Damaged
  <1>3. CASE disk[g] = original[g]
    BY <1>3 DEF OracleAtHand, Covered, TestedBy
  <1>4. CASE outcome[g] = "changed" /\ disk[g] = Rewritten(original[g])
    <2>1. Parses(original[g]) /\ original[g] \in Texts
      BY <1>4 DEF Oracles, ParsedBefore, IInv, TypeOK, Disks
    <2>2. Imports(disk[g]) = Imports(original[g]) /\ (HasTests(disk[g]) <=> HasTests(original[g]))
      BY <2>1, <1>4, RewriteKeepsShape DEF KeepsShape, TestedBy
    <2> QED  BY <2>1, <2>2 DEF OracleAtHand, Covered, TestedBy
  <1>5. CASE verdict[g] = "accepted"
    BY <1>5 DEF OracleAtHand
  <1> QED  BY <1>2, <1>3, <1>4, <1>5 DEF Truthful

(* The file that Cover lets through has an oracle.                          *)
LEMMA CoverFindsOracle ==
  ASSUME IInv, Oracles, DamageBounded, faults = 0, At("cover"), UseAi, HasVerifiableCoverage,
         batch_baselines[File].ok
  PROVE  Outcome(original, File).ok /\ OracleAtHand(File)
  <1>1. pos \in DOMAIN Files /\ process = "running" /\ step = "cover" /\ File \in FileSet
    BY FileFacts DEF At, IInv
  <1>2. Outcome(original, File).ok
    BY <1>1 DEF IInv, BaselinesFixed
  <1>3. CASE HasTestBlock(current_text)
    <2>1. Parses(original[File]) /\ original[File] \in Texts
      BY <1>1 DEF Oracles, ParsedBefore, IInv, TypeOK, Disks
    <2>2. current_text \in {original[File], Rewritten(original[File])}
      BY <1>1 DEF IInv, Tracking
    <2>3. HasTests(original[File])
      BY <2>1, <2>2, <1>3, RewriteKeepsShape DEF KeepsShape, HasTestBlock
    <2> QED  BY <1>2, <2>1, <2>3 DEF OracleAtHand, Covered, TestedBy
  <1>4. CASE \E g \in FileSet \ {File} : ImportsFile(g, File) /\ HasTestBlock(disk[g])
    <2>1. PICK g \in FileSet \ {File} : TestedBy(disk, File, g)
      BY <1>4 DEF ImportsFile, HasTestBlock, TestedBy
    <2> QED  BY <1>1, <1>2, <2>1, CompanionFound
  <1> QED  BY <1>3, <1>4 DEF HasVerifiableCoverage

(* Reports of "changed" are about files that parsed.                        *)
LEMMA StepParsedBefore == IInv /\ ParsedBefore /\ [Next]_vars => ParsedBefore'
  <1> SUFFICES ASSUME IInv, ParsedBefore, [Next]_vars PROVE ParsedBefore'
    OBVIOUS
  <1>0. TypeOK
    BY DEF IInv
  <1>1. ASSUME pos \in DOMAIN Files, process = "running", UNCHANGED original,
               NEW o, NEW v, Report(o, v), o = "changed" => Parses(original[File])
        PROVE  ParsedBefore'
    BY <1>0, <1>1, FileFacts DEF ParsedBefore, Report, TypeOK
  <1>2. ASSUME pos \in DOMAIN Files, UNCHANGED <<original, process>>, NEW s, Goto(s),
               s = "scan" \/ Parses(original[File])
        PROVE  ParsedBefore'
    BY <1>2 DEF ParsedBefore, Goto, File
  <1>3. ASSUME UNCHANGED <<original, outcome, pos, step>>, process' = process \/ process' # "running"
        PROVE  ParsedBefore'
    BY <1>3 DEF ParsedBefore, File
  <1>4. ASSUME process = "running", pos \in DOMAIN Files, step \notin {"baselines", "scan"}
        PROVE  Parses(original[File])
    BY <1>4 DEF ParsedBefore
  <1>5. CASE EstablishBaselines
    BY <1>5, <1>2 DEF EstablishBaselines, At
  <1>6. CASE Scan
    <2>1. disk[File] = original[File] /\ pos \in DOMAIN Files /\ process = "running"
      BY <1>6 DEF Scan, At, IInv, Untouched, File, TypeOK
    <2> QED  BY <1>6, <2>1, <1>1, <1>2 DEF Scan, ScanParsed, optVars
  <1>7. CASE WriteRewrite \/ VerifyTypeChecks \/ WriteProposal
    BY <1>7, <1>4, <1>2 DEF WriteRewrite, VerifyTypeChecks, WriteProposal, At, optVars
  <1>8. CASE RevertRewrite \/ Restore
    BY <1>8, <1>4, <1>1 DEF RevertRewrite, Restore, At, optVars
  <1>9. CASE Cover \/ Judge
    BY <1>9, <1>4, <1>1, <1>2 DEF Cover, Judge, At, optVars
  <1>10. CASE Model
    BY <1>10, <1>4, <1>1, <1>2 DEF Model, ModelFails, ModelProposes, At, optVars
  <1>11. CASE WriteFails
    BY <1>11, <1>4, <1>1 DEF WriteFails, Writing, At, optVars
  <1>12. CASE Kill \/ Exit \/ AtRest \/ UNCHANGED vars
    BY <1>12, <1>3 DEF Kill, Exit, AtRest, vars, optVars
  <1> QED
    BY <1>5, <1>6, <1>7, <1>8, <1>9, <1>10, <1>11, <1>12 DEF Next, MigrateFile

(* What a step does to the files it is not about: nothing.                  *)
LEMMA OthersKept ==
  ASSUME IInv, [Next]_vars, ~Kill, NEW g \in FileSet, outcome[g] # "pending"
  PROVE  /\ disk'[g] = disk[g] \/ faults' # 0
         /\ verdict'[g] = verdict[g]
         /\ outcome'[g] # "pending"
  <1>0. TypeOK
    BY DEF IInv
  <1>1. ASSUME pos \in DOMAIN Files, NEW o, NEW v, Report(o, v)
        PROVE  verdict'[g] = verdict[g] /\ outcome'[g] # "pending"
    BY <1>0, <1>1, FileFacts DEF Report, TypeOK
  <1>2. ASSUME NEW s, Goto(s) PROVE verdict'[g] = verdict[g] /\ outcome'[g] # "pending"
    BY <1>2 DEF Goto
  <1>3. ASSUME pos \in DOMAIN Files, NEW t \in Texts, disk' = Put(disk, File, t)
        PROVE  disk'[g] = disk[g]
    <2>1. File \in FileSet /\ disk \in Disks /\ g # File
      BY <1>0, <1>3, FileFacts DEF TypeOK
    <2> QED  BY <1>3, <2>1, PutFacts
  <1>4. CASE EstablishBaselines \/ Scan \/ VerifyTypeChecks \/ Cover \/ Model \/ Judge
    <2>1. disk' = disk
      BY <1>4 DEF EstablishBaselines, Scan, VerifyTypeChecks, Cover, Model, ModelFails,
                  ModelProposes, Judge
    <2>2. pos \in DOMAIN Files /\ ((\E o, v : Report(o, v)) \/ \E s : Goto(s))
      BY <1>4 DEF EstablishBaselines, Scan, ScanParsed, VerifyTypeChecks, Cover, Model, ModelFails,
                  ModelProposes, Judge, At
    <2> QED  BY <2>1, <2>2, <1>1, <1>2
  <1>5. CASE WriteRewrite \/ RevertRewrite \/ WriteProposal \/ Restore
    <2>1. pos \in DOMAIN Files /\ ((\E o, v : Report(o, v)) \/ \E s : Goto(s))
      BY <1>5 DEF WriteRewrite, RevertRewrite, WriteProposal, Restore, At
    <2>2. Rewritten(current_text) \in Texts /\ current_text \in Texts /\ proposal \in Texts
      BY <1>0, MigrateAssumptions DEF TypeOK
    <2>3. disk'[g] = disk[g]
      BY <1>5, <1>3, <2>1, <2>2 DEF WriteRewrite, RevertRewrite, WriteProposal, Restore
    <2> QED  BY <2>1, <2>3, <1>1, <1>2
  <1>6. CASE WriteFails
    <2>1. faults' # 0
      BY <1>0, <1>6 DEF WriteFails, TypeOK
    <2>2. pos \in DOMAIN Files /\ \E o, v : Report(o, v)
      BY <1>6 DEF WriteFails, At
    <2> QED  BY <2>1, <2>2, <1>1
  <1>7. CASE Exit \/ AtRest \/ UNCHANGED vars
    BY <1>7 DEF Exit, AtRest, vars
  <1> QED
    BY <1>4, <1>5, <1>6, <1>7 DEF Next, MigrateFile

(* An oracle stays one while no write fails.                                *)
LEMMA OracleStays ==
  ASSUME IInv, Oracles, [Next]_vars, ~Kill, faults' = 0, NEW f \in FileSet, OracleAtHand(f)
  PROVE  OracleAtHand(f)'
  <1>1. original' = original
    BY DEF Next, EstablishBaselines, MigrateFile, Model, Exit, AtRest, vars, Scan, WriteRewrite,
           VerifyTypeChecks, RevertRewrite, Cover, WriteProposal, Judge, Restore, ModelFails,
           ModelProposes, WriteFails, optVars
  <1>2. CASE Covered(original, f)
    BY <1>1, <1>2 DEF OracleAtHand
  <1>3. CASE \E g \in FileSet \ {f} : verdict[g] = "accepted" /\ TestedBy(disk, f, g)
    <2>1. PICK g \in FileSet \ {f} : verdict[g] = "accepted" /\ TestedBy(disk, f, g)
      BY <1>3
    <2>2. outcome[g] # "pending"
      BY <2>1 DEF Oracles
    <2>3. disk'[g] = disk[g] /\ verdict'[g] = "accepted"
      BY <2>1, <2>2, OthersKept
    <2> QED  BY <2>1, <2>3 DEF OracleAtHand, TestedBy
  <1> QED  BY <1>2, <1>3 DEF OracleAtHand

(* Who is asked had an oracle when Cover looked, and keeps it.              *)
LEMMA StepOracles == IInv /\ DamageBounded /\ Oracles /\ [Next]_vars => Oracles'
  <1> SUFFICES ASSUME IInv, DamageBounded, Oracles, [Next]_vars PROVE Oracles'
    OBVIOUS
  <1>0. TypeOK
    BY DEF IInv
  <1>1. ParsedBefore'
    BY StepParsedBefore DEF Oracles
  <1>2. CASE Kill
    <2>1. faults' # 0 /\ UNCHANGED <<outcome, verdict>>
      BY <1>0, <1>2 DEF Kill, TypeOK
    <2> QED  BY <1>1, <2>1 DEF Oracles, AskedOnlyIfCovered
  <1>3. ASSUME ~Kill, NEW f \in FileSet, verdict'[f] = "accepted"
        PROVE  outcome'[f] # "pending" /\ (faults' = 0 => Accepted(f)')
    <2>0. original' = original /\ (faults' = 0 => faults = 0)
      BY <1>0, <1>3 DEF Next, EstablishBaselines, MigrateFile, Model, Exit, AtRest, vars, Scan,
         WriteRewrite, VerifyTypeChecks, RevertRewrite, Cover, WriteProposal, Judge, Restore,
         ModelFails, ModelProposes, WriteFails, optVars, TypeOK
    <2>1. CASE outcome[f] # "pending"
      BY <1>3, <2>0, <2>1, OthersKept DEF Oracles, Accepted
    <2>2. CASE outcome[f] = "pending"
      <3>1. verdict'[f] # verdict[f]
        BY <2>2, <1>3 DEF Oracles
      <3>2. Judge /\ Report("changed", "accepted")
        <4>1. ASSUME pos \in DOMAIN Files, NEW o, NEW v, Report(o, v) PROVE v = "accepted"
          BY <1>0, <1>3, <3>1, <4>1, FileFacts DEF Report, TypeOK
        <4>2. ~UNCHANGED verdict
          BY <3>1
        <4> HIDE <3>1
        <4>3. Judge
          BY <1>3, <4>1, <4>2 DEF Next, EstablishBaselines, MigrateFile, Model, Exit, AtRest, vars,
             Scan, ScanParsed, WriteRewrite, VerifyTypeChecks, RevertRewrite, Cover, WriteProposal,
             Restore, ModelFails, ModelProposes, WriteFails, Goto, At
        <4> QED  BY <4>2, <4>3 DEF Judge, Goto
      <3>3. pos \in DOMAIN Files /\ process = "running" /\ step = "judge" /\ disk' = disk
        BY <3>2 DEF Judge, At
      <3>4. f = File /\ outcome'[f] = "changed"
        BY <1>0, <3>1, <3>2, <3>3, FileFacts DEF Report, TypeOK
      <3>5. Accepted(f)
        BY <3>3, <3>4 DEF IInv, Tracking, Oracles, ParsedBefore, Accepted
      <3>6. Accepted(f)'
        BY <3>3, <3>5, <2>0 DEF Accepted
      <3> QED  BY <3>4, <3>6
    <2> QED  BY <2>1, <2>2
  <1>4. ASSUME ~Kill, faults' = 0, process' = "running", pos' \in DOMAIN Files, step' = "ask"
        PROVE  (Outcome(original, File).ok /\ OracleAtHand(File))'
    <2>1. ~WriteFails
      BY <1>0, <1>4 DEF WriteFails, TypeOK
    <2>2. (Cover /\ Goto("ask")) \/ UNCHANGED vars
      BY <1>4, <2>1 DEF Next, EstablishBaselines, MigrateFile, Model, Exit, AtRest, vars, Scan,
           ScanParsed, WriteRewrite, VerifyTypeChecks, RevertRewrite, Cover, WriteProposal, Judge,
           Restore, ModelFails, ModelProposes, Goto, Report
    <2>3. UNCHANGED <<original, pos, faults, process>> /\ File' = File
      BY <2>2 DEF Cover, Goto, vars, optVars, File
    <2>4. Outcome(original, File).ok /\ OracleAtHand(File)
      <3>1. CASE UNCHANGED vars
        BY <1>4, <2>3, <3>1 DEF Oracles, vars
      <3>2. CASE Cover /\ Goto("ask")
        <4>1. UseAi /\ HasVerifiableCoverage /\ batch_baselines[File].ok /\ At("cover")
          BY <3>2, <1>4 DEF Cover, Report, Goto
        <4> QED  BY <4>1, <1>4, <2>3, CoverFindsOracle
      <3> QED  BY <2>2, <3>1, <3>2
    <2>5. PICK f \in FileSet : f = File
      BY <1>0, <1>4, <2>3, FileFacts
    <2>6. OracleAtHand(f)'
      BY <2>4, <2>5, <1>4, OracleStays
    <2> QED  BY <2>3, <2>4, <2>5, <2>6 DEF OracleAtHand
  <1>5. ASSUME ~Kill, faults' = 0, NEW f \in asked' PROVE Outcome(original', f).ok /\ OracleAtHand(f)'
    <2>1. original' = original /\ faults = 0
      BY <1>0, <1>5 DEF Next, EstablishBaselines, MigrateFile, Model, Exit, AtRest, vars, Scan,
         WriteRewrite, VerifyTypeChecks, RevertRewrite, Cover, WriteProposal, Judge, Restore,
         ModelFails, ModelProposes, WriteFails, optVars, TypeOK
    <2>2. CASE f \in asked
      <3>1. f \in FileSet /\ Outcome(original, f).ok /\ OracleAtHand(f)
        BY <1>0, <2>1, <2>2 DEF Oracles, AskedOnlyIfCovered, TypeOK
      <3> QED  BY <3>1, <2>1, <1>5, OracleStays
    <2>3. CASE f \notin asked
      <3>1. At("ask") /\ f = File
        BY <1>5, <2>3 DEF Next, EstablishBaselines, MigrateFile, Model, Exit, AtRest, vars, Scan,
           WriteRewrite, VerifyTypeChecks, RevertRewrite, Cover, WriteProposal, Judge, Restore,
           ModelFails, ModelProposes, WriteFails
      <3>2. f \in FileSet /\ Outcome(original, f).ok /\ OracleAtHand(f)
        BY <1>0, <2>1, <3>1, FileFacts DEF At, Oracles
      <3> QED  BY <3>2, <2>1, <1>5, OracleStays
    <2> QED  BY <2>2, <2>3
  <1> QED
    BY <1>1, <1>2, <1>3, <1>4, <1>5 DEF Oracles, AskedOnlyIfCovered

-----------------------------------------------------------------------------
(* The theorems *)

(* Every variable has its type, and exactly the files before pos have been  *)
(* reported on: no file of the batch is passed over.                        *)
THEOREM TypeCorrect == Spec => []TypeOK
  <1>1. IInv => TypeOK
    BY DEF IInv
  <1> QED  BY <1>1, InitIInv, StepIInv, PTL DEF Spec

(* The inductive invariant holds.                                           *)
LEMMA Inductive == Spec => []IInv
  BY InitIInv, StepIInv, PTL DEF Spec

(* No file of the batch regresses while no write fails and the process is   *)
(* not killed, whatever the model proposes.                                 *)
THEOREM BatchStaysIntact == Spec => []BatchIntact
  <1>1. Init => Harmless
    BY DEF Init, Harmless, OnTrial
  <1>2. Harmless => BatchIntact
    BY DEF Harmless, BatchIntact
  <1> QED  BY <1>1, <1>2, Inductive, StepHarmless, PTL DEF Spec

(* Each failed write and each kill costs at most one file.                  *)
THEOREM DamageStaysBounded == Spec => []DamageBounded
  <1>1. Init => DamageBounded
    <2> SUFFICES ASSUME Init PROVE DamageBounded
      OBVIOUS
    <2>1. Damaged = {}
      BY DEF Init, Damaged, Truthful
    <2> QED  BY <2>1, FS_EmptySet DEF Init, DamageBounded
  <1> QED  BY <1>1, Inductive, StepDamage, PTL DEF Spec

(* The invariant about oracles holds.                                       *)
LEMMA OraclesHold == Spec => []Oracles
  <1>1. Init => Oracles
    BY DEF Init, Oracles, ParsedBefore, AskedOnlyIfCovered
  <1> QED  BY <1>1, Inductive, DamageStaysBounded, StepOracles, PTL DEF Spec

(* Whatever the model proposes, a file is only sent to it if it             *)
(* type-checked before the run and some test block speaks of it: one that   *)
(* was there before the run, or one in a text that was itself accepted.     *)
THEOREM AskedOnlyWithOracle == Spec => []AskedOnlyIfCovered
  <1>1. Oracles => AskedOnlyIfCovered
    BY DEF Oracles
  <1> QED  BY <1>1, OraclesHold, PTL

(* --check writes to no file.                                               *)
THEOREM CheckNeverWrites == Spec => CheckOnlyReads
  <1>1. IInv /\ [Next]_vars => [check_only => disk' = disk]_vars
    <2> SUFFICES ASSUME IInv, Next, check_only PROVE disk' = disk
      OBVIOUS
    <2>1. ~UseAi
      BY DEF UseAi
    <2>2. \A s \in {"write", "verify", "revert", "propose", "judge", "restore"} : ~At(s)
      BY <2>1 DEF At, IInv, Tracking
    <2> QED
      BY <2>2 DEF Next, EstablishBaselines, MigrateFile, Model, Exit, AtRest, vars, Scan,
           WriteRewrite, VerifyTypeChecks, RevertRewrite, Cover, WriteProposal, Judge, Restore,
           ModelFails, ModelProposes, WriteFails, Kill, Writing
  <1> QED  BY <1>1, Inductive, PTL DEF Spec, CheckOnlyReads
=============================================================================
