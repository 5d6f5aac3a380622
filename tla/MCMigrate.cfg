SPECIFICATION Spec
CONSTANTS
  base = base
  checks = checks
  lib = lib
  Files <- MCFiles
  Texts <- MCTexts
  Cut <- MCCut
  Parses <- MCParses
  Rewritten <- MCRewritten
  HasTests <- MCHasTests
  Imports <- MCImports
  Outcome <- MCOutcome
  Initial <- MCInitial
  Proposals <- MCProposals
  MaxFaults = 2
INVARIANTS
  TypeOK
  BatchIntact
  DamageBounded
  AskedOnlyIfCovered
PROPERTY
  CheckOnlyReads
