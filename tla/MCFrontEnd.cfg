CONSTANTS
  ProgramOf <- Parse
  RenamedStatement <- Renamed
  Sessions <- MCSessions
SPECIFICATION Spec
INVARIANTS
  FlatProgram
  TrueErrors
  FormatKeeps
  MeaningKept
PROPERTY CommandsEnd
