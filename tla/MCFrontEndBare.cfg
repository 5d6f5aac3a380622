CONSTANTS
  ProgramOf <- Parse
  RenamedStatement <- Renamed
  Sessions <- MCBareSessions
SPECIFICATION Spec
INVARIANT PackageRootFound
