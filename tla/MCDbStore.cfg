SPECIFICATION Spec
CONSTANTS
  server = server
  worker = worker
  tickets = tickets
  jobs = jobs
  Torn = Torn
  NoCall = NoCall
  TableNames <- MCTableNames
  Procs <- MCProcs
  Uses <- MCUses
  Ids = {i1, i2}
  Records = {r1, r2}
  MaxCalls = 3
  MaxFaults = 1
SYMMETRY IdsAndRecords
INVARIANTS
  UniqueIds
PROPERTY
  ImplementsAtomicTables
