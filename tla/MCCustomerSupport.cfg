SPECIFICATION SupportSpec
CONSTANTS
  server = server
  worker = worker
  tickets = tickets
  jobs = jobs
  t1 = t1
  t2 = t2
  Torn = Torn
  NoCall = NoCall
  TableNames <- MCTableNames
  Procs <- MCProcs
  Uses <- MCUses
  Ids <- MCIds
  Records <- MCRecords
  MaxCalls = 6
  MaxFaults = 1
INVARIANTS
  TicketsKept
  FollowUpsHaveTickets
  ProcessedWasEmailed
