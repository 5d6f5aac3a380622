SPECIFICATION FairSpec
CONSTANTS
  summarize = summarize
  triage = triage
  lookup = lookup
  mailer = mailer
  ledger = ledger
  ghost = ghost
  NoClause = NoClause
  NoLimit = NoLimit
  Infers <- MCInfers
  Tools <- MCTools
  UnknownNames <- MCUnknownNames
  Permissions <- MCPermissions
  Mocked <- MCMocked
  WithBody <- MCWithBody
  Budgets <- MCBudgets
  MaxAwaits = 2
  MaxDepth = 5
  MaxCalls = 4
  MaxRequests = 2
INVARIANTS
  TypeOK
  StackDiscipline
  CallsAreAccounted
  TracesNumberCalls
  ToolsWithinPermissions
  MocksWin
  HistoryIsTraced
  IssuedBounded
PROPERTIES
  NoCallCountedBeyondBudget
  ImplementsCallBudget
  TimedSessionEnds
