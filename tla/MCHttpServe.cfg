SPECIFICATION FairSpec
CONSTANTS
  Clients = {c1, c2}
  Messages <- MCMessages
  Handler <- MCHandler
  Files <- MCFiles
  Root <- MCRoot
  Variants = {"Positive"}
  Texts = {"Positive", "7"}
  Reads <- MCReads
  Unreadable = {"not json"}
  Statuses = {200, 202, 400, 429}
  Seconds = {30}
  NoHeader = NoHeader
  MaxModelCalls = 1
  Chunk = 3
  HeaderLimit = 3
  c1 = c1
  c2 = c2
INVARIANTS
  WholeRequests
  RightReplies
  WireBounded
PROPERTIES
  EveryoneServed
CHECK_DEADLOCK FALSE
