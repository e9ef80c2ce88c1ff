SPECIFICATION ChainSpec
CONSTANTS
  f1 = f1
  f2 = f2
  backend = backend
  other = other
  None = None
  Fixtures <- MCFixtures
  Pubkeys <- MCPubkeys
  Margins <- MCMargins
  MaxMarginBps = 1
  MaxCheckCount = 3
  MaxTotal = 5
  Checks <- MCChecks
  Backend = backend
  Clients = {TRUE, FALSE}
  Concurrency = 2
  MaxAttempts = 2
  MaxFaults = 2
  MaxCrashes = 1
INVARIANTS
  TypeOK
  OnlyBackendWrites
  CountersBoundAccounts
  CountersAgree
  OlderVerdictForCause
PROPERTIES
  CountedOnce
CHECK_DEADLOCK FALSE
