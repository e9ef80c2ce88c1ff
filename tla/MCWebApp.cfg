SPECIFICATION WebSpec
CONSTANTS
  None = None
  f1 = f1
  f2 = f2
  r1 = r1
  r2 = r2
  m1 = m1
  m2 = m2
  c1 = c1
  c2 = c2
  c3 = c3
  s1 = s1
  s2 = s2
  Slots <- MCSlots
  Limits <- MCLimits
  Processes = {p, q}
  Files <- MCFiles
  Repeatable <- MCRepeatable
  MaxFaults = 2
  Fixtures <- MCFixtures
  Scenarios <- MCScenarios
  Calls <- MCCalls
  Loads <- MCLoads
  FeedTime = 2
  WorkerFaults = 2
  MaxChecks = 2
  MaxSnaps = 2
  PageSize = 2
  ListCap = 4
  MaxRows = 4
  MaxLive = 1
  MaxFailures = 1
  Keys = {k}
  MaxRequests = 2
  WindowMs = 2
  MaxTime = 6
  MaxPerMs = 3
  CacheSize = 1
  Evicted = 1
  MaxAttempts = 2
  MaxStalledCount = 1
  Modes = {TRUE, FALSE}
  Schemas <- MCSchemas
  Parts = {"api", "feed", "rate", "migrations", "worker"}
SYMMETRY Symmetry
INVARIANTS
  WebTypeOK
  AnswersCohere
  OnlyWholeAnswersCached
  PagesMissOnlySameMillisecond
  AtMostTwiceTheLimit
  JournalFollowsTables
  LeftOutForCause
  ProofsFollowSubmissions
PROPERTIES
  MoreIsNeverShown
CHECK_DEADLOCK FALSE
