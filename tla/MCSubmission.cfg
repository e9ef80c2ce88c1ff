SPECIFICATION FairSpec
CONSTANTS
  j1 = j1
  j2 = j2
  s1 = s1
  s2 = s2
  None = None
  Jobs <- MCJobs
  Slots <- MCSlots
  FlaggedJobs <- MCFlagged
  Modes <- BothModes
  ConfigRoles <- BothRoles
  MaxAttempts = 2
  MaxStalledCount = 1
  MaxFaults = 2
  MaxCrashes = 1
INVARIANTS
  TypeOK
  RowsShowOwnTransactions
  SubmissionsBounded
  OneRunPerJob
  CompletedRowsAgree
PROPERTIES
  FinishedIsFinal
  JobsSettle
CHECK_DEADLOCK FALSE
