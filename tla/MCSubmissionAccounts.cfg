SPECIFICATION FairSpec
CONSTANTS
  j1 = j1
  j2 = j2
  s1 = s1
  s2 = s2
  None = None
  Jobs <- MCJobs
  Slots <- MCSlots
  FlaggedJobs <- MCFlagged
  Modes <- LiveMode
  ConfigRoles <- CodeRole
  MaxAttempts = 2
  MaxStalledCount = 1
  MaxFaults = 0
  MaxCrashes = 0
PROPERTY LiveSubmissionIsSent
CHECK_DEADLOCK FALSE
