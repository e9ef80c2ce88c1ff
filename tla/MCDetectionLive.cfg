SPECIFICATION FairSpec
CONSTANTS
  f1 = f1
  f2 = f2
  h1 = h1
  d1 = d1
  d2 = d2
  r1 = r1
  None = None
  Fixtures <- MCFixtures
  Hashes <- MCHashes
  SingleOutcomeSets <- MCSingle
  CoveringSets <- MCCovering
  Flagged <- MCFlagged
  Updates <- MCUpdates
  Deliveries <- MCTwo
  Replays <- MCReplays
  Cut <- MCReplays
  MaxCrashes = 1
  MaxExpiries = 1
PROPERTY HandlersSettle
CHECK_DEADLOCK FALSE
