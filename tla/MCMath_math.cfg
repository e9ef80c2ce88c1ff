SPECIFICATION Spec
CONSTANTS
  None = None
  OddsVectors <- MCVectors
  MaxOdds = 14
  MaxStake = 4
INVARIANTS FlagMeansArbitrage ReportedMarginAgrees
CHECK_DEADLOCK FALSE
