SPECIFICATION Spec
CONSTANTS
  None = None
  OddsVectors <- MCVectors
  MaxOdds = 14
  MaxStake = 4
INVARIANTS ExactThresholdIsConsistent
CHECK_DEADLOCK FALSE
