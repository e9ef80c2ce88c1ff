SPECIFICATION IngestionSpec
CONSTANTS
  NumEvents = 3
  Length <- MCLength
  MaxRetries = 0
  NumFixtures = 1
INVARIANTS
  ReceivedIsDelivered
CHECK_DEADLOCK FALSE
