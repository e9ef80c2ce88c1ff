SPECIFICATION FairIngestionSpec
CONSTANTS
  NumEvents = 3
  Length <- MCLength
  MaxRetries = 1
  NumFixtures = 2
INVARIANTS
  IngestionTypeOK
  DeliveredInOrder
  LostOnlyBehindHeartbeat
  StreamAfterSync
  SubscriptionsBounded
PROPERTIES
  QuietAfterDisconnect
  StartSettles
  StreamComesBack
CHECK_DEADLOCK FALSE
