CONSTANTS
  N = 2
  MaxChannels = 2
  HighWater = 1
  Budget = 1
  MaxData <- Requests
SPECIFICATION FairSpec
INVARIANTS StreamsInOrder TablesInStep
PROPERTIES EndsArePassedOn
CHECK_DEADLOCK FALSE
