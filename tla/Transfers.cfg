SPECIFICATION FairSpec
CONSTANTS
  Sizes <- SmallSizes
  MaxTransfers = 2
  Troubles = {"move", "connect"}
INVARIANTS QueueSound OneVersion
 
CHECK_DEADLOCK FALSE
