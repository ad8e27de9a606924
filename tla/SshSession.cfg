CONSTANTS
  RingCap = 1
  MaxStarts = 2
  MaxOut = 2
  MaxKeys = 1
SPECIFICATION FairSpec
INVARIANTS NoAuthBeforeTrust NothingCrosses
PROPERTIES OneWorkerAtATime ImplementsSessionLife WaitsEnd
