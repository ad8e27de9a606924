CONSTANT
  Limits = {0, 2}
SPECIFICATION FairSpec
INVARIANTS LimitKept TabTellsTheTruth
PROPERTIES AttemptsAreWanted WaitsEnd
