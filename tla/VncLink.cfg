SPECIFICATION FairSpec
CONSTANTS
  Profiles <- FewProfiles
  Certs = {"ca", "old", "new"}
  Trusted = {"ca"}
  Pinned = {"", "old"}
  MaxReconnects = 1
  MaxEvents = 1
INVARIANTS SecretsAreSafe TabAgrees
PROPERTIES RefusalIsLast WaitsEnd
CHECK_DEADLOCK FALSE
