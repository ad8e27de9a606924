CONSTANTS
  Sessions = {s1, s2}
  MaxHandle = 2
  Addresses = 1
  Keys = {k1, k2}
  Stored = {}
  Profiles <- MCProfiles
SPECIFICATION KhFairSpec
INVARIANTS HandlesKept TrustHeld
PROPERTIES CancelEnds
