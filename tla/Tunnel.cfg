CONSTANTS
  N = 1
  HighWater = 2
  Chunk = 2
  Room = 1
  MaxData = 4
SPECIFICATION FairSpec
INVARIANTS StreamsWhole CookieBeforeDisplay BacklogBounded
PROPERTIES EndsAfterEof
