CONSTANTS
  Cap = 4
  Mod = 8
  MaxBytes = 18
SPECIFICATION RingSpec
INVARIANTS NothingTorn
