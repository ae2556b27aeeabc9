SPECIFICATION Spec
CONSTANTS
  Jobs = {j1, j2, j3}
  Sessions = {s1, s2}
  Keys = {}
  ActiveOnlyKeys = {}
  MaxAttempts = 2
  MaxChunks = 1
  Null = Null
  MaxCrashes = 1
SYMMETRY Symmetry
INVARIANTS
  OneAttachedAgent
CHECK_DEADLOCK FALSE
