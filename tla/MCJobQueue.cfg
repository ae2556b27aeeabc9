SPECIFICATION Spec
CONSTANTS
  Jobs = {j1, j2, j3}
  Sessions = {s1, s2}
  Keys = {k1}
  ActiveOnlyKeys = {k1}
  MaxAttempts = 2
  MaxChunks = 1
  Null = Null
SYMMETRY Symmetry
INVARIANTS
  TypeOK
  SessionSerial
  OneActivePerSession
  LedgersAgree
  SettledByNewest
PROPERTIES
  SettledForever
  ImplementsSessionFifo
