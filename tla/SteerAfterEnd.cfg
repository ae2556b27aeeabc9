SPECIFICATION Spec
CONSTANTS
  q1 = q1
  q2 = q2
  Steers = {q1}
  MaxRuns = 1
  MaxMishaps = 0
INVARIANTS
  SteersReachWork
CHECK_DEADLOCK FALSE
