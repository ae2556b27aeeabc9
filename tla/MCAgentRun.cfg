SPECIFICATION LiveSpec
CONSTANTS
  q1 = q1
  q2 = q2
  Steers = {q1, q2}
  MaxRuns = 1
  MaxMishaps = 2
INVARIANTS
  SteerTruthful
  StopHonoured
PROPERTIES
  EveryoneAnswered
CHECK_DEADLOCK FALSE
