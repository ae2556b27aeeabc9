SPECIFICATION Spec
CONSTANTS
  Setups <- MCSetups
  PageSize = 1
  MaxMessages = 3
  MaxTroubles = 2
INVARIANTS
  ExactlyOneTurn
CHECK_DEADLOCK FALSE
