SPECIFICATION Spec
CONSTANTS
  Setups <- MCThreadSetups
  PageSize = 1
  MaxMessages = 3
  MaxTroubles = 2
INVARIANT
  ArchivedThreadsRecovered
CHECK_DEADLOCK FALSE
