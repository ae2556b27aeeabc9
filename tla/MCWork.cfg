SPECIFICATION MCSpec
CONSTANTS
  Job = Job
  Session = Session
  Null = Null
  i1 = i1
  i2 = i2
  Torn = Torn
  Parts = {"worker", "issues", "export"}
  Setups <- MCSetups
  MaxAttempts = 3
  MaxPrompts = 2
  MaxCrashes = 1
  MaxHitches = 3
  Issues <- MCIssues
  MaxVersions = 5
  MaxSlips = 1
  Turns <- MCTurns
  BatchSize = 2
  MaxExportAttempts = 2
  MaxTicks = 3
  MaxMishaps = 2
INVARIANTS
  AttemptsAgree
  SourceTold
  AgentsFeedNobody
  ExportedInOrder
PROPERTIES
  ImplementsPoller
CHECK_DEADLOCK FALSE
