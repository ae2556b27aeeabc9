SPECIFICATION MCSpec
CONSTANTS
  all = all
  one = one
  Null = Null
  Parts = {"sessions", "mail", "rss", "posts", "pruning", "screen", "schema"}
  MaxTurns = 4
  MaxTries = 2
  MaxEarlyEnds = 1
  FaultyTurns = {2}
  Mails = {1, 2}
  Route <- MCRoute
  Parcels = 2
  MaxMailJobs = 2
  MaxTroubles = 2
  Articles = {1, 2}
  Owners <- MCOwners
  Feed <- MCFeed
  MaxItems = 2
  Room = 2
  MaxSize = 3
  MaxAttempts = 1
  MaxBatches = 2
  MaxCrashes = 1
  MaxFaults = 1
  MaxRevisions = 1
  Captures <- MCCaptures
  Page = {0, 1}
  Found = {0, 1, 2}
  Limit = 1
  MaxPostCrashes = 1
  Jobs = {1, 2}
  Chunks = 2
  BatchSize = 2
  MaxRuns = 2
  Pictures <- MCPictures
  Day <- MCDay
  Broken = {3}
  FullBatch = 2
  MaxUpsets = 2
  Procs = {1, 2}
  Rows <- MCRows
  Session <- MCSession
  Legacy = {1, 2, 3}
  MaxOpenings = 1
INVARIANTS
  SessionsExact
  MailInOneThread
  ReadWasDelivered
  ArchiveTruthful
  AuditComplete
  PicturesReported
  UpgradeKeepsLedger
CHECK_DEADLOCK FALSE
