SPECIFICATION LiveSpec
CONSTANTS
  rss = rss
  cron = cron
  plain = plain
  Jobs <- AllJobs
  RssJobs <- RssOnly
  Mode <- JobModes
  Chunks <- JobChunks
  MaxFaults = 1
  MaxCrashes = 1
INVARIANTS
  StatusTruthful
  ReadInOnePlace
  ClaimMatchesOutcome
PROPERTIES
  RssClaimSettles
