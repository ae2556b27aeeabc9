SPECIFICATION LiveSpec
CONSTANTS
  rss = rss
  cron = cron
  plain = plain
  Jobs <- RssOnly
  RssJobs <- RssOnly
  Mode <- RssMode
  Chunks <- RssChunks
  MaxFaults = 0
  MaxCrashes = 1
PROPERTIES
  AmbiguousReleasesClaim
