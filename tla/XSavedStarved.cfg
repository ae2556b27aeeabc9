SPECIFICATION MCSpec
CONSTANTS
  j1 = j1
  j2 = j2
  s1 = s1
  Null = Null
  c1 = c1
  c2 = c2
  r1 = r1
  r2 = r2
  r3 = r3
  r4 = r4
  p = p
  q = q
  NoProvider = NoProvider
  main = main
  other = other
  bot = bot
  i1 = i1
  e1 = e1
  Parts = {"posts"}
  ToolRequests <- MCToolRequests
  MaxToolMishaps = 2
  IntervalJobs <- MCIntervalJobs
  CronJobs <- MCCronJobs
  Interval = 2
  Hour = 2
  MaxCronMishaps = 1
  Jobs <- MCJobs
  Sessions <- MCSessions
  Keys = {}
  ActiveOnlyKeys = {}
  MaxAttempts = 2
  MaxChunks = 1
  MaxCrashes = 1
  Captures <- MCCaptures
  Page = {}
  Found = {1}
  Limit = 1
  MaxPostCrashes = 0
  Runs <- MCRuns
  Calls <- MCCalls
  Parent <- MCParent
  Providers <- MCProviders
  Provider <- MCProvider
  Limits = {1, 2}
  Lanes <- MCLanes
  Lane <- MCLane
PROPERTIES
  FailuresRetried
CHECK_DEADLOCK FALSE
