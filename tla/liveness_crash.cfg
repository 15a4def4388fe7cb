\* Two processes, one of which crashes and may be started again.
SPECIFICATION FairSpec
CONSTANTS
  u1 = u1
  u2 = u2
  u3 = u3
  w1 = w1
  w2 = w2
  p1 = p1
  p2 = p2
  NoEntry = NoEntry
  Free = Free
  Urls <- OneUrl
  Processes = {p1, p2}
  Workers = {w1, w2}
  ProcessOf <- OwnProcess
  SeedUrl = u1
  SeedScore <- MinusOne
  Links <- StarLinks
  SitemapUrls = {u1}
  RedirectsTo <- NoRedirects
  DepthIsZero = FALSE
  Overrunning = {}
  PageLimit = 0
  MaxRetryPending = 1
  MaxCrashes = 1
PROPERTIES
  Termination
  
CHECK_DEADLOCK FALSE
