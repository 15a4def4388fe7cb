\* Two processes that share a crawl with a page limit, as in the test.
SPECIFICATION Spec
CONSTANTS
  u1 = u1
  u2 = u2
  u3 = u3
  w1 = w1
  w2 = w2
  p1 = p1
  p2 = p2
  NoEntry = NoEntry
  Free = Free
  Urls <- TwoUrls
  Processes = {p1, p2}
  Workers = {w1, w2}
  ProcessOf <- OwnProcess
  SeedUrl = u1
  SeedScore <- MinusOne
  Links <- StarLinks
  SitemapUrls = {}
  RedirectsTo <- NoRedirects
  DepthIsZero = FALSE
  Overrunning = {}
  PageLimit = 2
  MaxRetryPending = 1
  MaxCrashes = 0
INVARIANT DoneWithinLimit
CHECK_DEADLOCK FALSE
