\* Two processes of one worker each, one crash, two pages that link to each other.
SPECIFICATION Spec
CONSTANTS
  u1 = u1
  u2 = u2
  u3 = u3
  w1 = w1
  w2 = w2
  p1 = p1
  p2 = p2
  NoEntry = NoEntry
  Free = Free
  Urls <- TwoUrls
  Processes = {p1, p2}
  Workers = {w1, w2}
  ProcessOf <- OwnProcess
  SeedUrl = u1
  SeedScore <- MinusOne
  Links <- StarLinks
  SitemapUrls = {}
  RedirectsTo <- NoRedirects
  DepthIsZero = FALSE
  Overrunning = {}
  PageLimit = 0
  MaxRetryPending = 1
  MaxCrashes = 1
INVARIANTS
  OneCopy
  HandOutsBounded
  NothingLost
  FailedIsFinal
  NoStranded
PROPERTY ImplementsFrontier
CHECK_DEADLOCK FALSE
