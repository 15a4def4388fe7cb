\* Two processes of one worker each, a page limit, redirects that become extra
\* seeds, and a page that can crash or outlive its time limit.
SPECIFICATION Spec
CONSTANTS
  u1 = u1
  u2 = u2
  u3 = u3
  w1 = w1
  w2 = w2
  p1 = p1
  p2 = p2
  NoEntry = NoEntry
  Free = Free
  Urls <- ThreeUrls
  Processes = {p1, p2}
  Workers = {w1, w2}
  ProcessOf <- OwnProcess
  SeedUrl = u1
  SeedScore <- MinusOne
  Links <- ForkLinks
  SitemapUrls = {}
  RedirectsTo <- RedirectsBack
  DepthIsZero = TRUE
  Overrunning = {u2}
  PageLimit = 2
  MaxRetryPending = 0
  MaxCrashes = 0
INVARIANTS
  Accounts
  PagesWithinAllowance
CHECK_DEADLOCK FALSE
