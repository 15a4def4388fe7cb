\* Two processes, one page that links to an excluded one and back; the operator tells them one by one.
SPECIFICATION Spec
CONSTANTS
  u1 = u1
  u2 = u2
  w1 = w1
  w2 = w2
  p1 = p1
  p2 = p2
  NoEntry = NoEntry
  Free = Free
  Urls <- TwoUrls
  Processes = {p1, p2}
  Workers = {w1, w2}
  ProcessOf <- OwnProcess
  SeedUrl = u1
  SeedScore <- MinusOne
  Links <- BothWays
  Excluded = {u2}
  PageLimit = 0
  MaxRetryPending = 1
INVARIANTS
  NoExcludedPageStarts
  OthersUnharmed
PROPERTY OthersFollowFrontier
CHECK_DEADLOCK FALSE
