\* Two workers save while the crawl goes on; lists longer than one page; a file
\* is loaded into a Redis of its own or the old one, with a URL gone out of scope.
SPECIFICATION Spec
CONSTANTS
  u1 = u1
  u2 = u2
  Urls = {u1, u2}
  Processes = {1}
  PageLimit = 0
  MaxRetryPending = 1
  NoEntry = NoEntry
  Free = Free
  w1 = w1
  w2 = w2
  Workers = {w1, w2}
  Score <- ScoreOf
  Rank <- RankOf
  Seed = u1
  Redirects = {u2}
  Inc = 1
  Restarts <- HowLoaded
  SaveStateInterval = 1
  SaveStateHistory = 1
  MaxTime = 1
SYMMETRY Symmetry
INVARIANTS
  
  StaysSeen
  FilesKept
CHECK_DEADLOCK FALSE
