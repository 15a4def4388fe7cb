\* One or two workers, all links among a seed, two pages in its scope and two out of it, all scopes
\* with a limited or unlimited depth and up to two hops, with and without a sitemap and an exclusion.
SPECIFICATION Spec
CONSTANTS
  s = s
  a = a
  b = b
  x = x
  y = y
  w1 = w1
  w2 = w2
  Idle = Idle
  Seed = s
  Workers = {w1, w2}
  MAX_DEPTH = 6
  Urls <- MCUrls
  InScope <- MCInScope
  Configs <- MCConfigs
  Graphs <- MCGraphs
  Sitemaps <- MCSitemaps
SYMMETRY Symmetry
INVARIANTS
  AcceptedStaysInScope
  
  
 
CHECK_DEADLOCK FALSE
