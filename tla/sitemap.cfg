\* An index whose files list each other again, at /sitemap.xml or in robots.txt; a limit that is met
\* only if files are read twice, an entry out of range, files that may fail.
SPECIFICATION FairSpec
CONSTANTS
  s0 = s0
  s1 = s1
  s2 = s2
  s3 = s3
  g1 = g1
  g2 = g2
  g3 = g3
  Sitemaps = {s0, s1, s2, s3}
  Pages = {g1, g2, g3}
  Entries <- Tree
  OutOfRange = {g3}
  Listed = {s1, s3}
  SitemapXml = s0
  Concurrency = 2
  Limit = 3
  Failing = {s0}
  Jobs = {1, 2, 3, 4, 5, 6}
INVARIANTS
  CountWithinLimit
  DoneMeansRead
PROPERTY
  EndComes
CHECK_DEADLOCK FALSE
