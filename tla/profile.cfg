\* Two requests of any kind and a page load, with and without a shutdown timer,
\* interactive and automated.
SPECIFICATION FairSpec
CONSTANTS
  a = a
  b = b
  r1 = r1
  r2 = r2
  l1 = l1
  Requests = {r1, r2}
  Loads = {l1}
  Main = Main
  Origins = {a, b}
  Cookies = {a}
  OriginOf <- Owner
  Blank = Blank
  Params <- CommandLines
  HasStorage = TRUE
  ExitDelay = 0
  Running = Running
INVARIANTS
  SuccessMeansKept
  
  PingsKeepAlive

  
CHECK_DEADLOCK FALSE
