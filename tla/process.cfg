\* One process with two workers that share two pages, Redis gone once, a tunnel
\* that breaks twice, with each seed, command line and PROXY_SERVER.
SPECIFICATION FairSpec
CONSTANTS
  w1 = w1
  w2 = w2
  Phone = Phone
  Agent = Agent
  None = None
  Devices = {Phone}
  Chrome = Chrome
  UnlimitedDepth = 1000000
  PageOpTimeout = 5
  MaxLevels = 2
  Workers = {w1, w2}
  Params <- CommandLines
  OldSeeds <- MCSeeds
  EnvProxies = {None, "ssh"}
  HasStorage = FALSE
  SshWait = 1
  MaxAttempts = 2
  MaxPages = 1
  MaxOutages = 1
  MaxBreaks = 2
  Running = Running
INVARIANTS
  CanceledIsTold
  NeverDirect
  InterruptedMeansGone
  
PROPERTIES
  CrawlIsLeft
  TunnelRestored
CHECK_DEADLOCK FALSE
