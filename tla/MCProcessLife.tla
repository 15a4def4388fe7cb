--------------------------- MODULE MCProcessLife --------------------------
(***************************************************************************)
(* Values of the constants of ProcessLife for TLC: seeds that differ from  *)
(* the defaults in what their setting up looks at, and command lines that  *)
(* differ in what ends a process.                                          *)
(***************************************************************************)
EXTENDS ProcessLife

CONSTANTS w1, w2, Phone, Agent

Line(profile, clean, log, fail, restarts) ==
  [profile |-> profile, redisStoreClean |-> clean, logErrorsToRedis |-> log,
   failOnFailedSeed |-> fail, restartsOnError |-> restarts]

CommandLines ==
  {Line(None, FALSE, FALSE, FALSE, FALSE),
   Line("http", TRUE, TRUE, TRUE, FALSE),
   Line("storage", FALSE, TRUE, FALSE, TRUE)}

Path(there, level) ==
  [online |-> FALSE, there |-> there, files |-> {[level |-> level, js |-> TRUE]}]

\* Seeds that come to a crawl by a tunnel or by a proxy, with limits, and seeds
\* that do not come to one.
MCSeeds ==
  {[SeedDefaults EXCEPT !.proxyServer = "ssh", !.maxPageLimit = 5,
                        !.enableBehaviors = TRUE, !.behaviors = {"autoscroll"}],
   [SeedDefaults EXCEPT !.proxyServer = "http", !.scopeType = "page", !.pageLimit = 3,
                        !.maxPageLimit = 2, !.mobileDevice = Phone,
                        !.customBehaviors = {Path(TRUE, 1)}],
   [SeedDefaults EXCEPT !.mobileDevice = Agent],
   [SeedDefaults EXCEPT !.validUrl = FALSE, !.userAgent = Agent],
   [SeedDefaults EXCEPT !.scopeType = None, !.netIdleWait = 0,
                        !.customBehaviors = {Path(FALSE, 0)}]}
===========================================================================
