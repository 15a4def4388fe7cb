---------------------------- MODULE ProcessLife ---------------------------
(***************************************************************************)
(* The life of a process: main.ts from its connection to MongoDB to the    *)
(* end of the crawl, with what may end it before.  Around it are the       *)
(* browser, which may leave, the Redis server, which may go and come back, *)
(* the SSH tunnel of a proxy, which is started again when it breaks, and   *)
(* the orders that others leave in Redis.  What the workers do with pages  *)
(* is in CrawlWorkers and WorkerPage; here they are what they mean for the *)
(* process.  A step lies between two awaits.                               *)
(***************************************************************************)
EXTENDS Settings

CONSTANTS
  Workers,       \* the workers of the process
  Params,        \* command lines: profile, redisStoreClean, ...
  OldSeeds,      \* seeds that MongoDB may hold from before
  EnvProxies,    \* values of PROXY_SERVER
  HasStorage,    \* initStorage() returns a storage
  SshWait,       \* ticks of SSH_WAIT_TIMEOUT
  MaxAttempts,   \* connections that retryStrategy tries
  MaxPages,      \* bound: pages the queue has for this process
  MaxOutages,    \* bound: times that the Redis server goes away
  MaxBreaks,     \* bound: times that the tunnel breaks
  Running        \* the exit code of a process that runs

CommandLine == [profile : {None, "http", "storage", "file"},
                redisStoreClean : BOOLEAN, logErrorsToRedis : BOOLEAN,
                failOnFailedSeed : BOOLEAN, restartsOnError : BOOLEAN]

ASSUME LifeAssumption ==
  /\ Params \subseteq CommandLine
  /\ EnvProxies \subseteq Schemes \cup {None}
  /\ \A s \in OldSeeds : IsSeed(s)
  /\ HasStorage \in BOOLEAN
  /\ MaxAttempts \in Nat \ {0}
  /\ SshWait \in Nat /\ MaxPages \in Nat /\ MaxOutages \in Nat /\ MaxBreaks \in Nat
  /\ Running \notin {0, 1, 17, 21}

VARIABLES
  params,         \* what parseArgs returns
  env,            \* PROXY_SERVER
  documents,      \* the seeds in MongoDB, at most one is looked at
  seed,           \* the seed of the crawl, or None
  settings,       \* what setupConfig made of it, or None
  phase,          \* where main is
  exitCode,       \* of the process, or Running
  status,         \* the status of this process in Redis
  orders,         \* "stop" and "cancel", set in Redis by others
  server,         \* whether the Redis server answers
  client,         \* "none", "ready", "lost", "ended"
  attempts,       \* connections a lost client has tried
  outages,        \* history: times the server went away
  browser,        \* "none", "open", "closing", "closed", "gone"
  listening,      \* whether somebody listens to its event "disconnected"
  interrupted,    \* crawlConfig.interrupted
  customProfile,  \* Browser.customProfile
  proxy,          \* what the browser is started with: a scheme or "tunnel"
  dispatcher,     \* what fetch goes through
  tunnel,         \* "none", "connecting", "up", "down"
  watched,        \* whether somebody listens to its event "exit"
  waited,         \* ticks waited for the tunnel
  breaks,         \* history: times the tunnel broke
  pc,             \* where each worker is
  left            \* pages the queue still has

mainVars    == <<documents, seed, settings, phase>>
redisVars   == <<server, client, attempts, outages>>
browserVars == <<browser, listening, interrupted, customProfile>>
proxyVars   == <<proxy, dispatcher>>
tunnelVars  == <<tunnel, watched, waited, breaks>>
workerVars  == <<pc, left>>
vars == <<params, env, mainVars, exitCode, status, orders, redisVars,
          browserVars, proxyVars, tunnelVars, workerVars>>

Phases == {"db", "seeding", "config", "seed", "setup", "proxy", "behaviors",
           "profile", "launch", "redis", "clean", "queue", "crawl", "closing",
           "failed", "done", "idle", "ended"}
Seeds == OldSeeds \cup {SampleSeed}
Pcs == {"loop", "next", "window", "open", "page", "finish", "cancel", "exit",
        "out"}

\* The types of the variables; a process that has ended has an exit code.
MainTypeOK ==
  /\ params \in CommandLine
  /\ env \in Schemes \cup {None}
  /\ documents \subseteq Seeds
  /\ seed \in Seeds \cup {None}
  /\ settings \in {SettingsOf(s) : s \in Seeds} \cup {None}
  /\ phase \in Phases
  /\ exitCode \in {Running, 0, 1, 17, 21}
  /\ phase = "ended" <=> exitCode # Running

RedisTypeOK ==
  /\ status \in {"none", "canceled", "failed", "done"}
  /\ orders \subseteq {"stop", "cancel"}
  /\ server \in BOOLEAN
  /\ client \in {"none", "ready", "lost", "ended"}
  /\ attempts \in 0..MaxAttempts
  /\ outages \in 0..MaxOutages

BrowserTypeOK ==
  /\ browser \in {"none", "open", "closing", "closed", "gone"}
  /\ listening \in BOOLEAN
  /\ interrupted \in BOOLEAN
  /\ customProfile \in BOOLEAN

ProxyTypeOK ==
  /\ proxy \in Schemes \cup {None, "tunnel"}
  /\ dispatcher \in {"direct", "http", "socks"}
  /\ tunnel \in {"none", "connecting", "up", "down"}
  /\ watched \in BOOLEAN
  /\ waited \in 0..SshWait
  /\ breaks \in 0..MaxBreaks

WorkerTypeOK ==
  /\ pc \in [Workers -> Pcs]
  /\ left \in 0..MaxPages

TypeOK ==
  /\ MainTypeOK /\ RedisTypeOK /\ BrowserTypeOK /\ ProxyTypeOK /\ WorkerTypeOK

Init ==
  /\ params \in Params
  /\ env \in EnvProxies
  /\ documents \in {{}} \cup {{s} : s \in OldSeeds}
  /\ seed = None
  /\ settings = None
  /\ phase = "db"
  /\ exitCode = Running
  /\ status = "none"
  /\ orders = {}
  /\ server \in BOOLEAN
  /\ client = "none"
  /\ attempts = 0
  /\ outages = 0
  /\ browser = "none"
  /\ listening = FALSE
  /\ interrupted = FALSE
  /\ customProfile = FALSE
  /\ proxy = None
  /\ dispatcher = "direct"
  /\ tunnel = "none"
  /\ watched = FALSE
  /\ waited = 0
  /\ breaks = 0
  /\ pc = [w \in Workers |-> "out"]
  /\ left \in 1..MaxPages

---------------------------------------------------------------------------
(* The ends of the process.                                                *)

Goto(p) == phase' = p /\ UNCHANGED <<params, env, exitCode>>

\* main goes on and nothing else changes.
GoOn(p) ==
  /\ Goto(p)
  /\ UNCHANGED <<documents, seed, settings, status, orders, redisVars,
                 browserVars, proxyVars, tunnelVars, workerVars>>

\* process.exit, and an error that nobody catches (code 1).
Exit(code) ==
  /\ phase' = "ended"
  /\ exitCode' = code
  /\ UNCHANGED <<params, env, documents, seed, settings, redisVars,
                 browserVars, proxyVars, tunnelVars, workerVars, orders>>

\* The logger knows the crawl state only to write errors there.
LoggerKnowsRedis ==
  params.logErrorsToRedis /\ phase \in {"queue", "crawl", "closing", "failed", "done", "idle"}

\* logger.fatal: the process ends while the status is on its way.
Fatal(code) ==
  /\ Exit(CASE code # 0              -> code
            [] params.restartsOnError -> 0
            [] OTHER                  -> 17)
  /\ status' \in {status} \cup
                 (IF LoggerKnowsRedis /\ client = "ready" THEN {"failed"} ELSE {})

Uncaught == Exit(1) /\ UNCHANGED status

---------------------------------------------------------------------------
(* The environment.                                                        *)

RedisGoes ==
  /\ server
  /\ outages < MaxOutages
  /\ server' = FALSE
  /\ outages' = outages + 1
  /\ client' = IF client = "ready" THEN "lost" ELSE client
  /\ UNCHANGED <<params, env, mainVars, exitCode, status, orders, attempts,
                 browserVars, proxyVars, tunnelVars, workerVars>>

RedisReturns ==
  /\ ~server
  /\ server' = TRUE
  /\ UNCHANGED <<params, env, mainVars, exitCode, status, orders, client, attempts,
                 outages, browserVars, proxyVars, tunnelVars, workerVars>>

\* Mutant: the client never gives up.
ReconnectForEver ==
  /\ client = "lost"
  /\ server
  /\ client' = "ready"
  /\ UNCHANGED <<params, env, mainVars, exitCode, status, orders, attempts, server,
                 outages, browserVars, proxyVars, tunnelVars, workerVars>>

\* retryStrategy: a lost client tries again, until it ends and rejects every
\* command; commands that are sent before wait.
Reconnect ==
  /\ client = "lost"
  /\ \/ /\ server
        /\ client' = "ready"
        /\ attempts' = 0
     \/ /\ ~server
        /\ attempts' = attempts + 1
        /\ client' = IF attempts' = MaxAttempts THEN "ended" ELSE "lost"
  /\ UNCHANGED <<params, env, mainVars, exitCode, status, orders, server, outages,
                 browserVars, proxyVars, tunnelVars, workerVars>>

\* Another program sets <key>:stopping or <key>:canceled.
Order ==
  /\ server
  /\ \E o \in {"stop", "cancel"} : orders' = orders \cup {o}
  /\ UNCHANGED <<params, env, mainVars, exitCode, status, redisVars, browserVars,
                 proxyVars, tunnelVars, workerVars>>

\* The browser disconnects by itself.
BrowserLeaves ==
  /\ browser = "open"
  /\ browser' = "gone"
  /\ interrupted' = (interrupted \/ listening)
  /\ UNCHANGED <<params, env, mainVars, exitCode, status, orders, redisVars, listening,
                 customProfile, proxyVars, tunnelVars, workerVars>>
---------------------------------------------------------------------------
(* The start of the process.                                               *)

\* connectDB ends the process with code 1, as errors nobody catches do.
ConnectDB ==
  /\ phase = "db"
  /\ \/ GoOn("seeding")
     \/ Uncaught

\* seedDatabase removes all documents and inserts the samples; an error is
\* caught, wherever it happens.
SeedDatabase ==
  /\ phase = "seeding"
  /\ Goto("config")
  /\ documents' \in {documents, {}, {SampleSeed}}
  /\ UNCHANGED <<seed, settings, status, orders, redisVars, browserVars,
                 proxyVars, tunnelVars, workerVars>>

\* ConfigManager.init: a directory, Xvfb or a package file may be missing.
InitConfig ==
  /\ phase = "config"
  /\ \/ GoOn("seed")
     \/ Uncaught

\* Without a seed there is nothing to do, and the connection to MongoDB keeps
\* the process.
FindSeed ==
  /\ phase = "seed"
  /\ \/ /\ documents = {}
        /\ Goto("idle")
        /\ UNCHANGED seed
     \/ /\ seed' \in documents
        /\ Goto("setup")
  /\ UNCHANGED <<documents, settings, status, orders, redisVars, browserVars,
                 proxyVars, tunnelVars, workerVars>>

\* setupConfig up to the proxy.
SetupConfig ==
  /\ phase = "setup"
  /\ \/ /\ UnknownDevice(seed)
        /\ Fatal(0)
     \/ /\ ~UnknownDevice(seed)
        /\ ~seed.validUrl
        /\ Uncaught
     \/ /\ ~UnknownDevice(seed)
        /\ seed.validUrl
        /\ GoOn("proxy")

\* initProxy without a tunnel.  runSSHD looks for the proxy of the seed only,
\* so that a tunnel asked for by the environment is none.
SetProxy ==
  /\ phase = "proxy"
  /\ seed.proxyServer # "ssh"
  /\ LET asked == AskedProxy(seed, env)
     IN  proxy' = IF asked = "ssh" THEN None ELSE asked
  /\ dispatcher' = Dispatcher(proxy')
  /\ Goto("behaviors")
  /\ UNCHANGED <<documents, seed, settings, status, orders, redisVars,
                 browserVars, tunnelVars, workerVars>>

\* The rest of setupConfig.
LoadBehaviors ==
  /\ phase = "behaviors"
  /\ \/ /\ \E src \in seed.customBehaviors : SourceThrows(src)
        /\ Uncaught
     \/ /\ \A src \in seed.customBehaviors : ~SourceThrows(src)
        /\ settings' = SettingsOf(seed)
        /\ Goto("profile")
        /\ UNCHANGED <<documents, seed, status, orders, redisVars, browserVars,
                       proxyVars, tunnelVars, workerVars>>

\* Browser.loadProfile: a profile that cannot be fetched ends the process, one
\* that cannot be unpacked is left out.
LoadProfile ==
  /\ phase = "profile"
  /\ \/ /\ params.profile = "storage"
        /\ ~HasStorage
        /\ Fatal(0)
     \/ /\ params.profile \in {"http", "storage"}
        /\ params.profile = "storage" => HasStorage
        /\ Uncaught
     \/ /\ params.profile = "storage" => HasStorage
        /\ customProfile' \in (IF params.profile = None THEN {FALSE} ELSE BOOLEAN)
        /\ Goto("launch")
        /\ UNCHANGED <<documents, seed, settings, status, orders, redisVars, browser,
                       listening, interrupted, proxyVars, tunnelVars, workerVars>>

\* Browser.launch and _init.
LaunchBrowser ==
  /\ phase = "launch"
  /\ \/ Uncaught
     \/ /\ browser' = "open"
        /\ listening' = TRUE
        /\ Goto("redis")
        /\ UNCHANGED <<documents, seed, settings, status, orders, redisVars,
                       interrupted, customProfile, proxyVars, tunnelVars, workerVars>>

\* initCrawlStateInRedis asks for a connection until there is one.
ConnectRedis ==
  /\ phase = "redis"
  /\ server
  /\ client' = "ready"
  /\ Goto("clean")
  /\ UNCHANGED <<documents, seed, settings, status, orders, server, attempts, outages,
                 browserVars, proxyVars, tunnelVars, workerVars>>

\* The rest of it: flushall if asked for, and clearOwnPendingLocks, with their
\* errors caught.
CleanRedis ==
  /\ phase = "clean"
  /\ client # "lost"
  /\ LET flushed == params.redisStoreClean /\ client = "ready"
     IN  /\ orders' = IF flushed THEN {} ELSE orders
         /\ status' = IF flushed THEN "none" ELSE status
  /\ Goto("queue")
  /\ UNCHANGED <<documents, seed, settings, redisVars, browserVars, proxyVars,
                 tunnelVars, workerVars>>

\* crawl: _addInitialSeeds, then the workers start.  A command fails if the client
\* has ended, or Redis answers it with an error (it is out of memory, loading, ...).
AddInitialSeeds ==
  /\ phase = "queue"
  /\ \/ /\ client = "ready"
        /\ pc' = [w \in Workers |-> "loop"]
        /\ Goto("crawl")
     \/ /\ client # "lost"
        /\ Goto("failed")
        /\ UNCHANGED pc
  /\ UNCHANGED <<documents, seed, settings, status, orders, redisVars, browserVars,
                 proxyVars, tunnelVars, left>>

---------------------------------------------------------------------------
(* The end of the crawl.                                                   *)

\* Mutant: the listeners stay.
CloseBrowserLeavingListeners ==
  /\ \/ /\ phase = "crawl"
        /\ \A w \in Workers : pc[w] = "out"
        /\ Goto("closing")
     \/ /\ phase = "failed"
        /\ UNCHANGED <<params, env, phase, exitCode>>
  /\ browser = "open"
  /\ browser' = "closing"
  /\ UNCHANGED <<documents, seed, settings, status, orders, redisVars, listening,
                 interrupted, customProfile, proxyVars, tunnelVars, workerVars>>

\* Browser.close: nobody listens any more when the browser disconnects.
CloseBrowser ==
  /\ \/ /\ phase = "crawl"
        /\ \A w \in Workers : pc[w] = "out"
        /\ Goto("closing")
     \/ /\ phase = "failed"
        /\ UNCHANGED <<params, env, phase, exitCode>>
  /\ browser = "open"
  /\ browser' = "closing"
  /\ listening' = FALSE
  /\ UNCHANGED <<documents, seed, settings, status, orders, redisVars,
                 interrupted, customProfile, proxyVars, tunnelVars, workerVars>>

\* A browser that left by itself is not closed.
NothingToClose ==
  /\ browser = "gone"
  /\ \/ /\ phase = "crawl"
        /\ \A w \in Workers : pc[w] = "out"
        /\ GoOn("idle")
     \/ /\ phase = "failed"
        /\ GoOn("done")

BrowserClosed ==
  /\ browser = "closing"
  /\ browser' = "closed"
  /\ interrupted' = (interrupted \/ listening)
  /\ Goto(IF phase = "failed" THEN "done" ELSE "idle")
  /\ UNCHANGED <<documents, seed, settings, status, orders, redisVars, listening,
                 customProfile, proxyVars, tunnelVars, workerVars>>

\* Only a crawl that failed reports that it is done; if it cannot, main fails.
ReportDone ==
  /\ phase = "done"
  /\ \/ /\ client = "ready"
        /\ status' = "done"
        /\ Goto("idle")
        /\ UNCHANGED <<documents, seed, settings, orders, redisVars, browserVars,
                       proxyVars, tunnelVars, workerVars>>
     \/ /\ client # "lost"
        /\ Uncaught

---------------------------------------------------------------------------
(* The SSH tunnel, runSSHD.                                                *)

StartTunnel ==
  /\ phase = "proxy"
  /\ seed.proxyServer = "ssh"
  /\ tunnel = "none"
  /\ tunnel' = "connecting"
  /\ waited' = 0
  /\ UNCHANGED <<params, env, mainVars, exitCode, status, orders, redisVars,
                 browserVars, proxyVars, watched, breaks, workerVars>>

\* What follows when the port answers: main goes on, if it was waiting.
UseTunnel ==
  IF phase = "proxy"
  THEN /\ proxy' = "tunnel"
       /\ dispatcher' = Dispatcher("socks")
       /\ Goto("behaviors")
  ELSE UNCHANGED <<params, env, phase, exitCode, proxyVars>>

\* Mutant: only the first tunnel is watched.
TunnelAnswersOnce ==
  /\ tunnel = "connecting"
  /\ tunnel' = "up"
  /\ watched' = (phase = "proxy")
  /\ UseTunnel
  /\ UNCHANGED <<documents, seed, settings, status, orders, redisVars, browserVars,
                 waited, breaks, workerVars>>

\* The port answers; from here on the process listens to the end of ssh.
TunnelAnswers ==
  /\ tunnel = "connecting"
  /\ tunnel' = "up"
  /\ watched' = TRUE
  /\ UseTunnel
  /\ UNCHANGED <<documents, seed, settings, status, orders, redisVars, browserVars,
                 waited, breaks, workerVars>>

\* It does not yet, and is asked again.
TunnelWaits ==
  /\ tunnel = "connecting"
  /\ waited < SshWait
  /\ waited' = waited + 1
  /\ UNCHANGED <<params, env, mainVars, exitCode, status, orders, redisVars,
                 browserVars, proxyVars, tunnel, watched, breaks, workerVars>>

\* Mutant: without a tunnel the crawl goes on.
TunnelFailsQuietly ==
  /\ tunnel = "connecting"
  /\ phase = "proxy"
  /\ tunnel' = "down"
  /\ proxy' = None
  /\ Goto("behaviors")
  /\ UNCHANGED <<documents, seed, settings, status, orders, redisVars, browserVars,
                 dispatcher, watched, waited, breaks, workerVars>>

\* ssh ended, or the time is over.
TunnelFails ==
  /\ tunnel = "connecting"
  /\ Fatal(21)

\* A tunnel that breaks is started again by the listener, whatever main does.
TunnelBreaks ==
  /\ tunnel = "up"
  /\ breaks < MaxBreaks
  /\ breaks' = breaks + 1
  /\ tunnel' = IF watched THEN "connecting" ELSE "down"
  /\ watched' = FALSE
  /\ waited' = 0
  /\ UNCHANGED <<params, env, mainVars, exitCode, status, orders, redisVars,
                 browserVars, proxyVars, workerVars>>

---------------------------------------------------------------------------
(* The workers.                                                            *)

At(w, p) == phase = "crawl" /\ pc[w] = p

Move(w, p) ==
  /\ pc' = [pc EXCEPT ![w] = p]
  /\ UNCHANGED <<params, env, mainVars, exitCode, orders, redisVars, browserVars,
                 proxyVars, tunnelVars>>

Walk(w, p) == Move(w, p) /\ UNCHANGED <<status, left>>

\* A command that fails ends the loop of the worker, run catches it.
CommandFails(w) ==
  /\ \E p \in {"loop", "next", "window", "finish", "cancel"} : At(w, p)
  /\ client # "lost"
  /\ pc[w] \in {"loop", "window"} => ~interrupted
  /\ Walk(w, "out")

\* isCrawlRunning, asked before a page and before a window is opened: a false
\* ends the loop in the one case and throws in the other.
IsCrawlRunning(w) ==
  \E ask \in {[at |-> "loop", then |-> "next"], [at |-> "window", then |-> "open"]} :
    /\ At(w, ask.at)
    /\ \/ /\ interrupted
          /\ Walk(w, "out")
       \/ /\ ~interrupted
          /\ client = "ready"
          /\ Walk(w, CASE "cancel" \in orders -> "cancel"
                       [] "stop" \in orders   -> "out"
                       [] OTHER               -> ask.then)

\* Mutant: the process ends before the status is written.
SetStatusLate(w) ==
  /\ At(w, "cancel")
  /\ client = "ready"
  /\ Exit(0)
  /\ status' \in {status, "canceled"}

\* setStatusAndExit: the status is awaited.
SetStatus(w) ==
  /\ At(w, "cancel")
  /\ client = "ready"
  /\ status' = "canceled"
  /\ Move(w, "exit")
  /\ UNCHANGED left

ExitCanceled(w) ==
  /\ At(w, "exit")
  /\ Exit(0)
  /\ UNCHANGED status

\* The queue has a page, or nothing while others are pending (of this process or
\* of another), or nothing at all.
TakePage(w) ==
  /\ At(w, "next")
  /\ client = "ready"
  /\ \/ /\ left > 0
        /\ left' = left - 1
        /\ Move(w, "window")
        /\ UNCHANGED status
     \/ /\ left = 0
        /\ \E p \in {"loop", "out"} : Walk(w, p)

\* The window of the page before is used again, if the browser is there.
ReuseWindow(w) ==
  /\ At(w, "window")
  /\ browser = "open"
  /\ Walk(w, "page")

\* A window opens, or the browser is gone, or the last attempt failed.
OpenWindow(w) ==
  /\ At(w, "open")
  /\ \/ /\ browser = "open"
        /\ Walk(w, "page")
     \/ /\ browser = "gone"
        /\ Walk(w, "out")
     \/ /\ browser = "open"
        /\ Walk(w, "window")
     \/ /\ browser = "open"
        /\ Fatal(0)

PageEnds(w) == At(w, "page") /\ Walk(w, "finish")

\* pageFinished, which waits for Redis for a limited time; a failed page that is
\* a seed may end the process.
PageFinished(w) ==
  /\ At(w, "finish")
  /\ \/ /\ client # "ended"
        /\ Walk(w, "loop")
     \/ /\ client = "ready"
        /\ params.failOnFailedSeed
        /\ Fatal(1)

---------------------------------------------------------------------------
WorkerStep(w) ==
  \/ CommandFails(w)
  \/ IsCrawlRunning(w)
  \/ SetStatus(w)
  \/ ExitCanceled(w)
  \/ TakePage(w)
  \/ ReuseWindow(w)
  \/ OpenWindow(w)
  \/ PageEnds(w)
  \/ PageFinished(w)

MainStep ==
  \/ ConnectDB
  \/ SeedDatabase
  \/ InitConfig
  \/ FindSeed
  \/ SetupConfig
  \/ SetProxy
  \/ StartTunnel
  \/ LoadBehaviors
  \/ LoadProfile
  \/ LaunchBrowser
  \/ ConnectRedis
  \/ CleanRedis
  \/ AddInitialSeeds
  \/ CloseBrowser
  \/ NothingToClose
  \/ BrowserClosed
  \/ ReportDone

TunnelStep == TunnelAnswers \/ TunnelWaits \/ TunnelFails

Environment ==
  \/ RedisGoes
  \/ RedisReturns
  \/ Order
  \/ BrowserLeaves
  \/ TunnelBreaks

Next ==
  /\ phase # "ended"
  /\ \/ MainStep
     \/ TunnelStep
     \/ Reconnect
     \/ Environment
     \/ \E w \in Workers : WorkerStep(w)

Spec == Init /\ [][Next]_vars

\* Main and the workers go on, a lost client tries again, and an attempt to
\* connect the tunnel has a limited time.  Nothing of the environment is fair.
Fairness ==
  /\ WF_vars(phase # "ended" /\ MainStep)
  /\ WF_vars(phase # "ended" /\ TunnelStep)
  /\ WF_vars(phase # "ended" /\ Reconnect)
  /\ \A w \in Workers : WF_vars(phase # "ended" /\ WorkerStep(w))

FairSpec == Spec /\ Fairness

---------------------------------------------------------------------------
(* Properties.                                                             *)

\* A process that says by its exit code that all is well was canceled, and has
\* said so in Redis: unless restartsOnError makes errors end with 0 too, whoever
\* reads the code finds the status that explains it.  setStatusAndExit waits for
\* the status, fatal does not, and any worker may end the process meanwhile.
CanceledIsTold ==
  exitCode = 0 /\ ~params.restartsOnError =>
    "cancel" \in orders /\ status = "canceled"

\* A seed that has a proxy is never crawled without it, neither by the browser nor
\* by what the process fetches itself: a tunnel that cannot be established ends the
\* process.  (A scheme that createDispatcher does not know is left to the browser.)
NeverDirect ==
  browser = "open" /\ seed.proxyServer \in {"http", "socks", "ssh"} =>
    /\ proxy = (IF seed.proxyServer = "ssh" THEN "tunnel" ELSE seed.proxyServer)
    /\ dispatcher # "direct"

\* Only a browser that left by itself interrupts a crawl: the end of a crawl, which
\* closes the browser, is not taken for its crash.
InterruptedMeansGone == interrupted => browser = "gone"

\* The limit of the crawl is the strictest of those that are set, and none if none
\* is; and the time a page is given exceeds that of its navigation, so that a page
\* that does not load fails by itself before its worker gives it up.
LimitsCombine ==
  settings # None =>
    LET set == {seed.pageLimit, seed.maxPageLimit} \ {0}
    IN  /\ settings.pageLimit = 0 <=> set = {}
        /\ \A l \in set : settings.pageLimit <= l
        /\ settings.gotoTimeout < settings.maxPageTime

\* Why these hold: what main has decided when it is in a phase, and what follows
\* from where a worker is.  With TypeOK they are inductive.
BeforeSeed == {"db", "seeding", "config", "seed"}
BeforeBrowser == BeforeSeed \cup {"setup", "proxy", "behaviors", "profile", "launch"}

SeedIsKept ==
  /\ phase \notin BeforeSeed \cup {"idle", "ended"} => seed \in Seeds
  /\ settings # None => seed \in Seeds /\ settings = SettingsOf(seed)
  /\ phase \in BeforeSeed \cup {"setup", "proxy", "behaviors"} => settings = None

ProxyIsSet ==
  seed.proxyServer \in {"http", "socks", "ssh"} =>
    /\ proxy = (IF seed.proxyServer = "ssh" THEN "tunnel" ELSE seed.proxyServer)
    /\ dispatcher # "direct"

ProxyIsKept ==
  /\ tunnel # "none" => phase \notin BeforeSeed \cup {"setup"} /\ seed.proxyServer = "ssh"
  /\ browser # "none" \/ phase \in {"behaviors", "profile", "launch"} => ProxyIsSet

BrowserIsWatched ==
  /\ phase \in BeforeBrowser => browser = "none"
  /\ phase \in {"redis", "clean", "queue", "crawl", "closing", "failed", "done"} =>
       browser # "none"
  /\ browser = "closing" => phase \in {"closing", "failed", "ended"}
  /\ listening => browser \in {"open", "gone"}
  /\ InterruptedMeansGone

ClientCounts ==
  /\ client \in {"none", "ready"} => attempts = 0
  /\ client = "lost" => attempts < MaxAttempts
  /\ phase \in BeforeBrowser \cup {"redis"} => client = "none"
  /\ phase \in {"clean", "queue", "crawl", "closing"} => client # "none"

WorkersAreTold ==
  \A w \in Workers :
    /\ pc[w] # "out" => phase \in {"crawl", "ended"}
    /\ phase = "crawl" /\ pc[w] \in {"cancel", "exit"} => "cancel" \in orders
    /\ phase = "crawl" /\ pc[w] = "exit" => status = "canceled"

LifeInv ==
  /\ SeedIsKept /\ ProxyIsKept /\ BrowserIsWatched /\ ClientCounts
  /\ WorkersAreTold /\ CanceledIsTold

\* However the crawl is told to end, by a lost browser, an order in Redis or a
\* client that has given up, its workers leave it: those that wait for Redis, that
\* hold a page or that wait for the pages of others.
CrawlIsLeft ==
  phase = "crawl" /\ (interrupted \/ orders # {} \/ client = "ended")
    ~> phase # "crawl"

\* A tunnel that broke is up again or has ended the process, however often it breaks.
TunnelRestored ==
  (proxy = "tunnel" /\ tunnel # "up") ~> (tunnel = "up" \/ phase = "ended")
===========================================================================
