----------------------------- MODULE LifeProofs ---------------------------
(***************************************************************************)
(* Theorems about ProcessLife, for any seeds, command lines, number of     *)
(* workers, pages, outages and breaks.  LifeInv says what main has decided *)
(* when it is in a phase and what a worker knows where it is; a step of    *)
(* main, of the tunnel, of the client, of a worker or of the environment   *)
(* keeps each of its parts.                                                *)
(***************************************************************************)
EXTENDS ProcessLife, TLAPS

IInv == TypeOK /\ LifeInv

\* Every seed asks for a proxy of a known kind, or for none.
LEMMA SeedProxy ==
  ASSUME NEW s \in Seeds
  PROVE  s.proxyServer \in Schemes \cup {None}
<1>1. CASE s \in OldSeeds
  BY <1>1, LifeAssumption DEF IsSeed
<1>2. CASE s = SampleSeed
  BY <1>2 DEF SampleSeed, SeedDefaults
<1>3. QED BY <1>1, <1>2 DEF Seeds

\* The codes a process ends with.
LEMMA FatalCodes ==
  ASSUME NEW code \in {0, 1, 21}, Fatal(code)
  PROVE  /\ exitCode' \in {0, 1, 17, 21}
         /\ exitCode' = 0 => params.restartsOnError
         /\ status' \in {status, "failed"}
         /\ Exit(exitCode')
<1>1. /\ exitCode' = (CASE code # 0 -> code
                        [] params.restartsOnError -> 0
                        [] OTHER -> 17)
      /\ status' \in {status, "failed"}
  BY DEF Fatal, Exit
<1>2. exitCode' \in {0, 1, 17, 21} /\ (exitCode' = 0 => params.restartsOnError)
  BY <1>1
<1>3. Exit(exitCode')
  BY DEF Fatal, Exit
<1>4. QED BY <1>1, <1>2, <1>3

---------------------------------------------------------------------------
(* Type correctness.                                                       *)

LEMMA ExitTypes ==
  ASSUME TypeOK, NEW code \in {0, 1, 17, 21}, Exit(code),
         status' \in {"none", "canceled", "failed", "done"}
  PROVE  TypeOK'
BY LifeAssumption DEF TypeOK, MainTypeOK, RedisTypeOK, BrowserTypeOK, ProxyTypeOK, WorkerTypeOK, Exit, Phases,
                      redisVars, browserVars, proxyVars,
                      tunnelVars, workerVars

LEMMA FatalTypes ==
  ASSUME TypeOK, NEW code \in {0, 1, 21}, Fatal(code)
  PROVE  TypeOK'
<1>1. status' \in {"none", "canceled", "failed", "done"}
  BY FatalCodes DEF TypeOK, RedisTypeOK
<1>2. QED BY <1>1, FatalCodes, ExitTypes

LEMMA UncaughtTypes ==
  ASSUME TypeOK, Uncaught
  PROVE  TypeOK'
BY ExitTypes DEF Uncaught, TypeOK, RedisTypeOK

LEMMA GoOnTypes ==
  ASSUME TypeOK, phase # "ended", NEW p \in Phases \ {"ended"},
         GoOn(p)
  PROVE  TypeOK'
BY DEF TypeOK, MainTypeOK, RedisTypeOK, BrowserTypeOK, ProxyTypeOK, WorkerTypeOK, GoOn, Goto,
       redisVars, browserVars, proxyVars, tunnelVars, workerVars

LEMMA MainTypes ==
  ASSUME IInv, phase # "ended", MainStep
  PROVE  TypeOK'
<1> SUFFICES ASSUME ~Uncaught, \A code \in {0, 1, 21} : ~Fatal(code),
                    \A p \in Phases \ {"ended"} : ~GoOn(p)
             PROVE  TypeOK'
  BY UncaughtTypes, FatalTypes, GoOnTypes DEF IInv
<1> USE LifeAssumption DEF IInv, TypeOK, MainTypeOK, RedisTypeOK, BrowserTypeOK, ProxyTypeOK, WorkerTypeOK,
       Goto, Phases, mainVars, redisVars, browserVars, proxyVars, tunnelVars, workerVars
<1>1. ~ConnectDB /\ ~InitConfig /\ ~SetupConfig /\ ~NothingToClose
  BY DEF ConnectDB, InitConfig, SetupConfig, NothingToClose
<1>2. CASE SeedDatabase
  BY <1>2 DEF SeedDatabase, Seeds
<1>3. CASE FindSeed
  BY <1>3 DEF FindSeed
<1>4. CASE SetProxy
  <2>1. seed \in Seeds
    BY <1>4 DEF SetProxy, LifeInv, SeedIsKept, BeforeSeed
  <2>2. AskedProxy(seed, env) \in Schemes \cup {None}
    BY <2>1, SeedProxy DEF AskedProxy
  <2>3. proxy' \in Schemes \cup {None, "tunnel"}
    BY <1>4, <2>2 DEF SetProxy
  <2>4. dispatcher' \in {"direct", "http", "socks"}
    BY <1>4 DEF SetProxy, Dispatcher
  <2>5. QED BY <1>4, <2>3, <2>4 DEF SetProxy
<1>5. CASE StartTunnel
  BY <1>5 DEF StartTunnel
<1>6. CASE LoadBehaviors
  <2>1. seed \in Seeds
    BY <1>6 DEF LoadBehaviors, LifeInv, SeedIsKept, BeforeSeed
  <2>2. /\ settings' = SettingsOf(seed)
        /\ Goto("profile")
        /\ UNCHANGED <<documents, seed, status, orders, redisVars, browserVars,
                       proxyVars, tunnelVars, workerVars>>
    BY <1>6 DEF LoadBehaviors
  <2>3. QED BY <2>1, <2>2
<1>7. CASE LoadProfile
  <2>1. /\ customProfile' \in BOOLEAN
        /\ Goto("launch")
        /\ UNCHANGED <<documents, seed, settings, status, orders, redisVars, browser,
                       listening, interrupted, proxyVars, tunnelVars, workerVars>>
    BY <1>7 DEF LoadProfile
  <2>2. QED BY <2>1
<1>8. CASE LaunchBrowser
  <2>1. /\ browser' = "open"
        /\ listening' = TRUE
        /\ Goto("redis")
        /\ UNCHANGED <<documents, seed, settings, status, orders, redisVars,
                       interrupted, customProfile, proxyVars, tunnelVars, workerVars>>
    BY <1>8 DEF LaunchBrowser
  <2>2. QED BY <2>1
<1>9. CASE ConnectRedis
  <2>1. browser # "none"
    BY <1>9 DEF ConnectRedis, LifeInv, BrowserIsWatched
  <2>2. QED BY <1>9, <2>1 DEF ConnectRedis
<1>10. CASE CleanRedis
  <2>1. orders' \subseteq {"stop", "cancel"}
    BY <1>10 DEF CleanRedis
  <2>2. status' \in {"none", "canceled", "failed", "done"}
    BY <1>10 DEF CleanRedis
  <2>3. QED BY <1>10, <2>1, <2>2 DEF CleanRedis
<1>11. CASE AddInitialSeeds
  BY <1>11 DEF AddInitialSeeds, Pcs
<1>12. CASE CloseBrowser
  <2>1. /\ phase' \in {"closing", "failed"} /\ UNCHANGED <<params, env, exitCode>>
    BY <1>12 DEF CloseBrowser
  <2>2. /\ browser' = "closing" /\ listening' = FALSE
        /\ UNCHANGED <<documents, seed, settings, status, orders, redisVars,
                       interrupted, customProfile, proxyVars, tunnelVars, workerVars>>
    BY <1>12 DEF CloseBrowser
  <2>3. MainTypeOK'
    BY <2>1, <2>2
  <2>4. BrowserTypeOK'
    BY <2>2
  <2>5. RedisTypeOK' /\ ProxyTypeOK' /\ WorkerTypeOK'
    BY <2>2
  <2>6. QED BY <2>3, <2>4, <2>5
<1>13. CASE BrowserClosed
  BY <1>13 DEF BrowserClosed
<1>14. CASE ReportDone
  <2>1. /\ status' = "done"
        /\ Goto("idle")
        /\ UNCHANGED <<documents, seed, settings, orders, redisVars, browserVars,
                       proxyVars, tunnelVars, workerVars>>
    BY <1>14 DEF ReportDone
  <2>2. QED BY <2>1
<1>15. QED
  BY <1>1, <1>2, <1>3, <1>4, <1>5, <1>6, <1>7, <1>8, <1>9, <1>10, <1>11, <1>12,
     <1>13, <1>14 DEF MainStep

LEMMA TunnelTypes ==
  ASSUME IInv, phase # "ended", TunnelStep
  PROVE  TypeOK'
<1> SUFFICES ASSUME ~Uncaught, \A code \in {0, 1, 21} : ~Fatal(code)
             PROVE  TypeOK'
  BY UncaughtTypes, FatalTypes DEF IInv
<1> USE LifeAssumption DEF IInv, TypeOK, MainTypeOK, RedisTypeOK, BrowserTypeOK, ProxyTypeOK, WorkerTypeOK,
       Goto, Phases, mainVars, redisVars, browserVars, proxyVars, tunnelVars, workerVars
<1>1. CASE TunnelAnswers
  BY <1>1 DEF TunnelAnswers, UseTunnel, Dispatcher
<1>2. CASE TunnelWaits
  BY <1>2 DEF TunnelWaits
<1>3. CASE TunnelFails
  BY <1>3 DEF TunnelFails
<1>4. QED BY <1>1, <1>2, <1>3 DEF TunnelStep

LEMMA OutsideTypes ==
  ASSUME IInv, phase # "ended", Environment \/ Reconnect
  PROVE  TypeOK'
<1> USE LifeAssumption DEF IInv, TypeOK, MainTypeOK, RedisTypeOK, BrowserTypeOK, ProxyTypeOK, WorkerTypeOK,
       mainVars, redisVars, browserVars, proxyVars, tunnelVars, workerVars
<1>1. CASE RedisGoes
  <2>1. client' \in {"none", "ready", "lost", "ended"} /\ (client # "none" => client' # "none")
    BY <1>1 DEF RedisGoes
  <2>2. outages' \in 0..MaxOutages
    BY <1>1 DEF RedisGoes
  <2>3. /\ server' = FALSE
        /\ UNCHANGED <<params, env, mainVars, exitCode, status, orders, attempts,
                       browserVars, proxyVars, tunnelVars, workerVars>>
    BY <1>1 DEF RedisGoes
  <2>4. RedisTypeOK'
    BY <2>1, <2>2, <2>3
  <2>5. MainTypeOK' /\ BrowserTypeOK' /\ ProxyTypeOK' /\ WorkerTypeOK'
    BY <2>3
  <2>6. QED BY <2>4, <2>5
<1>2. CASE RedisReturns
  BY <1>2 DEF RedisReturns
<1>3. CASE Order
  <2>1. orders' \subseteq {"stop", "cancel"}
    BY <1>3 DEF Order
  <2>2. QED BY <1>3, <2>1 DEF Order
<1>4. CASE BrowserLeaves
  <2>1. interrupted' \in BOOLEAN
    BY <1>4 DEF BrowserLeaves
  <2>2. BrowserTypeOK'
    BY <1>4, <2>1 DEF BrowserLeaves
  <2>3. MainTypeOK' /\ RedisTypeOK' /\ ProxyTypeOK' /\ WorkerTypeOK'
    BY <1>4 DEF BrowserLeaves
  <2>4. QED BY <2>2, <2>3
<1>5. CASE TunnelBreaks
  <2>1. ProxyTypeOK'
    <3>1. tunnel' \in {"connecting", "down"}
      BY <1>5 DEF TunnelBreaks
    <3>2. breaks' \in 0..MaxBreaks /\ waited' \in 0..SshWait
      BY <1>5 DEF TunnelBreaks
    <3>3. watched' = FALSE /\ UNCHANGED proxyVars
      BY <1>5 DEF TunnelBreaks
    <3>4. QED BY <3>1, <3>2, <3>3
  <2>2. UNCHANGED <<params, env, mainVars, exitCode, status, orders, redisVars,
                    browserVars, workerVars>>
    BY <1>5 DEF TunnelBreaks
  <2>3. MainTypeOK' /\ RedisTypeOK'
    BY <2>2
  <2>4. BrowserTypeOK' /\ WorkerTypeOK'
    BY <2>2
  <2>5. QED BY <2>1, <2>3, <2>4
<1>6. CASE Reconnect
  BY <1>6 DEF Reconnect, LifeInv, ClientCounts
<1>7. QED
  BY <1>1, <1>2, <1>3, <1>4, <1>5, <1>6 DEF Environment

LEMMA MoveTypes ==
  ASSUME IInv, NEW w \in Workers, NEW p \in Pcs, Move(w, p),
         status' \in {"none", "canceled", "failed", "done"}, left' \in 0..MaxPages
  PROVE  TypeOK'
<1> USE LifeAssumption DEF IInv, TypeOK, MainTypeOK, RedisTypeOK, BrowserTypeOK, ProxyTypeOK,
      WorkerTypeOK, Move, mainVars, redisVars, browserVars, proxyVars, tunnelVars
<1>1. WorkerTypeOK'
  OBVIOUS
<1>2. MainTypeOK' /\ RedisTypeOK'
  OBVIOUS
<1>3. BrowserTypeOK' /\ ProxyTypeOK'
  OBVIOUS
<1>4. QED BY <1>1, <1>2, <1>3

LEMMA WalkTypes ==
  ASSUME IInv, NEW w \in Workers, NEW p \in Pcs, Walk(w, p)
  PROVE  TypeOK'
BY MoveTypes DEF Walk, IInv, TypeOK, RedisTypeOK, WorkerTypeOK

LEMMA WorkerTypes ==
  ASSUME IInv, phase # "ended", NEW w \in Workers, WorkerStep(w)
  PROVE  TypeOK'
<1> SUFFICES ASSUME \A code \in {0, 1, 21} : ~Fatal(code),
                    \A p \in Pcs : ~Walk(w, p)
             PROVE  TypeOK'
  BY FatalTypes, WalkTypes DEF IInv
<1> USE DEF Pcs
<1>1. ~CommandFails(w) /\ ~ReuseWindow(w) /\ ~PageEnds(w)
  BY DEF CommandFails, ReuseWindow, PageEnds
<1>2. ~OpenWindow(w) /\ ~PageFinished(w)
  BY DEF OpenWindow, PageFinished
<1>3. ~IsCrawlRunning(w)
  <2> SUFFICES ASSUME NEW ask \in {[at |-> "loop", then |-> "next"],
                                   [at |-> "window", then |-> "open"]},
                      NEW p \in {"cancel", "out", ask.then}, Walk(w, p)
               PROVE  FALSE
    BY DEF IsCrawlRunning
  <2> QED OBVIOUS
<1>4. CASE SetStatus(w)
  BY <1>4, MoveTypes DEF SetStatus, IInv, TypeOK, WorkerTypeOK
<1>5. CASE ExitCanceled(w)
  BY <1>5, ExitTypes DEF ExitCanceled, IInv, TypeOK, RedisTypeOK
<1>6. CASE TakePage(w)
  <2>1. left' \in 0..MaxPages /\ Move(w, "window") /\ UNCHANGED status
    BY <1>6, LifeAssumption DEF TakePage, IInv, TypeOK, WorkerTypeOK
  <2>2. QED BY <2>1, MoveTypes DEF IInv, TypeOK, RedisTypeOK
<1>7. QED
  BY <1>1, <1>2, <1>3, <1>4, <1>5, <1>6 DEF WorkerStep

LEMMA TypeInit ==
  ASSUME Init
  PROVE  TypeOK
<1> USE LifeAssumption DEF Init
<1>1. MainTypeOK
  <2>1. documents \subseteq Seeds
    BY DEF Seeds
  <2>2. params \in CommandLine /\ env \in Schemes \cup {None}
    OBVIOUS
  <2>3. QED BY <2>1, <2>2 DEF MainTypeOK, Phases
<1>2. RedisTypeOK
  BY DEF RedisTypeOK
<1>3. BrowserTypeOK
  BY DEF BrowserTypeOK
<1>4. ProxyTypeOK
  <2>1. proxy \in Schemes \cup {None, "tunnel"}
    OBVIOUS
  <2>2. dispatcher \in {"direct", "http", "socks"} /\ tunnel \in {"none", "connecting", "up", "down"}
    OBVIOUS
  <2>3. watched \in BOOLEAN
    OBVIOUS
  <2>4. waited \in 0..SshWait /\ breaks \in 0..MaxBreaks
    OBVIOUS
  <2>5. QED BY <2>1, <2>2, <2>3, <2>4 DEF ProxyTypeOK
<1>5. WorkerTypeOK
  BY DEF WorkerTypeOK, Pcs
<1>6. QED BY <1>1, <1>2, <1>3, <1>4, <1>5 DEF TypeOK

---------------------------------------------------------------------------
(* What a step that is not one of main's or the tunnel's leaves alone.     *)

LEMMA WorkerFrame ==
  ASSUME NEW w \in Workers, WorkerStep(w), phase' # "ended"
  PROVE  Move(w, pc'[w]) /\ phase = "crawl"
BY DEF WorkerStep, CommandFails, IsCrawlRunning, SetStatus, ExitCanceled, TakePage,
       ReuseWindow, OpenWindow, PageEnds, PageFinished, At, Walk, Move, Fatal, Exit

LEMMA OutsideFrame ==
  ASSUME Environment \/ Reconnect
  PROVE  UNCHANGED <<params, env, mainVars, exitCode, status, proxyVars, workerVars>>
BY DEF Environment, RedisGoes, RedisReturns, Order, BrowserLeaves, TunnelBreaks, Reconnect

LEMMA EndFrame ==
  ASSUME phase # "ended", Next, phase' = "ended"
  PROVE  \E code \in {0, 1, 17, 21} :
           /\ Exit(code)
           /\ code = 0 => \/ params.restartsOnError
                          \/ \E w \in Workers : ExitCanceled(w)
<1>1. CASE Uncaught
  BY <1>1 DEF Uncaught
<1>2. ASSUME NEW code \in {0, 1, 21}, Fatal(code)
      PROVE  \E c \in {0, 1, 17, 21} : Exit(c) /\ (c = 0 => params.restartsOnError)
  BY <1>2, FatalCodes
<1>3. CASE MainStep
  BY <1>1, <1>2, <1>3 DEF MainStep, ConnectDB, SeedDatabase, InitConfig, FindSeed, SetupConfig,
     SetProxy, StartTunnel, LoadBehaviors, LoadProfile, LaunchBrowser, ConnectRedis,
     CleanRedis, AddInitialSeeds, CloseBrowser, NothingToClose, BrowserClosed, ReportDone,
     Goto, GoOn, mainVars
<1>4. CASE TunnelStep
  BY <1>2, <1>4 DEF TunnelStep, TunnelAnswers, TunnelWaits, TunnelFails, UseTunnel, Goto, mainVars
<1>5. CASE Environment \/ Reconnect
  BY <1>5, OutsideFrame DEF mainVars
<1>6. ASSUME NEW w \in Workers, WorkerStep(w)
      PROVE  \E code \in {0, 1, 17, 21} :
               /\ Exit(code)
               /\ code = 0 => params.restartsOnError \/ ExitCanceled(w)
  BY <1>2, <1>6 DEF WorkerStep, CommandFails, IsCrawlRunning, SetStatus, ExitCanceled, TakePage,
     ReuseWindow, OpenWindow, PageEnds, PageFinished, Walk, Move, mainVars
<1>7. QED BY <1>3, <1>4, <1>5, <1>6 DEF Next

---------------------------------------------------------------------------
(* The parts of LifeInv.                                                   *)

LEMMA SeedStep ==
  ASSUME IInv, phase # "ended", Next
  PROVE  SeedIsKept'
<1> USE DEF IInv, LifeInv, SeedIsKept, BeforeSeed
<1>1. CASE phase' = "ended"
  <2>1. UNCHANGED <<seed, settings>>
    BY <1>1, EndFrame DEF Exit
  <2>2. QED BY <1>1, <2>1
<1>2. CASE MainStep /\ phase' # "ended"
  <2>1. CASE FindSeed
    BY <2>1 DEF FindSeed, Goto, TypeOK, MainTypeOK
  <2>2. CASE LoadBehaviors
    BY <1>2, <2>2 DEF LoadBehaviors, Goto, Uncaught, Exit
  <2>3. CASE ~FindSeed /\ ~LoadBehaviors
    <3>1. UNCHANGED <<seed, settings>>
      BY <1>2, <2>3 DEF MainStep, ConnectDB, SeedDatabase, InitConfig, SetupConfig, SetProxy,
         StartTunnel, LoadProfile, LaunchBrowser, ConnectRedis, CleanRedis, AddInitialSeeds,
         CloseBrowser, NothingToClose, BrowserClosed, ReportDone, Goto, GoOn, Uncaught, Fatal,
         Exit, mainVars
    <3>2. \/ phase \in BeforeSeed /\ phase' \in BeforeSeed
          \/ phase' \in {"idle", phase}
          \/ phase' \in {"proxy", "behaviors"} /\ phase \in {"setup", "proxy"}
          \/ phase' \notin BeforeSeed \cup {"idle", "setup", "proxy", "behaviors"} /\ phase \notin BeforeSeed \cup {"idle"}
      BY <1>2, <2>3 DEF MainStep, ConnectDB, SeedDatabase, InitConfig, SetupConfig, SetProxy,
         StartTunnel, LoadProfile, LaunchBrowser, ConnectRedis, CleanRedis, AddInitialSeeds,
         CloseBrowser, NothingToClose, BrowserClosed, ReportDone, Goto, GoOn, Uncaught, Fatal,
         Exit, mainVars
    <3>3. QED BY <3>1, <3>2
  <2>4. QED BY <2>1, <2>2, <2>3
<1>3. CASE TunnelStep /\ phase' # "ended"
  BY <1>3 DEF TunnelStep, TunnelAnswers, TunnelWaits, TunnelFails, UseTunnel, Fatal, Exit,
     Goto, mainVars
<1>4. CASE Environment \/ Reconnect
  BY <1>4, OutsideFrame DEF mainVars
<1>5. CASE \E w \in Workers : WorkerStep(w) /\ phase' # "ended"
  BY <1>5, WorkerFrame DEF Move, mainVars
<1>6. QED BY <1>1, <1>2, <1>3, <1>4, <1>5 DEF Next

LEMMA TunnelIsAsked ==
  ASSUME IInv, phase # "ended", Next, tunnel' # "none"
  PROVE  phase' \notin BeforeSeed \cup {"setup"} /\ seed'.proxyServer = "ssh"
<1> USE DEF IInv, LifeInv, ProxyIsKept, BeforeSeed
<1>1. CASE phase' = "ended"
  BY <1>1, EndFrame DEF Exit, tunnelVars
<1>2. CASE MainStep /\ phase' # "ended"
  <2>1. CASE StartTunnel
    BY <2>1 DEF StartTunnel, mainVars
  <2>2. CASE ~StartTunnel
    BY <1>2, <2>2 DEF MainStep, ConnectDB, SeedDatabase, InitConfig, FindSeed, SetupConfig, SetProxy,
       StartTunnel, LoadBehaviors, LoadProfile, LaunchBrowser, ConnectRedis, CleanRedis,
       AddInitialSeeds, CloseBrowser, NothingToClose, BrowserClosed, ReportDone, Goto, GoOn,
       Uncaught, Fatal, Exit, mainVars, tunnelVars
  <2>3. QED BY <2>1, <2>2
<1>3. CASE TunnelStep /\ phase' # "ended"
  BY <1>3 DEF TunnelStep, TunnelAnswers, TunnelWaits, TunnelFails, UseTunnel, Fatal, Exit,
     Goto, mainVars
<1>4. CASE Environment \/ Reconnect
  <2>1. tunnel # "none"
    BY <1>4 DEF Environment, RedisGoes, RedisReturns, Order, BrowserLeaves, TunnelBreaks,
       Reconnect, tunnelVars
  <2>2. QED BY <1>4, <2>1, OutsideFrame DEF mainVars
<1>5. CASE \E w \in Workers : WorkerStep(w) /\ phase' # "ended"
  BY <1>5, WorkerFrame DEF Move, mainVars, tunnelVars
<1>6. QED BY <1>1, <1>2, <1>3, <1>4, <1>5 DEF Next

LEMMA ProxyStep ==
  ASSUME IInv, phase # "ended", Next
  PROVE  ProxyIsKept'
<1>0. tunnel' # "none" => phase' \notin BeforeSeed \cup {"setup"} /\ seed'.proxyServer = "ssh"
  BY TunnelIsAsked
<1> SUFFICES (browser # "none" \/ phase \in {"behaviors", "profile", "launch"} => ProxyIsSet)'
  BY <1>0 DEF ProxyIsKept, BeforeSeed
<1> USE DEF IInv, LifeInv, ProxyIsKept, ProxyIsSet
<1>1. CASE phase' = "ended"
  <2>1. UNCHANGED <<seed, browser, proxy, dispatcher>>
    BY <1>1, EndFrame DEF Exit, browserVars, proxyVars
  <2>2. QED BY <1>1, <2>1
<1>2. CASE MainStep /\ phase' # "ended"
  <2>1. CASE SetProxy
    <3>1. seed \in Seeds
      BY <2>1 DEF SetProxy, SeedIsKept, BeforeSeed
    <3>2. seed.proxyServer \in {"http", "socks"} => proxy' = seed.proxyServer
      BY <2>1, SettingsAssumption DEF SetProxy, AskedProxy, Schemes
    <3>3. QED BY <2>1, <3>2 DEF SetProxy, Dispatcher
  <2>2. CASE FindSeed
    BY <2>2 DEF FindSeed, Goto, browserVars, BrowserIsWatched, BeforeBrowser, BeforeSeed
  <2>3. CASE ~SetProxy /\ ~FindSeed
    <3>1. UNCHANGED <<seed, proxy, dispatcher>>
      BY <1>2, <2>3 DEF MainStep, ConnectDB, SeedDatabase, InitConfig, FindSeed, SetupConfig, SetProxy,
       StartTunnel, LoadBehaviors, LoadProfile, LaunchBrowser, ConnectRedis, CleanRedis,
       AddInitialSeeds, CloseBrowser, NothingToClose, BrowserClosed, ReportDone, Goto, GoOn,
       Uncaught, Fatal, Exit, mainVars, proxyVars
    <3>2. (browser # "none" \/ phase \in {"behaviors", "profile", "launch"})'
            => browser # "none" \/ phase \in {"behaviors", "profile", "launch"}
      BY <1>2, <2>3 DEF MainStep, ConnectDB, SeedDatabase, InitConfig, FindSeed, SetupConfig, SetProxy,
       StartTunnel, LoadBehaviors, LoadProfile, LaunchBrowser, ConnectRedis, CleanRedis,
       AddInitialSeeds, CloseBrowser, NothingToClose, BrowserClosed, ReportDone, Goto, GoOn,
       Uncaught, Fatal, Exit, mainVars, browserVars
    <3>3. QED BY <3>1, <3>2
  <2>4. QED BY <2>1, <2>2, <2>3
<1>3. CASE TunnelStep /\ phase' # "ended"
  <2>1. CASE TunnelAnswers /\ phase = "proxy"
    <3>1. proxy' = "tunnel" /\ dispatcher' = "socks" /\ seed' = seed
      BY <2>1 DEF TunnelAnswers, UseTunnel, Dispatcher
    <3>2. seed.proxyServer = "ssh"
      BY <2>1 DEF TunnelAnswers
    <3>3. QED BY <3>1, <3>2
  <2>2. CASE ~(TunnelAnswers /\ phase = "proxy")
    BY <1>3, <2>2 DEF TunnelStep, TunnelAnswers, TunnelWaits, TunnelFails, UseTunnel, Fatal, Exit,
       mainVars, browserVars, proxyVars
  <2>3. QED BY <2>1, <2>2
<1>4. CASE Environment \/ Reconnect
  <2>1. browser' # "none" => browser # "none"
    BY <1>4 DEF Environment, RedisGoes, RedisReturns, Order, BrowserLeaves, TunnelBreaks,
       Reconnect, browserVars
  <2>2. QED BY <1>4, <2>1, OutsideFrame DEF mainVars, proxyVars
<1>5. CASE \E w \in Workers : WorkerStep(w) /\ phase' # "ended"
  BY <1>5, WorkerFrame DEF Move, mainVars, browserVars, proxyVars
<1>6. QED BY <1>1, <1>2, <1>3, <1>4, <1>5 DEF Next

LEMMA BrowserStep ==
  ASSUME IInv, phase # "ended", Next
  PROVE  BrowserIsWatched'
<1> USE DEF IInv, LifeInv, BrowserIsWatched, BeforeBrowser, BeforeSeed, InterruptedMeansGone
<1>1. CASE phase' = "ended"
  <2>1. UNCHANGED browserVars
    BY <1>1, EndFrame DEF Exit
  <2>2. QED BY <1>1, <2>1 DEF browserVars
<1>2. CASE MainStep /\ phase' # "ended"
  <2>1. CASE LaunchBrowser \/ CloseBrowser \/ BrowserClosed
    <3>1. CASE LaunchBrowser
      BY <1>2, <3>1 DEF LaunchBrowser, Goto, Uncaught, Exit
    <3>2. CASE CloseBrowser
      BY <3>2 DEF CloseBrowser, Goto
    <3>3. CASE BrowserClosed
      BY <3>3 DEF BrowserClosed, Goto
    <3>4. QED BY <2>1, <3>1, <3>2, <3>3
  <2>2. CASE ~LaunchBrowser /\ ~CloseBrowser /\ ~BrowserClosed
    <3>1. UNCHANGED <<browser, listening, interrupted>>
      BY <1>2, <2>2 DEF MainStep, ConnectDB, SeedDatabase, InitConfig, FindSeed, SetupConfig, SetProxy,
       StartTunnel, LoadBehaviors, LoadProfile, LaunchBrowser, ConnectRedis, CleanRedis,
       AddInitialSeeds, CloseBrowser, NothingToClose, BrowserClosed, ReportDone, Goto, GoOn,
       Uncaught, Fatal, Exit, browserVars
    <3>2. /\ phase' \in BeforeBrowser => phase \in BeforeBrowser
          /\ phase' \in {"redis", "clean", "queue", "crawl", "closing", "failed", "done"}
               => phase \in {"redis", "clean", "queue", "crawl", "closing", "failed", "done"}
          /\ browser = "closing" => phase' = phase
      BY <1>2, <2>2 DEF MainStep, ConnectDB, SeedDatabase, InitConfig, FindSeed, SetupConfig, SetProxy,
       StartTunnel, LoadBehaviors, LoadProfile, LaunchBrowser, ConnectRedis, CleanRedis,
       AddInitialSeeds, CloseBrowser, NothingToClose, BrowserClosed, ReportDone, Goto, GoOn,
       Uncaught, Fatal, Exit, mainVars
    <3>3. QED BY <3>1, <3>2
  <2>3. QED BY <2>1, <2>2
<1>3. CASE TunnelStep /\ phase' # "ended"
  BY <1>3 DEF TunnelStep, TunnelAnswers, TunnelWaits, TunnelFails, UseTunnel, Fatal, Exit,
     Goto, mainVars, browserVars
<1>4. CASE Environment \/ Reconnect
  <2>1. CASE BrowserLeaves
    BY <2>1 DEF BrowserLeaves, mainVars
  <2>2. CASE ~BrowserLeaves
    BY <1>4, <2>2 DEF Environment, RedisGoes, RedisReturns, Order, TunnelBreaks, Reconnect,
       mainVars, browserVars
  <2>3. QED BY <2>1, <2>2
<1>5. CASE \E w \in Workers : WorkerStep(w) /\ phase' # "ended"
  BY <1>5, WorkerFrame DEF Move, mainVars, browserVars
<1>6. QED BY <1>1, <1>2, <1>3, <1>4, <1>5 DEF Next

LEMMA ClientStep ==
  ASSUME IInv, phase # "ended", Next
  PROVE  ClientCounts'
<1> USE LifeAssumption DEF IInv, LifeInv, ClientCounts, BeforeBrowser, BeforeSeed
<1>1. CASE phase' = "ended"
  <2>1. UNCHANGED redisVars
    BY <1>1, EndFrame DEF Exit
  <2>2. QED BY <1>1, <2>1 DEF redisVars
<1>2. CASE MainStep /\ phase' # "ended"
  <2>1. CASE ConnectRedis
    BY <2>1 DEF ConnectRedis, Goto
  <2>2. CASE ~ConnectRedis
    <3>1. UNCHANGED <<client, attempts>>
      BY <1>2, <2>2 DEF MainStep, ConnectDB, SeedDatabase, InitConfig, FindSeed, SetupConfig, SetProxy,
       StartTunnel, LoadBehaviors, LoadProfile, LaunchBrowser, ConnectRedis, CleanRedis,
       AddInitialSeeds, CloseBrowser, NothingToClose, BrowserClosed, ReportDone, Goto, GoOn,
       Uncaught, Fatal, Exit, redisVars
    <3>2. /\ phase' \in {"clean", "queue", "crawl", "closing"}
               => phase \in {"clean", "queue", "crawl", "closing"}
          /\ phase' \in BeforeBrowser \cup {"redis"} => phase \in BeforeBrowser \cup {"redis"}
      BY <1>2, <2>2 DEF MainStep, ConnectDB, SeedDatabase, InitConfig, FindSeed, SetupConfig, SetProxy,
       StartTunnel, LoadBehaviors, LoadProfile, LaunchBrowser, ConnectRedis, CleanRedis,
       AddInitialSeeds, CloseBrowser, NothingToClose, BrowserClosed, ReportDone, Goto, GoOn,
       Uncaught, Fatal, Exit, mainVars
    <3>3. QED BY <3>1, <3>2
  <2>3. QED BY <2>1, <2>2
<1>3. CASE TunnelStep /\ phase' # "ended"
  BY <1>3 DEF TunnelStep, TunnelAnswers, TunnelWaits, TunnelFails, UseTunnel, Fatal, Exit,
     Goto, mainVars, redisVars
<1>4. CASE Environment \/ Reconnect
  <2>1. CASE RedisGoes \/ Reconnect
    BY <2>1 DEF RedisGoes, Reconnect, mainVars, TypeOK, RedisTypeOK
  <2>2. CASE ~RedisGoes /\ ~Reconnect
    BY <1>4, <2>2 DEF Environment, RedisReturns, Order, BrowserLeaves, TunnelBreaks,
       mainVars, redisVars
  <2>3. QED BY <2>1, <2>2
<1>5. CASE \E w \in Workers : WorkerStep(w) /\ phase' # "ended"
  BY <1>5, WorkerFrame DEF Move, mainVars, redisVars
<1>6. QED BY <1>1, <1>2, <1>3, <1>4, <1>5 DEF Next

LEMMA WorkersStep ==
  ASSUME IInv, phase # "ended", Next
  PROVE  WorkersAreTold'
<1> USE DEF IInv, LifeInv, WorkersAreTold
<1>1. CASE phase' = "ended"
  BY <1>1
<1>2. CASE MainStep /\ phase' # "ended"
  <2>1. CASE AddInitialSeeds
    BY <2>1 DEF AddInitialSeeds, Goto
  <2>2. CASE ~AddInitialSeeds
    <3>1. pc' = pc
      BY <1>2, <2>2 DEF MainStep, ConnectDB, SeedDatabase, InitConfig, FindSeed, SetupConfig, SetProxy,
       StartTunnel, LoadBehaviors, LoadProfile, LaunchBrowser, ConnectRedis, CleanRedis,
       AddInitialSeeds, CloseBrowser, NothingToClose, BrowserClosed, ReportDone, Goto, GoOn,
       Uncaught, Fatal, Exit, workerVars
    <3>2. CASE phase = "crawl"
      BY <1>2, <2>2, <3>1, <3>2 DEF BrowserIsWatched, MainStep, ConnectDB, SeedDatabase, InitConfig, FindSeed, SetupConfig, SetProxy,
       StartTunnel, LoadBehaviors, LoadProfile, LaunchBrowser, ConnectRedis, CleanRedis,
       AddInitialSeeds, CloseBrowser, NothingToClose, BrowserClosed, ReportDone, Goto, GoOn,
       Uncaught, Fatal, Exit, mainVars
    <3>3. CASE phase # "crawl"
      BY <1>2, <2>2, <3>1, <3>3
    <3>4. QED BY <3>2, <3>3
  <2>3. QED BY <2>1, <2>2
<1>3. CASE TunnelStep /\ phase' # "ended"
  BY <1>3 DEF TunnelStep, TunnelAnswers, TunnelWaits, TunnelFails, UseTunnel, Fatal, Exit,
     Goto, mainVars, workerVars
<1>4. CASE Environment \/ Reconnect
  <2>1. orders \subseteq orders'
    BY <1>4 DEF Environment, RedisGoes, RedisReturns, Order, BrowserLeaves, TunnelBreaks, Reconnect
  <2>2. QED BY <1>4, <2>1, OutsideFrame DEF mainVars, workerVars
<1>5. ASSUME NEW w \in Workers, WorkerStep(w), phase' # "ended"
      PROVE  WorkersAreTold'
  <2>1. Move(w, pc'[w]) /\ phase = "crawl"
    BY <1>5, WorkerFrame
  <2>2. status' \in {status, "canceled"}
    BY <1>5 DEF WorkerStep, CommandFails, IsCrawlRunning, SetStatus, ExitCanceled, TakePage,
       ReuseWindow, OpenWindow, PageEnds, PageFinished, Walk, Exit, Fatal
  <2>3. /\ pc'[w] \in {"cancel", "exit"} => "cancel" \in orders
        /\ pc'[w] = "exit" => status' = "canceled"
    BY <1>5 DEF WorkerStep, CommandFails, IsCrawlRunning, SetStatus, ExitCanceled, TakePage,
       ReuseWindow, OpenWindow, PageEnds, PageFinished, Walk, Move, At, Exit, Fatal,
       TypeOK, WorkerTypeOK
  <2>4. \A v \in Workers \ {w} : pc'[v] = pc[v]
    BY <2>1 DEF Move, TypeOK, WorkerTypeOK
  <2>5. phase' = "crawl" /\ orders' = orders
    BY <2>1 DEF Move, mainVars
  <2>6. QED BY <2>1, <2>2, <2>3, <2>4, <2>5
<1>6. QED BY <1>1, <1>2, <1>3, <1>4, <1>5 DEF Next

LEMMA CanceledStep ==
  ASSUME IInv, phase # "ended", Next
  PROVE  CanceledIsTold'
<1> USE DEF CanceledIsTold
<1>1. CASE phase' = "ended"
  <2>1. PICK code \in {0, 1, 17, 21} :
          /\ Exit(code)
          /\ code = 0 => \/ params.restartsOnError
                         \/ \E w \in Workers : ExitCanceled(w)
    BY <1>1, EndFrame
  <2>2. exitCode' = code /\ params' = params /\ orders' = orders
    BY <2>1 DEF Exit
  <2>3. ASSUME NEW w \in Workers, ExitCanceled(w)
        PROVE  "cancel" \in orders /\ status' = "canceled"
    BY <2>3 DEF ExitCanceled, At, IInv, LifeInv, WorkersAreTold
  <2>4. QED BY <2>1, <2>2, <2>3
<1>2. CASE phase' # "ended"
  <2>1. exitCode' = exitCode /\ exitCode = Running
    <3>1. exitCode = Running
      BY DEF IInv, TypeOK, MainTypeOK
    <3>2. exitCode' = exitCode
      <4>1. CASE MainStep
        BY <1>2, <4>1 DEF MainStep, ConnectDB, SeedDatabase, InitConfig, FindSeed, SetupConfig, SetProxy,
       StartTunnel, LoadBehaviors, LoadProfile, LaunchBrowser, ConnectRedis, CleanRedis,
       AddInitialSeeds, CloseBrowser, NothingToClose, BrowserClosed, ReportDone, Goto, GoOn,
       Uncaught, Fatal, Exit
      <4>2. CASE TunnelStep
        BY <1>2, <4>2 DEF TunnelStep, TunnelAnswers, TunnelWaits, TunnelFails, UseTunnel, Fatal,
           Exit, Goto
      <4>3. CASE Environment \/ Reconnect
        BY <4>3, OutsideFrame
      <4>4. CASE \E w \in Workers : WorkerStep(w)
        BY <1>2, <4>4, WorkerFrame DEF Move
      <4>5. QED BY <4>1, <4>2, <4>3, <4>4 DEF Next
    <3>3. QED BY <3>1, <3>2
  <2>2. QED BY <2>1, LifeAssumption
<1>3. QED BY <1>1, <1>2

---------------------------------------------------------------------------
(* Theorems.                                                               *)

LEMMA Step ==
  ASSUME IInv, [Next]_vars
  PROVE  IInv'
<1>1. CASE phase # "ended" /\ Next
  <2>1. TypeOK'
    BY <1>1, MainTypes, TunnelTypes, OutsideTypes, WorkerTypes DEF Next
  <2>2. QED
    BY <1>1, <2>1, SeedStep, ProxyStep, BrowserStep, ClientStep, WorkersStep, CanceledStep
       DEF IInv, LifeInv
<1>2. CASE UNCHANGED vars
  <2>1. TypeOK'
    BY <1>2 DEF vars, mainVars, redisVars, browserVars, proxyVars, tunnelVars, workerVars, IInv,
       TypeOK, MainTypeOK, RedisTypeOK, BrowserTypeOK, ProxyTypeOK, WorkerTypeOK
  <2>2. LifeInv'
    BY <1>2 DEF vars, mainVars, redisVars, browserVars, proxyVars, tunnelVars, workerVars, IInv,
       LifeInv, SeedIsKept, ProxyIsKept, ProxyIsSet, BrowserIsWatched, InterruptedMeansGone,
       ClientCounts, WorkersAreTold, CanceledIsTold
  <2>3. QED BY <2>1, <2>2 DEF IInv
<1>3. QED BY <1>1, <1>2 DEF Next

LEMMA InvInit ==
  ASSUME Init
  PROVE  IInv
<1>1. LifeInv
  BY LifeAssumption DEF Init, LifeInv, SeedIsKept, ProxyIsKept, BrowserIsWatched, BeforeSeed,
     BeforeBrowser, InterruptedMeansGone, ClientCounts, WorkersAreTold, CanceledIsTold
<1>2. QED BY <1>1, TypeInit DEF IInv

\* The variables keep their types, and what main, the client, the browser and the
\* workers rely on stays true, whatever breaks, leaves or is ordered meanwhile.
THEOREM LifeInvariant == Spec => [](TypeOK /\ LifeInv)
<1>1. Init => IInv
  BY InvInit
<1>2. IInv /\ [Next]_vars => IInv'
  BY Step
<1>3. QED BY <1>1, <1>2, PTL DEF Spec, IInv

\* A process that ends with code 0 without having been asked to hide its errors
\* was canceled and has written so (CrawlStateManager.setStatusAndExit).
THEOREM CodeZeroIsTold == Spec => []CanceledIsTold
<1>1. LifeInv => CanceledIsTold
  BY DEF LifeInv
<1>2. QED BY <1>1, LifeInvariant, PTL

\* Neither the browser nor the program itself goes around the proxy of the seed
\* (initProxy, runSSHD), however often its tunnel breaks.
THEOREM ProxyIsNeverBypassed == Spec => []NeverDirect
<1>1. LifeInv => NeverDirect
  BY DEF LifeInv, ProxyIsKept, ProxyIsSet, NeverDirect
<1>2. QED BY <1>1, LifeInvariant, PTL

\* The end of a crawl is never taken for a crash of its browser (Browser.close).
THEOREM OnlyCrashesInterrupt == Spec => []InterruptedMeansGone
<1>1. LifeInv => InterruptedMeansGone
  BY DEF LifeInv, BrowserIsWatched
<1>2. QED BY <1>1, LifeInvariant, PTL

\* For all seeds the limits combine to the strictest, and the time of a page
\* exceeds that of its navigation (ScopedSeed.setupConfig).
THEOREM LimitsAreCombined == Spec => []LimitsCombine
<1>1. ASSUME NEW s \in Seeds
      PROVE  /\ s.pageLimit \in Nat /\ s.maxPageLimit \in Nat
             /\ s.pageLoadTimeout \in Nat /\ s.behaviorTimeout \in Nat
             /\ s.pageExtraDelay \in Nat
  <2>1. CASE s \in OldSeeds
    BY <2>1, LifeAssumption DEF IsSeed
  <2>2. CASE s = SampleSeed
    BY <2>2 DEF SampleSeed, SeedDefaults
  <2>3. QED BY <2>1, <2>2 DEF Seeds
<1>2. LifeInv => LimitsCombine
  <2> SUFFICES ASSUME LifeInv, settings # None
               PROVE  LET set == {seed.pageLimit, seed.maxPageLimit} \ {0}
                      IN  /\ settings.pageLimit = 0 <=> set = {}
                          /\ \A l \in set : settings.pageLimit <= l
                          /\ settings.gotoTimeout < settings.maxPageTime
    BY DEF LimitsCombine
  <2>1. seed \in Seeds /\ settings = SettingsOf(seed)
    BY DEF LifeInv, SeedIsKept
  <2>2. /\ settings.pageLimit = PageLimit(seed)
        /\ settings.gotoTimeout = seed.pageLoadTimeout
        /\ settings.maxPageTime = MaxPageTime(seed)
    BY <2>1 DEF SettingsOf
  <2>3. settings.gotoTimeout < settings.maxPageTime
    BY <1>1, <2>1, <2>2, SettingsAssumption DEF MaxPageTime
  <2>4. QED BY <1>1, <2>1, <2>2, <2>3 DEF PageLimit
<1>3. QED BY <1>2, LifeInvariant, PTL
===========================================================================
