---------------------------- MODULE CrawlWorkers --------------------------
(***************************************************************************)
(* Crawler processes whose workers share one crawl state in Redis:         *)
(* src/src/util/worker.ts (runLoop, timedCrawlPage), the life of a page in *)
(* src/src/services (crawler.ts, urlextractor.ts, statemanager.ts), and    *)
(* the start of a process.  A worker takes one step per round trip to      *)
(* Redis; between two steps the workers of all processes interleave.       *)
(***************************************************************************)
EXTENDS CrawlState

CONSTANTS
  Workers,          \* all workers of all processes
  ProcessOf,        \* the process a worker runs in
  SeedUrl, SeedScore,
  Links,            \* the in-scope links of each URL's page
  SitemapUrls,      \* the in-scope URLs of the sitemap, {} without one
  RedirectsTo,      \* where loading each URL ends, itself if not redirected
  DepthIsZero,      \* the process runs with params.depth = 0
  Overrunning,      \* URLs whose page can crash or outlive its time limit
  MaxCrashes        \* bound: how many processes crash

ASSUME WorkersAssumption ==
  /\ ProcessOf \in [Workers -> Processes]
  /\ SeedUrl \in Urls
  /\ SeedScore \in Int
  /\ Links \in [Urls -> SUBSET Urls]
  /\ SitemapUrls \in SUBSET Urls
  /\ RedirectsTo \in [Urls -> Urls]
  /\ DepthIsZero \in BOOLEAN
  /\ Overrunning \in SUBSET Urls
  /\ MaxCrashes \in Nat

VARIABLES
  phase,        \* of each process: "down", "boot", "seed", "up"
  interrupted,  \* processes whose browser went away
  limitHit,     \* processes that were refused a URL at the page limit
  late,         \* calls that nobody waits for, in flight in each process
  crashes,      \* processes crashed so far
  pc,           \* of each worker: the step it takes next
  task,         \* the entry it took from the queue
  loaded,       \* its page reached LoadState.FULL_PAGE_LOADED
  links,        \* links of its page that are still to be added
  todo          \* pending URLs that resetPendings has still to visit

workerVars == <<phase, interrupted, limitHit, late, crashes,
                pc, task, loaded, links, todo>>
vars == <<stateVars, workerVars>>

Phase == {"down", "boot", "seed", "up"}

\* Where a worker is.  "done" and "left" are both past the end of runLoop:
\* "done" by the break when nothing is left, "left" in any other way.
PC == {"off", "loop", "next", "mark", "init", "load", "status", "links",
       "settle", "count", "hlen", "zcard", "hkeys", "requeue", "size",
       "done", "left"}

Crawling == {"load", "status", "links"}
Holding == {"mark", "init", "settle", "count"} \cup Crawling

\* An addLink call that is under way, or an addExtraSeed call of a page that
\* outlived its time.
LinkCall(u, s) == [op |-> "link", url |-> u, score |-> s]
SeedCall(u) == [op |-> "seed", url |-> u, score |-> 0]
Call == [op : {"link", "seed"}, url : Urls, score : Int]

WorkersTypeOK ==
  /\ phase \in [Processes -> Phase]
  /\ interrupted \in SUBSET Processes
  /\ limitHit \in SUBSET Processes
  /\ late \in [Processes -> SUBSET Call]
  /\ crashes \in 0 .. MaxCrashes
  /\ pc \in [Workers -> PC]
  /\ task \in [Workers -> Entry \cup {NoEntry}]
  /\ loaded \in [Workers -> BOOLEAN]
  /\ links \in [Workers -> SUBSET Urls]
  /\ todo \in [Workers -> SUBSET Urls]

\* A worker has a task exactly while it is between taking a URL and reporting
\* on it, and takes steps only while its process is up.
WorkersMatch ==
  \A w \in Workers : /\ (task[w] # NoEntry) <=> (pc[w] \in Holding)
                     /\ (phase[ProcessOf[w]] = "up") <=> (pc[w] # "off")

\* The variables hold values of their types, also across crashes.
TypeOK == StateTypeOK /\ WorkersTypeOK /\ WorkersMatch

Init ==
  /\ StateInit
  /\ phase = [p \in Processes |-> "down"]
  /\ interrupted = {}
  /\ limitHit = {}
  /\ late = [p \in Processes |-> {}]
  /\ crashes = 0
  /\ pc = [w \in Workers |-> "off"]
  /\ task = [w \in Workers |-> NoEntry]
  /\ loaded = [w \in Workers |-> FALSE]
  /\ links = [w \in Workers |-> {}]
  /\ todo = [w \in Workers |-> {}]

Goto(w, from, to) == pc[w] = from /\ pc' = [pc EXCEPT ![w] = to]

\* isCrawlRunning, as the worker w sees it.
Running(w) == ~stopping /\ ProcessOf[w] \notin interrupted

\* urlextractor.ts queueUrl: once refused at the limit, a process no longer
\* asks.
QueueUrl(p, u, score) ==
  \/ /\ p \in limitHit
     /\ UNCHANGED <<stateVars, limitHit>>
  \/ /\ p \notin limitHit
     /\ AddQueue(u, score, PageLimit)
     /\ limitHit' = IF AddQueueResult(u, PageLimit) = "LIMIT_HIT"
                      THEN limitHit \cup {p} ELSE limitHit

---------------------------------------------------------------------------
(* A process: start, crash, loss of its browser, calls nobody waits for.   *)

\* The operator starts a process (again): its memory is empty.
Start(p) ==
  /\ phase[p] = "down"
  /\ phase' = [phase EXCEPT ![p] = "boot"]
  /\ UNCHANGED <<stateVars, interrupted, limitHit, late, crashes,
                 pc, task, loaded, links, todo>>

\* initCrawlStateInRedis: locks of an earlier life of this host are removed.
ClearOwnPendingLocks(p) ==
  /\ phase[p] = "boot"
  /\ phase' = [phase EXCEPT ![p] = "seed"]
  /\ UnlockPending(p)
  /\ UNCHANGED <<interrupted, limitHit, late, crashes,
                 pc, task, loaded, links, todo>>

\* _addInitialSeeds and runWorkers.  The seed is queued with limit 0, so it
\* is never refused at the limit; the sitemap reader then adds its URLs in
\* the background.
AddInitialSeeds(p) ==
  /\ phase[p] = "seed"
  /\ phase' = [phase EXCEPT ![p] = "up"]
  /\ AddQueue(SeedUrl, SeedScore, 0)
  /\ late' = [late EXCEPT ![p] = {LinkCall(u, 1) : u \in SitemapUrls}]
  /\ pc' = [w \in Workers |-> IF ProcessOf[w] = p THEN "loop" ELSE pc[w]]
  /\ UNCHANGED <<interrupted, limitHit, crashes, task, loaded, links, todo>>

\* The process ends at any point of its work: killed, a fatal error, or an
\* exit on "canceled".  What it has in memory is lost.
Crash(p) ==
  /\ crashes < MaxCrashes
  /\ phase[p] # "down"
  /\ crashes' = crashes + 1
  /\ phase' = [phase EXCEPT ![p] = "down"]
  /\ interrupted' = interrupted \ {p}
  /\ limitHit' = limitHit \ {p}
  /\ late' = [late EXCEPT ![p] = {}]
  /\ pc' = [w \in Workers |-> IF ProcessOf[w] = p THEN "off" ELSE pc[w]]
  /\ task' = [w \in Workers |-> IF ProcessOf[w] = p THEN NoEntry ELSE task[w]]
  /\ loaded' = [w \in Workers |-> IF ProcessOf[w] = p THEN FALSE ELSE loaded[w]]
  /\ links' = [w \in Workers |-> IF ProcessOf[w] = p THEN {} ELSE links[w]]
  /\ todo' = [w \in Workers |-> IF ProcessOf[w] = p THEN {} ELSE todo[w]]
  /\ UNCHANGED stateVars

\* ondisconnect: the browser of a process goes away.
BrowserDisconnects(p) ==
  /\ phase[p] # "down"
  /\ p \notin interrupted
  /\ interrupted' = interrupted \cup {p}
  /\ UNCHANGED <<stateVars, phase, limitHit, late, crashes,
                 pc, task, loaded, links, todo>>

\* A call that nobody waits for reaches Redis.
DeliverLateLink(p, c) ==
  /\ c \in late[p]
  /\ c.op = "link"
  /\ QueueUrl(p, c.url, c.score)
  /\ late' = [late EXCEPT ![p] = @ \ {c}]
  /\ UNCHANGED <<phase, interrupted, crashes, pc, task, loaded, links, todo>>

DeliverLateSeed(p, c) ==
  /\ c \in late[p]
  /\ c.op = "seed"
  /\ AddNewSeed(c.url)
  /\ late' = [late EXCEPT ![p] = @ \ {c}]
  /\ UNCHANGED <<phase, interrupted, limitHit, crashes,
                 pc, task, loaded, links, todo>>

---------------------------------------------------------------------------
(* A worker that takes a URL: runLoop up to timedCrawlPage.                *)

processVars == <<phase, interrupted, limitHit, late, crashes>>
pageVars == <<loaded, links>>

\* The condition of the loop.
Continue(w) ==
  /\ Running(w)
  /\ Goto(w, "loop", "next")
  /\ UNCHANGED <<stateVars, processVars, task, pageVars, todo>>

LeaveLoop(w) ==
  /\ ~Running(w)
  /\ Goto(w, "loop", "left")
  /\ UNCHANGED <<stateVars, processVars, task, pageVars, todo>>

\* nextFromQueue, first round trip.
TakeUrl(w, e) ==
  /\ Goto(w, "next", "mark")
  /\ GetNext(e)
  /\ task' = [task EXCEPT ![w] = e]
  /\ UNCHANGED <<processVars, pageVars, todo>>

QueueIsEmpty(w) ==
  /\ queue = {}
  /\ Goto(w, "next", "hlen")
  /\ UNCHANGED <<stateVars, processVars, task, pageVars, todo>>

\* nextFromQueue, second round trip.
LockUrl(w) ==
  /\ Goto(w, "mark", "init")
  /\ MarkStarted(task[w].url, ProcessOf[w])
  /\ UNCHANGED <<processVars, task, pageVars, todo>>

\* initPage finds a page, reused or in a new window.
InitPage(w) ==
  /\ Goto(w, "init", "load")
  /\ UNCHANGED <<stateVars, processVars, task, pageVars, todo>>

\* initPage throws when the crawl no longer runs: the worker ends and leaves
\* its URL in p.
InitPageThrows(w) ==
  /\ ~Running(w)
  /\ Goto(w, "init", "left")
  /\ task' = [task EXCEPT ![w] = NoEntry]
  /\ UNCHANGED <<stateVars, processVars, pageVars, todo>>

---------------------------------------------------------------------------
(* The page of a worker: crawler.ts crawlPage under timedCrawlPage.        *)

\* preExtractLinks up to the redirected seed: any redirect counts when the
\* process runs with depth 0.
NewSeed(u) == IF DepthIsZero /\ RedirectsTo[u] # u THEN {RedirectsTo[u]} ELSE {}

PageResponds(w) ==
  /\ Goto(w, "load", "status")
  /\ \/ /\ NewSeed(task[w].url) = {}
        /\ UNCHANGED stateVars
     \/ \E s \in NewSeed(task[w].url) : AddNewSeed(s)
  /\ UNCHANGED <<processVars, task, pageVars, todo>>

\* The rest of preExtractLinks: the page counts as loaded, and its links are
\* going to be added.
PageLoads(w) ==
  /\ Goto(w, "status", "links")
  /\ loaded' = [loaded EXCEPT ![w] = TRUE]
  /\ links' = [links EXCEPT ![w] = Links[task[w].url]]
  /\ UNCHANGED <<stateVars, processVars, task, todo>>

\* No response, a Chrome error page or an invalid status: crawlPage throws.
PageFails(w) ==
  /\ \/ Goto(w, "load", "settle")
     \/ Goto(w, "status", "settle")
  /\ UNCHANGED <<stateVars, processVars, task, pageVars, todo>>

\* extractLinks: the page reports one link.
AddLink(w, u) ==
  /\ pc[w] = "links"
  /\ u \in links[w]
  /\ QueueUrl(ProcessOf[w], u, task[w].score + 1)
  /\ links' = [links EXCEPT ![w] = @ \ {u}]
  /\ UNCHANGED <<phase, interrupted, late, crashes, pc, task, loaded, todo>>

PageReturns(w) ==
  /\ links[w] = {}
  /\ Goto(w, "links", "settle")
  /\ UNCHANGED <<stateVars, processVars, task, pageVars, todo>>

\* The calls that a page still makes when nobody waits for it any more.
RemainingCalls(w) ==
  LET u == task[w].url
      linkCalls(S) == {LinkCall(v, task[w].score + 1) : v \in S}
  IN CASE pc[w] = "load" ->
            {SeedCall(s) : s \in NewSeed(u)} \cup linkCalls(Links[u])
       [] pc[w] = "status" -> linkCalls(Links[u])
       [] OTHER -> linkCalls(links[w])

\* maxPageTime passes or the page crashes: timedCrawlPage goes on, crawlPage
\* itself is not stopped and may still make its calls.  It may even get the
\* page loaded while timedCrawlPage closes it.
PageOverruns(w) ==
  /\ pc[w] \in Crawling
  /\ task[w].url \in Overrunning
  /\ pc' = [pc EXCEPT ![w] = "settle"]
  /\ \/ /\ late' = [late EXCEPT ![ProcessOf[w]] = @ \cup RemainingCalls(w)]
        /\ \E l \in {loaded[w], TRUE} : loaded' = [loaded EXCEPT ![w] = l]
     \/ UNCHANGED <<late, loaded>>
  /\ links' = [links EXCEPT ![w] = {}]
  /\ UNCHANGED <<stateVars, phase, interrupted, limitHit, crashes, task, todo>>

---------------------------------------------------------------------------
(* pageFinished: markFinished or markFailed, two round trips each.         *)

SettleFinished(w) ==
  /\ loaded[w]
  /\ Goto(w, "settle", "count")
  /\ RemovePending(task[w].url)
  /\ UNCHANGED <<processVars, task, pageVars, todo>>

SettleFailed(w) ==
  /\ ~loaded[w]
  /\ Goto(w, "settle", "count")
  /\ MoveFailed(task[w].url)
  /\ UNCHANGED <<processVars, task, pageVars, todo>>

CountDone(w) ==
  /\ Goto(w, "count", "loop")
  /\ IncrDone
  /\ task' = [task EXCEPT ![w] = NoEntry]
  /\ loaded' = [loaded EXCEPT ![w] = FALSE]
  /\ UNCHANGED <<processVars, links, todo>>

---------------------------------------------------------------------------
(* A worker that found the queue empty: numPending, resetPendings,         *)
(* queueSize.                                                              *)

\* Mutant: an empty queue alone means that nothing is left.
CountPendingSkipped(w) ==
  /\ Goto(w, "hlen", "size")
  /\ UNCHANGED <<stateVars, processVars, task, pageVars, todo>>

CountPending(w) ==
  /\ \/ PendingUrls # {} /\ Goto(w, "hlen", "zcard")
     \/ PendingUrls = {} /\ Goto(w, "hlen", "size")
  /\ UNCHANGED <<stateVars, processVars, task, pageVars, todo>>

\* Pendings are reset only when the queue is empty; with pendings the worker
\* sleeps and goes round in any case.
CheckQueue(w) ==
  /\ \/ queue = {} /\ Goto(w, "zcard", "hkeys")
     \/ queue # {} /\ Goto(w, "zcard", "loop")
  /\ UNCHANGED <<stateVars, processVars, task, pageVars, todo>>

ListPending(w) ==
  /\ Goto(w, "hkeys", "requeue")
  /\ todo' = [todo EXCEPT ![w] = PendingUrls]
  /\ UNCHANGED <<stateVars, processVars, task, pageVars>>

RequeuePending(w, u) ==
  /\ pc[w] = "requeue"
  /\ u \in todo[w]
  /\ Requeue(u)
  /\ todo' = [todo EXCEPT ![w] = @ \ {u}]
  /\ UNCHANGED <<processVars, pc, task, pageVars>>

ResetDone(w) ==
  /\ todo[w] = {}
  /\ Goto(w, "requeue", "loop")
  /\ UNCHANGED <<stateVars, processVars, task, pageVars, todo>>

\* No pending URL was seen: leave if the queue is (still) empty.
CheckAllDone(w) ==
  /\ \/ queue = {} /\ Goto(w, "size", "done")
     \/ queue # {} /\ Goto(w, "size", "loop")
  /\ UNCHANGED <<stateVars, processVars, task, pageVars, todo>>

---------------------------------------------------------------------------

WorkerStep(w) ==
  \/ Continue(w) \/ LeaveLoop(w)
  \/ \E e \in queue : TakeUrl(w, e)
  \/ QueueIsEmpty(w)
  \/ LockUrl(w) \/ InitPage(w) \/ InitPageThrows(w)
  \/ PageResponds(w) \/ PageLoads(w) \/ PageFails(w)
  \/ \E u \in Urls : AddLink(w, u)
  \/ PageReturns(w) \/ PageOverruns(w)
  \/ SettleFinished(w) \/ SettleFailed(w) \/ CountDone(w)
  \/ CountPending(w) \/ CheckQueue(w) \/ ListPending(w)
  \/ \E u \in Urls : RequeuePending(w, u)
  \/ ResetDone(w) \/ CheckAllDone(w)

ProcessStep(p) ==
  \/ Start(p) \/ ClearOwnPendingLocks(p) \/ AddInitialSeeds(p)
  \/ Crash(p) \/ BrowserDisconnects(p)
  \/ \E c \in late[p] : DeliverLateLink(p, c) \/ DeliverLateSeed(p, c)

Expire(u) == ExpireLock(u) /\ UNCHANGED workerVars

Stop == StopCrawl /\ UNCHANGED workerVars

Next ==
  \/ \E w \in Workers : WorkerStep(w)
  \/ \E p \in Processes : ProcessStep(p)
  \/ \E u \in Urls : Expire(u)
  \/ Stop

Spec == Init /\ [][Next]_vars

\* A worker that has a step takes one: each awaits a Redis call, a page with
\* a time limit, or a sleep.  A started process comes up, and Redis expires
\* its keys.  No page has to load, no late call has to arrive, and nothing
\* makes an operator start a process again.
Fairness ==
  /\ \A w \in Workers : WF_vars(WorkerStep(w))
  /\ \A p \in Processes :
       WF_vars(ClearOwnPendingLocks(p)) /\ WF_vars(AddInitialSeeds(p))
  /\ \A u \in Urls : WF_vars(Expire(u))

FairSpec == Spec /\ Fairness

---------------------------------------------------------------------------
(* Properties.                                                             *)

\* A URL has at most one entry in q and p together, whatever the workers'
\* round trips do in between: requeue and getnext never duplicate it.
OneCopy ==
  /\ \A e, f \in queue : e.url = f.url => e = f
  /\ \A u \in Urls : ~(Queued(u) /\ Pending(u))

\* maxRetryPending bounds the work on a URL: it is handed to workers at most
\* that many times plus one, and given up only after all of them.
HandOutsBounded ==
  /\ \A u \in Urls : handed[u] <= MaxRetryPending + 1
  /\ \A u \in dropped : /\ handed[u] = MaxRetryPending + 1
                        /\ ~Queued(u) /\ ~Pending(u)

\* No URL is lost: one that was ever added is still queued or pending, or it
\* was reported finished or failed, or given up, or is an extra seed.
NothingLost ==
  \A u \in seen :
    \/ Queued(u) \/ Pending(u)
    \/ u \in finished \/ failed[u] > 0 \/ u \in dropped
    \/ u \in extraSeeds

\* A URL enters the list of failed pages once, and is then never crawled
\* again, even when two workers fail on it.
FailedIsFinal ==
  \A u \in Urls :
    failed[u] > 0 => failed[u] = 1 /\ ~Queued(u) /\ ~Pending(u)

\* What the keys of the crawl state say about each other: the retry field of
\* an entry counts the hand-outs of its URL, and only URLs that were added
\* have entries.  This makes the four properties above inductive.
QueueAccount ==
  \A e \in queue :
    /\ e.url \in seen /\ ~Pending(e.url)
    /\ e.retry <= MaxRetryPending
    /\ handed[e.url] = e.retry

PendingAccount ==
  \A u \in PendingUrls :
    /\ pending[u].url = u /\ u \in seen
    /\ pending[u].retry <= MaxRetryPending
    /\ handed[u] = pending[u].retry + 1

UnseenAccount ==
  \A u \in Urls \ seen : handed[u] = 0 /\ failed[u] = 0 /\ u \notin dropped

Accounts ==
  /\ QueueAccount /\ PendingAccount /\ UnseenAccount
  /\ OneCopy /\ HandOutsBounded /\ NothingLost /\ FailedIsFinal

AddedWithinLimit ==
  PageLimit > 0 => Cardinality(seen) - Cardinality(extraSeeds) <= PageLimit
ReportedWithinTries ==
  done <= Cardinality(seen) * (MaxRetryPending + 1)

\* Crawls, restarts and redirects of several processes never add more than
\* the page limit, apart from the seed and what extra seeds allow; and though a
\* requeued page may be reported by each worker that had it, d never exceeds
\* maxRetryPending + 1 for each page, whoever crashes, fails or comes late.
PagesWithinAllowance == AddedWithinLimit /\ ReportedWithinTries

\* Each time that a page is handed out is counted once at most: by d, or by the
\* worker that still holds the page and will report it.  This makes the second
\* part inductive.
HandOuts == UNION {{u} \X (1 .. handed[u]) : u \in Urls}
Holders == {w \in Workers : task[w] # NoEntry}
ReportsCounted == done + Cardinality(Holders) <= Cardinality(HandOuts)

\* Nothing adds URLs but the code that workers wait for, and there are workers.
OnlyWorkersAdd == Workers # {} /\ SitemapUrls = {} /\ Overrunning = {}

\* When every worker has left because nothing was left to do, no URL is pending,
\* and none is queued that a worker ever took, whoever else takes, requeues and
\* reports URLs meanwhile: the check in two round trips strands none.  Only a call
\* that nobody waits for, of the sitemap or of a page that overran, adds one then.
NoStranded ==
  (\A w \in Workers : pc[w] = "done") =>
    /\ PendingUrls = {}
    /\ \A e \in queue : handed[e.url] = 0
    /\ OnlyWorkersAdd => queue = {}

\* Past its last look at the queue a worker hands nothing on; past the count of
\* the pending URLs it takes none either.  Once all are past these, what is left
\* over was added since, by nobody that was waited for.
Looking == {"hlen", "zcard", "hkeys", "size", "done"}
LastLooks ==
  /\ (\A w \in Workers : pc[w] \in {"size", "done"}) => PendingUrls = {}
  /\ (\A w \in Workers : pc[w] \in Looking) =>
       /\ \A e \in queue : handed[e.url] = 0
       /\ OnlyWorkersAdd => queue = {}
  /\ \A p \in Processes :
       /\ phase[p] = "up" => SeedUrl \in seen
       /\ OnlyWorkersAdd => late[p] = {}

\* However often the same URL is crawled, all workers stop in the end.
Termination ==
  <>[](\A w \in Workers : pc[w] \in {"off", "done", "left"})

\* The crawl is not stopped and keeps its browsers, and a process that ends
\* before its time is started again.
Undisturbed ==
  /\ [](~stopping /\ interrupted = {})
  /\ \A p \in Processes : []<>(phase[p] = "up")

\* Then every URL that was added is settled in the end: workers do not all
\* leave while one waits, and what a crashed process held is taken up again.
EveryUrlSettles ==
  Undisturbed =>
    \A u \in Urls : u \in seen ~> (~Queued(u) /\ ~Pending(u))

---------------------------------------------------------------------------
(* A statement of a test that the code does not keep.                      *)

\* src/tests/multi-instance-crawl.test.js:91,123: two crawlers that share a
\* crawl with --limit 4 report 1 + 3 pages together, so no more pages are
\* reported than the limit admits.
DoneWithinLimit == PageLimit > 0 => done <= PageLimit

===========================================================================
