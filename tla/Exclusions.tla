----------------------------- MODULE Exclusions ---------------------------
(***************************************************************************)
(* An operator excludes pages while a crawl runs: processMessage,          *)
(* filterQueue and markExcluded of src/src/util/state.ts, between the      *)
(* steps of the workers of src/src/util/worker.ts.                         *)
(*                                                                         *)
(* Each process has its own inbox and its own list of exclusions, so two   *)
(* processes disagree about the scope for a while.  A page is one step     *)
(* for each link here; its failures are in CrawlWorkers.  All exclusions   *)
(* are one regex, which matches the URLs of Excluded.                      *)
(***************************************************************************)
EXTENDS CrawlState

CONSTANTS
  Workers, ProcessOf, SeedUrl, SeedScore, Links,
  Excluded          \* the URLs that the operator's regex matches

ASSUME ExclusionsAssumption ==
  /\ ProcessOf \in [Workers -> Processes]
  /\ SeedUrl \in Urls
  /\ SeedScore \in Int
  /\ Links \in [Urls -> SUBSET Urls]
  /\ Excluded \in SUBSET Urls

VARIABLES
  told,         \* processes the operator has sent addExclusion to
  inbox,        \* those whose list <uid>:msg still holds the message
  excluding,    \* processes that have the regex in crawlConfig.exclude
  filter,       \* of each process: its call of filterQueue
  pc, task, links, todo,   \* of each worker, as in CrawlWorkers
  informed      \* history: workers that knew the regex when they took a URL

exclusionVars == <<told, inbox, excluding>>
workerVars == <<pc, task, links, todo, informed>>
vars == <<stateVars, exclusionVars, filter, workerVars>>

\* A call of filterQueue: where it is, the entries that the scan is bound to
\* return, the entry it is at work on, and whether that very entry is still
\* in the queue: one that was added anew has another time stamp in its JSON.
NoFilter == [at |-> "off", rest |-> {}, entry |-> NoEntry, current |-> FALSE]
Filter == [at : {"off", "scan", "zrem", "hdel", "srem"}, rest : SUBSET Entry,
           entry : Entry \cup {NoEntry}, current : BOOLEAN]

PC == {"loop", "message", "next", "mark", "scope", "hdel", "srem",
       "crawl", "settle", "count", "hlen", "zcard", "requeue", "size", "out"}
Holding == {"mark", "scope", "hdel", "srem", "crawl", "settle", "count"}

MessagesTypeOK ==
  told \in SUBSET Processes /\ inbox \in SUBSET told /\ excluding \in SUBSET (told \ inbox)
FilterTypeOK ==
  /\ filter \in [Processes -> Filter]
  /\ \A p \in Processes :
       (filter[p].entry # NoEntry) <=> (filter[p].at \in {"zrem", "hdel", "srem"})
WorkersTypeOK ==
  /\ pc \in [Workers -> PC]
  /\ task \in [Workers -> Entry \cup {NoEntry}]
  /\ links \in [Workers -> SUBSET Urls]
  /\ todo \in [Workers -> SUBSET Urls]
  /\ informed \in SUBSET Workers
  /\ \A w \in Workers : (task[w] # NoEntry) <=> (pc[w] \in Holding)

\* The variables hold values of their types; a filter is at work on an entry
\* and a worker on a task exactly between taking it up and being done with it.
TypeOK == StateTypeOK /\ MessagesTypeOK /\ FilterTypeOK /\ WorkersTypeOK

\* The seed is queued, and every worker is about to begin its loop.
Init ==
  /\ queue = {[url |-> SeedUrl, score |-> SeedScore, retry |-> 0]}
  /\ seen = {SeedUrl}
  /\ pending = [u \in Urls |-> NoEntry]
  /\ lock = [u \in Urls |-> Free]
  /\ done = 0
  /\ failed = [u \in Urls |-> 0]
  /\ extraSeeds = {}
  /\ stopping = FALSE
  /\ handed = [u \in Urls |-> 0]
  /\ finished = {}
  /\ dropped = {}
  /\ told = {} /\ inbox = {} /\ excluding = {}
  /\ filter = [p \in Processes |-> NoFilter]
  /\ pc = [w \in Workers |-> "loop"]
  /\ task = [w \in Workers |-> NoEntry]
  /\ links = [w \in Workers |-> {}]
  /\ todo = [w \in Workers |-> {}]
  /\ informed = {}

Goto(w, from, to) == pc[w] = from /\ pc' = [pc EXCEPT ![w] = to]

\* isIncluded as far as exclusions go: the seed's own URL is included before
\* the exclusions are looked at.
InScope(p, u) == u = SeedUrl \/ p \notin excluding \/ u \notin Excluded

---------------------------------------------------------------------------
(* The operator, and processMessage.                                       *)

AddExclusionMessage(p) ==
  /\ p \notin told
  /\ told' = told \cup {p}
  /\ inbox' = inbox \cup {p}
  /\ UNCHANGED <<stateVars, excluding, filter, workerVars>>

\* processMessage pops messages until there is none.  addExclusion starts
\* filterQueue, whose scan returns at least what is in the queue throughout;
\* the worker does not wait for it.
PopMessage(w) ==
  LET p == ProcessOf[w] IN
  /\ pc[w] = "message"
  /\ p \in inbox
  /\ inbox' = inbox \ {p}
  /\ excluding' = excluding \cup {p}
  /\ filter' = [filter EXCEPT ![p] =
       [NoFilter EXCEPT !.at = "scan",
                        !.rest = {e \in queue : e.url \in Excluded}]]
  /\ UNCHANGED <<stateVars, told, workerVars>>

NoMessage(w) ==
  /\ ProcessOf[w] \notin inbox
  /\ Goto(w, "message", "next")
  /\ UNCHANGED <<stateVars, exclusionVars, filter, task, links, todo, informed>>

---------------------------------------------------------------------------
(* filterQueue: for each entry of the scan zrem, then markExcluded.        *)

\* Mutant: the scan's glob pattern alone decides, which matches any JSON.
FilterTakesUntested(p, e) ==
  /\ filter[p].at = "scan"
  /\ e \in filter[p].rest \cup queue
  /\ filter' = [filter EXCEPT ![p].at = "zrem", ![p].entry = e,
                              ![p].rest = @ \ {e}, ![p].current = e \in queue]
  /\ UNCHANGED <<stateVars, exclusionVars, workerVars>>

\* The scan returns an entry it began with, which may be gone by the time it
\* is looked at, or one that was added meanwhile.
FilterTakes(p, e) ==
  /\ filter[p].at = "scan"
  /\ e \in filter[p].rest \cup queue
  /\ e.url \in Excluded
  /\ filter' = [filter EXCEPT ![p].at = "zrem", ![p].entry = e,
                              ![p].rest = @ \ {e}, ![p].current = e \in queue]
  /\ UNCHANGED <<stateVars, exclusionVars, workerVars>>

\* An entry that left the queue before the scan came to it is not returned.
FilterMisses(p, e) ==
  /\ filter[p].at = "scan"
  /\ e \in filter[p].rest \ queue
  /\ filter' = [filter EXCEPT ![p].rest = @ \ {e}]
  /\ UNCHANGED <<stateVars, exclusionVars, workerVars>>

\* The filters after the entry e left the queue.
Outdated(e) ==
  [p \in Processes |->
     IF filter[p].entry = e THEN [filter[p] EXCEPT !.current = FALSE]
                            ELSE filter[p]]

\* zrem; markExcluded follows whether or not it removed anything.
FilterRemoves(p) ==
  LET e == filter[p].entry IN
  /\ filter[p].at = "zrem"
  /\ queue' = IF filter[p].current THEN queue \ {e} ELSE queue
  /\ filter' = [IF filter[p].current THEN Outdated(e) ELSE filter
                  EXCEPT ![p].at = "hdel"]
  /\ UNCHANGED <<pending, lock, seen, done, failed, extraSeeds, stopping,
                 handed, finished, dropped, exclusionVars, workerVars>>

\* markExcluded, first and second round trip.
Unpend(u) ==
  /\ pending' = [pending EXCEPT ![u] = NoEntry]
  /\ UNCHANGED <<queue, lock, seen, done, failed, extraSeeds, stopping,
                 handed, finished, dropped>>

Unsee(u) ==
  /\ seen' = seen \ {u}
  /\ UNCHANGED <<queue, pending, lock, done, failed, extraSeeds, stopping,
                 handed, finished, dropped>>

FilterUnpends(p) ==
  /\ filter[p].at = "hdel"
  /\ Unpend(filter[p].entry.url)
  /\ filter' = [filter EXCEPT ![p].at = "srem"]
  /\ UNCHANGED <<exclusionVars, workerVars>>

FilterUnsees(p) ==
  /\ filter[p].at = "srem"
  /\ Unsee(filter[p].entry.url)
  /\ filter' = [filter EXCEPT ![p].at = "scan", ![p].entry = NoEntry]
  /\ UNCHANGED <<exclusionVars, workerVars>>

FilterEnds(p) ==
  /\ filter[p].at = "scan"
  /\ filter[p].rest = {}
  /\ filter' = [filter EXCEPT ![p] = NoFilter]
  /\ UNCHANGED <<stateVars, exclusionVars, workerVars>>

---------------------------------------------------------------------------
(* A worker.                                                               *)

Continue(w) ==
  /\ Goto(w, "loop", "message")
  /\ UNCHANGED <<stateVars, exclusionVars, filter, task, links, todo, informed>>

TakeUrl(w, e) ==
  /\ Goto(w, "next", "mark")
  /\ GetNext(e)
  /\ task' = [task EXCEPT ![w] = e]
  /\ informed' = informed \cup {v \in {w} : ProcessOf[v] \in excluding}
  /\ filter' = Outdated(e)
  /\ UNCHANGED <<exclusionVars, links, todo>>

QueueIsEmpty(w) ==
  /\ queue = {}
  /\ Goto(w, "next", "hlen")
  /\ UNCHANGED <<stateVars, exclusionVars, filter, task, links, todo, informed>>

LockUrl(w) ==
  /\ Goto(w, "mark", "scope")
  /\ MarkStarted(task[w].url, ProcessOf[w])
  /\ UNCHANGED <<exclusionVars, filter, task, links, todo, informed>>

\* Mutant: no check of the scope before a page is crawled.
CrawlUnchecked(w) ==
  /\ Goto(w, "scope", "crawl")
  /\ links' = [links EXCEPT ![w] = Links[task[w].url]]
  /\ UNCHANGED <<stateVars, exclusionVars, filter, task, todo, informed>>

\* The URL is still in scope: its page is crawled.
CrawlInScope(w) ==
  /\ Goto(w, "scope", "crawl")
  /\ InScope(ProcessOf[w], task[w].url)
  /\ links' = [links EXCEPT ![w] = Links[task[w].url]]
  /\ UNCHANGED <<stateVars, exclusionVars, filter, task, todo, informed>>

LeaveOutOfScope(w) ==
  /\ Goto(w, "scope", "hdel")
  /\ ~InScope(ProcessOf[w], task[w].url)
  /\ UNCHANGED <<stateVars, exclusionVars, filter, task, links, todo, informed>>

WorkerUnpends(w) ==
  /\ Goto(w, "hdel", "srem")
  /\ Unpend(task[w].url)
  /\ UNCHANGED <<exclusionVars, filter, task, links, todo, informed>>

WorkerUnsees(w) ==
  /\ Goto(w, "srem", "loop")
  /\ Unsee(task[w].url)
  /\ task' = [task EXCEPT ![w] = NoEntry]
  /\ informed' = informed \ {w}
  /\ UNCHANGED <<exclusionVars, filter, links, todo>>

\* queueInScopeUrls for one link: the scope is checked in the same turn of
\* the event loop in which addqueue is sent.
AddLink(w, u) ==
  /\ pc[w] = "crawl"
  /\ u \in links[w]
  /\ links' = [links EXCEPT ![w] = @ \ {u}]
  /\ \/ InScope(ProcessOf[w], u) /\ AddQueue(u, task[w].score + 1, PageLimit)
     \/ ~InScope(ProcessOf[w], u) /\ UNCHANGED stateVars
  /\ UNCHANGED <<exclusionVars, filter, pc, task, todo, informed>>

PageReturns(w) ==
  /\ links[w] = {}
  /\ Goto(w, "crawl", "settle")
  /\ UNCHANGED <<stateVars, exclusionVars, filter, task, links, todo, informed>>

SettleFinished(w) ==
  /\ Goto(w, "settle", "count")
  /\ RemovePending(task[w].url)
  /\ UNCHANGED <<exclusionVars, filter, task, links, todo, informed>>

CountDone(w) ==
  /\ Goto(w, "count", "loop")
  /\ IncrDone
  /\ task' = [task EXCEPT ![w] = NoEntry]
  /\ informed' = informed \ {w}
  /\ UNCHANGED <<exclusionVars, filter, links, todo>>

---------------------------------------------------------------------------
(* A worker that found the queue empty, as in CrawlWorkers.                *)

CountPending(w) ==
  /\ \/ PendingUrls # {} /\ Goto(w, "hlen", "zcard")
     \/ PendingUrls = {} /\ Goto(w, "hlen", "size")
  /\ UNCHANGED <<stateVars, exclusionVars, filter, task, links, todo, informed>>

\* queueSize and hkeys in one step.
ListPending(w) ==
  /\ \/ queue = {} /\ Goto(w, "zcard", "requeue")
        /\ todo' = [todo EXCEPT ![w] = PendingUrls]
     \/ queue # {} /\ Goto(w, "zcard", "loop") /\ UNCHANGED todo
  /\ UNCHANGED <<stateVars, exclusionVars, filter, task, links, informed>>

RequeuePending(w, u) ==
  /\ pc[w] = "requeue"
  /\ u \in todo[w]
  /\ Requeue(u)
  /\ todo' = [todo EXCEPT ![w] = @ \ {u}]
  /\ UNCHANGED <<exclusionVars, filter, pc, task, links, informed>>

ResetDone(w) ==
  /\ todo[w] = {}
  /\ Goto(w, "requeue", "loop")
  /\ UNCHANGED <<stateVars, exclusionVars, filter, task, links, todo, informed>>

CheckAllDone(w) ==
  /\ \/ queue = {} /\ Goto(w, "size", "out")
     \/ queue # {} /\ Goto(w, "size", "loop")
  /\ UNCHANGED <<stateVars, exclusionVars, filter, task, links, todo, informed>>

---------------------------------------------------------------------------

WorkerStep(w) ==
  \/ Continue(w) \/ PopMessage(w) \/ NoMessage(w)
  \/ \E e \in queue : TakeUrl(w, e)
  \/ QueueIsEmpty(w) \/ LockUrl(w)
  \/ CrawlInScope(w) \/ LeaveOutOfScope(w)
  \/ WorkerUnpends(w) \/ WorkerUnsees(w)
  \/ \E u \in Urls : AddLink(w, u)
  \/ PageReturns(w) \/ SettleFinished(w) \/ CountDone(w)
  \/ CountPending(w) \/ ListPending(w)
  \/ \E u \in Urls : RequeuePending(w, u)
  \/ ResetDone(w) \/ CheckAllDone(w)

FilterStep(p) ==
  \/ \E e \in filter[p].rest \cup queue : FilterTakes(p, e) \/ FilterMisses(p, e)
  \/ FilterRemoves(p) \/ FilterUnpends(p) \/ FilterUnsees(p) \/ FilterEnds(p)

Expire(u) == ExpireLock(u) /\ UNCHANGED <<exclusionVars, filter, workerVars>>

Next ==
  \/ \E w \in Workers : WorkerStep(w)
  \/ \E p \in Processes : AddExclusionMessage(p) \/ FilterStep(p)
  \/ \E u \in Urls : Expire(u)

Spec == Init /\ [][Next]_vars

---------------------------------------------------------------------------
(* Properties.                                                             *)

\* state.ts:427: each page is still checked before it is crawled, even while
\* the queue is being filtered.  Whoever took an excluded URL when its
\* process knew the exclusion never crawls it, unless it is the seed.
NoExcludedPageStarts ==
  \A w \in informed :
    pc[w] = "crawl" => task[w].url \notin Excluded \ {SeedUrl}

\* Excluding some pages never loses, duplicates or repeats another one,
\* whatever the filters remove from under the workers.
OthersUnharmed ==
  \A u \in Urls \ Excluded :
    /\ u \in seen => Queued(u) \/ Pending(u) \/ u \in finished \cup dropped
    /\ ~(Queued(u) /\ Pending(u))
    /\ handed[u] <= MaxRetryPending + 1

\* For the pages that are not excluded the crawl state keeps the promises of
\* CrawlFrontier: where the keys say that they are and how often they were
\* handed out changes as there, whatever filterQueue and markExcluded remove.
Others == Urls \ Excluded
placeBar == [u \in Others |-> PlaceOf(u)]
triesBar == [u \in Others |-> handed[u]]
Frontier == INSTANCE CrawlFrontier
              WITH Urls <- Others, place <- placeBar, tries <- triesBar,
                   MaxTries <- MaxRetryPending + 1
OthersFollowFrontier == Frontier!FrontierSpec

---------------------------------------------------------------------------
(* What they rest on.                                                      *)

\* An entry says how often its URL was handed out, and there is one of it.
Sound(u) ==
  /\ \A e \in queue : e.url = u =>
       u \in seen /\ ~Pending(u) /\ e.retry <= MaxRetryPending /\ handed[u] = e.retry
  /\ \A e, f \in queue : e.url = u /\ f.url = u => e = f
  /\ Pending(u) =>
       /\ u \in seen /\ pending[u].retry <= MaxRetryPending
       /\ handed[u] = pending[u].retry + 1
  /\ u \notin seen => handed[u] = 0
  /\ u \in seen => Queued(u) \/ Pending(u) \/ u \in finished \cup dropped
  /\ handed[u] <= MaxRetryPending + 1

PendingOwn == \A u \in Urls : Pending(u) => pending[u].url = u

\* Filters and workers remove what the operator excluded and nothing else, and
\* a worker that knew of it did not go on to crawl it.
OnlyExcludedLeave ==
  /\ \A p \in Processes : filter[p].entry # NoEntry => filter[p].entry.url \in Excluded
  /\ \A w \in Workers : pc[w] \in {"hdel", "srem"} => task[w].url \in Excluded
  /\ \A w \in informed :
       /\ ProcessOf[w] \in excluding
       /\ pc[w] = "crawl" => task[w].url \notin Excluded \ {SeedUrl}

ExclusionInv ==
  (\A u \in Urls \ Excluded : Sound(u)) /\ PendingOwn /\ OnlyExcludedLeave
===========================================================================
