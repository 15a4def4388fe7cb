---------------------------- MODULE CrawlState ----------------------------
(***************************************************************************)
(* The state of a crawl as src/src/util/state.ts keeps it in Redis, and    *)
(* the operations of class RedisCrawlState on it.  Every Lua script and    *)
(* every single Redis command is atomic, so each is one action here; a     *)
(* method that makes several round trips is put together by its caller     *)
(* (module CrawlWorkers), one action per round trip.                       *)
(*                                                                         *)
(* A queue entry is abstracted to the fields the operations look at: its   *)
(* url, the score of the sorted set (depth + extraHops * MAX_DEPTH) and    *)
(* the number of times it was requeued.                                    *)
(***************************************************************************)
EXTENDS Integers, FiniteSets

CONSTANTS
  Urls,             \* the URLs that a crawl can come across
  Processes,        \* crawler processes; a process's uid is its host name
  PageLimit,        \* seed.crawlConfig.pageLimit, 0 means no limit
  MaxRetryPending,  \* RedisCrawlState.maxRetryPending
  NoEntry,          \* a missing field of hash p
  Free              \* a missing lock key

Entry == [url : Urls, score : Int, retry : Nat]

ASSUME StateAssumption ==
  /\ PageLimit \in Nat
  /\ MaxRetryPending \in Nat
  /\ NoEntry \notin Entry
  /\ Free \notin Processes

VARIABLES
  queue,        \* sorted set q: the entries that wait to be crawled
  pending,      \* hash p: url -> entry that a worker took, or NoEntry
  lock,         \* keys p:<url>: uid of the process that took it, or Free
  seen,         \* set s: every URL ever added
  done,         \* counter d
  failed,       \* list f, as the number of entries it has for each URL
  extraSeeds,   \* list extraSeeds and hash esMap, written together
  stopping,     \* key "stopping", set by an operator
  \* history variables: nothing in the code reads or writes them
  handed,       \* how often each URL was handed to a worker
  finished,     \* URLs that a worker reported as finished
  dropped       \* URLs that requeue gave up

stateVars == <<queue, pending, lock, seen, done, failed, extraSeeds, stopping,
               handed, finished, dropped>>

---------------------------------------------------------------------------

StateTypeOK ==
  /\ queue \in SUBSET Entry
  /\ pending \in [Urls -> Entry \cup {NoEntry}]
  /\ lock \in [Urls -> Processes \cup {Free}]
  /\ seen \in SUBSET Urls
  /\ done \in Nat
  /\ failed \in [Urls -> Nat]
  /\ extraSeeds \in SUBSET Urls
  /\ stopping \in BOOLEAN
  /\ handed \in [Urls -> Nat]
  /\ finished \in SUBSET Urls
  /\ dropped \in SUBSET Urls

StateInit ==
  /\ queue = {}
  /\ pending = [u \in Urls |-> NoEntry]
  /\ lock = [u \in Urls |-> Free]
  /\ seen = {}
  /\ done = 0
  /\ failed = [u \in Urls |-> 0]
  /\ extraSeeds = {}
  /\ stopping = FALSE
  /\ handed = [u \in Urls |-> 0]
  /\ finished = {}
  /\ dropped = {}

Queued(u) == \E e \in queue : e.url = u
Pending(u) == pending[u] # NoEntry
PendingUrls == {u \in Urls : Pending(u)}

\* Where the keys say that a URL is, for the frontier that they implement.
PlaceOf(u) == IF Queued(u) THEN "queued"
              ELSE IF Pending(u) THEN "taken"
              ELSE IF u \in seen THEN "gone" ELSE "unseen"

---------------------------------------------------------------------------

\* Mutant: the limit is off by one.
AddQueueResultOffByOne(u, limit) ==
  IF limit > 0 /\ Cardinality(seen) - Cardinality(extraSeeds) > limit
    THEN "LIMIT_HIT"
    ELSE IF u \in seen THEN "DUPE_URL" ELSE "ADDED"

\* Script addqueue: its return code, then what it writes.
AddQueueResult(u, limit) ==
  IF limit > 0 /\ Cardinality(seen) - Cardinality(extraSeeds) >= limit
    THEN "LIMIT_HIT"
    ELSE IF u \in seen THEN "DUPE_URL" ELSE "ADDED"

AddQueue(u, score, limit) ==
  /\ \/ /\ AddQueueResult(u, limit) = "ADDED"
        /\ seen' = seen \cup {u}
        /\ queue' = queue \cup {[url |-> u, score |-> score, retry |-> 0]}
        /\ pending' = [pending EXCEPT ![u] = NoEntry]
     \/ /\ AddQueueResult(u, limit) # "ADDED"
        /\ UNCHANGED <<seen, queue, pending>>
  /\ UNCHANGED <<lock, done, failed, extraSeeds, stopping,
                 handed, finished, dropped>>

\* Script getnext on a queue that has an entry.  zpopmin takes one of the
\* entries of the lowest score; among those, the order of their JSON texts
\* decides, which is any order here.
Lowest(e) == e \in queue /\ \A f \in queue : e.score <= f.score

GetNext(e) ==
  /\ Lowest(e)
  /\ queue' = queue \ {e}
  /\ pending' = [pending EXCEPT ![e.url] = e]
  /\ handed' = [handed EXCEPT ![e.url] = @ + 1]
  /\ UNCHANGED <<lock, seen, done, failed, extraSeeds, stopping,
                 finished, dropped>>

\* Script markstarted: the lock is set only while the URL is in p.
MarkStarted(u, uid) ==
  /\ lock' = IF Pending(u) THEN [lock EXCEPT ![u] = uid] ELSE lock
  /\ UNCHANGED <<queue, pending, seen, done, failed, extraSeeds, stopping,
                 handed, finished, dropped>>

\* Mutant: set in place of setex.
LockHasNoTtl(u) == FALSE

\* The time to live of a lock (maxPageTime seconds) runs out.
ExpireLock(u) ==
  /\ lock[u] # Free
  /\ lock' = [lock EXCEPT ![u] = Free]
  /\ UNCHANGED <<queue, pending, seen, done, failed, extraSeeds, stopping,
                 handed, finished, dropped>>

\* clearOwnPendingLocks: unlockpending for every field of p.
UnlockPending(uid) ==
  /\ lock' = [u \in Urls |->
                IF Pending(u) /\ lock[u] = uid THEN Free ELSE lock[u]]
  /\ UNCHANGED <<queue, pending, seen, done, failed, extraSeeds, stopping,
                 handed, finished, dropped>>

\* Mutant: srem as well, as markExcluded does.
RemovePendingUnsees(u) ==
  /\ pending' = [pending EXCEPT ![u] = NoEntry]
  /\ seen' = seen \ {u}
  /\ finished' = finished \cup {u}
  /\ UNCHANGED <<queue, lock, done, failed, extraSeeds, stopping,
                 handed, dropped>>

\* markFinished, first round trip: hdel.
RemovePending(u) ==
  /\ pending' = [pending EXCEPT ![u] = NoEntry]
  /\ finished' = finished \cup {u}
  /\ UNCHANGED <<queue, lock, seen, done, failed, extraSeeds, stopping,
                 handed, dropped>>

\* Mutants: no lpush, no test that the URL is pending.
MoveFailedForgets(u) ==
  /\ pending' = [pending EXCEPT ![u] = NoEntry]
  /\ UNCHANGED <<queue, lock, seen, done, failed, extraSeeds, stopping,
                 handed, finished, dropped>>

MoveFailedUnchecked(u) ==
  /\ failed' = [failed EXCEPT ![u] = @ + 1]
  /\ pending' = [pending EXCEPT ![u] = NoEntry]
  /\ UNCHANGED <<queue, lock, seen, done, extraSeeds, stopping,
                 handed, finished, dropped>>

\* markFailed, first round trip: script movefailed.
MoveFailed(u) ==
  /\ \/ /\ Pending(u)
        /\ failed' = [failed EXCEPT ![u] = @ + 1]
        /\ pending' = [pending EXCEPT ![u] = NoEntry]
     \/ /\ ~Pending(u)
        /\ UNCHANGED <<failed, pending>>
  /\ UNCHANGED <<queue, lock, seen, done, extraSeeds, stopping,
                 handed, finished, dropped>>

\* markFinished and markFailed, second round trip: incr.
IncrDone ==
  /\ done' = done + 1
  /\ UNCHANGED <<queue, pending, lock, seen, failed, extraSeeds, stopping,
                 handed, finished, dropped>>

\* Mutants: no hdel, retry compared before it is counted.
RequeueKeepsPending(u) ==
  /\ lock[u] = Free /\ Pending(u)
  /\ queue' = queue \cup {[pending[u] EXCEPT !.retry = @ + 1]}
  /\ UNCHANGED <<pending, lock, seen, done, failed, extraSeeds, stopping,
                 handed, finished, dropped>>

RequeueOffByOne(u) ==
  LET e == pending[u] IN
  /\ IF lock[u] = Free /\ Pending(u)
       THEN /\ pending' = [pending EXCEPT ![u] = NoEntry]
            /\ queue' = IF e.retry <= MaxRetryPending
                          THEN queue \cup {[e EXCEPT !.retry = @ + 1]}
                          ELSE queue
            /\ dropped' = IF e.retry <= MaxRetryPending
                            THEN dropped ELSE dropped \cup {u}
       ELSE UNCHANGED <<pending, queue, dropped>>
  /\ UNCHANGED <<lock, seen, done, failed, extraSeeds, stopping,
                 handed, finished>>

\* Script requeue: a pending URL whose lock is gone goes back to the queue,
\* or is given up when it was requeued too often.
Requeue(u) ==
  LET e == pending[u] IN
  /\ \/ /\ lock[u] # Free \/ ~Pending(u)
        /\ UNCHANGED <<pending, queue, dropped>>
     \/ /\ lock[u] = Free
        /\ Pending(u)
        /\ pending' = [pending EXCEPT ![u] = NoEntry]
        /\ \/ /\ e.retry + 1 <= MaxRetryPending
              /\ queue' = queue \cup {[e EXCEPT !.retry = @ + 1]}
              /\ UNCHANGED dropped
           \/ /\ e.retry + 1 > MaxRetryPending
              /\ dropped' = dropped \cup {u}
              /\ UNCHANGED queue
  /\ UNCHANGED <<lock, seen, done, failed, extraSeeds, stopping,
                 handed, finished>>

\* Script addnewseed.  The result of its sadd is not looked at: a URL that
\* was already seen still becomes an entry of extraSeeds.
AddNewSeed(u) ==
  /\ extraSeeds' = extraSeeds \cup {u}
  /\ seen' = IF u \in extraSeeds THEN seen ELSE seen \cup {u}
  /\ UNCHANGED <<queue, pending, lock, done, failed, stopping,
                 handed, finished, dropped>>

\* stopCrawl, or an operator who sets the key.
StopCrawl ==
  /\ ~stopping
  /\ stopping' = TRUE
  /\ UNCHANGED <<queue, pending, lock, seen, done, failed, extraSeeds,
                 handed, finished, dropped>>

===========================================================================
