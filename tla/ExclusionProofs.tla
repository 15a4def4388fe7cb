--------------------------- MODULE ExclusionProofs ------------------------
(***************************************************************************)
(* Theorems about Exclusions, for any number of URLs, processes, workers   *)
(* and excluded pages: an excluded page is not crawled by a worker that    *)
(* took it when its process knew the exclusion, and no other page is lost, *)
(* duplicated or repeated by what filters and workers remove.              *)
(*                                                                         *)
(* Sound speaks of one URL; each operation of the crawl state keeps it for *)
(* each URL, and markExcluded and filterQueue for those not excluded.      *)
(***************************************************************************)
EXTENDS Exclusions, TLAPS

IInv == TypeOK /\ ExclusionInv

---------------------------------------------------------------------------
(* The operations of the crawl state.                                      *)

\* Operations that change no entry and no count.
LEMMA QuietStep ==
  ASSUME NEW u \in Urls, Sound(u), UNCHANGED <<queue, pending, handed, dropped, seen>>,
         finished \subseteq finished'
  PROVE  Sound(u)'
BY DEF Sound, Queued, Pending

LEMMA AddQueueIsSound ==
  ASSUME StateTypeOK, NEW u \in Urls, Sound(u),
         NEW v \in Urls, NEW s \in Int, NEW l \in Nat, AddQueue(v, s, l)
  PROVE  Sound(u)'
<1> USE StateAssumption DEF StateTypeOK, Queued, Pending
<1>1. CASE AddQueueResult(v, l) # "ADDED"
  BY <1>1, QuietStep DEF AddQueue
<1>2. CASE AddQueueResult(v, l) = "ADDED"
  <2> DEFINE e == [url |-> v, score |-> s, retry |-> 0]
  <2>1. v \notin seen
    BY <1>2 DEF AddQueueResult
  <2>2. /\ seen' = seen \cup {v} /\ queue' = queue \cup {e}
        /\ pending' = [pending EXCEPT ![v] = NoEntry]
        /\ UNCHANGED <<handed, finished, dropped>>
    BY <1>2 DEF AddQueue
  <2>3. e.url = v /\ e.retry = 0
    OBVIOUS
  <2> HIDE DEF e
  <2>4. CASE u # v
    BY <2>2, <2>3, <2>4 DEF Sound
  <2>5. CASE u = v
    <3>1. handed[u] = 0 /\ (\A f \in queue : f.url # u) /\ u \notin seen
      BY <2>1, <2>5 DEF Sound
    <3>2. (\A f \in queue' : f.url = u => f = e) /\ ~Pending(u)' /\ u \in seen' /\ e \in queue'
      BY <2>2, <2>5, <3>1
    <3>3. handed'[u] = 0 /\ e.retry <= MaxRetryPending
      BY <2>2, <2>3, <3>1
    <3>4. QED BY <2>3, <2>5, <3>2, <3>3 DEF Sound
  <2>6. QED BY <2>4, <2>5
<1>3. QED BY <1>1, <1>2

LEMMA GetNextIsSound ==
  ASSUME StateTypeOK, NEW u \in Urls, Sound(u), NEW e \in queue, GetNext(e)
  PROVE  Sound(u)'
<1> USE StateAssumption DEF StateTypeOK, Queued, Pending
<1>1. e \in Entry /\ e.url \in Urls /\ e.retry \in Nat /\ e # NoEntry
  BY DEF Entry
<1>2. /\ queue' = queue \ {e}
      /\ pending' = [pending EXCEPT ![e.url] = e]
      /\ handed' = [handed EXCEPT ![e.url] = @ + 1]
      /\ UNCHANGED <<seen, finished, dropped>>
  BY DEF GetNext
<1>3. CASE u # e.url
  BY <1>1, <1>2, <1>3 DEF Sound
<1>4. CASE u = e.url
  <2>1. /\ e.retry <= MaxRetryPending /\ handed[u] = e.retry /\ u \in seen
        /\ \A f \in queue' : f.url # u
    BY <1>1, <1>2, <1>4 DEF Sound
  <2>2. pending'[u] = e /\ handed'[u] = e.retry + 1
    BY <1>1, <1>2, <1>4, <2>1
  <2>3. QED BY <1>1, <1>2, <2>1, <2>2 DEF Sound
<1>5. QED BY <1>3, <1>4

LEMMA RequeueIsSound ==
  ASSUME StateTypeOK, NEW u \in Urls, Sound(u), PendingOwn, NEW v \in Urls, Requeue(v)
  PROVE  Sound(u)'
<1> USE StateAssumption DEF StateTypeOK, Queued, Pending
<1> DEFINE e == pending[v]
           f == [e EXCEPT !.retry = @ + 1]
<1>1. CASE lock[v] # Free \/ ~Pending(v)
  BY <1>1, QuietStep DEF Requeue
<1>2. ASSUME lock[v] = Free, Pending(v) PROVE Sound(u)'
  <2>1. e \in Entry /\ e.url = v /\ e.retry \in Nat
    BY <1>2 DEF PendingOwn, Entry
  <2>2. f.url = v /\ f.retry = e.retry + 1
    BY <2>1 DEF Entry
  <2>3. /\ pending' = [pending EXCEPT ![v] = NoEntry]
        /\ UNCHANGED <<seen, handed, finished>>
        /\ \/ /\ f.retry <= MaxRetryPending
              /\ queue' = queue \cup {f} /\ dropped' = dropped
           \/ dropped' = dropped \cup {v} /\ queue' = queue
    BY <1>2, <2>2 DEF Requeue
  <2>4. Pending(v) /\ e = pending[v]
    BY <1>2
  <2> HIDE DEF e, f
  <2>5. CASE u # v
    BY <2>2, <2>3, <2>5 DEF Sound
  <2>6. CASE u = v
    <3>1. handed[u] = e.retry + 1 /\ u \in seen /\ (\A g \in queue : g.url # u)
          /\ e.retry <= MaxRetryPending
      BY <2>4, <2>6 DEF Sound
    <3>2. CASE queue' = queue \cup {f} /\ dropped' = dropped /\ f.retry <= MaxRetryPending
      BY <2>1, <2>2, <2>3, <2>6, <3>1, <3>2 DEF Sound
    <3>3. CASE dropped' = dropped \cup {v} /\ queue' = queue
      BY <2>1, <2>3, <2>6, <3>1, <3>3 DEF Sound
    <3>4. QED BY <2>3, <3>2, <3>3
  <2>7. QED BY <2>5, <2>6
<1>3. QED BY <1>1, <1>2

LEMMA RemovePendingIsSound ==
  ASSUME StateTypeOK, NEW u \in Urls, Sound(u), NEW v \in Urls, RemovePending(v)
  PROVE  Sound(u)'
BY StateAssumption DEF StateTypeOK, Queued, Pending, RemovePending, Sound

\* What is taken out of the hash or the set for another URL.
LEMMA MarkExcludedIsSound ==
  ASSUME StateTypeOK, NEW u \in Urls, Sound(u), NEW v \in Urls \ {u}, Unpend(v) \/ Unsee(v)
  PROVE  Sound(u)'
<1>1. CASE Unpend(v)
  BY <1>1 DEF StateTypeOK, Queued, Pending, Unpend, Sound
<1>2. CASE Unsee(v)
  BY <1>2 DEF StateTypeOK, Queued, Pending, Unsee, Sound
<1>3. QED BY <1>1, <1>2

\* Every step of the module, as far as the crawl state goes.
StepOnState ==
  \/ \E u \in Urls, s \in Int : AddQueue(u, s, PageLimit)
  \/ \E e \in queue : GetNext(e)
  \/ \E u \in Urls, p \in Processes : MarkStarted(u, p)
  \/ \E u \in Urls : ExpireLock(u) \/ RemovePending(u) \/ Requeue(u)
  \/ IncrDone
  \/ UNCHANGED stateVars
  \/ \E u \in Urls \cap Excluded : Unpend(u) \/ Unsee(u)
  \/ \E e \in queue : /\ e.url \in Excluded /\ queue' = queue \ {e}
                      /\ UNCHANGED <<pending, lock, seen, done, failed, extraSeeds,
                                     stopping, handed, finished, dropped>>

LEMMA StepKeepsTypes ==
  ASSUME StateTypeOK, StepOnState
  PROVE  StateTypeOK'
<1>1. CASE \E u \in Urls \cap Excluded : Unpend(u) \/ Unsee(u)
  BY <1>1 DEF Unpend, Unsee, StateTypeOK
<1>2. CASE \E e \in queue : /\ e.url \in Excluded /\ queue' = queue \ {e}
                            /\ UNCHANGED <<pending, lock, seen, done, failed, extraSeeds,
                                           stopping, handed, finished, dropped>>
  BY <1>2 DEF StateTypeOK
<1>3. CASE UNCHANGED stateVars
  BY <1>3 DEF StateTypeOK, stateVars
<1>4. ASSUME NEW u \in Urls, NEW s \in Int, AddQueue(u, s, PageLimit) PROVE StateTypeOK'
  <2>1. [url |-> u, score |-> s, retry |-> 0] \in Entry
    BY DEF Entry
  <2>2. QED BY <1>4, <2>1 DEF AddQueue, StateTypeOK
<1>5. ASSUME NEW e \in queue, GetNext(e) PROVE StateTypeOK'
  <2>1. e \in Entry /\ e.url \in Urls
    BY DEF Entry, StateTypeOK
  <2>2. handed' \in [Urls -> Nat]
    BY <1>5, <2>1 DEF GetNext, StateTypeOK
  <2>3. QED BY <1>5, <2>1, <2>2 DEF GetNext, StateTypeOK
<1>6. ASSUME NEW u \in Urls, NEW p \in Processes,
             MarkStarted(u, p)
      PROVE  StateTypeOK'
  BY <1>6 DEF MarkStarted, StateTypeOK
<1>7. ASSUME NEW u \in Urls, ExpireLock(u) \/ RemovePending(u) PROVE StateTypeOK'
  BY <1>7, StateAssumption DEF ExpireLock, RemovePending, StateTypeOK
<1>8. ASSUME NEW u \in Urls, Requeue(u) PROVE StateTypeOK'
  <2>1. CASE UNCHANGED <<pending, queue, dropped>>
    BY <1>8, <2>1 DEF Requeue, StateTypeOK
  <2>2. CASE Pending(u)
    <3>1. [pending[u] EXCEPT !.retry = @ + 1] \in Entry
      BY <2>2 DEF Pending, Entry, StateTypeOK
    <3>2. QED BY <1>8, <3>1 DEF Requeue, StateTypeOK
  <2>3. QED BY <1>8, <2>1, <2>2 DEF Requeue
<1>9. CASE IncrDone
  BY <1>9 DEF IncrDone, StateTypeOK
<1>10. QED
  BY <1>1, <1>2, <1>3, <1>4, <1>5, <1>6, <1>7, <1>8, <1>9 DEF StepOnState

LEMMA StepKeepsSound ==
  ASSUME StateTypeOK, PendingOwn, NEW u \in Urls \ Excluded, Sound(u), StepOnState
  PROVE  Sound(u)'
<1>1. CASE \E v \in Urls, s \in Int : AddQueue(v, s, PageLimit)
  BY <1>1, AddQueueIsSound, StateAssumption
<1>2. CASE \E e \in queue : GetNext(e)
  BY <1>2, GetNextIsSound
<1>3. CASE \E v \in Urls, p \in Processes : MarkStarted(v, p)
  BY <1>3, QuietStep DEF MarkStarted
<1>4. ASSUME NEW v \in Urls, ExpireLock(v) \/ RemovePending(v) \/ Requeue(v)
      PROVE  Sound(u)'
  <2>1. CASE ExpireLock(v)
    BY <2>1, QuietStep DEF ExpireLock
  <2>2. QED BY <1>4, <2>1, RemovePendingIsSound, RequeueIsSound
<1>5. CASE IncrDone \/ UNCHANGED stateVars
  BY <1>5, QuietStep DEF IncrDone, stateVars
<1>6. CASE \E v \in Urls \cap Excluded : Unpend(v) \/ Unsee(v)
  BY <1>6, MarkExcludedIsSound
<1>7. CASE \E e \in queue : /\ e.url \in Excluded /\ queue' = queue \ {e}
                            /\ UNCHANGED <<pending, lock, seen, done, failed, extraSeeds,
                                           stopping, handed, finished, dropped>>
  BY <1>7 DEF Sound, Queued, Pending
<1>8. QED BY <1>1, <1>2, <1>3, <1>4, <1>5, <1>6, <1>7 DEF StepOnState

LEMMA StepKeepsOwn ==
  ASSUME StateTypeOK, PendingOwn, StepOnState
  PROVE  PendingOwn'
<1> USE DEF StateTypeOK, PendingOwn, Pending
<1>1. CASE \E e \in queue : GetNext(e)
  <2>1. PICK e \in queue : pending' = [pending EXCEPT ![e.url] = e]
    BY <1>1 DEF GetNext
  <2>2. e.url \in Urls
    BY DEF Entry
  <2>3. QED BY <2>1, <2>2
<1>2. CASE UNCHANGED pending
  BY <1>2
<1>3. CASE \E v \in Urls : pending' = [pending EXCEPT ![v] = NoEntry]
  BY <1>3
<1>4. QED
  BY <1>1, <1>2, <1>3
     DEF StepOnState, AddQueue, MarkStarted, ExpireLock, RemovePending, Requeue, IncrDone,
         stateVars, Unpend, Unsee

---------------------------------------------------------------------------
(* The steps of workers and filters.                                       *)

LEMMA TaskIsEntry ==
  ASSUME TypeOK, NEW w \in Workers, pc[w] \in Holding
  PROVE  task[w] \in Entry /\ task[w].url \in Urls /\ task[w].score \in Int
BY DEF TypeOK, WorkersTypeOK, Entry

LEMMA FilterHasEntry ==
  ASSUME TypeOK, NEW p \in Processes, filter[p].at \in {"zrem", "hdel", "srem"}
  PROVE  filter[p].entry \in Entry /\ filter[p].entry.url \in Urls
BY DEF TypeOK, FilterTypeOK, Filter, Entry

LEMMA StepIsOnState ==
  ASSUME TypeOK, OnlyExcludedLeave, Next
  PROVE  StepOnState
<1> USE DEF StepOnState
<1>1. ASSUME NEW w \in Workers, WorkerStep(w) PROVE StepOnState
  <2>0. ProcessOf[w] \in Processes
    BY ExclusionsAssumption
  <2>1. CASE UNCHANGED stateVars
    BY <2>1
  <2>2. ASSUME NEW e \in queue, TakeUrl(w, e) PROVE StepOnState
    BY <2>2 DEF TakeUrl
  <2>3. CASE LockUrl(w)
    <3>1. task[w].url \in Urls
      BY <2>3, TaskIsEntry DEF LockUrl, Goto, Holding
    <3>2. QED BY <2>0, <2>3, <3>1 DEF LockUrl
  <2>4. CASE WorkerUnpends(w) \/ WorkerUnsees(w)
    <3>1. pc[w] \in {"hdel", "srem"} /\ (Unpend(task[w].url) \/ Unsee(task[w].url))
      BY <2>4 DEF WorkerUnpends, WorkerUnsees, Goto
    <3>2. task[w].url \in Urls \cap Excluded
      BY <3>1, TaskIsEntry DEF OnlyExcludedLeave, Holding
    <3>3. QED BY <3>1, <3>2
  <2>5. ASSUME NEW u \in Urls, AddLink(w, u) PROVE StepOnState
    <3>1. task[w].score + 1 \in Int
      BY <2>5, TaskIsEntry DEF AddLink, Holding
    <3>2. QED BY <2>5, <3>1 DEF AddLink
  <2>6. CASE SettleFinished(w)
    <3>1. task[w].url \in Urls
      BY <2>6, TaskIsEntry DEF SettleFinished, Goto, Holding
    <3>2. QED BY <2>6, <3>1 DEF SettleFinished
  <2>7. CASE CountDone(w)
    BY <2>7 DEF CountDone
  <2>8. ASSUME NEW u \in Urls, RequeuePending(w, u) PROVE StepOnState
    BY <2>8 DEF RequeuePending
  <2>9. QED
    BY <1>1, <2>1, <2>2, <2>3, <2>4, <2>5, <2>6, <2>7, <2>8
       DEF WorkerStep, Continue, PopMessage, NoMessage, QueueIsEmpty, CrawlInScope,
           LeaveOutOfScope, PageReturns, CountPending, ListPending, ResetDone, CheckAllDone
<1>2. ASSUME NEW p \in Processes, FilterStep(p) PROVE StepOnState
  <2>1. CASE FilterRemoves(p)
    <3> DEFINE e == filter[p].entry
    <3>1. e.url \in Excluded
      BY <2>1, FilterHasEntry, StateAssumption DEF FilterRemoves, OnlyExcludedLeave
    <3>2. /\ queue' = queue \ {e} \/ queue' = queue
          /\ UNCHANGED <<pending, lock, seen, done, failed, extraSeeds, stopping,
                         handed, finished, dropped>>
      BY <2>1 DEF FilterRemoves
    <3>3. CASE e \in queue
      BY <3>1, <3>2, <3>3 DEF stateVars
    <3>4. CASE e \notin queue
      BY <3>2, <3>4 DEF stateVars
    <3>5. QED BY <3>3, <3>4
  <2>2. CASE FilterUnpends(p) \/ FilterUnsees(p)
    <3>1. filter[p].at \in {"hdel", "srem"}
          /\ (Unpend(filter[p].entry.url) \/ Unsee(filter[p].entry.url))
      BY <2>2 DEF FilterUnpends, FilterUnsees
    <3>2. filter[p].entry.url \in Urls \cap Excluded
      BY <3>1, FilterHasEntry, StateAssumption DEF OnlyExcludedLeave
    <3>3. QED BY <3>1, <3>2
  <2>3. CASE UNCHANGED stateVars
    BY <2>3
  <2>4. QED BY <1>2, <2>1, <2>2, <2>3 DEF FilterStep, FilterTakes, FilterMisses, FilterEnds
<1>3. ASSUME NEW p \in Processes, AddExclusionMessage(p) PROVE StepOnState
  BY <1>3 DEF AddExclusionMessage
<1>4. ASSUME NEW u \in Urls, Expire(u) PROVE StepOnState
  BY <1>4 DEF Expire
<1>5. QED BY <1>1, <1>2, <1>3, <1>4 DEF Next

\* Filters stay at work on entries that the operator excluded.
FiltersInv ==
  FilterTypeOK /\ \A p \in Processes : filter[p].entry # NoEntry => filter[p].entry.url \in Excluded

\* An entry that leaves the queue makes no filter take up another one.
LEMMA OutdatedKeeps ==
  ASSUME FiltersInv, NEW e
  PROVE  /\ Outdated(e) \in [Processes -> Filter]
         /\ \A p \in Processes : /\ Outdated(e)[p].entry = filter[p].entry
                                 /\ Outdated(e)[p].at = filter[p].at
<1>1. \A p \in Processes : /\ [filter[p] EXCEPT !.current = FALSE] \in Filter
                           /\ [filter[p] EXCEPT !.current = FALSE].entry = filter[p].entry
                           /\ [filter[p] EXCEPT !.current = FALSE].at = filter[p].at
  BY DEF FiltersInv, FilterTypeOK, Filter
<1>2. QED BY <1>1 DEF Outdated, FiltersInv, FilterTypeOK

\* A filter that goes to another place or entry.
LEMMA OneFilterMoves ==
  ASSUME FiltersInv, NEW p \in Processes, NEW old \in [Processes -> Filter],
         \A q \in Processes : old[q].entry = filter[q].entry /\ old[q].at = filter[q].at,
         NEW new \in Filter, filter' = [old EXCEPT ![p] = new],
         new.entry # NoEntry <=> new.at \in {"zrem", "hdel", "srem"},
         new.entry # NoEntry => new.entry.url \in Excluded
  PROVE  FiltersInv'
BY DEF FiltersInv, FilterTypeOK

LEMMA TakesIsFilter ==
  ASSUME NEW f \in Filter, NEW e \in Entry
  PROVE  LET new == [f EXCEPT !.at = "zrem", !.entry = e, !.rest = @ \ {e},
                              !.current = e \in queue]
         IN  new \in Filter /\ new.entry = e /\ new.at = "zrem"
<1>1. ASSUME NEW c \in BOOLEAN
      PROVE  LET new == [f EXCEPT !.at = "zrem", !.entry = e, !.rest = @ \ {e},
                                  !.current = c]
             IN  new \in Filter /\ new.entry = e /\ new.at = "zrem"
  BY DEF Filter
<1>2. (e \in queue) \in BOOLEAN
  OBVIOUS
<1>3. QED BY <1>1, <1>2, Zenon

LEMMA FiltersStep ==
  ASSUME TypeOK, FiltersInv, Next
  PROVE  FiltersInv'
<1>0. filter \in [Processes -> Filter] /\ queue \subseteq Entry /\ NoEntry \notin Entry
  BY StateAssumption DEF TypeOK, StateTypeOK, FiltersInv, FilterTypeOK
<1>1. CASE UNCHANGED filter
  BY <1>1 DEF FiltersInv, FilterTypeOK
<1>2. ASSUME NEW w \in Workers, NEW e \in queue, TakeUrl(w, e) PROVE FiltersInv'
  BY <1>2, OutdatedKeeps DEF TakeUrl, FiltersInv, FilterTypeOK
<1>3. ASSUME NEW w \in Workers, PopMessage(w) PROVE FiltersInv'
  <2> DEFINE scan == {e \in queue : e.url \in Excluded}
             new == [NoFilter EXCEPT !.at = "scan", !.rest = scan]
  <2>1. scan \subseteq Entry
    BY <1>0
  <2>2. ProcessOf[w] \in Processes
    BY ExclusionsAssumption
  <2>3. filter' = [filter EXCEPT ![ProcessOf[w]] = new]
    BY <1>3 DEF PopMessage
  <2> HIDE DEF scan
  <2>4. new \in Filter /\ new.entry = NoEntry /\ new.at = "scan"
    BY <2>1 DEF NoFilter, Filter
  <2> HIDE DEF new
  <2>5. QED BY <1>0, <2>2, <2>3, <2>4, OneFilterMoves
<1>4. ASSUME NEW p \in Processes, FilterStep(p) PROVE FiltersInv'
  <2>0. filter[p] \in Filter
    BY <1>0
  <2>1. ASSUME NEW e \in filter[p].rest \cup queue, FilterTakes(p, e) PROVE FiltersInv'
    <3> DEFINE new == [filter[p] EXCEPT !.at = "zrem", !.entry = e, !.rest = @ \ {e},
                                        !.current = e \in queue]
    <3>1. e \in Entry /\ e.url \in Excluded
      BY <1>0, <2>0, <2>1 DEF FilterTakes, Filter
    <3>2. new \in Filter /\ new.entry = e /\ new.at = "zrem"
      BY <2>0, <3>1, TakesIsFilter
    <3>3. filter' = [filter EXCEPT ![p] = new]
      BY <1>0, <2>1 DEF FilterTakes
    <3> HIDE DEF new
    <3>4. QED BY <1>0, <3>1, <3>2, <3>3, OneFilterMoves
  <2>2. ASSUME NEW e \in filter[p].rest \cup queue, FilterMisses(p, e) PROVE FiltersInv'
    <3> DEFINE new == [filter[p] EXCEPT !.rest = @ \ {e}]
    <3>1. new \in Filter /\ new.entry = filter[p].entry /\ new.at = filter[p].at
      BY <2>0 DEF Filter
    <3>2. filter' = [filter EXCEPT ![p] = new]
      BY <1>0, <2>2 DEF FilterMisses
    <3> HIDE DEF new
    <3>3. QED BY <1>0, <3>1, <3>2, OneFilterMoves DEF FiltersInv, FilterTypeOK
  <2>3. CASE FilterRemoves(p)
    <3> DEFINE old == IF filter[p].current THEN Outdated(filter[p].entry) ELSE filter
               new == [old[p] EXCEPT !.at = "hdel"]
    <3>1. old \in [Processes -> Filter]
          /\ \A q \in Processes : old[q].entry = filter[q].entry /\ old[q].at = filter[q].at
      BY <1>0, OutdatedKeeps
    <3>2. filter' = [old EXCEPT ![p] = new]
      BY <2>3 DEF FilterRemoves
    <3> HIDE DEF old
    <3>3. new \in Filter /\ new.entry = filter[p].entry /\ new.at = "hdel"
      BY <3>1 DEF Filter
    <3>4. filter[p].entry # NoEntry /\ filter[p].entry.url \in Excluded
      BY <2>3 DEF FilterRemoves, FiltersInv, FilterTypeOK
    <3> HIDE DEF new
    <3>5. QED BY <3>1, <3>2, <3>3, <3>4, OneFilterMoves
  <2>4. CASE FilterUnpends(p)
    <3> DEFINE new == [filter[p] EXCEPT !.at = "srem"]
    <3>1. new \in Filter /\ new.entry = filter[p].entry /\ new.at = "srem"
      BY <2>0 DEF Filter
    <3>2. filter' = [filter EXCEPT ![p] = new]
      BY <2>4 DEF FilterUnpends
    <3>3. filter[p].entry # NoEntry /\ filter[p].entry.url \in Excluded
      BY <2>4 DEF FilterUnpends, FiltersInv, FilterTypeOK
    <3> HIDE DEF new
    <3>4. QED BY <1>0, <3>1, <3>2, <3>3, OneFilterMoves
  <2>5. CASE FilterUnsees(p)
    <3> DEFINE new == [filter[p] EXCEPT !.at = "scan", !.entry = NoEntry]
    <3>1. new \in Filter /\ new.entry = NoEntry /\ new.at = "scan"
      BY <2>0 DEF Filter
    <3>2. filter' = [filter EXCEPT ![p] = new]
      BY <2>5 DEF FilterUnsees
    <3> HIDE DEF new
    <3>3. QED BY <1>0, <3>1, <3>2, OneFilterMoves
  <2>6. CASE FilterEnds(p)
    <3>1. NoFilter \in Filter /\ NoFilter.entry = NoEntry /\ NoFilter.at = "off"
      BY DEF NoFilter, Filter
    <3>2. filter' = [filter EXCEPT ![p] = NoFilter]
      BY <2>6 DEF FilterEnds
    <3>3. QED BY <1>0, <3>1, <3>2, OneFilterMoves
  <2>7. QED BY <1>4, <2>1, <2>2, <2>3, <2>4, <2>5, <2>6 DEF FilterStep
<1>5. QED
  BY <1>1, <1>2, <1>3, <1>4
     DEF Next, WorkerStep, Continue, NoMessage, QueueIsEmpty, LockUrl, CrawlInScope,
         LeaveOutOfScope, WorkerUnpends, WorkerUnsees, AddLink, PageReturns, SettleFinished,
         CountDone, CountPending, ListPending, RequeuePending, ResetDone, CheckAllDone,
         Expire, AddExclusionMessage

\* Workers leave out what is excluded, and do not crawl it once they knew.
WorkersKnow ==
  /\ \A w \in Workers : pc[w] \in {"hdel", "srem"} => task[w].url \in Excluded
  /\ \A w \in informed :
       /\ ProcessOf[w] \in excluding
       /\ pc[w] = "crawl" => task[w].url \notin Excluded \ {SeedUrl}
WorkersInv == WorkersTypeOK /\ WorkersKnow

LEMMA OneWorkerMoves ==
  ASSUME WorkersInv, NEW w \in Workers,
         pc' \in [Workers -> PC], task' \in [Workers -> Entry \cup {NoEntry}],
         links' \in [Workers -> SUBSET Urls], todo' \in [Workers -> SUBSET Urls],
         informed' \subseteq Workers, excluding \subseteq excluding',
         \A v \in Workers \ {w} : /\ pc'[v] = pc[v] /\ task'[v] = task[v]
                                  /\ v \in informed' => v \in informed,
         task'[w] # NoEntry <=> pc'[w] \in Holding,
         pc'[w] \in {"hdel", "srem"} => task'[w].url \in Excluded,
         w \in informed' =>
           /\ ProcessOf[w] \in excluding
           /\ pc'[w] = "crawl" => task'[w].url \notin Excluded \ {SeedUrl}
  PROVE  WorkersInv'
<1>1. WorkersTypeOK'
  BY DEF WorkersInv, WorkersTypeOK
<1>2. WorkersKnow'
  BY DEF WorkersInv, WorkersTypeOK, WorkersKnow
<1>3. QED BY <1>1, <1>2 DEF WorkersInv

\* A worker that goes on with the same task.
LEMMA WorkerGoesOn ==
  ASSUME WorkersInv, NEW w \in Workers, NEW to \in PC \ {"hdel", "crawl"},
         pc' = [pc EXCEPT ![w] = to],
         pc[w] \in Holding <=> to \in Holding,
         to = "srem" => pc[w] = "hdel",
         links' \in [Workers -> SUBSET Urls], todo' \in [Workers -> SUBSET Urls],
         UNCHANGED <<task, informed, excluding>>
  PROVE  WorkersInv'
<1>1. /\ pc' \in [Workers -> PC] /\ pc'[w] = to
      /\ \A v \in Workers \ {w} : pc'[v] = pc[v]
  BY DEF WorkersInv, WorkersTypeOK
<1>2. /\ task' \in [Workers -> Entry \cup {NoEntry}] /\ informed' \subseteq Workers
      /\ task'[w] # NoEntry <=> pc'[w] \in Holding
  BY <1>1 DEF WorkersInv, WorkersTypeOK
<1>3. /\ pc'[w] \in {"hdel", "srem"} => task'[w].url \in Excluded
      /\ w \in informed' => ProcessOf[w] \in excluding
  BY <1>1 DEF WorkersInv, WorkersKnow
<1>4. QED BY <1>1, <1>2, <1>3, OneWorkerMoves

LEMMA WorkersStep ==
  ASSUME TypeOK, WorkersInv, Next
  PROVE  WorkersInv'
<1>0. /\ pc \in [Workers -> PC] /\ task \in [Workers -> Entry \cup {NoEntry}]
      /\ links \in [Workers -> SUBSET Urls] /\ todo \in [Workers -> SUBSET Urls]
      /\ informed \subseteq Workers /\ queue \subseteq Entry /\ NoEntry \notin Entry
  BY StateAssumption DEF TypeOK, StateTypeOK, WorkersTypeOK
<1>1. CASE UNCHANGED workerVars /\ excluding \subseteq excluding'
  BY <1>1 DEF workerVars, WorkersInv, WorkersTypeOK, WorkersKnow
<1>2. ASSUME NEW w \in Workers, WorkerStep(w) PROVE WorkersInv'
  <2>1. CASE Continue(w) \/ NoMessage(w) \/ QueueIsEmpty(w) \/ ResetDone(w) \/ CheckAllDone(w)
             \/ CountPending(w)
    <3>1. \E to \in PC \ {"hdel", "crawl"} :
            /\ pc' = [pc EXCEPT ![w] = to] /\ pc[w] \notin Holding /\ to \notin Holding
            /\ to # "srem"
      BY <2>1 DEF Continue, NoMessage, QueueIsEmpty, ResetDone, CheckAllDone, CountPending,
                  Goto, PC, Holding
    <3>2. UNCHANGED <<task, links, todo, informed, excluding>>
      BY <2>1 DEF Continue, NoMessage, QueueIsEmpty, ResetDone, CheckAllDone, CountPending,
                  exclusionVars
    <3>3. QED BY <1>0, <3>1, <3>2, WorkerGoesOn
  <2>2. CASE LockUrl(w) \/ WorkerUnpends(w) \/ PageReturns(w) \/ SettleFinished(w)
    <3>1. \E to \in PC \ {"hdel", "crawl"} :
            /\ pc' = [pc EXCEPT ![w] = to] /\ pc[w] \in Holding /\ to \in Holding
            /\ to = "srem" => pc[w] = "hdel"
      BY <2>2 DEF LockUrl, WorkerUnpends, PageReturns, SettleFinished, Goto, PC, Holding
    <3>2. UNCHANGED <<task, links, todo, informed, excluding>>
      BY <2>2 DEF LockUrl, WorkerUnpends, PageReturns, SettleFinished, exclusionVars
    <3>3. QED BY <1>0, <3>1, <3>2, WorkerGoesOn
  <2>3. CASE PopMessage(w)
    BY <1>1, <2>3 DEF PopMessage
  <2>4. ASSUME NEW e \in queue, TakeUrl(w, e) PROVE WorkersInv'
    <3>1. /\ pc' = [pc EXCEPT ![w] = "mark"] /\ task' = [task EXCEPT ![w] = e]
          /\ informed' = informed \cup {v \in {w} : ProcessOf[v] \in excluding}
          /\ UNCHANGED <<links, todo, excluding>>
      BY <2>4 DEF TakeUrl, Goto, exclusionVars
    <3>2. "mark" \in PC /\ "mark" \in Holding
      BY DEF PC, Holding
    <3>3. w \in informed => ProcessOf[w] \in excluding
      BY DEF WorkersInv, WorkersKnow
    <3>4. QED BY <1>0, <3>1, <3>2, <3>3, OneWorkerMoves
  <2>5. CASE CrawlInScope(w)
    <3>1. /\ pc[w] = "scope" /\ pc' = [pc EXCEPT ![w] = "crawl"]
          /\ links' = [links EXCEPT ![w] = Links[task[w].url]]
          /\ InScope(ProcessOf[w], task[w].url)
          /\ UNCHANGED <<task, todo, informed, excluding>>
      BY <2>5 DEF CrawlInScope, Goto, exclusionVars
    <3>2. "crawl" \in PC /\ "crawl" \in Holding /\ "scope" \in Holding
      BY DEF PC, Holding
    <3>3. task[w].url \in Urls /\ task[w] # NoEntry
      BY <1>0, <3>1, <3>2, TaskIsEntry DEF TypeOK, WorkersTypeOK
    <3>4. links' \in [Workers -> SUBSET Urls]
      BY <1>0, <3>1, <3>3, ExclusionsAssumption
    <3>5. w \in informed =>
            ProcessOf[w] \in excluding /\ task[w].url \notin Excluded \ {SeedUrl}
      BY <3>1 DEF WorkersInv, WorkersKnow, InScope
    <3>6. QED BY <1>0, <3>1, <3>2, <3>3, <3>4, <3>5, OneWorkerMoves
  <2>6. CASE LeaveOutOfScope(w)
    <3>1. /\ pc[w] = "scope" /\ pc' = [pc EXCEPT ![w] = "hdel"]
          /\ ~InScope(ProcessOf[w], task[w].url)
          /\ UNCHANGED <<task, links, todo, informed, excluding>>
      BY <2>6 DEF LeaveOutOfScope, Goto, exclusionVars
    <3>2. "hdel" \in PC /\ "hdel" \in Holding /\ "scope" \in Holding
      BY DEF PC, Holding
    <3>3. task[w] # NoEntry
      BY <3>1, <3>2 DEF TypeOK, WorkersTypeOK
    <3>4. task[w].url \in Excluded
      BY <3>1 DEF InScope
    <3>5. w \in informed => ProcessOf[w] \in excluding
      BY DEF WorkersInv, WorkersKnow
    <3>6. QED BY <1>0, <3>1, <3>2, <3>3, <3>4, <3>5, OneWorkerMoves
  <2>7. CASE WorkerUnsees(w) \/ CountDone(w)
    <3>1. /\ pc' = [pc EXCEPT ![w] = "loop"] /\ task' = [task EXCEPT ![w] = NoEntry]
          /\ informed' = informed \ {w} /\ UNCHANGED <<links, todo, excluding>>
      BY <2>7 DEF WorkerUnsees, CountDone, Goto, exclusionVars
    <3>2. "loop" \in PC /\ "loop" \notin Holding
      BY DEF PC, Holding
    <3>3. QED BY <1>0, <3>1, <3>2, OneWorkerMoves
  <2>8. ASSUME NEW u \in Urls, AddLink(w, u) \/ RequeuePending(w, u) PROVE WorkersInv'
    <3>1. /\ UNCHANGED <<pc, task, informed, excluding>>
          /\ links' \in [Workers -> SUBSET Urls] /\ todo' \in [Workers -> SUBSET Urls]
      BY <1>0, <2>8 DEF AddLink, RequeuePending, exclusionVars
    <3>2. QED BY <3>1 DEF WorkersInv, WorkersTypeOK, WorkersKnow
  <2>9. CASE ListPending(w)
    <3>1. \E to \in PC \ {"hdel", "crawl", "srem"} :
            pc' = [pc EXCEPT ![w] = to] /\ pc[w] \notin Holding /\ to \notin Holding
      BY <2>9 DEF ListPending, Goto, PC, Holding
    <3>2. UNCHANGED <<task, links, informed, excluding>>
      BY <2>9 DEF ListPending, exclusionVars
    <3>3. todo' \in [Workers -> SUBSET Urls]
      BY <1>0, <2>9 DEF ListPending, PendingUrls
    <3>4. QED BY <1>0, <3>1, <3>2, <3>3, WorkerGoesOn
  <2>10. QED BY <1>2, <2>1, <2>2, <2>3, <2>4, <2>5, <2>6, <2>7, <2>8, <2>9 DEF WorkerStep
<1>3. ASSUME NEW p \in Processes, AddExclusionMessage(p) \/ FilterStep(p) PROVE WorkersInv'
  BY <1>1, <1>3 DEF AddExclusionMessage, FilterStep, FilterTakes, FilterMisses,
                    FilterRemoves, FilterUnpends, FilterUnsees, FilterEnds, exclusionVars
<1>4. ASSUME NEW u \in Urls, Expire(u) PROVE WorkersInv'
  BY <1>1, <1>4 DEF Expire, exclusionVars
<1>5. QED BY <1>2, <1>3, <1>4 DEF Next

LEMMA MessagesStep ==
  ASSUME TypeOK, Next
  PROVE  MessagesTypeOK'
<1> USE DEF TypeOK, MessagesTypeOK
<1>1. CASE UNCHANGED exclusionVars
  BY <1>1 DEF exclusionVars
<1>2. ASSUME NEW w \in Workers, PopMessage(w) PROVE MessagesTypeOK'
  BY <1>2 DEF PopMessage
<1>3. ASSUME NEW p \in Processes, AddExclusionMessage(p) PROVE MessagesTypeOK'
  BY <1>3 DEF AddExclusionMessage
<1>4. QED
  BY <1>1, <1>2, <1>3
     DEF Next, WorkerStep, Continue, NoMessage, TakeUrl, QueueIsEmpty, LockUrl, CrawlInScope,
         LeaveOutOfScope, WorkerUnpends, WorkerUnsees, AddLink, PageReturns, SettleFinished,
         CountDone, CountPending, ListPending, RequeuePending, ResetDone, CheckAllDone,
         FilterStep, FilterTakes, FilterMisses, FilterRemoves, FilterUnpends, FilterUnsees,
         FilterEnds, Expire

---------------------------------------------------------------------------
(* The frontier of the pages that are not excluded.                        *)

\* A step after which the keys say the same of every such page but one.
LEMMA OneMoves ==
  ASSUME NEW u \in Others, NEW from, NEW to, PlaceOf(u) = from, PlaceOf(u)' = to,
         \A v \in Others \ {u} : /\ Queued(v)' <=> Queued(v)
                                 /\ Pending(v)' <=> Pending(v)
                                 /\ v \in seen' <=> v \in seen
  PROVE  Frontier!Move(u, from, to)
<1>1. \A v \in Others \ {u} : PlaceOf(v)' = PlaceOf(v)
  BY DEF PlaceOf
<1>2. placeBar[u] = from
  BY DEF placeBar
<1>3. placeBar' = [placeBar EXCEPT ![u] = to]
  BY <1>1 DEF placeBar
<1>4. QED BY <1>2, <1>3 DEF Frontier!Move

\* And of every one.
LEMMA NoneMoves ==
  ASSUME \A v \in Others : /\ Queued(v)' <=> Queued(v)
                           /\ Pending(v)' <=> Pending(v)
                           /\ v \in seen' <=> v \in seen
                           /\ handed'[v] = handed[v]
  PROVE  UNCHANGED <<placeBar, triesBar>>
BY DEF placeBar, triesBar, PlaceOf

LEMMA AddQueueMoves ==
  ASSUME StateTypeOK, \A x \in Others : Sound(x),
         NEW u \in Urls, NEW s \in Int, NEW l \in Nat, AddQueue(u, s, l)
  PROVE  (u \in Others /\ Frontier!Discover(u)) \/ UNCHANGED <<placeBar, triesBar>>
<1> USE DEF Queued, Pending
<1> DEFINE e == [url |-> u, score |-> s, retry |-> 0]
<1>1. CASE AddQueueResult(u, l) # "ADDED"
  BY <1>1, NoneMoves DEF AddQueue
<1>2. CASE AddQueueResult(u, l) = "ADDED"
  <2>1. /\ u \notin seen /\ queue' = queue \cup {e} /\ seen' = seen \cup {u}
        /\ pending' = [pending EXCEPT ![u] = NoEntry] /\ handed' = handed
    BY <1>2 DEF AddQueue, AddQueueResult
  <2>2. e.url = u
    OBVIOUS
  <2> HIDE DEF e
  <2>3. \A v \in Others \ {u} : /\ Queued(v)' <=> Queued(v)
                                /\ Pending(v)' <=> Pending(v)
                                /\ v \in seen' <=> v \in seen
    BY <2>1, <2>2 DEF StateTypeOK, Others
  <2>4. CASE u \notin Others
    BY <2>1, <2>3, <2>4, NoneMoves
  <2>5. CASE u \in Others
    <3>1. PlaceOf(u) = "unseen"
      BY <2>1, <2>5 DEF Sound, PlaceOf
    <3>2. PlaceOf(u)' = "queued"
      BY <2>1, <2>2 DEF PlaceOf
    <3>3. triesBar' = triesBar
      BY <2>1 DEF triesBar
    <3>4. QED BY <2>3, <2>5, <3>1, <3>2, <3>3, OneMoves DEF Frontier!Discover
  <2>6. QED BY <2>4, <2>5
<1>3. QED BY <1>1, <1>2

LEMMA GetNextMoves ==
  ASSUME StateTypeOK, \A x \in Others : Sound(x), NEW e \in queue, GetNext(e)
  PROVE  (e.url \in Others /\ Frontier!HandOut(e.url)) \/ UNCHANGED <<placeBar, triesBar>>
<1> USE StateAssumption DEF Queued, Pending
<1> DEFINE u == e.url
<1>1. e \in Entry /\ u \in Urls /\ e # NoEntry
  BY DEF StateTypeOK, Entry
<1>2. /\ queue' = queue \ {e} /\ seen' = seen
      /\ pending' = [pending EXCEPT ![u] = e]
      /\ handed' = [handed EXCEPT ![u] = @ + 1]
  BY DEF GetNext
<1>3. \A v \in Others \ {u} : /\ Queued(v)' <=> Queued(v)
                              /\ Pending(v)' <=> Pending(v)
                              /\ v \in seen' <=> v \in seen
                              /\ handed'[v] = handed[v]
  BY <1>1, <1>2 DEF StateTypeOK, Others
<1>4. CASE u \notin Others
  BY <1>3, <1>4, NoneMoves
<1>5. CASE u \in Others
  <2>1. PlaceOf(u) = "queued"
    BY DEF PlaceOf
  <2>2. ~Queued(u)' /\ Pending(u)'
    BY <1>1, <1>2, <1>5 DEF StateTypeOK, Sound
  <2>3. PlaceOf(u)' = "taken"
    BY <2>2 DEF PlaceOf
  <2>4. triesBar' = [triesBar EXCEPT ![u] = @ + 1]
    BY <1>1, <1>2, <1>3, <1>5 DEF triesBar, StateTypeOK, Others
  <2>5. QED BY <1>3, <1>5, <2>1, <2>3, <2>4, OneMoves DEF Frontier!HandOut
<1>6. QED BY <1>4, <1>5

\* A page that is taken off hash p, and is not queued.
LEMMA RetireMoves ==
  ASSUME StateTypeOK, NEW u \in Urls, u \in Others => Sound(u), Pending(u),
         pending' = [pending EXCEPT ![u] = NoEntry], UNCHANGED <<queue, seen, handed>>
  PROVE  (u \in Others /\ Frontier!Retire(u)) \/ UNCHANGED <<placeBar, triesBar>>
<1> USE DEF Queued, Pending
<1>1. \A v \in Others \ {u} : /\ Queued(v)' <=> Queued(v)
                              /\ Pending(v)' <=> Pending(v)
                              /\ v \in seen' <=> v \in seen
                              /\ handed'[v] = handed[v]
  BY DEF StateTypeOK, Others
<1>2. CASE u \notin Others
  BY <1>1, <1>2, NoneMoves
<1>3. CASE u \in Others
  <2>1. ~Queued(u) /\ u \in seen
    BY <1>3 DEF Sound
  <2>2. PlaceOf(u) = "taken"
    BY <2>1 DEF PlaceOf
  <2>3. PlaceOf(u)' = "gone"
    BY <2>1 DEF PlaceOf, StateTypeOK
  <2>4. triesBar' = triesBar
    BY DEF triesBar
  <2>5. QED BY <1>1, <1>3, <2>2, <2>3, <2>4, OneMoves DEF Frontier!Retire
<1>4. QED BY <1>2, <1>3

LEMMA RequeueMoves ==
  ASSUME StateTypeOK, PendingOwn, \A x \in Others : Sound(x), NEW u \in Urls, Requeue(u)
  PROVE  \/ u \in Others /\ (Frontier!GiveBack(u) \/ Frontier!Retire(u))
         \/ UNCHANGED <<placeBar, triesBar>>
<1> USE DEF Queued, Pending
<1> DEFINE e == pending[u]
           f == [e EXCEPT !.retry = @ + 1]
<1>1. CASE UNCHANGED <<pending, queue>>
  BY <1>1, NoneMoves DEF Requeue
<1>2. CASE /\ Pending(u) /\ queue' = queue
           /\ pending' = [pending EXCEPT ![u] = NoEntry]
  BY <1>2, RetireMoves DEF Requeue
<1>3. ASSUME Pending(u), pending' = [pending EXCEPT ![u] = NoEntry],
             e.retry + 1 <= MaxRetryPending, queue' = queue \cup {f}
      PROVE  (u \in Others /\ Frontier!GiveBack(u)) \/ UNCHANGED <<placeBar, triesBar>>
  <2>1. e \in Entry /\ e.url = u /\ UNCHANGED <<seen, handed>>
    BY <1>3 DEF StateTypeOK, PendingOwn, Requeue
  <2>2. f.url = u
    BY <2>1 DEF Entry
  <2>3. e.retry \in Nat
    BY <2>1 DEF Entry
  <2>4. ~Pending(u)' /\ Queued(u)'
    BY <1>3, <2>2 DEF StateTypeOK
  <2>a. Pending(u) /\ (u \in Others => handed[u] = e.retry + 1 /\ \A g \in queue : g.url # u)
    BY <1>3 DEF Sound
  <2> HIDE DEF e, f
  <2>5. \A v \in Others \ {u} : /\ Queued(v)' <=> Queued(v)
                                /\ Pending(v)' <=> Pending(v)
                                /\ v \in seen' <=> v \in seen
                                /\ handed'[v] = handed[v]
    BY <1>3, <2>1, <2>2 DEF StateTypeOK, Others
  <2>6. CASE u \notin Others
    BY <2>5, <2>6, NoneMoves
  <2>7. CASE u \in Others
    <3>1. PlaceOf(u) = "taken"
      BY <2>7, <2>a DEF PlaceOf
    <3>2. PlaceOf(u)' = "queued"
      BY <2>4 DEF PlaceOf
    <3>3. triesBar' = triesBar /\ triesBar[u] = e.retry + 1
      BY <2>1, <2>7, <2>a DEF triesBar
    <3>4. triesBar[u] < MaxRetryPending + 1
      BY <1>3, <2>3, <3>3, StateAssumption
    <3>5. QED BY <2>5, <2>7, <3>1, <3>2, <3>3, <3>4, OneMoves DEF Frontier!GiveBack
  <2>8. QED BY <2>6, <2>7
<1>4. QED BY <1>1, <1>2, <1>3 DEF Requeue

\* Every step.
LEMMA StepMoves ==
  ASSUME StateTypeOK, PendingOwn, \A x \in Others : Sound(x), StepOnState
  PROVE  Frontier!FrontierNext \/ UNCHANGED <<placeBar, triesBar>>
<1> USE DEF Frontier!FrontierNext, Queued, Pending
<1>1. CASE \E u \in Urls, s \in Int : AddQueue(u, s, PageLimit)
  BY <1>1, AddQueueMoves, StateAssumption
<1>2. CASE \E e \in queue : GetNext(e)
  BY <1>2, GetNextMoves
<1>3. CASE \/ \E u \in Urls, p \in Processes : MarkStarted(u, p)
           \/ \E u \in Urls : ExpireLock(u)
           \/ IncrDone \/ UNCHANGED stateVars
  BY <1>3, NoneMoves DEF MarkStarted, ExpireLock, IncrDone, stateVars
<1>4. ASSUME NEW u \in Urls, RemovePending(u)
      PROVE  Frontier!FrontierNext \/ UNCHANGED <<placeBar, triesBar>>
  <2>1. /\ pending' = [pending EXCEPT ![u] = NoEntry]
        /\ UNCHANGED <<queue, seen, handed>>
    BY <1>4 DEF RemovePending
  <2>2. CASE Pending(u)
    BY <2>1, <2>2, RetireMoves
  <2>3. CASE ~Pending(u)
    <3>1. pending' = pending
      BY <2>1, <2>3 DEF StateTypeOK
    <3>2. QED BY <2>1, <3>1, NoneMoves
  <2>4. QED BY <2>2, <2>3
<1>5. CASE \E u \in Urls : Requeue(u)
  BY <1>5, RequeueMoves
<1>6. ASSUME NEW u \in Urls \cap Excluded, Unpend(u) \/ Unsee(u)
      PROVE  UNCHANGED <<placeBar, triesBar>>
  BY <1>6, NoneMoves DEF Unpend, Unsee, StateTypeOK, Others
<1>7. ASSUME NEW e \in queue, e.url \in Excluded, queue' = queue \ {e},
             UNCHANGED <<pending, seen, handed>>
      PROVE  UNCHANGED <<placeBar, triesBar>>
  BY <1>7, NoneMoves DEF Others
<1>8. QED BY <1>1, <1>2, <1>3, <1>4, <1>5, <1>6, <1>7 DEF StepOnState

---------------------------------------------------------------------------
(* The theorems.                                                           *)

LEMMA InitHolds == Init => IInv
<1> SUFFICES ASSUME Init PROVE IInv
  OBVIOUS
<1> USE StateAssumption, ExclusionsAssumption
<1>1. [url |-> SeedUrl, score |-> SeedScore, retry |-> 0] \in Entry
  BY DEF Entry
<1>2. StateTypeOK
  BY <1>1 DEF Init, StateTypeOK
<1>3. MessagesTypeOK /\ WorkersTypeOK
  BY DEF Init, MessagesTypeOK, WorkersTypeOK, PC, Holding
<1>4. NoFilter \in Filter /\ NoFilter.entry = NoEntry /\ NoFilter.at = "off"
  BY DEF NoFilter, Filter
<1>5. FilterTypeOK /\ OnlyExcludedLeave
  BY <1>4 DEF Init, FilterTypeOK, OnlyExcludedLeave
<1>6. PendingOwn
  BY DEF Init, PendingOwn, Pending
<1>7. ASSUME NEW u \in Urls PROVE Sound(u)
  BY DEF Init, Sound, Queued, Pending
<1>8. QED BY <1>2, <1>3, <1>5, <1>6, <1>7 DEF IInv, TypeOK, ExclusionInv

LEMMA StepHolds == IInv /\ [Next]_vars => IInv'
<1> SUFFICES ASSUME IInv, [Next]_vars PROVE IInv'
  OBVIOUS
<1>1. CASE UNCHANGED vars
  <2>1. UNCHANGED <<stateVars, exclusionVars, filter, workerVars>>
    BY <1>1 DEF vars
  <2>2. TypeOK'
    BY <2>1 DEF IInv, TypeOK, StateTypeOK, MessagesTypeOK, FilterTypeOK, WorkersTypeOK,
                stateVars, exclusionVars, workerVars
  <2>3. ExclusionInv'
    BY <2>1 DEF IInv, ExclusionInv, Sound, Queued, Pending, PendingOwn, OnlyExcludedLeave,
                stateVars, exclusionVars, workerVars
  <2>4. QED BY <2>2, <2>3 DEF IInv
<1>2. CASE Next
  <2>1. FiltersInv /\ WorkersInv /\ StateTypeOK /\ StepOnState
    BY <1>2, StepIsOnState DEF IInv, ExclusionInv, TypeOK, OnlyExcludedLeave, FiltersInv,
                               WorkersInv, WorkersKnow
  <2>2. FiltersInv' /\ WorkersInv' /\ MessagesTypeOK'
    BY <1>2, <2>1, FiltersStep, WorkersStep, MessagesStep DEF IInv
  <2>3. StateTypeOK' /\ PendingOwn' /\ \A u \in Urls \ Excluded : Sound(u)'
    BY <2>1, StepKeepsTypes, StepKeepsSound, StepKeepsOwn DEF IInv, ExclusionInv
  <2>4. QED
    BY <2>2, <2>3 DEF IInv, TypeOK, ExclusionInv, OnlyExcludedLeave, FiltersInv, WorkersInv,
                      WorkersKnow
<1>3. QED BY <1>1, <1>2

\* The inductive invariant: the types, what filters and workers may remove, and
\* that an entry says how often its URL was handed out.
THEOREM ExclusionInvariant == Spec => []IInv
BY InitHolds, StepHolds, PTL DEF Spec

\* A worker whose process knew an exclusion when it took a URL does not crawl
\* what the exclusion matches (PageWorker.runLoop, isInScope).
THEOREM ExcludedPagesStay == Spec => []NoExcludedPageStarts
<1>1. IInv => NoExcludedPageStarts
  BY DEF IInv, ExclusionInv, OnlyExcludedLeave, NoExcludedPageStarts
<1>2. QED BY <1>1, ExclusionInvariant, PTL

\* filterQueue and markExcluded lose, duplicate or repeat no page that is not
\* excluded, however their round trips fall between those of workers.
THEOREM OthersAreUnharmed == Spec => []OthersUnharmed
<1>1. IInv => OthersUnharmed
  BY DEF IInv, ExclusionInv, Sound, OthersUnharmed, Queued
<1>2. QED BY <1>1, ExclusionInvariant, PTL

\* However filterQueue and markExcluded interleave with workers, a page that is
\* not excluded is found once, handed out at most maxRetryPending + 1 times and
\* never comes back once it is gone.
THEOREM OthersImplementFrontier == Spec => OthersFollowFrontier
<1>1. Init => Frontier!FrontierInit
  BY DEF Init, Frontier!FrontierInit, placeBar, triesBar, PlaceOf, Queued, Pending, Others
<1>2. IInv /\ [Next]_vars => [Frontier!FrontierNext]_(Frontier!frontierVars)
  <2> SUFFICES ASSUME IInv, [Next]_vars
               PROVE  Frontier!FrontierNext \/ UNCHANGED <<placeBar, triesBar>>
    BY DEF Frontier!frontierVars
  <2>1. TypeOK /\ PendingOwn /\ OnlyExcludedLeave /\ \A u \in Others : Sound(u)
    BY DEF IInv, ExclusionInv, Others
  <2>2. StepOnState
    BY <2>1, StepIsOnState DEF vars, StepOnState
  <2>3. QED BY <2>1, <2>2, StepMoves DEF TypeOK
<1>3. QED
  BY <1>1, <1>2, ExclusionInvariant, PTL DEF Spec, OthersFollowFrontier, Frontier!FrontierSpec
===========================================================================
