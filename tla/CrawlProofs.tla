----------------------------- MODULE CrawlProofs --------------------------
(***************************************************************************)
(* Theorems about CrawlWorkers, for any number of URLs, processes and      *)
(* workers, any retry bound, page limit and number of crashes.             *)
(*                                                                         *)
(* Workers and processes touch the crawl state only through the operations *)
(* of CrawlState, which StateStep lists; an invariant of the crawl state   *)
(* is proved once per operation there, not once per action of a worker.    *)
(***************************************************************************)
EXTENDS CrawlRefinement, FiniteSetTheorems, TLAPS

\* The operations of CrawlState as one step relation: the workers touch the
\* crawl state only through these.
StateStep ==
  \/ \E u \in Urls, s \in Int, l \in Nat : AddQueue(u, s, l)
  \/ \E e \in queue : GetNext(e)
  \/ \E u \in Urls, p \in Processes : MarkStarted(u, p)
  \/ \E p \in Processes : UnlockPending(p)
  \/ \E u \in Urls : \/ ExpireLock(u) \/ RemovePending(u) \/ MoveFailed(u)
                     \/ Requeue(u) \/ AddNewSeed(u)
  \/ IncrDone
  \/ StopCrawl

\* Each operation keeps the types.
LEMMA StateTypeStep ==
  ASSUME StateTypeOK, StateStep
  PROVE  StateTypeOK'
<1> USE StateAssumption DEF StateTypeOK
<1>1. ASSUME NEW u \in Urls, NEW s \in Int, NEW l \in Nat, AddQueue(u, s, l)
      PROVE  StateTypeOK'
  <2>1. [url |-> u, score |-> s, retry |-> 0] \in Entry
    BY DEF Entry
  <2>2. QED BY <1>1, <2>1 DEF AddQueue
<1>2. ASSUME NEW e \in queue, GetNext(e) PROVE StateTypeOK'
  <2>1. e \in Entry /\ e.url \in Urls
    BY DEF Entry
  <2>2. handed' \in [Urls -> Nat]
    BY <1>2, <2>1 DEF GetNext
  <2>3. QED BY <1>2, <2>1, <2>2 DEF GetNext
<1>3. ASSUME NEW u \in Urls, NEW p \in Processes, MarkStarted(u, p)
      PROVE  StateTypeOK'
  BY <1>3 DEF MarkStarted
<1>4. ASSUME NEW p \in Processes, UnlockPending(p) PROVE StateTypeOK'
  BY <1>4 DEF UnlockPending
<1>5. ASSUME NEW u \in Urls, ExpireLock(u) PROVE StateTypeOK'
  BY <1>5 DEF ExpireLock
<1>6. ASSUME NEW u \in Urls, RemovePending(u) PROVE StateTypeOK'
  BY <1>6 DEF RemovePending
<1>7. ASSUME NEW u \in Urls, MoveFailed(u) PROVE StateTypeOK'
  BY <1>7 DEF MoveFailed
<1>8. ASSUME NEW u \in Urls, Requeue(u) PROVE StateTypeOK'
  <2>1. CASE UNCHANGED <<pending, queue, dropped>>
    BY <1>8, <2>1 DEF Requeue
  <2>2. CASE Pending(u)
    <3>1. pending[u] \in Entry
      BY <2>2 DEF Pending
    <3>2. [pending[u] EXCEPT !.retry = @ + 1] \in Entry
      BY <3>1 DEF Entry
    <3>3. QED BY <1>8, <3>2 DEF Requeue
  <2>3. QED BY <1>8, <2>1, <2>2 DEF Requeue
<1>9. ASSUME NEW u \in Urls, AddNewSeed(u) PROVE StateTypeOK'
  BY <1>9 DEF AddNewSeed
<1>10. CASE IncrDone
  BY <1>10 DEF IncrDone
<1>11. CASE StopCrawl
  BY <1>11 DEF StopCrawl
<1>12. QED
  BY <1>1, <1>2, <1>3, <1>4, <1>5, <1>6, <1>7, <1>8, <1>9, <1>10, <1>11
     DEF StateStep

---------------------------------------------------------------------------
(* Type correctness.                                                       *)

\* The task of a worker that holds a URL is an entry of the queue.
LEMMA TaskIsEntry ==
  ASSUME TypeOK, NEW w \in Workers, pc[w] \in Holding
  PROVE  task[w] \in Entry /\ task[w].url \in Urls /\ task[w].score \in Int
BY DEF TypeOK, WorkersTypeOK, WorkersMatch, Entry

LEMMA QueueUrlIsStep ==
  ASSUME NEW p \in Processes, NEW u \in Urls, NEW s \in Int,
         QueueUrl(p, u, s)
  PROVE  StateStep \/ UNCHANGED stateVars
BY StateAssumption DEF QueueUrl, StateStep

\* Every step of the system is an operation of the crawl state, or leaves it
\* alone.
LEMMA StepIsStateStep ==
  ASSUME TypeOK, Next
  PROVE  StateStep \/ UNCHANGED stateVars
<1> USE StateAssumption, WorkersAssumption
<1>1. ASSUME NEW w \in Workers, WorkerStep(w)
      PROVE  StateStep \/ UNCHANGED stateVars
  <2> DEFINE u == task[w].url
  <2>1. pc[w] \in Holding =>
          u \in Urls /\ task[w].score \in Int /\ task[w].score + 1 \in Int
    BY TaskIsEntry
  <2>2. ProcessOf[w] \in Processes
    OBVIOUS
  <2>3. CASE \E e \in queue : TakeUrl(w, e)
    BY <2>3 DEF TakeUrl, StateStep
  <2>4. CASE LockUrl(w)
    BY <2>1, <2>2, <2>4 DEF LockUrl, Goto, Holding, StateStep
  <2>5. CASE PageResponds(w)
    <3>1. u \in Urls
      BY <2>1, <2>5 DEF PageResponds, Goto, Holding, Crawling
    <3>2. \A s \in NewSeed(u) : s \in Urls
      BY <3>1 DEF NewSeed
    <3>3. QED BY <2>5, <3>2 DEF PageResponds, StateStep
  <2>6. CASE \E v \in Urls : AddLink(w, v)
    <3>1. PICK v \in Urls : AddLink(w, v)
      BY <2>6
    <3>2. task[w].score + 1 \in Int
      BY <2>1, <3>1 DEF AddLink, Holding, Crawling
    <3>3. QED BY <2>2, <3>1, <3>2, QueueUrlIsStep DEF AddLink
  <2>7. CASE SettleFinished(w)
    BY <2>1, <2>7 DEF SettleFinished, Goto, Holding, StateStep
  <2>8. CASE SettleFailed(w)
    BY <2>1, <2>8 DEF SettleFailed, Goto, Holding, StateStep
  <2>9. CASE CountDone(w)
    BY <2>9 DEF CountDone, StateStep
  <2>10. CASE \E v \in Urls : RequeuePending(w, v)
    BY <2>10 DEF RequeuePending, StateStep
  <2>11. CASE \/ Continue(w) \/ LeaveLoop(w) \/ QueueIsEmpty(w)
              \/ InitPage(w) \/ InitPageThrows(w)
              \/ PageLoads(w) \/ PageFails(w)
              \/ PageReturns(w) \/ PageOverruns(w)
              \/ CountPending(w) \/ CheckQueue(w) \/ ListPending(w)
              \/ ResetDone(w) \/ CheckAllDone(w)
    BY <2>11 DEF Continue, LeaveLoop, QueueIsEmpty, InitPage, InitPageThrows,
                 PageLoads, PageFails, PageReturns, PageOverruns,
                 CountPending, CheckQueue, ListPending, ResetDone, CheckAllDone
  <2>12. QED
    BY <1>1, <2>3, <2>4, <2>5, <2>6, <2>7, <2>8, <2>9, <2>10, <2>11
       DEF WorkerStep
<1>2. ASSUME NEW p \in Processes, ProcessStep(p)
      PROVE  StateStep \/ UNCHANGED stateVars
  <2>1. CASE Start(p) \/ Crash(p) \/ BrowserDisconnects(p)
    BY <2>1 DEF Start, Crash, BrowserDisconnects
  <2>2. CASE ClearOwnPendingLocks(p)
    BY <2>2 DEF ClearOwnPendingLocks, StateStep
  <2>3. CASE AddInitialSeeds(p)
    BY <2>3 DEF AddInitialSeeds, StateStep
  <2>4. CASE \E c \in late[p] : DeliverLateLink(p, c) \/ DeliverLateSeed(p, c)
    <3>1. PICK c \in late[p] : DeliverLateLink(p, c) \/ DeliverLateSeed(p, c)
      BY <2>4
    <3>2. c.url \in Urls /\ c.score \in Int
      BY DEF TypeOK, WorkersTypeOK, Call
    <3>3. CASE DeliverLateLink(p, c)
      BY <3>2, <3>3, QueueUrlIsStep DEF DeliverLateLink
    <3>4. CASE DeliverLateSeed(p, c)
      BY <3>2, <3>4 DEF DeliverLateSeed, StateStep
    <3>5. QED BY <3>1, <3>3, <3>4
  <2>5. QED BY <1>2, <2>1, <2>2, <2>3, <2>4 DEF ProcessStep
<1>3. ASSUME NEW u \in Urls, Expire(u) PROVE StateStep
  BY <1>3 DEF Expire, StateStep
<1>4. CASE Stop
  BY <1>4 DEF Stop, StateStep
<1>5. QED BY <1>1, <1>2, <1>3, <1>4 DEF Next

LEMMA InitIsTyped == Init => TypeOK
<1> SUFFICES ASSUME Init PROVE TypeOK
  OBVIOUS
<1> USE StateAssumption, WorkersAssumption DEF Init
<1>1. StateTypeOK
  BY DEF StateInit, StateTypeOK
<1>2. WorkersTypeOK
  BY DEF WorkersTypeOK, Phase, PC
<1>3. WorkersMatch
  BY DEF WorkersMatch, Holding, Crawling
<1>4. QED BY <1>1, <1>2, <1>3 DEF TypeOK

LEMMA LateCallsAreCalls ==
  ASSUME TypeOK, NEW w \in Workers, pc[w] \in Crawling
  PROVE  RemainingCalls(w) \in SUBSET Call
<1>1. task[w].url \in Urls /\ task[w].score + 1 \in Int
  BY TaskIsEntry DEF Holding
<1>2. \A v \in Urls : LinkCall(v, task[w].score + 1) \in Call
  BY <1>1 DEF LinkCall, Call
<1>3. \A v \in Urls : SeedCall(v) \in Call
  BY DEF SeedCall, Call
<1>4. Links[task[w].url] \in SUBSET Urls /\ links[w] \in SUBSET Urls
  BY <1>1, WorkersAssumption DEF TypeOK, WorkersTypeOK
<1>5. NewSeed(task[w].url) \in SUBSET Urls
  BY <1>1, WorkersAssumption DEF NewSeed
<1>6. QED BY <1>2, <1>3, <1>4, <1>5 DEF RemainingCalls

\* The part of TypeOK that is about the workers, step by step.
WorkersOK == WorkersTypeOK /\ WorkersMatch

LEMMA WorkerStepIsTyped ==
  ASSUME TypeOK, NEW w \in Workers, WorkerStep(w)
  PROVE  WorkersOK'
<1> USE StateAssumption, WorkersAssumption
    DEF TypeOK, WorkersOK, WorkersTypeOK, WorkersMatch, processVars, pageVars
<1>1. CASE \E e \in queue : TakeUrl(w, e)
  <2>1. PICK e \in queue : TakeUrl(w, e)
    BY <1>1
  <2>2. e \in Entry
    BY DEF StateTypeOK
  <2>3. QED BY <2>1, <2>2 DEF TakeUrl, Goto, PC, Holding, Crawling
<1>2. CASE Continue(w) \/ LeaveLoop(w) \/ QueueIsEmpty(w) \/ CountPending(w)
           \/ CheckQueue(w) \/ ResetDone(w) \/ CheckAllDone(w)
  BY <1>2 DEF Continue, LeaveLoop, QueueIsEmpty, CountPending, CheckQueue,
              ResetDone, CheckAllDone, Goto, PC, Holding, Crawling
<1>3. CASE \/ LockUrl(w) \/ InitPage(w) \/ PageResponds(w) \/ PageFails(w)
           \/ PageReturns(w) \/ SettleFinished(w) \/ SettleFailed(w)
  BY <1>3 DEF LockUrl, InitPage, PageResponds, PageFails, PageReturns,
              SettleFinished, SettleFailed, Goto, PC, Holding, Crawling
<1>4. CASE InitPageThrows(w)
  BY <1>4 DEF InitPageThrows, Goto, PC, Holding, Crawling
<1>5. CASE PageLoads(w)
  <2>1. Links[task[w].url] \in SUBSET Urls
    BY <1>5, TaskIsEntry DEF PageLoads, Goto, Holding, Crawling
  <2>2. QED BY <1>5, <2>1 DEF PageLoads, Goto, PC, Holding, Crawling
<1>6. CASE \E u \in Urls : AddLink(w, u)
  BY <1>6 DEF AddLink, QueueUrl
<1>7. CASE PageOverruns(w)
  <2>1. RemainingCalls(w) \in SUBSET Call
    BY <1>7, LateCallsAreCalls DEF PageOverruns
  <2>2. ProcessOf[w] \in Processes
    OBVIOUS
  <2>3. late' \in [Processes -> SUBSET Call]
    BY <1>7, <2>1, <2>2 DEF PageOverruns
  <2>4. loaded' \in [Workers -> BOOLEAN]
    <3>1. \A l \in {loaded[w], TRUE} :
            [loaded EXCEPT ![w] = l] \in [Workers -> BOOLEAN]
      OBVIOUS
    <3>2. QED BY <1>7, <3>1 DEF PageOverruns
  <2>5. QED BY <1>7, <2>3, <2>4 DEF PageOverruns, PC, Holding, Crawling
<1>8. CASE CountDone(w)
  BY <1>8 DEF CountDone, Goto, PC, Holding, Crawling
<1>9. CASE ListPending(w)
  BY <1>9 DEF ListPending, PendingUrls, Goto, PC, Holding, Crawling
<1>10. CASE \E u \in Urls : RequeuePending(w, u)
  BY <1>10 DEF RequeuePending
<1>11. QED
  BY <1>1, <1>2, <1>3, <1>4, <1>5, <1>6, <1>7, <1>8, <1>9, <1>10
     DEF WorkerStep

LEMMA ProcessStepIsTyped ==
  ASSUME TypeOK, NEW p \in Processes, ProcessStep(p)
  PROVE  WorkersOK'
<1> USE StateAssumption, WorkersAssumption
    DEF TypeOK, WorkersOK, WorkersTypeOK, WorkersMatch, Phase
<1>1. CASE Start(p)
  BY <1>1 DEF Start
<1>2. CASE ClearOwnPendingLocks(p)
  BY <1>2 DEF ClearOwnPendingLocks
<1>3. CASE AddInitialSeeds(p)
  <2>1. {LinkCall(u, 1) : u \in SitemapUrls} \in SUBSET Call
    BY DEF LinkCall, Call
  <2>2. late' \in [Processes -> SUBSET Call]
    BY <1>3, <2>1 DEF AddInitialSeeds
  <2>3. QED BY <1>3, <2>2 DEF AddInitialSeeds, PC, Holding, Crawling
<1>4. CASE Crash(p)
  <2>1. pc' \in [Workers -> PC] /\ task' \in [Workers -> Entry \cup {NoEntry}]
    BY <1>4 DEF Crash, PC
  <2>2. WorkersMatch'
    BY <1>4 DEF Crash, Holding, Crawling
  <2>3. crashes' \in 0 .. MaxCrashes
    BY <1>4 DEF Crash
  <2>4. QED BY <1>4, <2>1, <2>2, <2>3 DEF Crash
<1>5. CASE BrowserDisconnects(p)
  BY <1>5 DEF BrowserDisconnects
<1>6. CASE \E c \in late[p] : DeliverLateLink(p, c) \/ DeliverLateSeed(p, c)
  BY <1>6 DEF DeliverLateLink, DeliverLateSeed, QueueUrl
<1>7. QED BY <1>1, <1>2, <1>3, <1>4, <1>5, <1>6 DEF ProcessStep

\* TypeOK is an invariant: every variable keeps its type, and a worker has a
\* task exactly between taking a URL and reporting on it.
THEOREM TypeCorrect == Spec => []TypeOK
<1>1. Init => TypeOK
  BY InitIsTyped
<1>2. TypeOK /\ [Next]_vars => TypeOK'
  <2> SUFFICES ASSUME TypeOK, [Next]_vars PROVE TypeOK'
    OBVIOUS
  <2>1. CASE Next
    <3>1. StateTypeOK'
      <4>1. StateStep \/ UNCHANGED stateVars
        BY <2>1, StepIsStateStep
      <4>2. CASE UNCHANGED stateVars
        BY <4>2 DEF TypeOK, StateTypeOK, stateVars
      <4>3. QED BY <4>1, <4>2, StateTypeStep DEF TypeOK
    <3>2. WorkersOK'
      <4>1. CASE \E u \in Urls : Expire(u)
        BY <4>1 DEF Expire, workerVars, TypeOK, WorkersOK, WorkersTypeOK, WorkersMatch
      <4>2. CASE Stop
        BY <4>2 DEF Stop, workerVars, TypeOK, WorkersOK, WorkersTypeOK, WorkersMatch
      <4>3. QED
        BY <2>1, <4>1, <4>2, WorkerStepIsTyped, ProcessStepIsTyped DEF Next
    <3>3. QED BY <3>1, <3>2 DEF TypeOK, WorkersOK
  <2>2. CASE UNCHANGED vars
    BY <2>2 DEF vars, stateVars, workerVars, TypeOK, StateTypeOK, WorkersTypeOK,
                WorkersMatch
  <2>3. QED BY <2>1, <2>2
<1>3. QED BY <1>1, <1>2, PTL DEF Spec

---------------------------------------------------------------------------
(* The accounts of the crawl state.                                        *)

\* The operations that change neither an entry nor a count.
LEMMA QuietStep ==
  ASSUME Accounts, UNCHANGED <<queue, pending, failed, handed, dropped>>,
         seen \subseteq seen', finished \subseteq finished',
         extraSeeds \subseteq extraSeeds', seen' \subseteq seen \cup extraSeeds'
  PROVE  Accounts'
BY DEF Accounts, QueueAccount, PendingAccount, UnseenAccount, OneCopy,
       HandOutsBounded, NothingLost, FailedIsFinal, Queued, Pending,
       PendingUrls

LEMMA AddQueueKeepsAccounts ==
  ASSUME StateTypeOK, Accounts, NEW u \in Urls, NEW s \in Int, NEW l \in Nat,
         AddQueue(u, s, l)
  PROVE  Accounts'
<1> USE StateAssumption DEF StateTypeOK, Queued, Pending, PendingUrls
<1>1. CASE AddQueueResult(u, l) # "ADDED"
  BY <1>1, QuietStep DEF AddQueue
<1>2. CASE AddQueueResult(u, l) = "ADDED"
  <2> DEFINE e == [url |-> u, score |-> s, retry |-> 0]
  <2>1. u \notin seen
    BY <1>2 DEF AddQueueResult
  <2>2. /\ seen' = seen \cup {u} /\ queue' = queue \cup {e}
        /\ pending' = [pending EXCEPT ![u] = NoEntry]
        /\ UNCHANGED <<failed, handed, finished, dropped, extraSeeds>>
    BY <1>2 DEF AddQueue
  <2>3. handed[u] = 0 /\ failed[u] = 0 /\ u \notin dropped /\ ~Queued(u)
    BY <2>1 DEF Accounts, UnseenAccount, QueueAccount
  <2>4. e.url = u /\ e.retry = 0
    OBVIOUS
  <2> HIDE DEF e
  <2>5. QueueAccount'
    BY <2>2, <2>3, <2>4 DEF Accounts, QueueAccount
  <2>6. PendingAccount' /\ UnseenAccount'
    BY <2>2 DEF Accounts, PendingAccount, UnseenAccount
  <2>7. OneCopy'
    BY <2>2, <2>3, <2>4 DEF Accounts, OneCopy
  <2>8. HandOutsBounded'
    BY <2>2, <2>3, <2>4 DEF Accounts, HandOutsBounded
  <2>9. NothingLost'
    BY <2>1, <2>2, <2>4 DEF Accounts, NothingLost, PendingAccount
  <2>10. FailedIsFinal'
    BY <2>2, <2>3, <2>4 DEF Accounts, FailedIsFinal
  <2>11. QED BY <2>5, <2>6, <2>7, <2>8, <2>9, <2>10 DEF Accounts
<1>3. QED BY <1>1, <1>2

LEMMA GetNextKeepsAccounts ==
  ASSUME StateTypeOK, Accounts, NEW e \in queue, GetNext(e)
  PROVE  Accounts'
<1> USE StateAssumption DEF StateTypeOK, Queued, Pending, PendingUrls
<1>1. e \in Entry /\ e.url \in Urls /\ e.retry \in Nat /\ e # NoEntry
  BY DEF Entry
<1>2. /\ queue' = queue \ {e}
      /\ pending' = [pending EXCEPT ![e.url] = e]
      /\ handed' = [handed EXCEPT ![e.url] = @ + 1]
      /\ UNCHANGED <<seen, failed, finished, dropped, extraSeeds>>
  BY DEF GetNext
<1>3. /\ e.url \in seen /\ e.retry <= MaxRetryPending
      /\ handed[e.url] = e.retry
      /\ handed'[e.url] = e.retry + 1
      /\ \A f \in queue' : f.url # e.url
  BY <1>1, <1>2 DEF Accounts, QueueAccount, OneCopy
<1>4. QueueAccount'
  BY <1>1, <1>2, <1>3 DEF Accounts, QueueAccount, Entry
<1>5. PendingAccount'
  BY <1>1, <1>2, <1>3 DEF Accounts, PendingAccount
<1>6. UnseenAccount'
  BY <1>1, <1>2, <1>3 DEF Accounts, UnseenAccount
<1>7. OneCopy'
  BY <1>1, <1>2, <1>3 DEF Accounts, OneCopy
<1>8. HandOutsBounded'
  BY <1>1, <1>2, <1>3 DEF Accounts, HandOutsBounded
<1>9. NothingLost'
  BY <1>1, <1>2 DEF Accounts, NothingLost
<1>10. FailedIsFinal'
  BY <1>1, <1>2, <1>3 DEF Accounts, FailedIsFinal
<1>11. QED BY <1>4, <1>5, <1>6, <1>7, <1>8, <1>9, <1>10 DEF Accounts

LEMMA RemovePendingKeepsAccounts ==
  ASSUME StateTypeOK, Accounts, NEW u \in Urls, RemovePending(u)
  PROVE  Accounts'
<1> USE StateAssumption DEF StateTypeOK, Queued, Pending, PendingUrls,
                            RemovePending
<1>1. QueueAccount' /\ PendingAccount' /\ UnseenAccount'
  BY DEF Accounts, QueueAccount, PendingAccount, UnseenAccount
<1>2. OneCopy' /\ HandOutsBounded' /\ FailedIsFinal'
  BY DEF Accounts, OneCopy, HandOutsBounded, FailedIsFinal
<1>3. NothingLost'
  BY DEF Accounts, NothingLost
<1>4. QED BY <1>1, <1>2, <1>3 DEF Accounts

LEMMA MoveFailedKeepsAccounts ==
  ASSUME StateTypeOK, Accounts, NEW u \in Urls, MoveFailed(u)
  PROVE  Accounts'
<1> USE StateAssumption DEF StateTypeOK, Queued, Pending, PendingUrls
<1>1. CASE ~Pending(u)
  BY <1>1, QuietStep DEF MoveFailed
<1>2. CASE Pending(u)
  <2>1. /\ failed' = [failed EXCEPT ![u] = @ + 1]
        /\ pending' = [pending EXCEPT ![u] = NoEntry]
        /\ UNCHANGED <<queue, seen, handed, finished, dropped, extraSeeds>>
    BY <1>2 DEF MoveFailed
  <2>2. failed[u] = 0 /\ ~Queued(u) /\ u \in seen
    BY <1>2 DEF Accounts, FailedIsFinal, OneCopy, PendingAccount
  <2>3. QueueAccount' /\ PendingAccount' /\ UnseenAccount'
    BY <2>1, <2>2 DEF Accounts, QueueAccount, PendingAccount, UnseenAccount
  <2>4. OneCopy' /\ HandOutsBounded'
    BY <2>1 DEF Accounts, OneCopy, HandOutsBounded
  <2>5. FailedIsFinal'
    BY <2>1, <2>2 DEF Accounts, FailedIsFinal
  <2>6. NothingLost'
    BY <2>1, <2>2 DEF Accounts, NothingLost
  <2>7. QED BY <2>3, <2>4, <2>5, <2>6 DEF Accounts
<1>3. QED BY <1>1, <1>2

LEMMA RequeueKeepsAccounts ==
  ASSUME StateTypeOK, Accounts, NEW u \in Urls, Requeue(u)
  PROVE  Accounts'
<1> USE StateAssumption DEF StateTypeOK, Queued, Pending, PendingUrls
<1> DEFINE e == pending[u]
           f == [e EXCEPT !.retry = @ + 1]
<1>1. CASE lock[u] # Free \/ ~Pending(u)
  BY <1>1, QuietStep DEF Requeue
<1>2. ASSUME lock[u] = Free, Pending(u)
      PROVE  Accounts'
  <2>1. e \in Entry /\ e.url = u /\ u \in seen /\ e.retry \in Nat
    BY <1>2 DEF Accounts, PendingAccount, Entry
  <2>2. e.retry <= MaxRetryPending /\ handed[u] = e.retry + 1
    BY <1>2 DEF Accounts, PendingAccount
  <2>3. ~Queued(u) /\ failed[u] = 0 /\ u \notin dropped
    BY <1>2 DEF Accounts, OneCopy, FailedIsFinal, HandOutsBounded
  <2>4. f.url = u /\ f.retry = e.retry + 1
    BY <2>1 DEF Entry
  <2>5. /\ pending' = [pending EXCEPT ![u] = NoEntry]
        /\ UNCHANGED <<seen, failed, handed, finished, extraSeeds>>
    BY <1>2 DEF Requeue
  <2>6. \/ /\ f.retry <= MaxRetryPending
           /\ queue' = queue \cup {f} /\ dropped' = dropped
        \/ /\ f.retry > MaxRetryPending
           /\ dropped' = dropped \cup {u} /\ queue' = queue
    BY <1>2, <2>4 DEF Requeue
  <2> HIDE DEF e, f
  <2>7. QueueAccount'
    BY <2>1, <2>2, <2>3, <2>4, <2>5, <2>6 DEF Accounts, QueueAccount
  <2>8. PendingAccount' /\ UnseenAccount'
    BY <2>1, <2>5, <2>6 DEF Accounts, PendingAccount, UnseenAccount
  <2>9. OneCopy'
    BY <2>3, <2>4, <2>5, <2>6 DEF Accounts, OneCopy
  <2>10. HandOutsBounded'
    BY <2>1, <2>2, <2>3, <2>4, <2>5, <2>6 DEF Accounts, HandOutsBounded
  <2>11. NothingLost'
    BY <2>4, <2>5, <2>6 DEF Accounts, NothingLost
  <2>12. FailedIsFinal'
    BY <2>3, <2>4, <2>5, <2>6 DEF Accounts, FailedIsFinal
  <2>13. QED BY <2>7, <2>8, <2>9, <2>10, <2>11, <2>12 DEF Accounts
<1>3. QED BY <1>1, <1>2

LEMMA StateStepKeepsAccounts ==
  ASSUME StateTypeOK, Accounts, StateStep
  PROVE  Accounts'
<1>1. ASSUME NEW u \in Urls, AddNewSeed(u) PROVE Accounts'
  BY <1>1, QuietStep DEF AddNewSeed
<1>2. ASSUME NEW u \in Urls, NEW p \in Processes, MarkStarted(u, p)
      PROVE  Accounts'
  BY <1>2, QuietStep DEF MarkStarted
<1>3. ASSUME NEW p \in Processes, UnlockPending(p) PROVE Accounts'
  BY <1>3, QuietStep DEF UnlockPending
<1>4. ASSUME NEW u \in Urls, ExpireLock(u) PROVE Accounts'
  BY <1>4, QuietStep DEF ExpireLock
<1>5. CASE IncrDone \/ StopCrawl
  BY <1>5, QuietStep DEF IncrDone, StopCrawl
<1>6. QED
  BY <1>1, <1>2, <1>3, <1>4, <1>5, AddQueueKeepsAccounts,
     GetNextKeepsAccounts, RemovePendingKeepsAccounts,
     MoveFailedKeepsAccounts, RequeueKeepsAccounts DEF StateStep

\* The accounts hold in every reachable state, whatever the interleaving of
\* workers, crashes, expired locks and late calls.
THEOREM AccountsHold == Spec => []Accounts
<1>1. Init => Accounts
  BY StateAssumption
     DEF Init, StateInit, Accounts, QueueAccount, PendingAccount,
         UnseenAccount, OneCopy, HandOutsBounded, NothingLost, FailedIsFinal,
         Queued, Pending, PendingUrls
<1>2. TypeOK /\ Accounts /\ [Next]_vars => Accounts'
  <2> SUFFICES ASSUME TypeOK, Accounts, [Next]_vars PROVE Accounts'
    OBVIOUS
  <2>1. StateStep \/ UNCHANGED stateVars
    BY StepIsStateStep DEF vars
  <2>2. CASE UNCHANGED stateVars
    BY <2>2, QuietStep DEF stateVars
  <2>3. QED BY <2>1, <2>2, StateStepKeepsAccounts DEF TypeOK
<1>3. QED BY <1>1, <1>2, TypeCorrect, PTL DEF Spec

\* No URL that was added is ever lost.
THEOREM NoUrlIsLost == Spec => []NothingLost
<1>1. Accounts => NothingLost
  BY DEF Accounts
<1>2. QED BY <1>1, AccountsHold, PTL

\* A URL is handed out at most MaxRetryPending + 1 times in a whole crawl.
THEOREM RetriesAreBounded == Spec => []HandOutsBounded
<1>1. Accounts => HandOutsBounded
  BY DEF Accounts
<1>2. QED BY <1>1, AccountsHold, PTL

\* A URL is never both queued and pending, nor queued twice.
THEOREM UrlsHaveOneCopy == Spec => []OneCopy
<1>1. Accounts => OneCopy
  BY DEF Accounts
<1>2. QED BY <1>1, AccountsHold, PTL

\* A URL fails at most once, and a failed URL is never handed out again.
THEOREM FailureIsFinal == Spec => []FailedIsFinal
<1>1. Accounts => FailedIsFinal
  BY DEF Accounts
<1>2. QED BY <1>1, AccountsHold, PTL

---------------------------------------------------------------------------
(* The page limit.                                                       *)

\* What the page limit rests on: the sets are finite, and the seed, which is
\* queued without a limit, is the first URL of the crawl, for nothing is added
\* before a process is up.
SeedIsFirst ==
  /\ SeedUrl \notin seen => seen = {}
  /\ \A p \in Processes : phase[p] = "up" \/ late[p] # {} => SeedUrl \in seen

Allowance ==
  /\ IsFiniteSet(seen) /\ IsFiniteSet(extraSeeds)
  /\ AddedWithinLimit

LEMMA AddQueueKeepsAllowance ==
  ASSUME Allowance, NEW u \in Urls, NEW s \in Int, NEW l \in {0, PageLimit},
         l = 0 => u \in seen \/ seen = {},
         AddQueue(u, s, l)
  PROVE  /\ Allowance'
         /\ seen \subseteq seen'
         /\ l = 0 => u \in seen'
<1>1. UNCHANGED extraSeeds
  BY DEF AddQueue
<1>2. CASE seen' = seen
  <2>1. l = 0 => u \in seen
    BY <1>2 DEF AddQueue, AddQueueResult
  <2>2. QED BY <1>1, <1>2, <2>1 DEF Allowance, AddedWithinLimit
<1>3. ASSUME AddQueueResult(u, l) = "ADDED", seen' = seen \cup {u}
      PROVE  Allowance'
  <2>1. /\ IsFiniteSet(seen') /\ Cardinality(seen') = Cardinality(seen) + 1
        /\ Cardinality(seen) \in Nat /\ Cardinality(extraSeeds) \in Nat
    BY <1>3, FS_AddElement, FS_CardinalityType DEF Allowance, AddQueueResult
  <2>2. seen = {} => Cardinality(seen) = 0
    BY FS_EmptySet
  <2>3. ASSUME PageLimit > 0
        PROVE  Cardinality(seen') - Cardinality(extraSeeds) <= PageLimit
    BY <1>3, <2>1, <2>2, <2>3, StateAssumption DEF AddQueueResult
  <2>4. QED BY <1>1, <2>1, <2>3 DEF Allowance, AddedWithinLimit
<1>4. QED BY <1>2, <1>3 DEF AddQueue

LEMMA AddNewSeedKeepsAllowance ==
  ASSUME Allowance, NEW u \in Urls, AddNewSeed(u)
  PROVE  Allowance' /\ seen \subseteq seen'
<1>1. CASE u \in extraSeeds
  BY <1>1 DEF AddNewSeed, Allowance, AddedWithinLimit
<1>2. CASE u \notin extraSeeds
  <2>1. /\ IsFiniteSet(seen \cup {u})
        /\ Cardinality(seen) \in Nat
        /\ Cardinality(seen \cup {u}) \in {Cardinality(seen), Cardinality(seen) + 1}
    BY FS_AddElement, FS_CardinalityType DEF Allowance
  <2>2. /\ IsFiniteSet(extraSeeds \cup {u})
        /\ Cardinality(extraSeeds \cup {u}) = Cardinality(extraSeeds) + 1
        /\ Cardinality(extraSeeds) \in Nat
    BY <1>2, FS_AddElement, FS_CardinalityType DEF Allowance
  <2>3. seen' = seen \cup {u} /\ extraSeeds' = extraSeeds \cup {u}
    BY <1>2 DEF AddNewSeed
  <2>4. Cardinality(seen') \in Nat
    BY <2>1, <2>3, FS_CardinalityType
  <2>5. QED
    BY <2>1, <2>2, <2>3, <2>4, StateAssumption
       DEF Allowance, AddedWithinLimit
<1>3. QED BY <1>1, <1>2

\* A URL that a process queues once it is up.
LEMMA QueueUrlKeepsAllowance ==
  ASSUME Allowance, NEW p \in Processes, NEW u \in Urls, NEW s \in Int,
         SeedUrl \in seen, QueueUrl(p, u, s)
  PROVE  Allowance' /\ seen \subseteq seen'
<1>1. CASE UNCHANGED stateVars
  BY <1>1 DEF stateVars, Allowance, AddedWithinLimit
<1>2. CASE AddQueue(u, s, PageLimit)
  <2>1. CASE PageLimit # 0
    BY <1>2, <2>1, AddQueueKeepsAllowance
  <2>2. CASE PageLimit = 0
    <3>1. IsFiniteSet(seen') /\ seen \subseteq seen' /\ UNCHANGED extraSeeds
      BY <1>2, FS_AddElement DEF AddQueue, Allowance
    <3>2. QED BY <2>2, <3>1 DEF Allowance, AddedWithinLimit
  <2>3. QED BY <2>1, <2>2
<1>3. QED BY <1>1, <1>2 DEF QueueUrl

\* The other steps of a worker add no URL and start no late call.
LEMMA OtherStepsAddNothing ==
  ASSUME NEW w \in Workers, WorkerStep(w),
         ~PageResponds(w), ~PageOverruns(w), ~\E v \in Urls : AddLink(w, v)
  PROVE  UNCHANGED <<seen, extraSeeds, phase, late>>
<1> USE DEF processVars
<1>1. CASE \E e \in queue : TakeUrl(w, e)
  BY <1>1 DEF TakeUrl, GetNext
<1>2. CASE LockUrl(w)
  BY <1>2 DEF LockUrl, MarkStarted
<1>3. CASE SettleFinished(w) \/ SettleFailed(w) \/ CountDone(w)
  BY <1>3 DEF SettleFinished, SettleFailed, CountDone, RemovePending,
              MoveFailed, IncrDone
<1>4. CASE \E u \in Urls : RequeuePending(w, u)
  BY <1>4 DEF RequeuePending, Requeue
<1>5. CASE \/ Continue(w) \/ LeaveLoop(w) \/ QueueIsEmpty(w)
           \/ InitPage(w) \/ InitPageThrows(w) \/ PageLoads(w) \/ PageFails(w)
           \/ PageReturns(w) \/ CountPending(w) \/ CheckQueue(w)
           \/ ListPending(w) \/ ResetDone(w) \/ CheckAllDone(w)
  BY <1>5 DEF stateVars, Continue, LeaveLoop, QueueIsEmpty, InitPage,
              InitPageThrows, PageLoads, PageFails, PageReturns, CountPending,
              CheckQueue, ListPending, ResetDone, CheckAllDone
<1>6. QED BY <1>1, <1>2, <1>3, <1>4, <1>5 DEF WorkerStep

\* A step of a worker, and then of a process: nothing is added before the seed.
LEMMA WorkerKeepsAllowance ==
  ASSUME TypeOK, Allowance, SeedIsFirst, NEW w \in Workers, WorkerStep(w)
  PROVE  Allowance' /\ SeedIsFirst'
<1> USE WorkersAssumption
<1>1. ProcessOf[w] \in Processes
  OBVIOUS
<1>2. pc[w] # "off" => SeedUrl \in seen
  BY <1>1 DEF TypeOK, WorkersMatch, SeedIsFirst
<1>3. ASSUME Allowance', SeedUrl \in seen, seen \subseteq seen',
             UNCHANGED <<phase, late>>
      PROVE  Allowance' /\ SeedIsFirst'
  BY <1>3 DEF SeedIsFirst
<1>4. CASE PageResponds(w)
  <2>1. task[w].url \in Urls
    BY <1>4, TaskIsEntry DEF PageResponds, Goto, Holding, Crawling
  <2>2. \A s \in NewSeed(task[w].url) : s \in Urls
    BY <2>1 DEF NewSeed
  <2>3. Allowance' /\ seen \subseteq seen'
    <3>1. CASE UNCHANGED stateVars
      BY <3>1 DEF stateVars, Allowance, AddedWithinLimit
    <3>2. CASE \E s \in NewSeed(task[w].url) : AddNewSeed(s)
      BY <2>2, <3>2, AddNewSeedKeepsAllowance
    <3>3. QED BY <1>4, <3>1, <3>2 DEF PageResponds
  <2>4. SeedUrl \in seen
    BY <1>2, <1>4 DEF PageResponds, Goto
  <2>5. QED BY <1>3, <1>4, <2>3, <2>4 DEF PageResponds, processVars
<1>5. CASE \E v \in Urls : AddLink(w, v)
  <2>1. PICK v \in Urls : AddLink(w, v)
    BY <1>5
  <2>2. task[w].score + 1 \in Int /\ SeedUrl \in seen
    BY <1>2, <2>1, TaskIsEntry DEF AddLink, Holding, Crawling
  <2>3. Allowance' /\ seen \subseteq seen'
    BY <1>1, <2>1, <2>2, QueueUrlKeepsAllowance DEF AddLink
  <2>4. QED BY <1>3, <2>1, <2>2, <2>3 DEF AddLink
<1>6. CASE PageOverruns(w)
  <2>1. UNCHANGED <<seen, extraSeeds, phase>>
    BY <1>6 DEF PageOverruns, stateVars
  <2>2. \A p \in Processes : late'[p] # late[p] => p = ProcessOf[w]
    BY <1>6 DEF PageOverruns, TypeOK, WorkersTypeOK
  <2>3. SeedUrl \in seen
    BY <1>2, <1>6 DEF PageOverruns, Crawling
  <2>4. QED
    BY <2>1, <2>2, <2>3 DEF Allowance, AddedWithinLimit, SeedIsFirst
<1>7. CASE /\ ~PageResponds(w) /\ ~PageOverruns(w)
           /\ ~\E v \in Urls : AddLink(w, v)
  <2>1. UNCHANGED <<seen, extraSeeds, phase, late>>
    BY <1>7, OtherStepsAddNothing
  <2>2. QED BY <2>1 DEF Allowance, AddedWithinLimit, SeedIsFirst
<1>8. QED BY <1>4, <1>5, <1>6, <1>7

LEMMA ProcessKeepsAllowance ==
  ASSUME TypeOK, Allowance, SeedIsFirst, NEW p \in Processes, ProcessStep(p)
  PROVE  Allowance' /\ SeedIsFirst'
<1> USE WorkersAssumption
<1>1. CASE Start(p) \/ ClearOwnPendingLocks(p) \/ BrowserDisconnects(p)
  <2>1. UNCHANGED <<seen, extraSeeds, late>>
    BY <1>1 DEF Start, ClearOwnPendingLocks, UnlockPending, BrowserDisconnects,
                stateVars
  <2>2. \A q \in Processes : phase'[q] = "up" => phase[q] = "up"
    BY <1>1 DEF Start, ClearOwnPendingLocks, BrowserDisconnects, TypeOK,
                WorkersTypeOK
  <2>3. QED
    BY <2>1, <2>2 DEF Allowance, AddedWithinLimit, SeedIsFirst
<1>2. CASE AddInitialSeeds(p)
  <2>1. AddQueue(SeedUrl, SeedScore, 0)
    BY <1>2 DEF AddInitialSeeds
  <2>2. Allowance' /\ SeedUrl \in seen'
    BY <2>1, AddQueueKeepsAllowance DEF SeedIsFirst
  <2>3. QED BY <2>2 DEF SeedIsFirst
<1>3. CASE Crash(p)
  <2>1. UNCHANGED <<seen, extraSeeds>>
    BY <1>3 DEF Crash, stateVars
  <2>2. \A q \in Processes : /\ phase'[q] = "up" => phase[q] = "up"
                             /\ late'[q] # {} => late[q] # {}
    BY <1>3 DEF Crash, TypeOK, WorkersTypeOK
  <2>3. QED
    BY <2>1, <2>2 DEF Allowance, AddedWithinLimit, SeedIsFirst
<1>4. CASE \E c \in late[p] : DeliverLateLink(p, c) \/ DeliverLateSeed(p, c)
  <2>1. PICK c \in late[p] : DeliverLateLink(p, c) \/ DeliverLateSeed(p, c)
    BY <1>4
  <2>2. c.url \in Urls /\ c.score \in Int /\ SeedUrl \in seen
    BY DEF TypeOK, WorkersTypeOK, Call, SeedIsFirst
  <2>3. Allowance' /\ seen \subseteq seen'
    BY <2>1, <2>2, QueueUrlKeepsAllowance, AddNewSeedKeepsAllowance
       DEF DeliverLateLink, DeliverLateSeed
  <2>4. QED BY <2>2, <2>3 DEF SeedIsFirst
<1>5. QED BY <1>1, <1>2, <1>3, <1>4 DEF ProcessStep

LEMMA LimitInvariant == Spec => [](Allowance /\ SeedIsFirst)
<1>1. Init => Allowance /\ SeedIsFirst
  BY FS_EmptySet, StateAssumption
     DEF Init, StateInit, Allowance, AddedWithinLimit, SeedIsFirst
<1>2. TypeOK /\ Allowance /\ SeedIsFirst /\ [Next]_vars
        => Allowance' /\ SeedIsFirst'
  <2> SUFFICES ASSUME TypeOK, Allowance, SeedIsFirst, [Next]_vars
               PROVE  Allowance' /\ SeedIsFirst'
    OBVIOUS
  <2>1. CASE \/ UNCHANGED vars \/ Stop \/ \E u \in Urls : Expire(u)
    <3>1. UNCHANGED <<seen, extraSeeds, phase, late>>
      BY <2>1 DEF vars, stateVars, workerVars, Stop, StopCrawl, Expire,
                  ExpireLock
    <3>2. QED BY <3>1 DEF Allowance, AddedWithinLimit, SeedIsFirst
  <2>2. QED
    BY <2>1, WorkerKeepsAllowance, ProcessKeepsAllowance DEF Next
<1>3. QED BY <1>1, <1>2, TypeCorrect, PTL DEF Spec

\* What is handed out, held and counted: sets of any size that the crawl has
\* made, none of which depends on how many workers there are.
Counting ==
  /\ IsFiniteSet(HandOuts) /\ IsFiniteSet(Holders)
  /\ ReportsCounted

LEMMA HandOut ==
  ASSUME NEW h
  PROVE  h \in HandOuts <=> \E u \in Urls : \E n \in 1 .. handed[u] : h = <<u, n>>
BY DEF HandOuts

\* A step that hands nothing out, and in which d counts what a worker held.
LEMMA NoneHandedOut ==
  ASSUME StateTypeOK, Counting, handed' = handed, Holders' \subseteq Holders,
         \/ done' = done
         \/ done' = done + 1 /\ \E w \in Holders : w \notin Holders'
  PROVE  Counting'
<1>1. HandOuts' = HandOuts
  BY DEF HandOuts
<1>2. /\ IsFiniteSet(Holders') /\ Cardinality(Holders') <= Cardinality(Holders)
      /\ Cardinality(Holders) \in Nat /\ Cardinality(Holders') \in Nat
      /\ Cardinality(HandOuts) \in Nat /\ done \in Nat
  BY FS_Subset, FS_CardinalityType DEF Counting, StateTypeOK
<1>3. CASE done' = done
  BY <1>1, <1>2, <1>3 DEF Counting, ReportsCounted
<1>4. ASSUME done' = done + 1, NEW w \in Holders, w \notin Holders'
      PROVE  Counting'
  <2>1. /\ Cardinality(Holders' \cup {w}) = Cardinality(Holders') + 1
    BY <1>2, <1>4, FS_AddElement
  <2>2. Cardinality(Holders' \cup {w}) <= Cardinality(Holders)
    <3>1. Holders' \cup {w} \in SUBSET Holders
      BY <1>4
    <3>2. QED BY <3>1, FS_Subset DEF Counting
  <2>3. QED BY <1>1, <1>2, <1>4, <2>1, <2>2 DEF Counting, ReportsCounted
<1>5. QED BY <1>3, <1>4

\* A URL that a worker takes: one more of each.
LEMMA TakeIsCounted ==
  ASSUME TypeOK, Counting, NEW w \in Workers, NEW e \in queue, TakeUrl(w, e)
  PROVE  Counting'
<1> DEFINE u == e.url
           new == <<u, handed[u] + 1>>
<1>1. e \in Entry /\ u \in Urls /\ e # NoEntry /\ handed \in [Urls -> Nat]
  BY StateAssumption DEF TypeOK, StateTypeOK, Entry
<1>2. /\ handed' = [handed EXCEPT ![u] = @ + 1] /\ done' = done
      /\ task' = [task EXCEPT ![w] = e]
  BY DEF TakeUrl, GetNext
<1>3. Holders' = Holders \cup {w} /\ w \notin Holders
  BY <1>1, <1>2 DEF Holders, TypeOK, WorkersTypeOK, WorkersMatch, TakeUrl, Goto, Holding, Crawling
<1>4. HandOuts' = HandOuts \cup {new} /\ new \notin HandOuts
  <2>1. \A v \in Urls : handed'[v] = IF v = u THEN handed[v] + 1 ELSE handed[v]
    BY <1>1, <1>2
  <2>2. \A h : h \in HandOuts' <=> \E v \in Urls : \E n \in 1 .. handed'[v] : h = <<v, n>>
    BY DEF HandOuts
  <2>3. \A h : h \in HandOuts' <=> h \in HandOuts \/ h = new
    BY <1>1, <2>1, <2>2, HandOut
  <2>4. new \notin HandOuts
    BY <1>1, HandOut
  <2>5. QED BY <2>3, <2>4
<1>5. /\ IsFiniteSet(Holders') /\ Cardinality(Holders') = Cardinality(Holders) + 1
      /\ IsFiniteSet(HandOuts') /\ Cardinality(HandOuts') = Cardinality(HandOuts) + 1
      /\ Cardinality(Holders) \in Nat /\ Cardinality(HandOuts) \in Nat /\ done \in Nat
  BY <1>3, <1>4, FS_AddElement, FS_CardinalityType DEF Counting, TypeOK, StateTypeOK
<1>6. QED BY <1>2, <1>5 DEF Counting, ReportsCounted

\* The other steps of a worker.
LEMMA WorkerIsCounted ==
  ASSUME TypeOK, Counting, NEW w \in Workers, WorkerStep(w)
  PROVE  Counting'
<1> USE DEF processVars
<1>t. task \in [Workers -> Entry \cup {NoEntry}] /\ StateTypeOK
  BY DEF TypeOK, WorkersTypeOK
<1>1. ASSUME UNCHANGED <<handed, done, task>> PROVE Counting'
  BY <1>1, <1>t, NoneHandedOut DEF Holders
<1>2. CASE \E e \in queue : TakeUrl(w, e)
  BY <1>2, TakeIsCounted
<1>3. CASE InitPageThrows(w)
  <2>1. UNCHANGED <<handed, done>> /\ Holders' \subseteq Holders
    BY <1>3, <1>t DEF InitPageThrows, stateVars, Holders
  <2>2. QED BY <1>t, <2>1, NoneHandedOut
<1>4. CASE CountDone(w)
  <2>1. handed' = handed /\ done' = done + 1 /\ task' = [task EXCEPT ![w] = NoEntry]
    BY <1>4 DEF CountDone, IncrDone
  <2>2. w \in Holders
    BY <1>4 DEF CountDone, Goto, TypeOK, WorkersMatch, Holding, Holders
  <2>3. Holders' \subseteq Holders /\ w \notin Holders'
    BY <1>t, <2>1 DEF Holders
  <2>4. QED BY <1>t, <2>1, <2>2, <2>3, NoneHandedOut
<1>5. CASE LockUrl(w) \/ SettleFinished(w) \/ SettleFailed(w)
  BY <1>1, <1>5 DEF LockUrl, MarkStarted, SettleFinished, RemovePending, SettleFailed, MoveFailed
<1>6. CASE PageResponds(w) \/ \E u \in Urls : AddLink(w, u) \/ RequeuePending(w, u)
  BY <1>1, <1>6 DEF PageResponds, AddNewSeed, AddLink, QueueUrl, AddQueue, RequeuePending, Requeue,
                    stateVars
<1>7. CASE \/ Continue(w) \/ LeaveLoop(w) \/ QueueIsEmpty(w) \/ InitPage(w) \/ PageLoads(w)
           \/ PageFails(w) \/ PageReturns(w) \/ PageOverruns(w) \/ CountPending(w)
           \/ CheckQueue(w) \/ ListPending(w) \/ ResetDone(w) \/ CheckAllDone(w)
  BY <1>1, <1>7 DEF stateVars, Continue, LeaveLoop, QueueIsEmpty, InitPage, PageLoads, PageFails,
                    PageReturns, PageOverruns, CountPending, CheckQueue, ListPending, ResetDone,
                    CheckAllDone
<1>8. QED BY <1>2, <1>3, <1>4, <1>5, <1>6, <1>7 DEF WorkerStep

\* And those of a process: a crash only takes workers their pages.
LEMMA ProcessIsCounted ==
  ASSUME TypeOK, Counting, NEW p \in Processes, ProcessStep(p)
  PROVE  Counting'
<1>1. UNCHANGED <<handed, done>>
  BY DEF ProcessStep, Start, ClearOwnPendingLocks, UnlockPending, AddInitialSeeds, AddQueue, Crash,
         BrowserDisconnects, DeliverLateLink, QueueUrl, DeliverLateSeed, AddNewSeed, stateVars
<1>2. Holders' \subseteq Holders
  BY DEF ProcessStep, Start, ClearOwnPendingLocks, AddInitialSeeds, Crash, BrowserDisconnects,
         DeliverLateLink, DeliverLateSeed, Holders
<1>3. QED BY <1>1, <1>2, NoneHandedOut DEF TypeOK

LEMMA CountingHolds == Spec => []Counting
<1>1. Init => Counting
  <2> SUFFICES ASSUME Init PROVE Counting
    OBVIOUS
  <2>1. HandOuts = {} /\ Holders = {} /\ done = 0
    BY DEF Init, StateInit, HandOuts, Holders
  <2>2. QED BY <2>1, FS_EmptySet DEF Counting, ReportsCounted
<1>2. TypeOK /\ Counting /\ [Next]_vars => Counting'
  <2> SUFFICES ASSUME TypeOK, Counting, [Next]_vars PROVE Counting'
    OBVIOUS
  <2>1. CASE UNCHANGED vars \/ Stop \/ \E u \in Urls : Expire(u)
    <3>1. UNCHANGED <<handed, done, task>>
      BY <2>1 DEF vars, stateVars, workerVars, Stop, StopCrawl, Expire, ExpireLock
    <3>2. QED BY <3>1, NoneHandedOut DEF TypeOK, Holders
  <2>2. QED BY <2>1, WorkerIsCounted, ProcessIsCounted DEF Next
<1>3. QED BY <1>1, <1>2, TypeCorrect, PTL DEF Spec

\* The page limit holds, apart from extra seeds, and d stays within the times
\* that these pages may be handed out, for any number of URLs, processes,
\* workers, late calls and crashes (scripts addqueue and requeue, state.ts).
THEOREM LimitHolds == Spec => []PagesWithinAllowance
<1>1. TypeOK /\ Accounts /\ Allowance /\ Counting => PagesWithinAllowance
  <2> SUFFICES ASSUME TypeOK, Accounts, Allowance, Counting
               PROVE  ReportedWithinTries
    BY DEF PagesWithinAllowance, Allowance
  <2> DEFINE tries == 1 .. MaxRetryPending + 1
  <2>1. IsFiniteSet(tries) /\ Cardinality(tries) = MaxRetryPending + 1
    BY StateAssumption, FS_Interval
  <2>2. HandOuts \in SUBSET (seen \X tries)
    <3> SUFFICES ASSUME NEW h \in HandOuts PROVE h \in seen \X tries
      OBVIOUS
    <3>1. PICK u \in Urls : \E n \in 1 .. handed[u] : h = <<u, n>>
      BY HandOut
    <3>2. handed[u] \in Nat /\ handed[u] <= MaxRetryPending + 1
      BY DEF TypeOK, StateTypeOK, Accounts, HandOutsBounded
    <3>3. h[2] \in tries /\ h[1] = u /\ h = <<h[1], h[2]>>
      BY <3>1, <3>2, StateAssumption
    <3>4. u \in seen
      BY <3>1, <3>2 DEF Accounts, UnseenAccount
    <3>5. QED BY <3>3, <3>4
  <2> HIDE DEF tries
  <2>3. /\ IsFiniteSet(seen \X tries)
        /\ Cardinality(seen \X tries) = Cardinality(seen) * (MaxRetryPending + 1)
    BY <2>1, FS_Product DEF Allowance
  <2>4. Cardinality(HandOuts) <= Cardinality(seen) * (MaxRetryPending + 1)
    BY <2>2, <2>3, FS_Subset
  <2>5. done \in Nat /\ Cardinality(Holders) \in Nat /\ Cardinality(HandOuts) \in Nat
        /\ Cardinality(seen) * (MaxRetryPending + 1) \in Nat
    BY <2>3, FS_CardinalityType DEF Counting, TypeOK, StateTypeOK
  <2>6. QED BY <2>4, <2>5 DEF Counting, ReportsCounted, ReportedWithinTries
<1>2. QED BY <1>1, TypeCorrect, AccountsHold, LimitInvariant, CountingHolds, PTL

---------------------------------------------------------------------------
(* CrawlWorkers implements CrawlFrontier.                                  *)

\* A step that leaves the entries alone and adds no URL moves nothing.
LEMMA SamePlaces ==
  ASSUME UNCHANGED <<queue, pending, seen>>
  PROVE  placeBar' = placeBar
BY DEF placeBar, PlaceOf, Queued, Pending

\* A step that touches the keys of one URL moves only that URL.
LEMMA OthersStay ==
  ASSUME NEW u \in Urls,
         \A v \in Urls \ {u} : /\ Queued(v)' <=> Queued(v)
                               /\ Pending(v)' <=> Pending(v)
                               /\ v \in seen' <=> v \in seen
  PROVE  placeBar' = [placeBar EXCEPT ![u] = placeBar'[u]]
BY DEF placeBar, PlaceOf

LEMMA StateStepIsFrontierStep ==
  ASSUME StateTypeOK, Accounts, StateStep
  PROVE  Frontier!FrontierNext \/ UNCHANGED <<placeBar, handed>>
<1> USE StateAssumption DEF Queued, Pending, PendingUrls
<1>1. ASSUME NEW u \in Urls, NEW s \in Int, NEW l \in Nat, AddQueue(u, s, l)
      PROVE  Frontier!Discover(u) \/ UNCHANGED <<placeBar, handed>>
  <2>1. CASE AddQueueResult(u, l) # "ADDED"
    BY <1>1, <2>1, SamePlaces DEF AddQueue
  <2>2. CASE AddQueueResult(u, l) = "ADDED"
    <3> DEFINE e == [url |-> u, score |-> s, retry |-> 0]
    <3>1. u \notin seen /\ ~Queued(u) /\ ~Pending(u)
      BY <2>2 DEF AddQueueResult, Accounts, QueueAccount, PendingAccount
    <3>2. /\ queue' = queue \cup {e} /\ seen' = seen \cup {u}
          /\ pending' = [pending EXCEPT ![u] = NoEntry]
          /\ handed' = handed
      BY <1>1, <2>2 DEF AddQueue
    <3>3. e.url = u
      OBVIOUS
    <3> HIDE DEF e
    <3>4. placeBar[u] = "unseen"
      BY <3>1 DEF placeBar, PlaceOf
    <3>5. placeBar'[u] = "queued"
      BY <3>2, <3>3 DEF placeBar, PlaceOf
    <3>6. placeBar' = [placeBar EXCEPT ![u] = placeBar'[u]]
      <4>1. \A v \in Urls \ {u} : /\ Queued(v)' <=> Queued(v)
                                  /\ Pending(v)' <=> Pending(v)
                                  /\ v \in seen' <=> v \in seen
        BY <3>2, <3>3 DEF StateTypeOK
      <4>2. QED BY <4>1, OthersStay
    <3>7. QED
      BY <3>2, <3>4, <3>5, <3>6 DEF Frontier!Discover, Frontier!Move
  <2>3. QED BY <2>1, <2>2
<1>2. ASSUME NEW e \in queue, GetNext(e)
      PROVE  e.url \in Urls /\ Frontier!HandOut(e.url)
  <2>1. e \in Entry /\ e.url \in Urls /\ e # NoEntry
    BY DEF StateTypeOK, Entry
  <2>2. /\ queue' = queue \ {e} /\ seen' = seen
        /\ pending' = [pending EXCEPT ![e.url] = e]
        /\ handed' = [handed EXCEPT ![e.url] = @ + 1]
    BY <1>2 DEF GetNext
  <2>3. \A f \in queue : f.url = e.url => f = e
    BY DEF Accounts, OneCopy
  <2>4. placeBar[e.url] = "queued"
    BY <2>1 DEF placeBar, PlaceOf
  <2>5. placeBar'[e.url] = "taken"
    BY <2>1, <2>2, <2>3 DEF placeBar, PlaceOf, StateTypeOK
  <2>6. placeBar' = [placeBar EXCEPT ![e.url] = placeBar'[e.url]]
    <3>1. \A v \in Urls \ {e.url} : /\ Queued(v)' <=> Queued(v)
                                    /\ Pending(v)' <=> Pending(v)
                                    /\ v \in seen' <=> v \in seen
      BY <2>1, <2>2 DEF StateTypeOK
    <3>2. QED BY <2>1, <3>1, OthersStay
  <2>7. QED
    BY <2>1, <2>2, <2>4, <2>5, <2>6 DEF Frontier!HandOut, Frontier!Move
<1>3. ASSUME NEW u \in Urls, Pending(u), ~Pending(u)', UNCHANGED queue,
             UNCHANGED <<seen, handed>>,
             pending' = [pending EXCEPT ![u] = NoEntry]
      PROVE  Frontier!Retire(u)
  <2>1. ~Queued(u) /\ u \in seen
    BY <1>3 DEF Accounts, OneCopy, PendingAccount
  <2>2. placeBar[u] = "taken" /\ placeBar'[u] = "gone"
    BY <1>3, <2>1 DEF placeBar, PlaceOf
  <2>3. placeBar' = [placeBar EXCEPT ![u] = placeBar'[u]]
    <3>1. \A v \in Urls \ {u} : /\ Queued(v)' <=> Queued(v)
                                /\ Pending(v)' <=> Pending(v)
                                /\ v \in seen' <=> v \in seen
      BY <1>3 DEF StateTypeOK
    <3>2. QED BY <3>1, OthersStay
  <2>4. QED BY <1>3, <2>2, <2>3 DEF Frontier!Retire, Frontier!Move
<1>4. ASSUME NEW u \in Urls, RemovePending(u) \/ MoveFailed(u)
      PROVE  Frontier!Retire(u) \/ UNCHANGED <<placeBar, handed>>
  <2>1. UNCHANGED <<queue, seen, handed>>
    BY <1>4 DEF RemovePending, MoveFailed
  <2>2. CASE Pending(u)
    BY <1>3, <1>4, <2>1, <2>2 DEF RemovePending, MoveFailed, StateTypeOK
  <2>3. CASE ~Pending(u)
    <3>1. pending' = pending
      BY <1>4, <2>3 DEF RemovePending, MoveFailed, StateTypeOK
    <3>2. QED BY <2>1, <3>1, SamePlaces
  <2>4. QED BY <2>2, <2>3
<1>5. ASSUME NEW u \in Urls, Requeue(u)
      PROVE  \/ Frontier!GiveBack(u) \/ Frontier!Retire(u)
             \/ UNCHANGED <<placeBar, handed>>
  <2> DEFINE e == pending[u]
             f == [e EXCEPT !.retry = @ + 1]
  <2>1. CASE UNCHANGED <<pending, queue>>
    BY <1>5, <2>1, SamePlaces DEF Requeue
  <2>2. ASSUME Pending(u), pending' = [pending EXCEPT ![u] = NoEntry],
               e.retry + 1 <= MaxRetryPending, queue' = queue \cup {f}
        PROVE  Frontier!GiveBack(u)
    <3>1. /\ e \in Entry /\ e.url = u /\ ~Queued(u)
          /\ handed[u] = e.retry + 1
      BY <2>2 DEF StateTypeOK, Accounts, PendingAccount, OneCopy
    <3>2. f.url = u
      BY <3>1 DEF Entry
    <3>3. UNCHANGED <<seen, handed>>
      BY <1>5 DEF Requeue
    <3> HIDE DEF f
    <3>4. placeBar[u] = "taken" /\ placeBar'[u] = "queued"
      BY <2>2, <3>1, <3>2 DEF placeBar, PlaceOf
    <3>5. placeBar' = [placeBar EXCEPT ![u] = placeBar'[u]]
      <4>1. \A v \in Urls \ {u} : /\ Queued(v)' <=> Queued(v)
                                  /\ Pending(v)' <=> Pending(v)
                                  /\ v \in seen' <=> v \in seen
        BY <2>2, <3>2, <3>3 DEF StateTypeOK
      <4>2. QED BY <4>1, OthersStay
    <3>6. handed[u] < MaxRetryPending + 1
      BY <2>2, <3>1 DEF Entry
    <3>7. QED
      BY <3>3, <3>4, <3>5, <3>6 DEF Frontier!GiveBack, Frontier!Move
  <2>3. ASSUME Pending(u), pending' = [pending EXCEPT ![u] = NoEntry],
               queue' = queue
        PROVE  Frontier!Retire(u)
    BY <1>3, <1>5, <2>3 DEF Requeue, StateTypeOK
  <2>4. QED BY <1>5, <2>1, <2>2, <2>3 DEF Requeue
<1>6. ASSUME NEW u \in Urls, AddNewSeed(u)
      PROVE  Frontier!Record(u) \/ UNCHANGED <<placeBar, handed>>
  <2>1. UNCHANGED <<queue, pending, handed>>
    BY <1>6 DEF AddNewSeed
  <2>2. CASE seen' = seen
    BY <2>1, <2>2, SamePlaces
  <2>3. CASE seen' = seen \cup {u} /\ u \notin seen
    <3>1. ~Queued(u) /\ ~Pending(u)
      BY <2>3 DEF Accounts, QueueAccount, PendingAccount
    <3>2. placeBar[u] = "unseen" /\ placeBar'[u] = "gone"
      BY <2>1, <2>3, <3>1 DEF placeBar, PlaceOf
    <3>3. placeBar' = [placeBar EXCEPT ![u] = placeBar'[u]]
      <4>1. \A v \in Urls \ {u} : /\ Queued(v)' <=> Queued(v)
                                  /\ Pending(v)' <=> Pending(v)
                                  /\ v \in seen' <=> v \in seen
        BY <2>1, <2>3
      <4>2. QED BY <4>1, OthersStay
    <3>4. QED BY <2>1, <3>2, <3>3 DEF Frontier!Record, Frontier!Move
  <2>4. QED BY <1>6, <2>2, <2>3 DEF AddNewSeed
<1>7. ASSUME \/ \E u \in Urls, p \in Processes : MarkStarted(u, p)
             \/ \E p \in Processes : UnlockPending(p)
             \/ \E u \in Urls : ExpireLock(u)
             \/ IncrDone \/ StopCrawl
      PROVE  UNCHANGED <<placeBar, handed>>
  BY <1>7, SamePlaces
     DEF MarkStarted, UnlockPending, ExpireLock, IncrDone, StopCrawl
<1>8. QED
  BY <1>1, <1>2, <1>4, <1>5, <1>6, <1>7 DEF StateStep, Frontier!FrontierNext

\* The workers, processes and crashes of CrawlWorkers, together, are an
\* implementation of the frontier: discovered once, handed out a bounded
\* number of times, gone for good.
THEOREM Refinement == Spec => ImplementsFrontier
<1>1. Init => Frontier!FrontierInit
  BY DEF Init, StateInit, Frontier!FrontierInit, placeBar, PlaceOf, Queued, Pending
<1>2. TypeOK /\ Accounts /\ [Next]_vars =>
        [Frontier!FrontierNext]_(Frontier!frontierVars)
  <2> SUFFICES ASSUME TypeOK, Accounts, [Next]_vars
               PROVE  Frontier!FrontierNext \/ UNCHANGED <<placeBar, handed>>
    BY DEF Frontier!frontierVars
  <2>1. StateStep \/ UNCHANGED stateVars
    BY StepIsStateStep DEF vars
  <2>2. CASE UNCHANGED stateVars
    BY <2>2, SamePlaces DEF stateVars
  <2>3. QED BY <2>1, <2>2, StateStepIsFrontierStep DEF TypeOK
<1>3. QED
  BY <1>1, <1>2, TypeCorrect, AccountsHold, PTL
     DEF Spec, ImplementsFrontier, Frontier!FrontierSpec

---------------------------------------------------------------------------
(* What the last workers leave.                                            *)

\* A worker looks on only where it left the crawl state alone, having found the
\* queue empty, or nothing pending.
LEMMA WorkerLooks ==
  ASSUME TypeOK, NEW w \in Workers, WorkerStep(w)
  PROVE  /\ \A v \in Workers : v # w => pc'[v] = pc[v]
         /\ phase' = phase /\ seen \subseteq seen'
         /\ OnlyWorkersAdd => late' = late
         /\ pc'[w] \in Looking => /\ UNCHANGED stateVars
                                  /\ pc[w] \in Looking \/ queue = {}
         /\ pc'[w] \in {"size", "done"} => pc[w] = "size" \/ PendingUrls = {}
<1> USE DEF Goto, Looking, processVars
<1>1. pc \in [Workers -> PC]
  BY DEF TypeOK, WorkersTypeOK
<1>2. CASE \/ CountPending(w) \/ CheckQueue(w) \/ ListPending(w) \/ CheckAllDone(w)
           \/ QueueIsEmpty(w) \/ Continue(w) \/ LeaveLoop(w) \/ ResetDone(w)
  BY <1>1, <1>2 DEF CountPending, CheckQueue, ListPending, CheckAllDone, QueueIsEmpty, Continue,
                    LeaveLoop, ResetDone, stateVars
<1>3. CASE \/ \E e \in queue : TakeUrl(w, e)
           \/ LockUrl(w) \/ InitPage(w) \/ InitPageThrows(w)
           \/ SettleFinished(w) \/ SettleFailed(w) \/ CountDone(w)
  BY <1>1, <1>3 DEF TakeUrl, GetNext, LockUrl, MarkStarted, InitPage, InitPageThrows, SettleFinished,
                    RemovePending, SettleFailed, MoveFailed, CountDone, IncrDone, stateVars
<1>4. CASE \/ PageResponds(w) \/ PageLoads(w) \/ PageFails(w) \/ PageReturns(w)
  BY <1>1, <1>4 DEF PageResponds, AddNewSeed, PageLoads, PageFails, PageReturns, stateVars
<1>5. CASE \E u \in Urls : AddLink(w, u)
  BY <1>1, <1>5 DEF AddLink, QueueUrl, AddQueue, stateVars
<1>6. CASE PageOverruns(w)
  BY <1>1, <1>6 DEF PageOverruns, OnlyWorkersAdd, stateVars
<1>7. CASE \E u \in Urls : RequeuePending(w, u)
  BY <1>1, <1>7 DEF RequeuePending, Requeue
<1>8. QED
  BY <1>2, <1>3, <1>4, <1>5, <1>6, <1>7 DEF WorkerStep

\* A URL that is queued for the first time was never handed out, and is not pending.
LEMMA AddQueueIsFresh ==
  ASSUME StateTypeOK, Accounts, NEW u \in Urls, NEW s \in Int, NEW limit \in Nat, AddQueue(u, s, limit)
  PROVE  /\ handed' = handed /\ seen \subseteq seen' /\ PendingUrls' \subseteq PendingUrls
         /\ \A e \in queue' : e \in queue \/ (handed[e.url] = 0 /\ u \notin seen)
<1>1. CASE AddQueueResult(u, limit) = "ADDED"
  <2>1. u \notin seen
    BY <1>1 DEF AddQueueResult
  <2>2. handed[u] = 0
    BY <2>1 DEF Accounts, UnseenAccount
  <2>3. /\ queue' = queue \cup {[url |-> u, score |-> s, retry |-> 0]}
        /\ pending' = [pending EXCEPT ![u] = NoEntry] /\ seen' = seen \cup {u}
    BY <1>1 DEF AddQueue
  <2>4. PendingUrls' \subseteq PendingUrls
    BY <2>3 DEF PendingUrls, Pending, StateTypeOK
  <2>5. handed' = handed
    BY DEF AddQueue
  <2>6. QED BY <2>1, <2>2, <2>3, <2>4, <2>5
<1>2. CASE AddQueueResult(u, limit) # "ADDED"
  BY <1>2 DEF AddQueue, PendingUrls, Pending
<1>3. QED BY <1>1, <1>2

\* With nothing but fresh entries added and nothing taken, what workers saw stays.
LEMMA LooksKept ==
  ASSUME LastLooks, handed' = handed, PendingUrls' \subseteq PendingUrls,
         \A v \in Workers : pc'[v] \in Looking => pc'[v] = pc[v],
         \A e \in queue' : e \in queue \/ handed[e.url] = 0,
         OnlyWorkersAdd /\ (\A v \in Workers : pc[v] \in Looking) => queue' = queue
  PROVE  /\ (\A w \in Workers : pc'[w] \in {"size", "done"}) => PendingUrls' = {}
         /\ (\A w \in Workers : pc'[w] \in Looking) =>
              /\ \A e \in queue' : handed'[e.url] = 0
              /\ OnlyWorkersAdd => queue' = {}
BY DEF LastLooks, Looking

\* A process that starts, ends or delivers a late call adds what no worker took.
LEMMA ProcessLooks ==
  ASSUME TypeOK, Accounts, LastLooks, NEW p \in Processes, ProcessStep(p)
  PROVE  LastLooks'
<1> USE StateAssumption, WorkersAssumption
<1>t. /\ StateTypeOK /\ phase \in [Processes -> Phase] /\ pc \in [Workers -> PC]
      /\ late \in [Processes -> SUBSET Call]
  BY DEF TypeOK, WorkersTypeOK
<1>s. SeedUrl \in Urls /\ SeedScore \in Int /\ 0 \in Nat
  OBVIOUS
<1>q. ASSUME /\ (\A w \in Workers : pc'[w] \in {"size", "done"}) => PendingUrls' = {}
             /\ (\A w \in Workers : pc'[w] \in Looking) =>
                  /\ \A e \in queue' : handed'[e.url] = 0
                  /\ OnlyWorkersAdd => queue' = {},
             \A r \in Processes : phase'[r] = "up" => SeedUrl \in seen',
             OnlyWorkersAdd => \A r \in Processes : late'[r] = {}
      PROVE  LastLooks'
  BY <1>q DEF LastLooks, OnlyWorkersAdd
<1>1. CASE Start(p) \/ ClearOwnPendingLocks(p) \/ BrowserDisconnects(p)
  <2>1. UNCHANGED <<queue, pending, handed, seen, pc, late>>
    BY <1>1 DEF Start, ClearOwnPendingLocks, UnlockPending, BrowserDisconnects, stateVars
  <2>2. \A r \in Processes : phase'[r] = "up" => phase[r] = "up"
    BY <1>t, <1>1 DEF Start, ClearOwnPendingLocks, BrowserDisconnects
  <2>3. PendingUrls' = PendingUrls
    BY <2>1 DEF PendingUrls, Pending
  <2>4. QED BY <1>q, <2>1, <2>2, <2>3, LooksKept DEF LastLooks
<1>2. CASE AddInitialSeeds(p)
  <2>1. AddQueue(SeedUrl, SeedScore, 0)
    BY <1>2 DEF AddInitialSeeds
  <2>2. \A v \in Workers : pc'[v] \in Looking => pc'[v] = pc[v]
    BY <1>t, <1>2 DEF AddInitialSeeds, Looking
  <2>3. OnlyWorkersAdd /\ (\A v \in Workers : pc[v] \in Looking) => SeedUrl \in seen
    <3>1. SUFFICES ASSUME NEW v \in Workers, pc[v] \in Looking PROVE SeedUrl \in seen
      BY DEF OnlyWorkersAdd
    <3>2. phase[ProcessOf[v]] = "up"
      BY <3>1 DEF TypeOK, WorkersMatch, Looking
    <3>3. QED BY <3>2 DEF LastLooks
  <2>4. SeedUrl \in seen => queue' = queue
    BY <2>1 DEF AddQueue, AddQueueResult
  <2>5. SeedUrl \in seen'
    BY <2>1 DEF AddQueue, AddQueueResult
  <2>6. OnlyWorkersAdd => \A r \in Processes : late'[r] = {}
    BY <1>t, <1>2 DEF AddInitialSeeds, OnlyWorkersAdd, LastLooks
  <2>7. /\ handed' = handed /\ PendingUrls' \subseteq PendingUrls
        /\ \A e \in queue' : e \in queue \/ handed[e.url] = 0
    BY <1>t, <1>s, <2>1, AddQueueIsFresh
  <2>8. QED BY <1>q, <2>2, <2>3, <2>4, <2>5, <2>6, <2>7, LooksKept
<1>3. CASE Crash(p)
  <2>1. UNCHANGED <<queue, pending, handed, seen>>
    BY <1>3 DEF Crash, stateVars
  <2>2. \A v \in Workers : pc'[v] \in Looking => pc'[v] = pc[v]
    BY <1>t, <1>3 DEF Crash, Looking
  <2>3. \A r \in Processes : phase'[r] = "up" => phase[r] = "up"
    BY <1>t, <1>3 DEF Crash
  <2>4. OnlyWorkersAdd => \A r \in Processes : late'[r] = {}
    BY <1>t, <1>3 DEF Crash, LastLooks
  <2>5. PendingUrls' = PendingUrls
    BY <2>1 DEF PendingUrls, Pending
  <2>6. QED BY <1>q, <2>1, <2>2, <2>3, <2>4, <2>5, LooksKept DEF LastLooks
<1>4. ASSUME NEW c \in late[p], DeliverLateLink(p, c) PROVE LastLooks'
  <2>1. c.url \in Urls /\ c.score \in Int
    BY <1>t DEF Call
  <2>2. ~OnlyWorkersAdd /\ UNCHANGED <<phase, pc>>
    BY <1>4 DEF LastLooks, DeliverLateLink
  <2>3. AddQueue(c.url, c.score, PageLimit) \/ UNCHANGED stateVars
    BY <1>4 DEF DeliverLateLink, QueueUrl
  <2>4. /\ handed' = handed /\ seen \subseteq seen' /\ PendingUrls' \subseteq PendingUrls
        /\ \A e \in queue' : e \in queue \/ handed[e.url] = 0
    <3>1. CASE AddQueue(c.url, c.score, PageLimit)
      BY <1>t, <2>1, <3>1, AddQueueIsFresh
    <3>2. CASE UNCHANGED stateVars
      BY <3>2 DEF stateVars, PendingUrls, Pending
    <3>3. QED BY <2>3, <3>1, <3>2
  <2>5. QED BY <1>q, <2>2, <2>4, LooksKept DEF LastLooks
<1>5. ASSUME NEW c \in late[p], DeliverLateSeed(p, c) PROVE LastLooks'
  <2>1. UNCHANGED <<queue, pending, handed, phase, pc>> /\ seen \subseteq seen'
    BY <1>5 DEF DeliverLateSeed, AddNewSeed
  <2>2. ~OnlyWorkersAdd
    BY <1>5 DEF LastLooks
  <2>3. PendingUrls' = PendingUrls
    BY <2>1 DEF PendingUrls, Pending
  <2>4. QED BY <1>q, <2>1, <2>2, <2>3, LooksKept DEF LastLooks
<1>6. QED
  BY <1>1, <1>2, <1>3, <1>4, <1>5 DEF ProcessStep

\* Every step keeps what the last looks found.
LEMMA LastLooksStep ==
  ASSUME TypeOK, Accounts, LastLooks, [Next]_vars
  PROVE  LastLooks'
<1>1. ASSUME NEW w \in Workers, WorkerStep(w) PROVE LastLooks'
  <2>1. \A p \in Processes : /\ phase'[p] = "up" => SeedUrl \in seen'
                             /\ OnlyWorkersAdd => late'[p] = {}
    BY <1>1, WorkerLooks DEF LastLooks
  <2>2. CASE pc'[w] \in Looking
    <3>1. UNCHANGED <<queue, pending, handed>>
      BY <1>1, <2>2, WorkerLooks DEF stateVars
    <3>2. PendingUrls' = PendingUrls
      BY <3>1 DEF PendingUrls, Pending
    <3>3. (\A v \in Workers : pc'[v] \in {"size", "done"}) => PendingUrls' = {}
      BY <1>1, <3>2, WorkerLooks DEF LastLooks
    <3>4. (\A v \in Workers : pc'[v] \in Looking) =>
            (\A v \in Workers : pc[v] \in Looking) \/ queue = {}
      BY <1>1, <2>2, WorkerLooks
    <3>5. QED BY <2>1, <3>1, <3>3, <3>4 DEF LastLooks, OnlyWorkersAdd
  <2>3. CASE pc'[w] \notin Looking
    BY <2>1, <2>3 DEF LastLooks, Looking, OnlyWorkersAdd
  <2>4. QED BY <2>2, <2>3
<1>2. ASSUME NEW p \in Processes, ProcessStep(p) PROVE LastLooks'
  BY <1>2, ProcessLooks
<1>3. CASE (\E u \in Urls : Expire(u)) \/ Stop \/ UNCHANGED vars
  <2>1. UNCHANGED <<queue, pending, handed, seen, pc, phase, late>>
    BY <1>3 DEF Expire, ExpireLock, Stop, StopCrawl, vars, stateVars, workerVars
  <2>2. PendingUrls' = PendingUrls
    BY <2>1 DEF PendingUrls, Pending
  <2>3. QED BY <2>1, <2>2 DEF LastLooks, OnlyWorkersAdd
<1>4. QED BY <1>1, <1>2, <1>3 DEF Next

\* The last workers leave no URL behind that one of them took, though pending and
\* queued URLs are counted in two round trips (worker.ts, runLoop).
THEOREM NothingIsStranded == Spec => []NoStranded
<1>1. Init => LastLooks
  BY WorkersAssumption DEF Init, StateInit, LastLooks, PendingUrls, Pending
<1>2. TypeOK /\ Accounts /\ LastLooks /\ [Next]_vars => LastLooks'
  BY LastLooksStep
<1>3. LastLooks => NoStranded
  BY DEF LastLooks, NoStranded, Looking
<1>4. QED BY <1>1, <1>2, <1>3, TypeCorrect, AccountsHold, PTL DEF Spec

===========================================================================
