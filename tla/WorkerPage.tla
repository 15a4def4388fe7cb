---------------------------- MODULE WorkerPage ----------------------------
(***************************************************************************)
(* class PageWorker of src/src/util/worker.ts and its browser windows: a   *)
(* worker opens a window, uses it for several pages of one origin, and     *)
(* closes it after a crash, an exception or MAX_REUSE pages.               *)
(*                                                                         *)
(* Tasks are numbered in the order in which the worker takes them.  The    *)
(* code that crawls the page of a task (Crawler.crawlPage) runs beside the *)
(* worker: when its time is over nobody waits for it, and nothing stops it *)
(* either, while the worker goes on in the same window.  One navigation of *)
(* a window replaces another, and the document changes when it is done.    *)
(***************************************************************************)
EXTENDS Naturals, FiniteSets

CONSTANTS
  Origins,    \* origins of the URLs
  MAX_REUSE,  \* bound on the pages of a window, and on failures to open one
  MaxTasks,   \* bound: tasks that are taken
  MaxWindows, \* bound: windows that are opened
  MaxLeaks,   \* bound: windows that nobody closes
  MaxCrashes  \* bound: windows that crash

ASSUME PageAssumption ==
  MAX_REUSE \in Nat \ {0} /\ MaxTasks \in Nat /\ MaxWindows \in Nat
  /\ MaxLeaks \in Nat /\ MaxCrashes \in Nat

Tasks == 1 .. MaxTasks
Windows == 1 .. MaxWindows
None == 0

VARIABLES
  life,       \* of the process: "up", or how it ended
  pc,         \* where the worker is
  task,       \* the last task that was taken
  page,       \* this.page, a window
  reuseCount, \* reuseCount
  retry,      \* retry of initPage
  crashed,    \* this.crashed, and crashBreak is rejected
  window,     \* the windows of the browser
  code,       \* crawlPage of each task
  origin,     \* of the URL of each task
  loaded,     \* tasks whose data.loadState is FULL_PAGE_LOADED
  outcome,    \* what pageFinished reported
  found,      \* history: <<d, t>> when links of the page of d were queued as links of t
  faults,     \* history: tasks whose own page failed
  overran,    \* history: tasks whose time, or whose links' time, was over
  hit         \* history: windows that crashed, with the task that was crawled

vars == <<life, pc, task, page, reuseCount, retry, crashed, window,
          code, origin, loaded, outcome, found, faults, overran, hit>>

NewWindow == [state |-> "open", nav |-> None, doc |-> None, addLink |-> None,
              listener |-> None]
NoWindow == [NewWindow EXCEPT !.state = "none"]

\* Tasks that a window was used for.
UsedFor(w) == {t \in Tasks : code[t].at # "none" /\ code[t].win = w}
Usable(w) == window[w].state = "open"
MayLeak == Cardinality({w \in Windows : Usable(w)}) <= MaxLeaks

AtWork == {"start", "goto", "read", "wait", "links"}

\* With its window, the code of a page ends: what it waits for is rejected,
\* and what it may still do there has no effect.
EndCode(w) ==
  code' = [t \in Tasks |->
             IF code[t].win = w /\ code[t].at \in AtWork
             THEN [at |-> "over", win |-> w, from |-> None]
             ELSE code[t]]

WindowRecord ==
  [state : {"none", "open", "dead", "closed"}, nav : 0 .. MaxTasks,
   doc : 0 .. MaxTasks, addLink : 0 .. MaxTasks, listener : 0 .. MaxTasks]
CodeRecord ==
  [at : {"none", "start", "goto", "read", "wait", "links", "done", "threw", "over"},
   win : Windows \cup {None}, from : 0 .. MaxTasks]

\* The variables hold values of their types; a worker that crawls has a page.
TypeOK ==
  /\ life \in {"up", "fatal", "unhandled"}
  /\ pc \in {"loop", "recycle", "open", "setup", "crawl", "close", "gone"}
  /\ task \in 0 .. MaxTasks
  /\ page \in Windows \cup {None}
  /\ reuseCount \in 0 .. MAX_REUSE + 1
  /\ retry \in 0 .. MAX_REUSE
  /\ crashed \in BOOLEAN
  /\ window \in [Windows -> WindowRecord]
  /\ code \in [Tasks -> CodeRecord]
  /\ origin \in [Tasks -> Origins]
  /\ loaded \in SUBSET Tasks
  /\ outcome \in [Tasks -> {"none", "finished", "failed"}]
  /\ found \in SUBSET (Tasks \X Tasks)
  /\ faults \in SUBSET Tasks /\ overran \in SUBSET Tasks
  /\ hit \in SUBSET (Windows \X (0 .. MaxTasks))
  /\ pc \in {"recycle", "setup", "crawl", "close"} => page # None

Init ==
  /\ life = "up"
  /\ pc = "loop"
  /\ task = 0
  /\ page = None
  /\ reuseCount = 0
  /\ retry = 0
  /\ crashed = FALSE
  /\ window = [w \in Windows |-> NoWindow]
  /\ code = [t \in Tasks |-> [at |-> "none", win |-> None, from |-> None]]
  /\ origin \in [Tasks -> Origins]
  /\ loaded = {}
  /\ outcome = [t \in Tasks |-> "none"]
  /\ found = {}
  /\ faults = {}
  /\ overran = {}
  /\ hit = {}

UnchangedPages == UNCHANGED <<found, faults, overran, hit, origin>>
-----------------------------------------------------------------------------
(* The worker. *)

At(p) == life = "up" /\ pc = p

\* Mutant: what the window shows may be of any origin.
IsSameOriginAny(t) == page # None /\ window[page].doc # None

\* isSameOrigin: the origin of what the window shows now.
IsSameOrigin(t) ==
  page # None /\ window[page].doc # None /\ origin[window[page].doc] = origin[t]

\* Mutant: the count is compared one too late.
ReuseOnceMore(t) == reuseCount <= MAX_REUSE + 1 /\ IsSameOrigin(t)

Reuse(t) == reuseCount <= MAX_REUSE /\ IsSameOrigin(t)

\* crawlPage begins, with markPageUsed, in the worker's window.
StartCode(t) ==
  /\ code' = [code EXCEPT ![t] = [at |-> "start", win |-> page, from |-> None]]
  /\ reuseCount' = reuseCount + 1

\* initPage gives the worker the window it has.
TakeReuse ==
  /\ At("loop") /\ task < MaxTasks
  /\ Reuse(task + 1)
  /\ task' = task + 1
  /\ StartCode(task')
  /\ pc' = "crawl"
  /\ UnchangedPages
  /\ UNCHANGED <<life, page, retry, crashed, window, loaded, outcome>>

\* initPage needs a new window, and closes the one the worker has.
TakeNew ==
  /\ At("loop") /\ task < MaxTasks
  /\ ~Reuse(task + 1)
  /\ task' = task + 1
  /\ IF page = None
       THEN pc' = "open" /\ reuseCount' = 1 /\ retry' = 0
       ELSE pc' = "recycle" /\ UNCHANGED <<reuseCount, retry>>
  /\ UnchangedPages
  /\ UNCHANGED <<life, page, crashed, window, code, loaded, outcome>>

\* isCrawlRunning may say no whenever it is asked.
LeaveLoop ==
  /\ At("loop")
  /\ pc' = "gone"
  /\ UnchangedPages
  /\ UNCHANGED <<life, task, page, reuseCount, retry, crashed, window,
                 code, loaded, outcome>>

\* Mutant: the page is forgotten only when its window closes in time.
ClosePageKeeps ==
  \/ /\ page' = None
     /\ window' = [window EXCEPT ![page] = [NoWindow EXCEPT !.state = "closed"]]
     /\ EndCode(page)
  \/ MayLeak /\ UNCHANGED <<page, window, code>>

\* closePage: a window that does not close in time is forgotten all the same.
ClosePage ==
  /\ page' = None
  /\ \/ /\ window' = [window EXCEPT ![page] = [NoWindow EXCEPT !.state = "closed"]]
        /\ EndCode(page)
     \/ MayLeak /\ UNCHANGED <<window, code>>

Recycle ==
  /\ At("recycle")
  /\ ClosePage
  /\ pc' = "open"
  /\ reuseCount' = 1
  /\ retry' = 0
  /\ UnchangedPages
  /\ UNCHANGED <<life, task, crashed, loaded, outcome>>

\* The browser opens a window in time.
OpenWindow(w) ==
  /\ At("open")
  /\ window[w].state = "none" /\ \A x \in 1 .. w - 1 : window[x].state # "none"
  /\ window' = [window EXCEPT ![w] = NewWindow]
  /\ page' = w
  /\ crashed' = FALSE
  /\ pc' = "setup"
  /\ UnchangedPages
  /\ UNCHANGED <<life, task, reuseCount, retry, code, loaded, outcome>>

\* An attempt of initPage failed: the next one, or logger.fatal.
TryAgain ==
  /\ retry' = retry + 1
  /\ IF retry' >= MAX_REUSE THEN life' = "fatal" ELSE UNCHANGED life

\* It does not, or opens one when it is too late.
OpenFails ==
  /\ At("open")
  /\ TryAgain
  /\ UnchangedPages
  /\ UNCHANGED <<pc, task, page, reuseCount, crashed, window, code,
                 loaded, outcome>>

\* setupPage throws: the window stays open, and the next attempt replaces it.
SetupFails ==
  /\ At("setup")
  /\ Usable(page) => MayLeak
  /\ TryAgain
  /\ pc' = "open"
  /\ UnchangedPages
  /\ UNCHANGED <<task, page, reuseCount, crashed, window, code, loaded,
                 outcome>>

SetupDone ==
  /\ At("setup") /\ Usable(page)
  /\ StartCode(task)
  /\ retry' = 0
  /\ pc' = "crawl"
  /\ UnchangedPages
  /\ UNCHANGED <<life, task, page, crashed, window, loaded, outcome>>

\* "no page available": the worker ends with its task.
InitPageThrows ==
  /\ At("open")
  /\ pc' = "gone"
  /\ UnchangedPages
  /\ UNCHANGED <<life, task, page, reuseCount, retry, crashed, window,
                 code, loaded, outcome>>

\* pageFinished looks only at data.loadState.
PageFinished ==
  /\ outcome' = [outcome EXCEPT ![task] = IF task \in loaded THEN "finished" ELSE "failed"]
  /\ pc' = "loop"

\* Mutant: extractLinks is not awaited.
CrawlReturnsEarly ==
  /\ At("crawl") /\ code[task].at \in {"links", "done"}
  /\ PageFinished
  /\ UnchangedPages
  /\ UNCHANGED <<life, task, page, reuseCount, retry, crashed, window, code, loaded>>

CrawlReturns ==
  /\ At("crawl") /\ code[task].at = "done"
  /\ PageFinished
  /\ UnchangedPages
  /\ UNCHANGED <<life, task, page, reuseCount, retry, crashed, window,
                 code, loaded>>

\* timedRun logs that the time is over and resolves.
TimeUp ==
  /\ At("crawl") /\ code[task].at \notin {"done", "threw"}
  /\ PageFinished
  /\ overran' = overran \cup {task}
  /\ UNCHANGED <<life, task, page, reuseCount, retry, crashed, window,
                 code, origin, loaded, found, faults, hit>>

\* An exception of crawlPage, or crashBreak.
CrawlThrows ==
  /\ At("crawl") /\ (code[task].at = "threw" \/ crashed)
  /\ pc' = "close"
  /\ UnchangedPages
  /\ UNCHANGED <<life, task, page, reuseCount, retry, crashed, window,
                 code, loaded, outcome>>

CloseFailedPage ==
  /\ At("close")
  /\ ClosePage
  /\ PageFinished
  /\ UnchangedPages
  /\ UNCHANGED <<life, task, reuseCount, retry, crashed, loaded>>
-----------------------------------------------------------------------------
(* The code of a page, waited for or not. *)

CodeAt(t, p) == life = "up" /\ code[t].at = p
Goes(t, p) == code' = [code EXCEPT ![t].at = p]
Waited(t) == pc = "crawl" /\ t = task

\* The code returns or throws; it matters only if the worker waits for it.
Ends(t, p) ==
  code' = [code EXCEPT ![t].at = IF Waited(t) THEN p ELSE "over", ![t].from = None]
WorkerUnchanged == UNCHANGED <<life, pc, task, page, reuseCount, retry, crashed, outcome>>

\* Every crawlPage adds a listener for requests; the first of a window answers
\* all of them, for it continues or aborts at once.
Allowed(t) == origin[window[code[t].win].listener] = origin[t]

\* DataCrawler.crawlPage: the listeners, then goto, which replaces a
\* navigation of the window that is not done.
StartGoto(t) ==
  LET w == code[t].win IN
  /\ CodeAt(t, "start") /\ Usable(w)
  /\ window' = [window EXCEPT ![w].nav = t,
                              ![w].listener = IF @ = None THEN t ELSE @]
  /\ Goes(t, "goto")
  /\ UnchangedPages
  /\ WorkerUnchanged
  /\ UNCHANGED loaded

GotoReturns(t) ==
  LET w == code[t].win IN
  /\ CodeAt(t, "goto") /\ window[w].nav = t /\ Allowed(t)
  /\ window' = [window EXCEPT ![w].doc = t]
  /\ Goes(t, "read")
  /\ UnchangedPages
  /\ WorkerUnchanged
  /\ UNCHANGED loaded

\* goto, or what is read of the page, throws because of the window.
WindowFails(t) ==
  LET w == code[t].win IN
  /\ life = "up"
  /\ \/ code[t].at = "start" /\ ~Usable(w)
     \/ code[t].at = "goto" /\ (window[w].nav # t \/ ~Allowed(t))
  /\ Ends(t, "threw")
  /\ UnchangedPages
  /\ WorkerUnchanged
  /\ UNCHANGED <<window, loaded>>

\* The page does not load in time, has an invalid status or no content.
PageFails(t) ==
  /\ life = "up" /\ code[t].at \in {"goto", "read"}
  /\ Ends(t, "threw")
  /\ faults' = IF Waited(t) THEN faults \cup {t} ELSE faults
  /\ WorkerUnchanged
  /\ UNCHANGED <<window, loaded, origin, found, overran, hit>>

\* preExtractLinks, up to the wait for the page's own load.
PreExtractLinks(t) ==
  /\ CodeAt(t, "read")
  /\ loaded' = loaded \cup {t}
  /\ Goes(t, "wait")
  /\ UnchangedPages
  /\ WorkerUnchanged
  /\ UNCHANGED window

\* extractLinks: callbacks.addLink is one per window; the script goes to the
\* document that the window shows now.
StartLinks(t) ==
  LET w == code[t].win IN
  /\ CodeAt(t, "wait")
  /\ window' = [window EXCEPT ![w].addLink = t]
  /\ code' = [code EXCEPT ![t].at = "links", ![t].from = window[w].doc]
  /\ UnchangedPages
  /\ WorkerUnchanged
  /\ UNCHANGED loaded

LinksArrive(t) ==
  LET w == code[t].win IN
  /\ CodeAt(t, "links") /\ window[w].doc = code[t].from
  /\ found' = found \cup {<<code[t].from, window[w].addLink>>}
  /\ Ends(t, "done")
  /\ WorkerUnchanged
  /\ UNCHANGED <<window, loaded, origin, faults, overran, hit>>

\* The document is gone: this is only logged.
LinksFail(t) ==
  LET w == code[t].win IN
  /\ CodeAt(t, "links") /\ window[w].doc # code[t].from
  /\ Ends(t, "done")
  /\ UnchangedPages
  /\ WorkerUnchanged
  /\ UNCHANGED <<window, loaded>>

\* So is PAGE_OP_TIMEOUT_SECS.
LinksTimeOut(t) ==
  /\ CodeAt(t, "links")
  /\ Ends(t, "done")
  /\ overran' = overran \cup {t}
  /\ WorkerUnchanged
  /\ UNCHANGED <<window, loaded, origin, found, faults, hit>>
-----------------------------------------------------------------------------
(* The browser, and the rest of the process. *)

\* The event "error" of a page.  Only timedCrawlPage waits for crashBreak: the
\* rejection of one that no task was started with is handled by nobody.
WindowCrashes(w) ==
  /\ life = "up" /\ Usable(w)
  /\ Cardinality(hit) < MaxCrashes
  /\ window' = [window EXCEPT ![w] = [NoWindow EXCEPT !.state = "dead", !.doc = window[w].doc]]
  /\ EndCode(w)
  /\ hit' = hit \cup {<<w, IF pc = "crawl" THEN task ELSE None>>}
  /\ IF w = page
       THEN /\ crashed' = TRUE
            /\ life' = IF UsedFor(w) = {} THEN "unhandled" ELSE "up"
       ELSE UNCHANGED <<crashed, life>>
  /\ UNCHANGED <<pc, task, page, reuseCount, retry, origin, loaded, outcome,
                 found, faults, overran>>
-----------------------------------------------------------------------------
WorkerStep ==
  \/ TakeReuse \/ TakeNew \/ LeaveLoop
  \/ Recycle \/ (\E w \in Windows : OpenWindow(w)) \/ OpenFails
  \/ SetupFails \/ SetupDone \/ InitPageThrows
  \/ CrawlReturns \/ TimeUp \/ CrawlThrows \/ CloseFailedPage

CodeStep(t) ==
  \/ StartGoto(t) \/ GotoReturns(t) \/ WindowFails(t) \/ PageFails(t)
  \/ PreExtractLinks(t) \/ StartLinks(t) \/ LinksArrive(t) \/ LinksFail(t)
  \/ LinksTimeOut(t)

Next ==
  \/ WorkerStep
  \/ \E t \in Tasks : CodeStep(t)
  \/ \E w \in Windows : WindowCrashes(w)

Spec == Init /\ [][Next]_vars
-----------------------------------------------------------------------------
(* Properties. *)

Failed == {t \in Tasks : outcome[t] = "failed"}

\* A window is used for at most MAX_REUSE pages, whatever became of them
\* (initPage and markPageUsed, which count in different places).
UsesBounded == \A w \in Windows : Cardinality(UsedFor(w)) <= MAX_REUSE

\* A task fails for its own page, or because its time was over; any other
\* failure is one that a crash of a window, or the code of a page whose time
\* was over, has caused, and each of these causes one failure at most.
FailureHasCause ==
  Cardinality(Failed \ (faults \cup overran)) <= Cardinality(hit) + Cardinality(overran)

\* The listeners that earlier pages left on a window never answer the request
\* of a page for them: each page navigates as if it were the first.
NavigationAllowed ==
  \A t \in Tasks : code[t].at = "goto" => Allowed(t)

Overrun(w) == UsedFor(w) \cap overran # {}

\* Links belong to the page they were read from.  In a window where no page
\* overran, each page that is reported as finished has had its links queued as
\* its own, unless it crashed meanwhile; and links are queued with the depth of
\* another page only in a window where one overran: other windows, and those
\* opened later, are not concerned.
LinksOwned ==
  /\ \A t \in Tasks :
       (/\ outcome[t] = "finished"
        /\ ~Overrun(code[t].win)
        /\ <<code[t].win, t>> \notin hit) => <<t, t>> \in found
  /\ \A l \in found : l[1] # l[2] =>
       \E w \in Windows : {l[1], l[2]} \subseteq UsedFor(w) /\ Overrun(w)

-----------------------------------------------------------------------------
(* What initPage and the code of pages rely on: the inductive invariant. *)

\* The counters of initPage, while it is at work (worker.ts:129, 192-219).
Counts ==
  /\ pc \in {"open", "setup"} => reuseCount = 1
  /\ life = "up" => retry < MAX_REUSE
  /\ pc \in {"recycle", "open", "setup", "crawl", "close"} => task \in Tasks

\* Where the code of a page is, its window is too: what it waits for there has
\* been set up by it, or by an earlier page of the same window.
CodePlaced ==
  \A t \in Tasks :
    /\ t = task /\ pc \in {"recycle", "open", "setup"} => code[t].at = "none"
    /\ t > task => code[t].at = "none"
    /\ code[t].at = "none" <=> code[t].win = None
    /\ code[t].at # "none" => window[code[t].win].state # "none"
    /\ code[t].at \in {"goto", "read", "wait", "links"} =>
         Usable(code[t].win) /\ window[code[t].win].listener # None
    /\ code[t].at \in {"read", "wait", "links"} => window[code[t].win].doc # None
    /\ code[t].at = "links" => code[t].from # None /\ window[code[t].win].addLink # None

\* What a window shows, and who listens there, are tasks that it was used for;
\* a window that is set up was used for none.
WindowsPlaced ==
  /\ page # None => window[page].state # "none"
  /\ pc = "setup" => UsedFor(page) = {}
  /\ \A w \in Windows :
       /\ window[w].doc # None => code[window[w].doc].win = w
       /\ window[w].listener # None => code[window[w].listener].win = w

\* A window is used for tasks of one origin only, although isSameOrigin looks
\* at what the window shows, which code of an earlier page may still change.
OneOrigin ==
  \A s, t \in Tasks :
    code[s].win # None /\ code[s].win = code[t].win => origin[s] = origin[t]

\* reuseCount is one more than the tasks of the worker's window, whichever of
\* initPage and markPageUsed counted them, and however they ended.
UsesCounted ==
  /\ page # None => Cardinality(UsedFor(page)) + 1 = reuseCount
  /\ \A w \in Windows : Cardinality(UsedFor(w)) <= MAX_REUSE

\* All of these together: what the worker and the code of earlier pages find in
\* a window was left there by tasks of the origin that the window was opened for.
PageAccounts == Counts /\ CodePlaced /\ WindowsPlaced /\ OneOrigin
-----------------------------------------------------------------------------
(* Whose failures and links they are: inductive too, given the above.      *)

\* The window of the worker is open until it crashes, and the code at work in
\* an open window is waited for, or its time was over.
WorkerPlaced ==
  /\ page # None => window[page].state \in {"open", "dead"}
  /\ pc \in {"crawl", "close"} => code[task].win = page
  /\ pc = "close" => code[task].at = "threw" \/ crashed
  /\ crashed /\ page # None => window[page].state = "dead"
  /\ \A w \in Windows : window[w].state = "dead" => \E h \in hit : h[1] = w
  /\ \A t \in Tasks :
       code[t].at \in AtWork /\ ~Waited(t) /\ Usable(code[t].win) => t \in overran

\* data.loadState, by the place of the code; a task has no outcome before its end.
LoadsMarked ==
  \A t \in Tasks :
    /\ code[t].at \in {"none", "start", "goto", "read", "threw"} => t \notin loaded
    /\ code[t].at \in {"wait", "links", "done"} => t \in loaded
    /\ t > task \/ (t = task /\ pc \in {"recycle", "open", "setup", "crawl", "close"})
         => outcome[t] = "none"

Unexplained == Failed \ (faults \cup overran)
Blamed(w) == (\E h \in hit : h[1] = w) \/ Overrun(w)

\* A task that is waited for is led astray, and may then fail with no fault of its
\* own, only in a window that crashed or that one overran in, which is left with it.
FailuresCaused ==
  /\ \A t \in Tasks :
       Waited(t) /\ code[t].at = "goto" => window[page].nav = t \/ Overrun(page)
  /\ pc \in {"crawl", "close"} /\ code[task].at = "threw" => task \in faults \/ Blamed(page)
  /\ \A t \in Unexplained : code[t].win \notin {None, page} /\ Blamed(code[t].win)
  /\ \A s, t \in Unexplained : code[s].win = code[t].win => s = t

\* Where none overran, the window shows and answers to the task waited for; what
\* is read there and where it goes are tasks of the window in any case.
LinksPlaced ==
  /\ \A t \in Tasks : Waited(t) /\ ~Overrun(page) =>
       /\ code[t].at \in {"read", "wait", "links"} => window[page].doc = t
       /\ code[t].at = "links" => code[t].from = t /\ window[page].addLink = t
       /\ code[t].at = "done" => <<t, t>> \in found
  /\ pc \in {"crawl", "close"} /\ crashed /\ task \in loaded => <<page, task>> \in hit
  /\ \A w \in Windows : window[w].addLink # None => code[window[w].addLink].win = w
  /\ \A t \in Tasks : code[t].at = "links" => code[code[t].from].win = code[t].win
===========================================================================
