---------------------------- MODULE PageProofs ----------------------------
(***************************************************************************)
(* Theorems about WorkerPage, for any origins, bound on the reuse of a     *)
(* window, number of tasks, windows and crashes.                           *)
(*                                                                         *)
(* A window is shared by the tasks it is used for, one after the other,    *)
(* and by what is left of those whose time is over.  PageAccounts says     *)
(* what they may have left there.  It is proved once for the steps of the  *)
(* worker, of a page's code and of the browser; EndCodeChange,             *)
(* GoneWindowAccounts and StartCodeAccounts hold what these have in        *)
(* common: a window goes with the code in it, and a task starts in one.    *)
(*                                                                         *)
(* Whose failures and links they are is proved from there: next to a task  *)
(* that is waited for, only code of tasks that overran is at work in its   *)
(* window (WorkerPlaced), so that where none overran nobody else changes   *)
(* the navigation, the document or addLink of the window.                  *)
(*                                                                         *)
(* The last part is about Resources, what the pages of those windows       *)
(* request and what of it is written.                                      *)
(***************************************************************************)
EXTENDS WorkerPage, Resources, FiniteSetTheorems, WellFoundedInduction, TLAPS

\* The inductive invariant.
IInv == TypeOK /\ PageAccounts

---------------------------------------------------------------------------
(* Types.                                                                  *)

LEMMA NewWindowTyped == NewWindow \in WindowRecord /\ NoWindow \in WindowRecord
BY PageAssumption DEF NewWindow, NoWindow, WindowRecord, None

\* A window stays one when a task is entered in it.
LEMMA RecordTyped ==
  ASSUME NEW r \in WindowRecord, NEW t \in Tasks
  PROVE  /\ [r EXCEPT !.nav = t] \in WindowRecord
         /\ [r EXCEPT !.doc = t] \in WindowRecord
         /\ [r EXCEPT !.addLink = t] \in WindowRecord
         /\ [r EXCEPT !.listener = t] \in WindowRecord
BY PageAssumption DEF WindowRecord, Tasks

LEMMA GoneWindowTyped ==
  /\ [NoWindow EXCEPT !.state = "closed"] \in WindowRecord
  /\ \A d \in 0 .. MaxTasks : [NoWindow EXCEPT !.state = "dead", !.doc = d] \in WindowRecord
<1>1. \A r \in WindowRecord : [r EXCEPT !.state = "closed"] \in WindowRecord
  BY DEF WindowRecord
<1>2. ASSUME NEW r \in WindowRecord, NEW d \in 0 .. MaxTasks
      PROVE  [r EXCEPT !.state = "dead", !.doc = d] \in WindowRecord
  BY DEF WindowRecord
<1>3. QED BY <1>1, <1>2, NewWindowTyped

LEMMA WindowTyped ==
  ASSUME TypeOK, NEW w \in Windows
  PROVE  /\ window[w] \in WindowRecord
         /\ window[w].doc \in 0 .. MaxTasks
         /\ window[w].listener \in 0 .. MaxTasks
         /\ window[w].addLink \in 0 .. MaxTasks
         /\ window[w].state \in {"none", "open", "dead", "closed"}
<1>1. window[w] \in WindowRecord
  BY DEF TypeOK
<1>2. QED BY <1>1, PageAssumption DEF WindowRecord, Tasks

LEMMA CodeTyped ==
  ASSUME TypeOK, NEW t \in Tasks
  PROVE  /\ code[t].win \in Windows \cup {None}
         /\ code[t].from \in 0 .. MaxTasks
         /\ code[t].at \in {"none", "start", "goto", "read", "wait", "links", "done", "threw", "over"}
BY PageAssumption DEF TypeOK, CodeRecord

\* The ways in which the code of a page changes its place.
LEMMA GoesTyped ==
  ASSUME TypeOK, NEW t \in Tasks,
         NEW p \in {"start", "goto", "read", "wait", "done", "threw"},
         Goes(t, p) \/ Ends(t, p)
  PROVE  code' \in [Tasks -> CodeRecord]
BY PageAssumption DEF TypeOK, CodeRecord, Goes, Ends, None

LEMMA EndCodeTyped ==
  ASSUME TypeOK, NEW w \in Windows, EndCode(w)
  PROVE  code' \in [Tasks -> CodeRecord]
BY PageAssumption DEF TypeOK, CodeRecord, EndCode, AtWork, None

LEMMA StartCodeTyped ==
  ASSUME TypeOK, NEW t \in Tasks, StartCode(t)
  PROVE  code' \in [Tasks -> CodeRecord]
BY PageAssumption DEF TypeOK, CodeRecord, StartCode, None

\* Each step of the worker keeps the types.
LEMMA WorkerTypes ==
  ASSUME TypeOK, Counts, WorkerStep
  PROVE  TypeOK'
<1> USE PageAssumption DEF TypeOK, At, UnchangedPages
<1>t. \A t \in Tasks : t \in Nat /\ t \in 0 .. MaxTasks
  BY DEF Tasks
<1>n. None \notin Tasks /\ None \notin Windows /\ None = 0
  BY DEF Tasks, Windows, None
<1>s. task < MaxTasks => task + 1 \in Tasks
  BY DEF Tasks
<1>1. CASE TakeReuse
  <2>1. task + 1 \in Tasks /\ task' = task + 1
    BY <1>1, <1>s DEF TakeReuse
  <2>2. code' \in [Tasks -> CodeRecord]
    BY <1>1, <2>1, StartCodeTyped DEF TakeReuse
  <2>3. reuseCount' \in 0 .. MAX_REUSE + 1
    BY <1>1 DEF TakeReuse, Reuse, StartCode
  <2>4. page # None
    BY <1>1 DEF TakeReuse, Reuse, IsSameOrigin
  <2>5. QED BY <1>1, <1>t, <2>1, <2>2, <2>3, <2>4 DEF TakeReuse
<1>2. CASE TakeNew
  <2>1. task + 1 \in 0 .. MaxTasks
    BY <1>2, <1>s, <1>t DEF TakeNew
  <2>2. QED BY <1>2, <2>1 DEF TakeNew
<1>3. CASE LeaveLoop
  BY <1>3 DEF LeaveLoop
<1>4. CASE Recycle
  <2>1. page \in Windows
    BY <1>4 DEF Recycle
  <2>2. code' \in [Tasks -> CodeRecord] /\ window' \in [Windows -> WindowRecord]
    BY <1>4, <2>1, GoneWindowTyped, EndCodeTyped DEF Recycle, ClosePage
  <2>3. QED BY <1>4, <2>2 DEF Recycle, ClosePage
<1>5. ASSUME NEW w \in Windows, OpenWindow(w) PROVE TypeOK'
  BY <1>5, <1>n, NewWindowTyped DEF OpenWindow
<1>6. CASE OpenFails
  BY <1>6 DEF OpenFails, TryAgain, Counts
<1>7. CASE SetupFails
  BY <1>7 DEF SetupFails, TryAgain, Counts
<1>8. CASE SetupDone
  <2>1. task \in Tasks
    BY <1>8 DEF SetupDone, Counts
  <2>2. code' \in [Tasks -> CodeRecord]
    BY <1>8, <2>1, StartCodeTyped DEF SetupDone
  <2>3. reuseCount' \in 0 .. MAX_REUSE + 1
    BY <1>8 DEF SetupDone, StartCode, Counts
  <2>4. QED BY <1>8, <2>2, <2>3 DEF SetupDone
<1>9. CASE InitPageThrows
  BY <1>9 DEF InitPageThrows
<1>10. CASE CrawlReturns
  BY <1>10 DEF CrawlReturns, PageFinished
<1>11. CASE TimeUp
  <2>1. task \in Tasks
    BY <1>11 DEF TimeUp, Counts
  <2>2. QED BY <1>11, <2>1 DEF TimeUp, PageFinished
<1>12. CASE CrawlThrows
  BY <1>12 DEF CrawlThrows
<1>13. CASE CloseFailedPage
  <2>1. page \in Windows
    BY <1>13 DEF CloseFailedPage
  <2>2. code' \in [Tasks -> CodeRecord] /\ window' \in [Windows -> WindowRecord]
    BY <1>13, <2>1, GoneWindowTyped, EndCodeTyped DEF CloseFailedPage, ClosePage
  <2>3. QED BY <1>13, <2>2 DEF CloseFailedPage, ClosePage, PageFinished
<1>14. QED
  BY <1>1, <1>2, <1>3, <1>4, <1>5, <1>6, <1>7, <1>8, <1>9, <1>10, <1>11, <1>12,
     <1>13 DEF WorkerStep

\* So does each step of a page's code, in the window it was started in.
LEMMA CodeTypes ==
  ASSUME TypeOK, CodePlaced, NEW t \in Tasks, CodeStep(t)
  PROVE  TypeOK'
<1> USE PageAssumption DEF CodeAt
<1> DEFINE w == code[t].win
<1>0. code[t].at # "none" => w \in Windows
  BY CodeTyped DEF CodePlaced
<1>q. ASSUME code' \in [Tasks -> CodeRecord], window' \in [Windows -> WindowRecord],
             loaded' \in SUBSET Tasks, found' \in SUBSET (Tasks \X Tasks),
             faults' \in SUBSET Tasks, overran' \in SUBSET Tasks,
             WorkerUnchanged, UNCHANGED <<origin, hit>>
      PROVE  TypeOK'
  BY <1>q DEF TypeOK, WorkerUnchanged
<1>1. CASE StartGoto(t)
  <2>1. w \in Windows /\ code' \in [Tasks -> CodeRecord]
    BY <1>0, <1>1, GoesTyped DEF StartGoto
  <2>2. window' \in [Windows -> WindowRecord]
    <3> DEFINE r == [window[w] EXCEPT !.nav = t]
    <3>1. r \in WindowRecord /\ [r EXCEPT !.listener = t] \in WindowRecord
      BY <2>1, WindowTyped, RecordTyped
    <3>2. window' = [window EXCEPT ![w] = IF window[w].listener = None
                                          THEN [r EXCEPT !.listener = t] ELSE r]
      BY <1>1, <2>1, WindowTyped DEF StartGoto, WindowRecord, TypeOK
    <3>3. QED BY <2>1, <3>1, <3>2 DEF TypeOK
  <2>3. QED BY <1>1, <1>q, <2>1, <2>2 DEF StartGoto, UnchangedPages, TypeOK
<1>2. CASE GotoReturns(t)
  <2>1. w \in Windows /\ code' \in [Tasks -> CodeRecord]
    BY <1>0, <1>2, GoesTyped DEF GotoReturns
  <2>2. window' \in [Windows -> WindowRecord]
    BY <1>2, <2>1 DEF GotoReturns, TypeOK, WindowRecord, Tasks
  <2>3. QED BY <1>2, <1>q, <2>1, <2>2 DEF GotoReturns, UnchangedPages, TypeOK
<1>3. CASE WindowFails(t)
  BY <1>3, <1>q, GoesTyped DEF WindowFails, UnchangedPages, TypeOK
<1>4. CASE PageFails(t)
  BY <1>4, <1>q, GoesTyped DEF PageFails, TypeOK
<1>5. CASE PreExtractLinks(t)
  BY <1>5, <1>q, GoesTyped DEF PreExtractLinks, UnchangedPages, TypeOK
<1>6. CASE StartLinks(t)
  <2>1. w \in Windows
    BY <1>0, <1>6 DEF StartLinks
  <2>2. window' \in [Windows -> WindowRecord]
    <3>1. window' = [window EXCEPT ![w].addLink = t]
      BY <1>6 DEF StartLinks
    <3>2. [window[w] EXCEPT !.addLink = t] \in WindowRecord
      BY <2>1, WindowTyped, RecordTyped
    <3>3. QED BY <2>1, <3>1, <3>2 DEF TypeOK
  <2>3. code' \in [Tasks -> CodeRecord]
    <3>1. code[t] \in CodeRecord /\ window[w].doc \in 0 .. MaxTasks
      BY <2>1, WindowTyped DEF TypeOK
    <3>2. [code[t] EXCEPT !.at = "links", !.from = window[w].doc] \in CodeRecord
      BY <3>1 DEF CodeRecord
    <3>3. QED BY <1>6, <3>2 DEF StartLinks, TypeOK
  <2>4. QED BY <1>6, <1>q, <2>2, <2>3 DEF StartLinks, UnchangedPages, TypeOK
<1>7. CASE LinksArrive(t)
  <2>1. w \in Windows
    BY <1>0, <1>7 DEF LinksArrive
  <2>2. code[t].from \in Tasks /\ window[w].addLink \in Tasks
    BY <1>7, <2>1, WindowTyped, CodeTyped DEF LinksArrive, CodePlaced, Tasks, None
  <2>3. QED BY <1>7, <1>q, <2>2, GoesTyped DEF LinksArrive, TypeOK
<1>8. CASE LinksFail(t)
  BY <1>8, <1>q, GoesTyped DEF LinksFail, UnchangedPages, TypeOK
<1>9. CASE LinksTimeOut(t)
  BY <1>9, <1>q, GoesTyped DEF LinksTimeOut, TypeOK
<1>10. QED
  BY <1>1, <1>2, <1>3, <1>4, <1>5, <1>6, <1>7, <1>8, <1>9 DEF CodeStep

\* And a crash.
LEMMA CrashTypes ==
  ASSUME TypeOK, NEW w \in Windows, WindowCrashes(w)
  PROVE  TypeOK'
<1>1. window[w].doc \in 0 .. MaxTasks
  BY WindowTyped
<1>3. window' \in [Windows -> WindowRecord] /\ code' \in [Tasks -> CodeRecord]
  BY <1>1, GoneWindowTyped, EndCodeTyped DEF WindowCrashes, TypeOK
<1>4. hit' \in SUBSET (Windows \X (0 .. MaxTasks))
  BY PageAssumption DEF WindowCrashes, TypeOK, None
<1>5. QED BY <1>3, <1>4 DEF WindowCrashes, TypeOK

---------------------------------------------------------------------------
(* The accounts.                                                           *)

\* Every step keeps the counters of initPage.
LEMMA CountsKept ==
  ASSUME IInv, TypeOK', Next
  PROVE  Counts'
<1> USE PageAssumption DEF IInv, PageAccounts, Counts, TypeOK, At, UnchangedPages
<1>1. CASE TakeReuse
  BY <1>1 DEF TakeReuse, Tasks
<1>2. CASE TakeNew
  BY <1>2 DEF TakeNew, Tasks
<1>3. CASE LeaveLoop \/ InitPageThrows \/ CrawlThrows
  BY <1>3 DEF LeaveLoop, InitPageThrows, CrawlThrows
<1>4. CASE Recycle
  BY <1>4 DEF Recycle
<1>5. ASSUME NEW w \in Windows, OpenWindow(w) PROVE Counts'
  BY <1>5 DEF OpenWindow
<1>6. CASE OpenFails \/ SetupFails
  BY <1>6 DEF OpenFails, SetupFails, TryAgain
<1>7. CASE SetupDone
  BY <1>7 DEF SetupDone
<1>8. CASE CrawlReturns \/ TimeUp \/ CloseFailedPage
  BY <1>8 DEF CrawlReturns, TimeUp, CloseFailedPage, PageFinished
<1>9. ASSUME NEW t \in Tasks, CodeStep(t) PROVE Counts'
  BY <1>9 DEF CodeStep, StartGoto, GotoReturns, WindowFails, PageFails, PreExtractLinks,
              StartLinks, LinksArrive, LinksFail, LinksTimeOut, WorkerUnchanged
<1>10. ASSUME NEW w \in Windows, WindowCrashes(w) PROVE Counts'
  BY <1>10 DEF WindowCrashes
<1>11. QED
  BY <1>1, <1>2, <1>3, <1>4, <1>5, <1>6, <1>7, <1>8, <1>9, <1>10 DEF Next, WorkerStep

\* Places in which the code of a page is at work in its window.
Loading == {"goto", "read", "wait", "links"}

\* What a step of a page's code may change: its place, not its window.
LEMMA CodeStepCode ==
  ASSUME TypeOK, CodePlaced, NEW t \in Tasks, CodeStep(t)
  PROVE  /\ \A s \in Tasks : code'[s].win = code[s].win /\ (s # t => code'[s] = code[s])
         /\ code[t].at # "none" /\ code'[t].at \notin {"none", "start"}
         /\ code'[t].at = "goto" => /\ code[t].at = "start" /\ Usable(code[t].win)
                                    /\ window'[code[t].win].listener # None
         /\ code'[t].at = "read" => code[t].at = "goto" /\ window'[code[t].win].doc = t
         /\ code'[t].at = "wait" => code[t].at = "read"
         /\ code'[t].at = "links" => /\ code[t].at = "wait"
                                     /\ code'[t].from = window[code[t].win].doc
                                     /\ window'[code[t].win].addLink = t
<1> USE DEF CodeAt
<1>0. code[t].at # "none" => code[t].win \in Windows
  BY CodeTyped DEF CodePlaced
<1>1. ASSUME NEW p \in {"goto", "read", "wait", "done", "threw"}, Goes(t, p) \/ Ends(t, p)
      PROVE  /\ \A s \in Tasks : code'[s].win = code[s].win /\ (s # t => code'[s] = code[s])
             /\ code'[t].at \in {p, "over"}
             /\ Ends(t, p) => code'[t].at \in {p, "over"}
  BY <1>1 DEF Goes, Ends, TypeOK, CodeRecord
<1>2. CASE StartGoto(t)
  <2>1. window'[code[t].win].listener # None
    BY <1>0, <1>2 DEF StartGoto, TypeOK, WindowRecord, Tasks, None
  <2>2. QED BY <1>1, <1>2, <2>1 DEF StartGoto
<1>3. CASE GotoReturns(t)
  <2>1. window'[code[t].win].doc = t
    BY <1>0, <1>3 DEF GotoReturns, TypeOK, WindowRecord
  <2>2. QED BY <1>1, <1>3, <2>1 DEF GotoReturns
<1>4. CASE WindowFails(t) \/ PageFails(t) \/ LinksArrive(t) \/ LinksFail(t) \/ LinksTimeOut(t)
  BY <1>1, <1>4 DEF WindowFails, PageFails, LinksArrive, LinksFail, LinksTimeOut
<1>5. CASE PreExtractLinks(t)
  BY <1>1, <1>5 DEF PreExtractLinks
<1>6. CASE StartLinks(t)
  <2>1. window'[code[t].win].addLink = t
    BY <1>0, <1>6 DEF StartLinks, TypeOK, WindowRecord
  <2>2. QED BY <1>6, <2>1 DEF StartLinks, TypeOK, CodeRecord
<1>7. QED
  BY <1>2, <1>3, <1>4, <1>5, <1>6 DEF CodeStep

\* What it may change of a window: only of its own.
LEMMA CodeStepWindows ==
  ASSUME TypeOK, CodePlaced, NEW t \in Tasks, CodeStep(t), NEW w \in Windows
  PROVE  /\ window'[w].state = window[w].state
         /\ window'[w].doc \in {window[w].doc, t}
         /\ window'[w].listener \in {window[w].listener, t}
         /\ window[w].listener # None => window'[w].listener # None
         /\ window'[w].addLink \in {window[w].addLink, t}
         /\ w # code[t].win => window'[w] = window[w]
<1> USE DEF CodeAt
<1>0. code[t].at # "none" => code[t].win \in Windows
  BY CodeTyped DEF CodePlaced
<1>n. t # None
  BY DEF Tasks, None
<1>1. CASE StartGoto(t)
  BY <1>0, <1>1, <1>n DEF StartGoto, TypeOK, WindowRecord
<1>2. CASE GotoReturns(t)
  BY <1>0, <1>2 DEF GotoReturns, TypeOK, WindowRecord
<1>3. CASE StartLinks(t)
  BY <1>0, <1>3 DEF StartLinks, TypeOK, WindowRecord
<1>4. CASE UNCHANGED window
  BY <1>4
<1>5. QED
  BY <1>1, <1>2, <1>3, <1>4 DEF CodeStep, WindowFails, PageFails, PreExtractLinks,
                                LinksArrive, LinksFail, LinksTimeOut

\* A page's code keeps the accounts, whether it is waited for or not.
LEMMA CodeStepAccounts ==
  ASSUME TypeOK, PageAccounts, NEW t \in Tasks, CodeStep(t)
  PROVE  CodePlaced' /\ WindowsPlaced' /\ OneOrigin'
<1> USE DEF PageAccounts
<1>1. UNCHANGED <<pc, task, page, origin>>
  BY DEF CodeStep, StartGoto, GotoReturns, WindowFails, PageFails, PreExtractLinks, StartLinks,
         LinksArrive, LinksFail, LinksTimeOut, WorkerUnchanged, UnchangedPages
<1>2. \A s \in Tasks : code[s].at # "none" => code[s].win \in Windows
  BY CodeTyped DEF CodePlaced
<1>n. t # None /\ \A s \in Tasks : s # None
  BY DEF Tasks, None
<1>3. CodePlaced'
  <2> USE DEF CodePlaced
  <2> TAKE s \in Tasks
  <2> DEFINE w == code[s].win
  <2>1. /\ code'[s].win = w
        /\ code'[s].at = "none" <=> code[s].at = "none"
        /\ code[s].at # "none" => w \in Windows
    BY <1>2, CodeStepCode
  <2>2. /\ s > task' => code'[s].at = "none"
        /\ s = task' /\ pc' \in {"recycle", "open", "setup"} => code'[s].at = "none"
        /\ code'[s].at = "none" <=> code'[s].win = None
    BY <1>1, <2>1 DEF CodePlaced
  <2>3. code'[s].at # "none" => window'[code'[s].win].state # "none"
    BY <2>1, CodeStepWindows DEF CodePlaced
  <2>4. code'[s].at \in Loading => window'[w].state = "open" /\ window'[w].listener # None
    <3>1. CASE code[s].at \in Loading
      BY <2>1, <3>1, CodeStepWindows DEF CodePlaced, Usable, Loading
    <3>2. CASE code[s].at \notin Loading
      BY <2>1, <3>2, CodeStepCode, CodeStepWindows DEF Usable, Loading
    <3>3. QED BY <3>1, <3>2
  <2>5. code'[s].at \in {"read", "wait", "links"} => window'[w].doc # None
    <3>1. CASE code[s].at \in {"read", "wait", "links"}
      BY <1>n, <2>1, <3>1, CodeStepWindows DEF CodePlaced
    <3>2. CASE code[s].at \notin {"read", "wait", "links"}
      BY <1>n, <2>1, <3>2, CodeStepCode
    <3>3. QED BY <3>1, <3>2
  <2>6. code'[s].at = "links" => code'[s].from # None /\ window'[w].addLink # None
    <3>1. CASE code[s].at = "links"
      BY <1>n, <2>1, <3>1, CodeStepCode, CodeStepWindows DEF CodePlaced
    <3>2. CASE code[s].at # "links"
      BY <1>n, <2>1, <3>2, CodeStepCode DEF CodePlaced
    <3>3. QED BY <3>1, <3>2
  <2>7. QED BY <2>1, <2>2, <2>3, <2>4, <2>5, <2>6 DEF Usable, Loading
<1>4. WindowsPlaced'
  <2>1. \A w \in Windows : window'[w].doc # None => code'[window'[w].doc].win = w
    BY <1>2, <1>n, CodeStepCode, CodeStepWindows, WindowTyped DEF WindowsPlaced, Tasks, None
  <2>2. \A w \in Windows : window'[w].listener # None => code'[window'[w].listener].win = w
    BY <1>2, <1>n, CodeStepCode, CodeStepWindows, WindowTyped DEF WindowsPlaced, Tasks, None
  <2>3. page' # None => window'[page'].state # "none"
    BY <1>1, CodeStepWindows DEF WindowsPlaced, TypeOK
  <2>4. pc' = "setup" => UsedFor(page)' = {}
    BY <1>1, CodeStepCode DEF WindowsPlaced, UsedFor
  <2>5. QED BY <2>1, <2>2, <2>3, <2>4 DEF WindowsPlaced
<1>5. OneOrigin'
  BY <1>1, CodeStepCode DEF OneOrigin
<1>6. QED BY <1>3, <1>4, <1>5

\* EndCode: the codes of one window are over.
LEMMA EndCodeChange ==
  ASSUME TypeOK, NEW w \in Windows, EndCode(w), NEW s \in Tasks
  PROVE  /\ code'[s].win = code[s].win
         /\ code'[s].at = "none" <=> code[s].at = "none"
         /\ code'[s].at \in Loading => code'[s] = code[s] /\ code[s].win # w
BY DEF EndCode, AtWork, TypeOK, CodeRecord, Loading

\* A window that is gone: closed, or dead with what it showed.
LEMMA GoneWindowAccounts ==
  ASSUME TypeOK, PageAccounts, NEW w \in Windows, EndCode(w),
         window[w].state # "none",
         \A x \in Windows : x # w => window'[x] = window[x],
         window'[w].state # "none",
         window'[w].doc \in {None, window[w].doc}, window'[w].listener = None,
         task' = task, origin' = origin, page' \in {page, None},
         pc' = pc \/ pc' = "loop" \/ (pc' = "open" /\ pc = "recycle")
  PROVE  CodePlaced' /\ WindowsPlaced' /\ OneOrigin'
<1> USE DEF PageAccounts
<1>2. \A s \in Tasks : code[s].at # "none" => code[s].win \in Windows
  BY CodeTyped DEF CodePlaced
<1>3. CodePlaced'
  <2> USE DEF CodePlaced
  <2> TAKE s \in Tasks
  <2>1. /\ s > task' => code'[s].at = "none"
        /\ s = task' /\ pc' \in {"recycle", "open", "setup"} => code'[s].at = "none"
        /\ code'[s].at = "none" <=> code'[s].win = None
    BY EndCodeChange
  <2>2. code'[s].at # "none" => window'[code'[s].win].state # "none"
    BY <1>2, EndCodeChange
  <2>3. CASE code'[s].at \in Loading
    <3>1. /\ code'[s] = code[s] /\ code[s].at \in Loading
          /\ window'[code[s].win] = window[code[s].win]
      BY <1>2, <2>3, EndCodeChange DEF Loading
    <3>2. QED BY <2>1, <2>2, <3>1 DEF Usable
  <2>4. QED BY <2>1, <2>2, <2>3 DEF Loading
<1>4. WindowsPlaced'
  <2>1. \A x \in Windows : window'[x].doc # None => code'[window'[x].doc].win = x
    BY EndCodeChange, WindowTyped DEF WindowsPlaced, Tasks, None
  <2>2. \A x \in Windows : window'[x].listener # None => code'[window'[x].listener].win = x
    BY EndCodeChange, WindowTyped DEF WindowsPlaced, Tasks, None
  <2>3. page' # None => window'[page'].state # "none"
    BY DEF WindowsPlaced, TypeOK
  <2>4. pc' = "setup" => UsedFor(page)' = {}
    <3>1. pc' = "setup" => pc = "setup" /\ (page' = page \/ page' = None)
      OBVIOUS
    <3>2. page' = None => UsedFor(page)' = {}
      BY <1>3 DEF UsedFor, CodePlaced
    <3>3. page' = page => UsedFor(page)' = UsedFor(page)
      BY EndCodeChange DEF UsedFor
    <3>4. QED BY <3>1, <3>2, <3>3 DEF WindowsPlaced
  <2>5. QED BY <2>1, <2>2, <2>3, <2>4 DEF WindowsPlaced
<1>5. OneOrigin'
  BY EndCodeChange DEF OneOrigin
<1>6. QED BY <1>3, <1>4, <1>5

\* A task starts in the worker's window.
LEMMA StartCodeAccounts ==
  ASSUME TypeOK, PageAccounts, NEW t \in Tasks, StartCode(t),
         page \in Windows, code[t].at = "none",
         \A s \in Tasks : s > t => code[s].at = "none",
         \A s \in Tasks : code[s].win = page => origin[s] = origin[t],
         task' = t, pc' = "crawl", UNCHANGED <<page, window, origin>>
  PROVE  CodePlaced' /\ WindowsPlaced' /\ OneOrigin'
<1> USE DEF PageAccounts
<1>1. code'[t].win = page /\ code'[t].at = "start" /\ \A s \in Tasks : s # t => code'[s] = code[s]
  BY DEF StartCode, TypeOK
<1>2. page # None
  BY DEF Windows, None
<1>3. CodePlaced'
  BY <1>1, <1>2 DEF CodePlaced, WindowsPlaced, Usable, Tasks
<1>4. WindowsPlaced'
  <2>1. code[t].win = None /\ \A w \in Windows : w # None
    BY DEF CodePlaced, Windows, None
  <2>2. \A w \in Windows : window[w].doc # t /\ window[w].listener # t
    BY <2>1 DEF WindowsPlaced, Tasks, None
  <2>3. QED BY <1>1, <2>2, WindowTyped DEF WindowsPlaced, Tasks, None
<1>5. OneOrigin'
  BY <1>1 DEF OneOrigin
<1>6. QED BY <1>3, <1>4, <1>5

\* The worker keeps them.
LEMMA WorkerAccounts ==
  ASSUME TypeOK, PageAccounts, WorkerStep
  PROVE  CodePlaced' /\ WindowsPlaced' /\ OneOrigin'
<1> USE PageAssumption DEF PageAccounts, At, UnchangedPages
<1>s. task < MaxTasks => /\ task + 1 \in Tasks /\ code[task + 1].at = "none"
                         /\ \A s \in Tasks : s > task + 1 => code[s].at = "none"
  BY DEF TypeOK, Tasks, CodePlaced
<1>n. \A w \in Windows : w # None
  BY DEF Windows, None
<1>1. CASE TakeReuse
  <2>1. page \in Windows /\ window[page].doc # None
    BY <1>1 DEF TakeReuse, Reuse, IsSameOrigin, TypeOK
  <2>2. window[page].doc \in Tasks
    BY <2>1, WindowTyped DEF Tasks, None
  <2>3. \A s \in Tasks : code[s].win = page => origin[s] = origin[task + 1]
    BY <1>1, <1>n, <2>1, <2>2 DEF TakeReuse, Reuse, IsSameOrigin, WindowsPlaced, OneOrigin
  <2>4. QED BY <1>1, <1>s, <2>1, <2>3, StartCodeAccounts DEF TakeReuse
<1>2. CASE TakeNew
  <2>1. CodePlaced'
    BY <1>2, <1>s DEF TakeNew, CodePlaced, Usable, TypeOK, Tasks
  <2>2. WindowsPlaced' /\ OneOrigin'
    BY <1>2 DEF TakeNew, WindowsPlaced, OneOrigin, UsedFor
  <2>3. QED BY <2>1, <2>2
<1>3. CASE Recycle \/ CloseFailedPage
  <2>1. page \in Windows /\ page # None /\ window[page].state # "none"
    BY <1>3, <1>n DEF Recycle, CloseFailedPage, TypeOK, WindowsPlaced
  <2>2. CASE UNCHANGED <<window, code>>
    BY <1>3, <2>2 DEF Recycle, CloseFailedPage, PageFinished, ClosePage, CodePlaced, WindowsPlaced,
                      OneOrigin, Usable, UsedFor
  <2>3. CASE /\ window' = [window EXCEPT ![page] = [NoWindow EXCEPT !.state = "closed"]]
             /\ EndCode(page)
    <3>1. /\ window'[page].state # "none" /\ window'[page].doc = None
          /\ window'[page].listener = None
      BY <2>1, <2>3 DEF NoWindow, NewWindow, TypeOK
    <3>2. \A x \in Windows : x # page => window'[x] = window[x]
      BY <2>3 DEF TypeOK
    <3>3. QED BY <1>3, <2>1, <2>3, <3>1, <3>2, GoneWindowAccounts
                 DEF Recycle, CloseFailedPage, PageFinished, ClosePage
  <2>4. QED BY <1>3, <2>2, <2>3 DEF Recycle, CloseFailedPage, ClosePage
<1>4. ASSUME NEW w \in Windows, OpenWindow(w)
      PROVE  CodePlaced' /\ WindowsPlaced' /\ OneOrigin'
  <2>1. \A s \in Tasks : code[s].win # w
    BY <1>4, <1>n DEF OpenWindow, CodePlaced
  <2>2. /\ \A x \in Windows : x # w => window'[x] = window[x]
        /\ window'[w].state = "open" /\ window'[w].doc = None /\ window'[w].listener = None
    BY <1>4 DEF OpenWindow, NewWindow, TypeOK
  <2>3. \A s \in Tasks : code[s].at # "none" => code[s].win \in Windows \ {w}
    BY <2>1, CodeTyped DEF CodePlaced
  <2>4. CodePlaced'
    BY <1>4, <2>2, <2>3 DEF OpenWindow, CodePlaced, Usable
  <2>5. WindowsPlaced'
    BY <1>4, <2>1, <2>2 DEF OpenWindow, WindowsPlaced, UsedFor
  <2>6. OneOrigin'
    BY <1>4 DEF OpenWindow, OneOrigin
  <2>7. QED BY <2>4, <2>5, <2>6
<1>5. CASE SetupDone
  <2>1. task \in Tasks /\ code[task].at = "none" /\ page \in Windows
    BY <1>5 DEF SetupDone, Counts, CodePlaced, TypeOK
  <2>2. \A s \in Tasks : code[s].win # page
    BY <1>5, <1>n, <2>1 DEF SetupDone, WindowsPlaced, UsedFor, CodePlaced
  <2>3. \A s \in Tasks : s > task => code[s].at = "none"
    BY DEF CodePlaced
  <2>4. QED BY <1>5, <2>1, <2>2, <2>3, StartCodeAccounts DEF SetupDone
<1>6. CASE \/ LeaveLoop \/ OpenFails \/ SetupFails \/ InitPageThrows
           \/ CrawlReturns \/ TimeUp \/ CrawlThrows
  <2>1. /\ UNCHANGED <<task, page, window, code, origin>>
        /\ pc' = pc \/ pc' \in {"gone", "loop", "close"} \/ (pc = "setup" /\ pc' = "open")
    BY <1>6 DEF LeaveLoop, OpenFails, SetupFails, InitPageThrows, CrawlReturns, TimeUp, CrawlThrows,
                PageFinished
  <2>2. QED BY <2>1 DEF CodePlaced, WindowsPlaced, OneOrigin, Usable, UsedFor
<1>7. QED
  BY <1>1, <1>2, <1>3, <1>4, <1>5, <1>6 DEF WorkerStep

\* A crash keeps them: the window still shows a task of its own.
LEMMA CrashAccounts ==
  ASSUME TypeOK, PageAccounts, NEW w \in Windows, WindowCrashes(w)
  PROVE  CodePlaced' /\ WindowsPlaced' /\ OneOrigin'
<1>1. /\ window'[w].state = "dead" /\ window'[w].doc = window[w].doc
      /\ window'[w].listener = None
  BY DEF WindowCrashes, NoWindow, NewWindow, TypeOK
<1>2. \A x \in Windows : x # w => window'[x] = window[x]
  BY DEF WindowCrashes, TypeOK
<1>3. /\ EndCode(w) /\ window[w].state # "none"
      /\ task' = task /\ origin' = origin /\ page' = page /\ pc' = pc
  BY DEF WindowCrashes, Usable
<1>4. QED BY <1>1, <1>2, <1>3, GoneWindowAccounts

LEMMA AccountsStep ==
  ASSUME IInv, [Next]_vars
  PROVE  IInv'
<1>1. CASE Next
  <2>1. TypeOK'
    BY <1>1, WorkerTypes, CodeTypes, CrashTypes DEF Next, IInv, PageAccounts
  <2>2. Counts'
    BY <1>1, <2>1, CountsKept
  <2>3. CodePlaced' /\ WindowsPlaced' /\ OneOrigin'
    BY <1>1, WorkerAccounts, CodeStepAccounts, CrashAccounts DEF Next, IInv
  <2>4. QED BY <2>1, <2>2, <2>3 DEF IInv, PageAccounts
<1>2. CASE UNCHANGED vars
  BY <1>2 DEF vars, IInv, PageAccounts, TypeOK, Counts, CodePlaced, WindowsPlaced, OneOrigin, Usable,
              UsedFor
<1>3. QED BY <1>1, <1>2

LEMMA AccountsInit ==
  ASSUME Init
  PROVE  IInv
<1> USE PageAssumption DEF Init
<1>1. TypeOK
  <2>1. window \in [Windows -> WindowRecord]
    BY NewWindowTyped
  <2>2. code \in [Tasks -> CodeRecord]
    BY DEF CodeRecord, None
  <2>3. outcome \in [Tasks -> {"none", "finished", "failed"}]
    OBVIOUS
  <2>4. /\ task \in 0 .. MaxTasks /\ reuseCount \in 0 .. MAX_REUSE + 1
        /\ retry \in 0 .. MAX_REUSE
    OBVIOUS
  <2>5. pc = "loop" /\ page = None
    OBVIOUS
  <2>6. QED BY <2>1, <2>2, <2>3, <2>4, <2>5, Zenon DEF TypeOK
<1>2. Counts
  BY DEF Counts
<1>3. CodePlaced
  BY DEF CodePlaced, None
<1>4. WindowsPlaced
  BY DEF WindowsPlaced, NoWindow, NewWindow
<1>5. OneOrigin
  BY DEF OneOrigin
<1>6. QED BY <1>1, <1>2, <1>3, <1>4, <1>5 DEF IInv, PageAccounts

---------------------------------------------------------------------------
(* How often a window is used.                                             *)

LEMMA UsedForFinite ==
  \A w \in Windows : IsFiniteSet(UsedFor(w))
<1>1. IsFiniteSet(Tasks)
  BY PageAssumption, FS_Interval DEF Tasks
<1>2. QED BY <1>1, FS_Subset DEF UsedFor

\* A step that starts no task leaves the tasks of each window as they are.
LEMMA UsedForKept ==
  ASSUME IInv, Next, ~TakeReuse, ~SetupDone, NEW w \in Windows
  PROVE  UsedFor(w)' = UsedFor(w)
<1> USE DEF IInv, PageAccounts
<1>1. CASE UNCHANGED code
  BY <1>1 DEF UsedFor
<1>2. CASE \E x \in Windows : EndCode(x)
  BY <1>2, EndCodeChange DEF UsedFor
<1>3. ASSUME NEW t \in Tasks, CodeStep(t) PROVE UsedFor(w)' = UsedFor(w)
  <2>1. \A s \in Tasks : /\ code'[s].win = code[s].win
                         /\ code'[s].at = "none" <=> code[s].at = "none"
    BY <1>3, CodeStepCode
  <2>2. QED BY <2>1 DEF UsedFor
<1>4. CASE Recycle \/ CloseFailedPage
  <2>1. page \in Windows
    BY <1>4 DEF Recycle, CloseFailedPage, At, TypeOK
  <2>2. QED BY <1>1, <1>2, <1>4, <2>1 DEF Recycle, CloseFailedPage, ClosePage
<1>5. QED
  BY <1>1, <1>2, <1>3, <1>4
     DEF Next, WorkerStep, WindowCrashes, TakeNew, LeaveLoop, OpenWindow, OpenFails, SetupFails,
         InitPageThrows, CrawlReturns, TimeUp, CrawlThrows

\* StartCode adds one task to the worker's window, and to no other.
LEMMA StartCodeUses ==
  ASSUME TypeOK, PageAccounts, UsesCounted, NEW t \in Tasks, StartCode(t),
         page \in Windows, page' = page, code[t].at = "none", reuseCount <= MAX_REUSE
  PROVE  UsesCounted'
<1>1. code'[t].win = page /\ code'[t].at = "start" /\ \A s \in Tasks : s # t => code'[s] = code[s]
  BY DEF StartCode, TypeOK
<1>2. UsedFor(page)' = UsedFor(page) \cup {t} /\ t \notin UsedFor(page)
  BY <1>1 DEF UsedFor
<1>3. \A w \in Windows : w # page => UsedFor(w)' = UsedFor(w)
  BY <1>1 DEF UsedFor
<1>4. Cardinality(UsedFor(page)') = Cardinality(UsedFor(page)) + 1
  BY <1>2, UsedForFinite, FS_AddElement
<1>5. \A w \in Windows : Cardinality(UsedFor(w)) \in Nat
  BY UsedForFinite, FS_CardinalityType
<1>6. page # None
  BY DEF Windows, None
<1>7. reuseCount' = reuseCount + 1 /\ Cardinality(UsedFor(page)) + 1 = reuseCount
  BY <1>6 DEF StartCode, UsesCounted
<1>8. Cardinality(UsedFor(page)') <= MAX_REUSE
  BY <1>4, <1>5, <1>7, PageAssumption DEF TypeOK
<1>9. \A w \in Windows : Cardinality(UsedFor(w)') <= MAX_REUSE
  BY <1>3, <1>8 DEF UsesCounted
<1>10. Cardinality(UsedFor(page))' + 1 = reuseCount'
  BY <1>4, <1>7
<1>11. QED BY <1>9, <1>10 DEF UsesCounted

\* Every step keeps the count of a window's tasks.
LEMMA UsesStep ==
  ASSUME IInv, UsesCounted, [Next]_vars
  PROVE  UsesCounted'
<1> USE DEF IInv, PageAccounts
<1>1. CASE TakeReuse
  <2>1. task + 1 \in Tasks /\ code[task + 1].at = "none"
    BY <1>1, PageAssumption DEF TakeReuse, TypeOK, Tasks, CodePlaced
  <2>2. page \in Windows
    BY <1>1 DEF TakeReuse, Reuse, IsSameOrigin, TypeOK
  <2>3. QED BY <1>1, <2>1, <2>2, StartCodeUses DEF TakeReuse, Reuse
<1>2. CASE SetupDone
  <2>1. task \in Tasks /\ page \in Windows /\ code[task].at = "none" /\ reuseCount = 1
    BY <1>2 DEF SetupDone, At, Counts, TypeOK, CodePlaced
  <2>2. QED BY <1>2, <2>1, StartCodeUses, PageAssumption DEF SetupDone
<1>3. CASE Next /\ ~TakeReuse /\ ~SetupDone
  <2>1. \A w \in Windows : UsedFor(w)' = UsedFor(w)
    BY <1>3, UsedForKept
  <2>2. page' # None => Cardinality(UsedFor(page))' + 1 = reuseCount'
    <3>1. CASE page' = page /\ reuseCount' = reuseCount
      BY <2>1, <3>1 DEF UsesCounted, TypeOK
    <3>2. CASE page' = None
      BY <3>2
    <3>3. ASSUME NEW w \in Windows, OpenWindow(w)
          PROVE  Cardinality(UsedFor(page))' + 1 = reuseCount'
      <4>1. UsedFor(w) = {}
        BY <3>3 DEF OpenWindow, UsedFor, CodePlaced
      <4>2. page' = w /\ reuseCount' = 1
        BY <3>3 DEF OpenWindow, At, Counts
      <4>3. QED BY <2>1, <4>1, <4>2, FS_EmptySet
    <3>4. QED
      BY <1>3, <3>1, <3>2, <3>3
         DEF Next, WorkerStep, CodeStep, TakeNew, LeaveLoop, Recycle, OpenFails, SetupFails,
             InitPageThrows, CrawlReturns, TimeUp, CrawlThrows, CloseFailedPage, ClosePage,
             StartGoto, GotoReturns, WindowFails, PageFails, PreExtractLinks, StartLinks,
             LinksArrive, LinksFail, LinksTimeOut, WorkerUnchanged, WindowCrashes
  <2>3. QED BY <2>1, <2>2 DEF UsesCounted
<1>4. CASE UNCHANGED vars
  BY <1>4 DEF vars, UsesCounted, UsedFor
<1>5. QED BY <1>1, <1>2, <1>3, <1>4

LEMMA UsesInit ==
  ASSUME Init
  PROVE  UsesCounted
<1>1. \A w \in Windows : UsedFor(w) = {}
  BY DEF Init, UsedFor
<1>2. QED BY <1>1, FS_EmptySet, PageAssumption DEF Init, UsesCounted
---------------------------------------------------------------------------
(* Whose failures and links they are.                                      *)

\* What a step of a page's code leaves alone, and what it may add.
LEMMA CodeStepHistory ==
  ASSUME TypeOK, CodePlaced, NEW t \in Tasks, CodeStep(t)
  PROVE  /\ UNCHANGED <<life, pc, task, page, crashed, outcome, hit>>
         /\ code[t].at \in AtWork
         /\ code'[t].at \in AtWork \cup {"done", "threw", "over"}
         /\ faults \subseteq faults' /\ overran \subseteq overran' /\ found \subseteq found'
         /\ loaded' = IF code'[t].at = "wait" THEN loaded \cup {t} ELSE loaded
         /\ code'[t].at = "done" => code[t].at = "links"
         /\ code'[t].at = "threw" => code[t].at \in {"start", "goto", "read"}
<1> USE DEF CodeAt, WorkerUnchanged, UnchangedPages, AtWork
<1>1. ASSUME NEW p \in {"goto", "read", "wait", "done", "threw"}, Goes(t, p) \/ Ends(t, p)
      PROVE  code'[t].at \in {p, "over"} /\ (Goes(t, p) => code'[t].at = p)
  BY <1>1 DEF Goes, Ends, TypeOK, CodeRecord
<1>2. CASE StartGoto(t) \/ GotoReturns(t)
  BY <1>1, <1>2 DEF StartGoto, GotoReturns
<1>3. CASE WindowFails(t) \/ PageFails(t)
  BY <1>1, <1>3 DEF WindowFails, PageFails
<1>4. CASE PreExtractLinks(t)
  BY <1>1, <1>4 DEF PreExtractLinks
<1>5. CASE StartLinks(t)
  BY <1>5 DEF StartLinks, TypeOK, CodeRecord
<1>6. CASE LinksArrive(t) \/ LinksFail(t) \/ LinksTimeOut(t)
  BY <1>1, <1>6 DEF LinksArrive, LinksFail, LinksTimeOut
<1>7. QED
  BY <1>2, <1>3, <1>4, <1>5, <1>6 DEF CodeStep

\* A step of the worker that neither opens nor closes a window nor starts a task.
QuietStep ==
  \/ TakeNew \/ LeaveLoop \/ OpenFails \/ SetupFails \/ InitPageThrows
  \/ CrawlReturns \/ TimeUp \/ CrawlThrows

\* A window of the worker closes, or is forgotten.
LEMMA ClosePageChange ==
  ASSUME TypeOK, page \in Windows, ClosePage
  PROVE  /\ page' = None
         /\ \A w \in Windows : w # page => window'[w] = window[w]
         /\ window'[page] = window[page] \/ (/\ window'[page].state = "closed"
                                             /\ window'[page].addLink = None)
         /\ \A s \in Tasks : /\ code'[s].win = code[s].win
                             /\ code'[s].at \in AtWork => code'[s] = code[s]
                             /\ code'[s].at # "over" => code'[s] = code[s]
                             /\ code'[s].at = "none" <=> code[s].at = "none"
<1>1. CASE UNCHANGED <<window, code>>
  BY <1>1 DEF ClosePage, AtWork
<1>2. CASE /\ window' = [window EXCEPT ![page] = [NoWindow EXCEPT !.state = "closed"]]
           /\ EndCode(page)
  BY <1>2 DEF ClosePage, EndCode, NoWindow, NewWindow, TypeOK, CodeRecord, AtWork
<1>3. QED BY <1>1, <1>2 DEF ClosePage

\* A window crashes, and the codes in it are over.
LEMMA CrashChange ==
  ASSUME TypeOK, NEW w \in Windows, WindowCrashes(w)
  PROVE  /\ UNCHANGED <<pc, task, page, outcome, loaded, faults, overran, found>>
         /\ hit' = hit \cup {<<w, IF pc = "crawl" THEN task ELSE None>>}
         /\ \A x \in Windows : x # w => window'[x] = window[x]
         /\ window[w].state = "open" /\ window'[w].state = "dead" /\ window'[w].addLink = None
         /\ crashed' <=> crashed \/ w = page
         /\ \A s \in Tasks : /\ code'[s].win = code[s].win
                             /\ code'[s].at \in AtWork => code'[s] = code[s] /\ code[s].win # w
                             /\ code'[s].at # "over" => code'[s] = code[s]
                             /\ code'[s].at = "none" <=> code[s].at = "none"
<1>1. /\ UNCHANGED <<pc, task, page, outcome, loaded, faults, overran, found>>
      /\ hit' = hit \cup {<<w, IF pc = "crawl" THEN task ELSE None>>}
      /\ \A x \in Windows : x # w => window'[x] = window[x]
      /\ window[w].state = "open" /\ window'[w].state = "dead" /\ window'[w].addLink = None
  BY DEF WindowCrashes, Usable, NoWindow, NewWindow, TypeOK
<1>2. crashed' <=> crashed \/ w = page
  BY DEF WindowCrashes, TypeOK
<1>3. \A s \in Tasks : /\ code'[s].win = code[s].win
                       /\ code'[s].at \in AtWork => code'[s] = code[s] /\ code[s].win # w
                       /\ code'[s].at # "over" => code'[s] = code[s]
                       /\ code'[s].at = "none" <=> code[s].at = "none"
  BY DEF WindowCrashes, EndCode, TypeOK, CodeRecord, AtWork
<1>4. QED BY <1>1, <1>2, <1>3

\* A task starts in the window that the worker has.
LEMMA StartChange ==
  ASSUME IInv, TakeReuse \/ SetupDone
  PROVE  /\ pc' = "crawl" /\ pc # "crawl" /\ task' \in Tasks /\ page \in Windows /\ page # None
         /\ code[task'].at = "none" /\ code[task'].win = None
         /\ code'[task'].at = "start" /\ code'[task'].win = page
         /\ \A s \in Tasks : s # task' => code'[s] = code[s]
         /\ UNCHANGED <<page, crashed, window, outcome, loaded, faults, overran, found, hit>>
         /\ task' >= task /\ (TakeReuse => task' > task) /\ (SetupDone => task' = task /\ pc = "setup")
         /\ TakeReuse => pc = "loop"
<1> USE DEF IInv, PageAccounts, At, UnchangedPages
<1>1. CASE TakeReuse
  <2>1. task' \in Tasks /\ task' = task + 1 /\ code[task'].at = "none"
    BY <1>1, PageAssumption DEF TakeReuse, TypeOK, Tasks, CodePlaced
  <2>2. page \in Windows /\ page # None
    BY <1>1 DEF TakeReuse, Reuse, IsSameOrigin, TypeOK
  <2>3. /\ code'[task'] = [at |-> "start", win |-> page, from |-> None]
        /\ \A s \in Tasks : s # task' => code'[s] = code[s]
    BY <1>1, <2>1 DEF TakeReuse, StartCode, TypeOK
  <2>4. task' > task /\ task' # task
    BY <2>1 DEF TypeOK
  <2>5. pc = "loop"
    BY <1>1 DEF TakeReuse
  <2>6. QED BY <1>1, <2>1, <2>2, <2>3, <2>4, <2>5 DEF TakeReuse, SetupDone, CodePlaced, TypeOK
<1>2. CASE SetupDone
  <2>1. task \in Tasks /\ task' = task /\ code[task'].at = "none"
    BY <1>2 DEF SetupDone, TypeOK, Counts, CodePlaced
  <2>2. page \in Windows /\ page # None
    BY <1>2 DEF SetupDone, TypeOK
  <2>3. /\ code'[task'] = [at |-> "start", win |-> page, from |-> None]
        /\ \A s \in Tasks : s # task' => code'[s] = code[s]
    BY <1>2, <2>1 DEF SetupDone, StartCode, TypeOK
  <2>4. QED BY <1>2, <2>1, <2>2, <2>3, PageAssumption DEF TakeReuse, SetupDone, CodePlaced, TypeOK, Tasks
<1>3. QED BY <1>1, <1>2

\* Every step keeps the worker and the codes at work where they belong.
LEMMA PlacedStep ==
  ASSUME IInv, WorkerPlaced, [Next]_vars
  PROVE  WorkerPlaced'
<1> USE DEF IInv, PageAccounts
<1>n. None \notin Windows /\ None \notin Tasks
  BY DEF Windows, Tasks, None
<1>w. \A s \in Tasks : code[s].at \in AtWork => code[s].win \in Windows
  BY CodeTyped DEF CodePlaced, AtWork
<1>1. ASSUME NEW t \in Tasks, CodeStep(t) PROVE WorkerPlaced'
  <2>1. \A w \in Windows : window'[w].state = window[w].state
    BY <1>1, CodeStepWindows
  <2>2. \A s \in Tasks : code'[s].win = code[s].win /\ (s # t => code'[s] = code[s])
    BY <1>1, CodeStepCode
  <2>3. pc' = "close" => code'[task'].at = "threw" \/ crashed'
    BY <1>1, <2>2, CodeStepHistory DEF WorkerPlaced, AtWork, Counts
  <2>4. \A s \in Tasks : code'[s].at \in AtWork /\ ~Waited(s)' /\ Usable(code[s].win)' => s \in overran'
    BY <1>1, <1>w, <2>1, <2>2, CodeStepHistory DEF WorkerPlaced, Waited, Usable
  <2>5. page' # None => window'[page'].state \in {"open", "dead"}
    BY <1>1, <2>1, CodeStepHistory DEF WorkerPlaced, TypeOK
  <2>6. pc' \in {"crawl", "close"} => code'[task'].win = page'
    BY <1>1, <2>2, CodeStepHistory DEF WorkerPlaced, Counts
  <2>7. crashed' /\ page' # None => window'[page'].state = "dead"
    BY <1>1, <2>1, CodeStepHistory DEF WorkerPlaced, TypeOK
  <2>8. \A w \in Windows : window'[w].state = "dead" => \E h \in hit' : h[1] = w
    BY <1>1, <2>1, CodeStepHistory DEF WorkerPlaced
  <2>9. QED BY <2>2, <2>3, <2>4, <2>5, <2>6, <2>7, <2>8 DEF WorkerPlaced, Usable
<1>2. CASE TakeReuse \/ SetupDone
  BY <1>2, StartChange DEF WorkerPlaced, Waited, Usable
<1>3. CASE Recycle \/ CloseFailedPage
  <2>1. page \in Windows /\ ClosePage /\ pc' \in {"open", "loop"} /\ pc # "crawl"
    BY <1>3 DEF Recycle, CloseFailedPage, PageFinished, At, TypeOK
  <2>2. UNCHANGED <<hit, overran>>
    BY <1>3 DEF Recycle, CloseFailedPage, UnchangedPages
  <2>3. \A w \in Windows : window'[w].state \in {window[w].state, "closed"}
    BY <2>1, ClosePageChange
  <2>4. QED BY <1>w, <2>1, <2>2, <2>3, ClosePageChange DEF WorkerPlaced, Waited, Usable
<1>4. ASSUME NEW w \in Windows, OpenWindow(w) PROVE WorkerPlaced'
  <2>1. /\ \A x \in Windows : x # w => window'[x] = window[x]
        /\ window'[w].state = "open"
        /\ UNCHANGED <<code, hit, overran, task>> /\ page' = w /\ pc' = "setup" /\ pc = "open" /\ ~crashed'
    BY <1>4 DEF OpenWindow, NewWindow, TypeOK, At, UnchangedPages
  <2>2. \A s \in Tasks : code[s].at \in AtWork => code[s].win # w
    BY <1>4 DEF OpenWindow, CodePlaced, AtWork
  <2>3. QED BY <1>w, <2>1, <2>2 DEF WorkerPlaced, Waited, Usable
<1>5. CASE QuietStep
  <2>1. UNCHANGED <<page, crashed, window, code, hit>> /\ overran \subseteq overran'
    BY <1>5 DEF QuietStep, TakeNew, LeaveLoop, OpenFails, SetupFails, InitPageThrows, CrawlReturns,
                TimeUp, CrawlThrows, PageFinished, UnchangedPages
  <2>2. /\ pc' # "crawl"
        /\ pc' = "close" => /\ task' = task /\ pc = "crawl"
                            /\ code[task].at = "threw" \/ crashed
    BY <1>5 DEF QuietStep, TakeNew, LeaveLoop, OpenFails, SetupFails, InitPageThrows, CrawlReturns,
                TimeUp, CrawlThrows, PageFinished, At
  <2>0. pc = "crawl" => page # None
    BY DEF TypeOK
  <2>3. pc = "crawl" /\ code[task].at \in AtWork /\ Usable(page) => task \in overran'
    BY <1>5, <2>0 DEF QuietStep, TakeNew, LeaveLoop, OpenFails, SetupFails, InitPageThrows, CrawlReturns,
                TimeUp, CrawlThrows, AtWork, At, WorkerPlaced, Usable
  <2>4. \A s \in Tasks : code[s].at \in AtWork /\ Usable(code[s].win) => s \in overran'
    BY <2>1, <2>3 DEF WorkerPlaced, Waited
  <2>5. QED BY <2>1, <2>2, <2>4 DEF WorkerPlaced, Usable
<1>6. ASSUME NEW w \in Windows, WindowCrashes(w) PROVE WorkerPlaced'
  <2>1. \A x \in Windows : window'[x].state \in {window[x].state, "dead"}
    BY <1>6, CrashChange
  <2>2. \A x \in Windows : window'[x].state = "dead" => \E h \in hit' : h[1] = x
    <3>1. \E h \in hit' : h[1] = w
      <4>1. PICK x \in {task, None} : hit' = hit \cup {<<w, x>>}
        BY <1>6, CrashChange
      <4>2. <<w, x>>[1] = w
        OBVIOUS
      <4>3. QED BY <4>1, <4>2
    <3>2. QED BY <1>6, <3>1, CrashChange DEF WorkerPlaced
  <2>3. pc' = "close" => code'[task'].at = "threw" \/ crashed'
    <3>1. pc = "close" => task \in Tasks
      BY DEF Counts
    <3>2. code[task].at = "threw" /\ task \in Tasks => code'[task].at = "threw"
      BY <1>6 DEF WindowCrashes, EndCode, AtWork, TypeOK
    <3>3. QED BY <1>6, <3>1, <3>2, CrashChange DEF WorkerPlaced
  <2>4. \A s \in Tasks : code'[s].at \in AtWork /\ ~Waited(s)' /\ Usable(code[s].win)' => s \in overran'
    BY <1>6, <1>w, CrashChange DEF WorkerPlaced, Waited, Usable
  <2>5. pc' \in {"crawl", "close"} => code'[task'].win = page'
    BY <1>6, CrashChange DEF WorkerPlaced, Counts
  <2>6. page' # None => window'[page'].state \in {"open", "dead"}
    BY <1>6, <2>1, CrashChange DEF WorkerPlaced, TypeOK
  <2>7. crashed' /\ page' # None => window'[page'].state = "dead"
    <3>1. CASE w = page
      BY <1>6, <3>1, CrashChange
    <3>2. CASE w # page
      BY <1>6, <3>2, CrashChange DEF WorkerPlaced, TypeOK
    <3>3. QED BY <3>1, <3>2
  <2>8. \A s \in Tasks : code'[s].win = code[s].win
    BY <1>6, CrashChange
  <2>9. QED BY <2>2, <2>3, <2>4, <2>5, <2>6, <2>7, <2>8 DEF WorkerPlaced, Usable
<1>7. CASE UNCHANGED vars
  BY <1>7 DEF vars, WorkerPlaced, Waited, Usable
<1>8. QED BY <1>1, <1>2, <1>3, <1>4, <1>5, <1>6, <1>7 DEF Next, WorkerStep, QuietStep

\* The code that a step of the code of a page leaves in "goto", "threw" or "done".
LEMMA CodeStepEnds ==
  ASSUME TypeOK, CodePlaced, NEW t \in Tasks, CodeStep(t)
  PROVE  /\ code'[t].at = "goto" => window'[code[t].win].nav = t
         /\ code'[t].at = "threw" => Waited(t) /\ (t \in faults' \/ WindowFails(t))
         /\ code'[t].at = "done" => LinksArrive(t) \/ LinksFail(t) \/ t \in overran'
<1> USE DEF CodeAt
<1>0. code[t].at # "none" => code[t].win \in Windows
  BY CodeTyped DEF CodePlaced
<1>1. ASSUME NEW p \in {"goto", "read", "wait", "done", "threw"}, Goes(t, p) \/ Ends(t, p)
      PROVE  code'[t].at \in {p, "over"} /\ (Ends(t, p) /\ code'[t].at = "threw" => Waited(t))
  BY <1>1 DEF Goes, Ends, TypeOK, CodeRecord
<1>2. CASE StartGoto(t)
  <2>1. window'[code[t].win].nav = t
    BY <1>0, <1>2 DEF StartGoto, TypeOK, WindowRecord
  <2>2. QED BY <1>1, <1>2, <2>1 DEF StartGoto
<1>3. CASE GotoReturns(t)
  BY <1>1, <1>3 DEF GotoReturns
<1>4. CASE WindowFails(t)
  BY <1>1, <1>4 DEF WindowFails
<1>5. CASE PageFails(t)
  BY <1>1, <1>5 DEF PageFails
<1>6. CASE PreExtractLinks(t)
  BY <1>1, <1>6 DEF PreExtractLinks
<1>7. CASE StartLinks(t)
  BY <1>7 DEF StartLinks, TypeOK, CodeRecord
<1>8. CASE LinksArrive(t) \/ LinksFail(t) \/ LinksTimeOut(t)
  BY <1>1, <1>8 DEF LinksArrive, LinksFail, LinksTimeOut
<1>9. QED
  BY <1>2, <1>3, <1>4, <1>5, <1>6, <1>7, <1>8 DEF CodeStep

\* What happened stays so.
LEMMA HistoryGrows ==
  ASSUME IInv, Next
  PROVE  /\ faults \subseteq faults' /\ overran \subseteq overran'
         /\ found \subseteq found' /\ hit \subseteq hit'
         /\ \A w \in Windows : UsedFor(w) \subseteq UsedFor(w)'
         /\ \A w \in Windows : (Overrun(w) => Overrun(w)') /\ (Blamed(w) => Blamed(w)')
<1>1. faults \subseteq faults' /\ overran \subseteq overran' /\ found \subseteq found' /\ hit \subseteq hit'
  BY DEF Next, WorkerStep, CodeStep, WindowCrashes, TakeReuse, TakeNew, LeaveLoop, Recycle, OpenWindow,
         OpenFails, SetupFails, SetupDone, InitPageThrows, CrawlReturns, TimeUp, CrawlThrows,
         CloseFailedPage, UnchangedPages, StartGoto, GotoReturns, WindowFails, PageFails,
         PreExtractLinks, StartLinks, LinksArrive, LinksFail, LinksTimeOut
<1>2. ASSUME NEW w \in Windows PROVE UsedFor(w) \subseteq UsedFor(w)'
  <2>1. CASE TakeReuse \/ SetupDone
    BY <2>1, StartChange DEF UsedFor
  <2>2. CASE ~TakeReuse /\ ~SetupDone
    BY <2>2, UsedForKept
  <2>3. QED BY <2>1, <2>2
<1>3. \A w \in Windows : Overrun(w) => Overrun(w)'
  BY <1>1, <1>2 DEF Overrun
<1>4. \A w \in Windows : Blamed(w) => Blamed(w)'
  BY <1>1, <1>3 DEF Blamed
<1>5. QED BY <1>1, <1>2, <1>3, <1>4

\* Every step keeps data.loadState in line with the place of the code.
LEMMA LoadsStep ==
  ASSUME IInv, LoadsMarked, [Next]_vars
  PROVE  LoadsMarked'
<1> USE DEF IInv, PageAccounts
<1>t. task \in Nat /\ \A s \in Tasks : s \in Nat
  BY DEF TypeOK, Tasks
<1>1. ASSUME NEW t \in Tasks, CodeStep(t) PROVE LoadsMarked'
  <2>1. \A s \in Tasks : s # t => code'[s] = code[s]
    BY <1>1, CodeStepCode
  <2>2. UNCHANGED <<pc, task, outcome>> /\ loaded' = IF code'[t].at = "wait" THEN loaded \cup {t} ELSE loaded
    BY <1>1, CodeStepHistory
  <2>3. code'[t].at \in {"none", "start", "goto", "read", "threw"} => t \notin loaded'
    BY <1>1, <2>2, CodeStepCode, CodeStepHistory DEF LoadsMarked
  <2>4. code'[t].at \in {"wait", "links", "done"} => t \in loaded'
    BY <1>1, <2>2, CodeStepCode, CodeStepHistory DEF LoadsMarked
  <2>5. QED BY <2>1, <2>2, <2>3, <2>4 DEF LoadsMarked
<1>2. CASE TakeReuse \/ SetupDone
  BY <1>2, <1>t, StartChange DEF LoadsMarked
<1>3. CASE Recycle \/ CloseFailedPage
  <2>1. page \in Windows /\ ClosePage /\ UNCHANGED <<loaded, task>>
    BY <1>3 DEF Recycle, CloseFailedPage, At, TypeOK
  <2>2. /\ CloseFailedPage => pc' = "loop"
        /\ Recycle => pc = "recycle"
        /\ \A s \in Tasks : s # task \/ Recycle => outcome'[s] = outcome[s]
    BY <1>3 DEF Recycle, CloseFailedPage, PageFinished, At, TypeOK
  <2>3. QED BY <1>3, <1>t, <2>1, <2>2, ClosePageChange DEF LoadsMarked
<1>4. ASSUME NEW w \in Windows, OpenWindow(w) PROVE LoadsMarked'
  BY <1>4 DEF OpenWindow, At, LoadsMarked
<1>5. CASE QuietStep
  <2>1. UNCHANGED <<code, loaded>>
    BY <1>5 DEF QuietStep, TakeNew, LeaveLoop, OpenFails, SetupFails, InitPageThrows, CrawlReturns,
                TimeUp, CrawlThrows
  <2>2. CASE CrawlReturns \/ TimeUp
    <3>1. pc' = "loop" /\ task' = task /\ \A s \in Tasks : s # task => outcome'[s] = outcome[s]
      BY <2>2 DEF CrawlReturns, TimeUp, PageFinished, TypeOK
    <3>2. QED BY <1>t, <2>1, <3>1 DEF LoadsMarked
  <2>3. CASE TakeNew
    BY <1>t, <2>1, <2>3 DEF TakeNew, LoadsMarked
  <2>4. CASE LeaveLoop \/ OpenFails \/ SetupFails \/ InitPageThrows \/ CrawlThrows
    BY <2>1, <2>4 DEF LeaveLoop, OpenFails, SetupFails, InitPageThrows, CrawlThrows, At, LoadsMarked
  <2>5. QED BY <1>5, <2>2, <2>3, <2>4 DEF QuietStep
<1>6. ASSUME NEW w \in Windows, WindowCrashes(w) PROVE LoadsMarked'
  BY <1>6, CrashChange DEF LoadsMarked
<1>7. CASE UNCHANGED vars
  BY <1>7 DEF vars, LoadsMarked
<1>8. QED BY <1>1, <1>2, <1>3, <1>4, <1>5, <1>6, <1>7 DEF Next, WorkerStep, QuietStep

\* The codes of earlier tasks that are at work in the worker's window overran.
LEMMA OthersOverran ==
  ASSUME IInv, WorkerPlaced, NEW s \in Tasks, NEW t \in Tasks, s # t,
         Waited(s), code[t].at \in AtWork, code[t].win = page, Usable(page)
  PROVE  Overrun(page)
BY DEF IInv, PageAccounts, WorkerPlaced, Waited, Overrun, UsedFor, AtWork

\* The code that is waited for is in the worker's window.
LEMMA WaitedPlace ==
  ASSUME IInv, WorkerPlaced, NEW s \in Tasks, Waited(s)
  PROVE  /\ code[s].win = page /\ page \in Windows
         /\ code[s].at \in {"goto", "read", "wait", "links"} => Usable(page)
BY DEF IInv, PageAccounts, WorkerPlaced, Waited, CodePlaced, TypeOK

\* A window that crashed is to blame.
LEMMA DeadBlamed ==
  ASSUME IInv, WorkerPlaced, NEW w \in Windows, window[w].state = "dead"
  PROVE  Blamed(w)
BY DEF WorkerPlaced, Blamed

\* Who listens in a window is a task of its origin.
LEMMA AccountsAllow ==
  ASSUME IInv
  PROVE  NavigationAllowed
<1> SUFFICES ASSUME NEW t \in Tasks, code[t].at = "goto"
             PROVE  Allowed(t)
  BY DEF NavigationAllowed
<1> DEFINE w == code[t].win
<1>1. w \in Windows /\ w # None /\ window[w].listener # None
  BY CodeTyped DEF IInv, PageAccounts, CodePlaced
<1>2. window[w].listener \in Tasks /\ code[window[w].listener].win = w
  BY <1>1, WindowTyped, PageAssumption DEF IInv, PageAccounts, WindowsPlaced, Tasks, None
<1>3. QED BY <1>1, <1>2 DEF IInv, PageAccounts, OneOrigin, Allowed

\* The code of a page leads to no failure of a task that it does not account for.
LEMMA CodeStepCaused ==
  ASSUME IInv, WorkerPlaced, FailuresCaused, NEW t \in Tasks, CodeStep(t)
  PROVE  FailuresCaused'
<1> USE DEF IInv, PageAccounts
<1>1. Next
  BY DEF Next
<1>2. /\ UNCHANGED <<pc, task, page, crashed, outcome, hit>> /\ code[t].at \in AtWork
      /\ \A s \in Tasks : code'[s].win = code[s].win /\ (s # t => code'[s] = code[s])
  BY CodeStepHistory, CodeStepCode
<1>3. /\ faults \subseteq faults' /\ overran \subseteq overran'
      /\ \A w \in Windows : (Overrun(w) => Overrun(w)') /\ (Blamed(w) => Blamed(w)')
  BY <1>1, HistoryGrows
<1>w. \A s \in Tasks : code[s].at # "none" => code[s].win \in Windows
  BY CodeTyped DEF CodePlaced
<1>4. ASSUME NEW s \in Tasks, Waited(s)', code'[s].at = "goto"
      PROVE  window'[page'].nav = s \/ Overrun(page)'
  <2>0. Waited(s) /\ page' = page
    BY <1>2, <1>4 DEF Waited
  <2>1. CASE s = t
    BY <1>4, <2>0, <2>1, CodeStepEnds, WaitedPlace
  <2>2. CASE s # t /\ code[t].win = page
    BY <1>2, <1>3, <1>4, <2>0, <2>2, WaitedPlace, OthersOverran
  <2>3. CASE s # t /\ code[t].win # page
    <3>1. window'[page] = window[page] /\ code'[s] = code[s] /\ page \in Windows
      BY <1>2, <2>0, <2>3, CodeStepWindows, WaitedPlace
    <3>2. QED BY <1>3, <1>4, <2>0, <3>1 DEF FailuresCaused
  <2>4. QED BY <2>1, <2>2, <2>3
<1>5. ASSUME pc' \in {"crawl", "close"}, code'[task'].at = "threw"
      PROVE  task' \in faults' \/ Blamed(page)'
  <2>0. page' = page /\ page \in Windows /\ task' = task /\ task \in Tasks
    BY <1>2, <1>5 DEF TypeOK, Counts
  <2>1. CASE task # t
    BY <1>2, <1>3, <1>5, <2>0, <2>1 DEF FailuresCaused
  <2>2. CASE task = t
    <3>1. Waited(t) /\ (t \in faults' \/ WindowFails(t))
      BY <1>5, <2>0, <2>2, CodeStepEnds
    <3>2. ASSUME WindowFails(t) PROVE Blamed(page)
      <4>1. code[t].win = page
        BY <3>1, WaitedPlace
      <4>2. CASE code[t].at = "start" /\ ~Usable(page)
        BY <2>0, <4>2, DeadBlamed DEF WorkerPlaced, Usable, Windows, None
      <4>3. CASE code[t].at = "goto" /\ window[page].nav # t
        BY <3>1, <4>3 DEF FailuresCaused, Blamed
      <4>4. CASE code[t].at = "goto" /\ ~Allowed(t)
        BY <4>4, AccountsAllow DEF NavigationAllowed
      <4>5. QED BY <3>2, <4>1, <4>2, <4>3, <4>4 DEF WindowFails
    <3>3. QED BY <1>3, <2>0, <2>2, <3>1, <3>2
  <2>3. QED BY <2>1, <2>2
<1>6. Unexplained' \subseteq Unexplained
  BY <1>2, <1>3 DEF Unexplained, Failed
<1>7. \A s \in Unexplained' : code'[s].win \notin {None, page'} /\ Blamed(code[s].win)'
  <2> TAKE s \in Unexplained'
  <2>1. s \in Unexplained /\ s \in Tasks
    BY <1>6 DEF Unexplained, Failed
  <2>2. code'[s].win = code[s].win /\ code[s].win \in Windows /\ code[s].win # page
    BY <1>2, <1>w, <2>1 DEF FailuresCaused, CodePlaced
  <2>3. Blamed(code[s].win)
    BY <2>1 DEF FailuresCaused
  <2>4. PICK w \in Windows : w = code[s].win
    BY <2>2
  <2>5. Blamed(w)'
    BY <1>3, <2>3, <2>4
  <2>6. code'[s].win = w /\ w # None
    BY <2>2, <2>4 DEF Windows, None
  <2>7. QED BY <1>2, <2>2, <2>4, <2>5, <2>6
<1>8. \A r, s \in Unexplained' : code'[r].win = code'[s].win => r = s
  BY <1>2, <1>6 DEF FailuresCaused, Unexplained, Failed
<1>9. QED BY <1>4, <1>5, <1>7, <1>8 DEF FailuresCaused

\* A step that ends no task keeps the account of the failures, if it leaves the
\* windows of those that failed to them.
LEMMA CausedKept ==
  ASSUME IInv, Next, FailuresCaused, Unexplained' \subseteq Unexplained,
         \A s \in Unexplained : code'[s].win = code[s].win /\ page' # code[s].win
  PROVE  /\ \A t \in Unexplained' : code'[t].win \notin {None, page'} /\ Blamed(code[t].win)'
         /\ \A s, t \in Unexplained' : code'[s].win = code'[t].win => s = t
<1>1. \A w \in Windows : Blamed(w) => Blamed(w)'
  BY HistoryGrows
<1>2. ASSUME NEW s \in Unexplained'
      PROVE  code'[s].win \notin {None, page'} /\ Blamed(code[s].win)'
  <2>1. s \in Unexplained /\ s \in Tasks
    BY DEF Unexplained, Failed
  <2>2. code'[s].win = code[s].win /\ code[s].win \in Windows /\ code[s].win # page'
    BY <2>1, CodeTyped DEF FailuresCaused, IInv
  <2>3. Blamed(code[s].win)
    BY <2>1 DEF FailuresCaused
  <2>4. PICK w \in Windows : w = code[s].win
    BY <2>2
  <2>5. Blamed(w)'
    BY <1>1, <2>3, <2>4
  <2>6. code'[s].win = w /\ w # None
    BY <2>2, <2>4 DEF Windows, None
  <2>7. QED BY <2>2, <2>4, <2>5, <2>6
<1>3. \A s, t \in Unexplained' : code'[s].win = code'[t].win => s = t
  BY DEF FailuresCaused
<1>4. QED BY <1>2, <1>3

\* Every step keeps the account of the failures.
LEMMA CausedStep ==
  ASSUME IInv, WorkerPlaced, LoadsMarked, FailuresCaused, [Next]_vars
  PROVE  FailuresCaused'
<1> USE DEF IInv, PageAccounts
<1>w. \A s \in Tasks : code[s].at # "none" => code[s].win \in Windows
  BY CodeTyped DEF CodePlaced
<1>u. \A s \in Unexplained : /\ s \in Tasks /\ outcome[s] = "failed" /\ code[s].win # page
                             /\ code[s].win # None /\ code[s].at # "none"
  BY DEF FailuresCaused, Unexplained, Failed, CodePlaced
<1>1. ASSUME NEW t \in Tasks, CodeStep(t) PROVE FailuresCaused'
  BY <1>1, CodeStepCaused
<1>2. CASE TakeReuse \/ SetupDone
  <2>1. Unexplained' = Unexplained /\ page' = page
    BY <1>2, StartChange DEF Unexplained, Failed
  <2>2. \A s \in Unexplained : s # task'
    BY <1>2, <1>u, StartChange
  <2>3. \A s \in Unexplained : code'[s].win = code[s].win /\ page' # code[s].win
    BY <1>2, <1>u, <2>1, <2>2, StartChange
  <2>4. Next
    BY <1>2 DEF Next, WorkerStep
  <2>5. QED BY <1>2, <2>1, <2>3, <2>4, CausedKept, StartChange DEF FailuresCaused, Waited
<1>3. CASE Recycle
  <2>1. page \in Windows /\ ClosePage /\ Unexplained' = Unexplained /\ pc' = "open"
    BY <1>3 DEF Recycle, At, TypeOK, UnchangedPages, Unexplained, Failed
  <2>2. \A s \in Unexplained : code'[s].win = code[s].win /\ page' # code[s].win
    BY <1>u, <2>1, ClosePageChange
  <2>3. Next
    BY <1>3 DEF Next, WorkerStep
  <2>4. QED BY <2>1, <2>2, <2>3, CausedKept DEF FailuresCaused, Waited
<1>4. CASE CloseFailedPage
  <2>1. /\ page \in Windows /\ page # None /\ ClosePage /\ task \in Tasks /\ pc = "close"
        /\ pc' = "loop" /\ UNCHANGED <<faults, overran, hit, loaded>> /\ PageFinished
    BY <1>4 DEF CloseFailedPage, At, TypeOK, UnchangedPages, Counts, PageFinished
  <2>2. Unexplained' \subseteq Unexplained \cup {task}
    BY <2>1 DEF PageFinished, Unexplained, Failed, TypeOK
  <2>3. task \in Unexplained' => Blamed(page)
    <3>1. task \in Unexplained' => task \notin faults
      BY <2>1 DEF Unexplained
    <3>2. CASE code[task].at = "threw"
      BY <2>1, <3>1, <3>2 DEF FailuresCaused
    <3>3. CASE crashed
      BY <2>1, <3>3, DeadBlamed DEF WorkerPlaced
    <3>4. QED BY <2>1, <3>2, <3>3 DEF WorkerPlaced
  <2>4. page' = None /\ \A s \in Tasks : code'[s].win = code[s].win
    BY <2>1, ClosePageChange
  <2>5. code[task].win = page
    BY <2>1 DEF WorkerPlaced
  <2>6. \A w \in Windows : Blamed(w) => Blamed(w)'
    BY <1>4, HistoryGrows DEF Next, WorkerStep
  <2>7. ASSUME NEW s \in Unexplained'
        PROVE  code'[s].win \notin {None, page'} /\ Blamed(code[s].win)'
    <3>1. s \in Tasks /\ code[s].win \in Windows /\ code[s].win # None /\ Blamed(code[s].win)
      BY <1>u, <1>w, <2>1, <2>2, <2>3, <2>5 DEF FailuresCaused
    <3>2. PICK w \in Windows : w = code[s].win
      BY <3>1
    <3>3. Blamed(w)'
      BY <2>6, <3>1, <3>2
    <3>4. code'[s].win = w
      BY <2>4, <3>1, <3>2
    <3>5. QED BY <2>4, <3>1, <3>2, <3>3, <3>4
  <2>8. \A r, s \in Unexplained' : code'[r].win = code'[s].win => r = s
    <3> TAKE r, s \in Unexplained'
    <3>1. r \in Tasks /\ s \in Tasks
      BY DEF Unexplained, Failed
    <3>2. QED BY <1>u, <2>2, <2>4, <2>5, <3>1 DEF FailuresCaused
  <2>9. QED BY <2>1, <2>7, <2>8 DEF FailuresCaused, Waited
<1>5. ASSUME NEW w \in Windows, OpenWindow(w) PROVE FailuresCaused'
  <2>1. Unexplained' = Unexplained /\ page' = w /\ pc' = "setup" /\ code' = code
    BY <1>5 DEF OpenWindow, UnchangedPages, Unexplained, Failed
  <2>2. \A s \in Unexplained : code[s].win # w
    BY <1>5, <1>u DEF OpenWindow, CodePlaced
  <2>3. Next
    BY <1>5 DEF Next, WorkerStep
  <2>4. QED BY <2>1, <2>2, <2>3, CausedKept DEF FailuresCaused, Waited
<1>6. CASE QuietStep
  <2>1. UNCHANGED <<page, code, window>> /\ pc' # "crawl"
    BY <1>6 DEF QuietStep, TakeNew, LeaveLoop, OpenFails, SetupFails, InitPageThrows, CrawlReturns,
                TimeUp, CrawlThrows, PageFinished, At
  <2>2. Unexplained' \subseteq Unexplained
    <3>1. CASE CrawlReturns
      <4>1. task \in Tasks /\ task \in loaded
        BY <3>1 DEF CrawlReturns, At, Counts, LoadsMarked
      <4>2. QED BY <3>1, <4>1 DEF CrawlReturns, PageFinished, UnchangedPages, Unexplained, Failed, TypeOK
    <3>2. CASE TimeUp
      BY <3>2 DEF TimeUp, PageFinished, Unexplained, Failed, TypeOK
    <3>3. CASE ~CrawlReturns /\ ~TimeUp
      BY <1>6, <3>3 DEF QuietStep, TakeNew, LeaveLoop, OpenFails, SetupFails, InitPageThrows, CrawlThrows,
                UnchangedPages, Unexplained, Failed
    <3>4. QED BY <3>1, <3>2, <3>3
  <2>3. pc' = "close" => /\ pc = "crawl" /\ task' = task /\ UNCHANGED faults
    <3>1. CASE CrawlThrows
      BY <3>1 DEF CrawlThrows, UnchangedPages, At
    <3>2. CASE ~CrawlThrows
      BY <1>6, <3>2 DEF QuietStep, TakeNew, LeaveLoop, OpenFails, SetupFails, InitPageThrows,
                        CrawlReturns, TimeUp, PageFinished, At
    <3>3. QED BY <3>1, <3>2
  <2>4. Next
    BY <1>6 DEF Next, WorkerStep, QuietStep
  <2>5. pc = "crawl" => page \in Windows
    BY DEF TypeOK
  <2>6. Blamed(page) /\ page \in Windows => Blamed(page)'
    <3> SUFFICES ASSUME Blamed(page), page \in Windows PROVE Blamed(page)'
      OBVIOUS
    <3>1. PICK w \in Windows : w = page /\ w = page'
      BY <2>1
    <3>2. Blamed(w)'
      BY <2>4, <3>1, HistoryGrows
    <3>3. QED BY <3>1, <3>2
  <2>7. pc' \in {"crawl", "close"} /\ code'[task'].at = "threw" => task' \in faults' \/ Blamed(page)'
    BY <2>1, <2>3, <2>5, <2>6 DEF FailuresCaused
  <2>8. \A s \in Unexplained : code'[s].win = code[s].win /\ page' # code[s].win
    BY <1>u, <2>1
  <2>9. QED BY <2>1, <2>2, <2>4, <2>7, <2>8, CausedKept DEF FailuresCaused, Waited
<1>7. ASSUME NEW w \in Windows, WindowCrashes(w) PROVE FailuresCaused'
  <2>1. Unexplained' = Unexplained /\ page' = page /\ pc' = pc /\ task' = task
    BY <1>7, CrashChange DEF Unexplained, Failed
  <2>2. \A s \in Unexplained : code'[s].win = code[s].win /\ page' # code[s].win
    BY <1>7, <1>u, <2>1, CrashChange
  <2>3. Next
    BY <1>7 DEF Next
  <2>4. \A s \in Tasks : Waited(s)' /\ code'[s].at = "goto" => window'[page'].nav = s \/ Overrun(page)'
    <3> SUFFICES ASSUME NEW s \in Tasks, Waited(s), code'[s].at = "goto"
                 PROVE  window'[page].nav = s \/ Overrun(page)'
      BY <2>1 DEF Waited
    <3>1. code'[s] = code[s] /\ code[s].win # w /\ code[s].win = page /\ page \in Windows
      BY <1>7, CrashChange, WaitedPlace DEF AtWork
    <3>2. window'[page] = window[page]
      BY <1>7, <3>1, CrashChange
    <3>3. PICK x \in Windows : x = page /\ x = page'
      BY <2>1, <3>1
    <3>4. Overrun(x) => Overrun(x)'
      BY <2>3, HistoryGrows
    <3>5. QED BY <3>1, <3>2, <3>3, <3>4 DEF FailuresCaused
  <2>5. pc' \in {"crawl", "close"} /\ code'[task'].at = "threw" => task' \in faults' \/ Blamed(page)'
    <3> SUFFICES ASSUME pc \in {"crawl", "close"}, code'[task].at = "threw"
                 PROVE  task \in faults' \/ Blamed(page)'
      BY <2>1
    <3>1. code'[task] = code[task] /\ page \in Windows /\ task \in Tasks
      BY <1>7, CrashChange DEF Counts, TypeOK
    <3>2. PICK x \in Windows : x = page /\ x = page'
      BY <2>1, <3>1
    <3>3. Blamed(x) => Blamed(x)'
      BY <2>3, HistoryGrows
    <3>4. faults' = faults
      BY <1>7, CrashChange
    <3>5. QED BY <3>1, <3>2, <3>3, <3>4 DEF FailuresCaused
  <2>6. QED BY <2>1, <2>2, <2>3, <2>4, <2>5, CausedKept DEF FailuresCaused
<1>8. CASE UNCHANGED vars
  BY <1>8 DEF vars, FailuresCaused, Waited, Unexplained, Failed, Blamed, Overrun, UsedFor
<1>9. QED BY <1>1, <1>2, <1>3, <1>4, <1>5, <1>6, <1>7, <1>8 DEF Next, WorkerStep, QuietStep

\* Next to code that is waited for, in an open window where none overran, no other
\* code changes the window.
LEMMA CodeStepElsewhere ==
  ASSUME IInv, WorkerPlaced, NEW t \in Tasks, CodeStep(t), NEW s \in Tasks, s # t,
         Waited(s), Usable(page), ~Overrun(page)
  PROVE  window'[page] = window[page] /\ code'[s] = code[s]
<1>1. code[t].at \in AtWork
  BY CodeStepHistory DEF IInv, PageAccounts
<1>2. code[t].win # page /\ page \in Windows
  BY <1>1, OthersOverran, WaitedPlace
<1>3. QED BY <1>2, CodeStepCode, CodeStepWindows DEF IInv, PageAccounts

\* What the code of a page finds in its window, and queues of it.
LEMMA CodeStepLinks ==
  ASSUME IInv, WorkerPlaced, LoadsMarked, LinksPlaced, NEW t \in Tasks, CodeStep(t)
  PROVE  LinksPlaced'
<1> USE DEF IInv, PageAccounts
<1>1. Next
  BY DEF Next
<1>2. /\ UNCHANGED <<pc, task, page, crashed, outcome, hit>> /\ code[t].at \in AtWork
      /\ \A s \in Tasks : code'[s].win = code[s].win /\ (s # t => code'[s] = code[s])
      /\ found \subseteq found'
  BY CodeStepHistory, CodeStepCode
<1>3. \A w \in Windows : Overrun(w) => Overrun(w)'
  BY <1>1, HistoryGrows
<1>w. code[t].win \in Windows
  BY <1>2, CodeTyped DEF CodePlaced, AtWork
<1>4. ASSUME NEW s \in Tasks, Waited(s)', ~Overrun(page)'
      PROVE  /\ code'[s].at \in {"read", "wait", "links"} => window'[page'].doc = s
             /\ code'[s].at = "links" => code'[s].from = s /\ window'[page'].addLink = s
             /\ code'[s].at = "done" => <<s, s>> \in found'
  <2>0. Waited(s) /\ page' = page /\ page \in Windows /\ code[s].win = page
    BY <1>2, <1>4, WaitedPlace DEF Waited
  <2>o. ~Overrun(page)
    <3>1. PICK x \in Windows : x = page /\ x = page'
      BY <2>0
    <3>2. QED BY <1>3, <1>4, <3>1
  <2>1. CASE s = t
    <3>1. code'[s].at = "read" => window'[page].doc = s
      BY <2>0, <2>1, CodeStepCode
    <3>2. code'[s].at \in {"wait", "links"} => window[page].doc = s
      BY <2>0, <2>1, <2>o, CodeStepCode DEF LinksPlaced
    <3>3. code'[s].at \in {"wait", "links"} => window'[page].doc = s
      BY <2>0, <2>1, <3>2, CodeStepWindows
    <3>4. code'[s].at = "links" => code'[s].from = s /\ window'[page].addLink = s
      BY <2>0, <2>1, <3>2, CodeStepCode
    <3>5. code'[s].at = "done" => <<s, s>> \in found'
      <4> SUFFICES ASSUME code'[s].at = "done" PROVE <<s, s>> \in found'
        OBVIOUS
      <4>1. code[s].at = "links"
        BY <2>1, CodeStepHistory
      <4>2. window[page].doc = s /\ code[s].from = s /\ window[page].addLink = s
        BY <2>0, <2>o, <4>1 DEF LinksPlaced
      <4>3. CASE LinksArrive(s)
        BY <2>0, <4>2, <4>3 DEF LinksArrive
      <4>4. s \notin overran'
        <5>1. PICK x \in Windows : x = page /\ x = page'
          BY <2>0
        <5>2. code'[s].win = x /\ code'[s].at # "none"
          BY <1>2, <2>0, <5>1
        <5>3. ~Overrun(x)'
          BY <1>4, <5>1
        <5>4. QED BY <5>2, <5>3 DEF Overrun, UsedFor
      <4>5. ~LinksFail(s)
        BY <2>0, <4>2 DEF LinksFail
      <4>6. QED BY <2>1, <4>3, <4>4, <4>5, CodeStepEnds
    <3>6. QED BY <2>0, <3>1, <3>3, <3>4, <3>5
  <2>2. CASE s # t
    <3>1. code'[s] = code[s]
      BY <1>2, <2>2
    <3>2. code[s].at \in {"read", "wait", "links"} => window'[page] = window[page]
      BY <2>0, <2>o, <2>2, CodeStepElsewhere, WaitedPlace
    <3>3. QED BY <1>2, <2>0, <2>o, <3>1, <3>2 DEF LinksPlaced
  <2>3. QED BY <2>1, <2>2
<1>5. ASSUME pc' \in {"crawl", "close"}, crashed', task' \in loaded'
      PROVE  <<page', task'>> \in hit'
  <2>1. task \in Tasks /\ page \in Windows /\ page # None /\ window[page].state = "dead"
    BY <1>2, <1>5 DEF Counts, TypeOK, WorkerPlaced
  <2>2. task = t => code'[t].at # "wait"
    <3>1. code[task].at = "read" => Usable(code[task].win)
      BY <2>1 DEF CodePlaced
    <3>2. code[task].win = page
      BY <1>2, <1>5 DEF WorkerPlaced
    <3>3. code[task].at # "read"
      BY <2>1, <3>1, <3>2 DEF Usable
    <3>4. QED BY <3>3, CodeStepCode
  <2>3. task \in loaded
    BY <1>2, <1>5, <2>2, CodeStepHistory
  <2>4. QED BY <1>2, <1>5, <2>3 DEF LinksPlaced
<1>6. \A w \in Windows : window'[w].addLink # None => code'[window'[w].addLink].win = w
  <2> SUFFICES ASSUME NEW w \in Windows, window'[w].addLink # None
               PROVE  code[window'[w].addLink].win = w /\ window'[w].addLink \in Tasks
    BY <1>2
  <2>1. window[w].addLink # None => window[w].addLink \in Tasks
    BY WindowTyped, PageAssumption DEF Tasks, None
  <2>2. window'[w].addLink = window[w].addLink \/ (window'[w].addLink = t /\ w = code[t].win)
    BY CodeStepWindows
  <2>3. QED BY <2>1, <2>2 DEF LinksPlaced
<1>7. \A s \in Tasks : code'[s].at = "links" => code'[code'[s].from].win = code'[s].win
  <2> SUFFICES ASSUME NEW s \in Tasks, code'[s].at = "links"
               PROVE  code[code'[s].from].win = code[s].win /\ code'[s].from \in Tasks
    BY <1>2
  <2>1. CASE s # t
    <3>1. code'[s] = code[s]
      BY <1>2, <2>1
    <3>2. code[s].from \in Tasks
      BY <3>1, CodeTyped, PageAssumption DEF CodePlaced, Tasks, None
    <3>3. QED BY <3>1, <3>2 DEF LinksPlaced
  <2>2. CASE s = t
    <3>1. code[t].at = "wait" /\ code'[t].from = window[code[t].win].doc
      BY <2>2, CodeStepCode
    <3>2. window[code[t].win].doc # None
      BY <3>1 DEF CodePlaced
    <3>3. window[code[t].win].doc \in Tasks
      BY <1>w, <3>2, WindowTyped, PageAssumption DEF Tasks, None
    <3>4. QED BY <1>w, <2>2, <3>1, <3>2, <3>3 DEF WindowsPlaced
  <2>3. QED BY <2>1, <2>2
<1>8. QED BY <1>4, <1>5, <1>6, <1>7 DEF LinksPlaced

\* Codes that are over, or as they were, in windows that are gone, or as they were.
LEMMA LinksKept ==
  ASSUME IInv, LinksPlaced, NEW v \in Windows,
         \A s \in Tasks : /\ code'[s].win = code[s].win
                          /\ code'[s].at = "links" => code'[s] = code[s],
         \A w \in Windows : w # v => window'[w] = window[w],
         window'[v] = window[v] \/ window'[v].addLink = None
  PROVE  /\ \A w \in Windows : window'[w].addLink # None => code'[window'[w].addLink].win = w
         /\ \A t \in Tasks : code'[t].at = "links" => code'[code'[t].from].win = code'[t].win
<1> USE DEF IInv, PageAccounts
<1>1. ASSUME NEW w \in Windows, window'[w].addLink # None
      PROVE  code'[window'[w].addLink].win = w
  <2>1. window'[w] = window[w]
    BY <1>1
  <2>2. window[w].addLink \in Tasks
    BY <1>1, <2>1, WindowTyped, PageAssumption DEF Tasks, None
  <2>3. QED BY <1>1, <2>1, <2>2 DEF LinksPlaced
<1>2. ASSUME NEW t \in Tasks, code'[t].at = "links"
      PROVE  code'[code'[t].from].win = code'[t].win
  <2>1. code'[t] = code[t]
    BY <1>2
  <2>2. code[t].from \in Tasks
    BY <1>2, <2>1, CodeTyped, PageAssumption DEF CodePlaced, Tasks, None
  <2>3. QED BY <1>2, <2>1, <2>2 DEF LinksPlaced
<1>3. QED BY <1>1, <1>2

\* Every step keeps what windows show and answer to in line with their codes.
LEMMA LinksStep ==
  ASSUME IInv, WorkerPlaced, LoadsMarked, LinksPlaced, [Next]_vars
  PROVE  LinksPlaced'
<1> USE DEF IInv, PageAccounts
<1>1. ASSUME NEW t \in Tasks, CodeStep(t) PROVE LinksPlaced'
  BY <1>1, CodeStepLinks
<1>2. CASE TakeReuse \/ SetupDone
  <2>1. \A s \in Tasks : Waited(s)' => code'[s].at = "start"
    BY <1>2, StartChange DEF Waited
  <2>2. task' \notin loaded'
    BY <1>2, StartChange DEF LoadsMarked
  <2>3. ASSUME NEW w \in Windows, window'[w].addLink # None
        PROVE  code'[window'[w].addLink].win = w
    <3>1. window'[w] = window[w] /\ window[w].addLink \in Tasks
      BY <1>2, <2>3, StartChange, WindowTyped, PageAssumption DEF Tasks, None
    <3>2. code[window[w].addLink].win = w /\ w # None
      BY <2>3, <3>1 DEF LinksPlaced, Windows, None
    <3>3. QED BY <1>2, <3>1, <3>2, StartChange
  <2>4. ASSUME NEW s \in Tasks, code'[s].at = "links"
        PROVE  code'[code'[s].from].win = code'[s].win
    <3>1. code'[s] = code[s]
      BY <1>2, <2>4, StartChange
    <3>2. code[s].from \in Tasks /\ code[s].win # None
      BY <2>4, <3>1, CodeTyped, PageAssumption DEF CodePlaced, Tasks, None
    <3>3. code[code[s].from].win = code[s].win
      BY <2>4, <3>1 DEF LinksPlaced
    <3>4. QED BY <1>2, <3>1, <3>2, <3>3, StartChange
  <2>5. QED BY <2>1, <2>2, <2>3, <2>4 DEF LinksPlaced
<1>3. CASE Recycle \/ CloseFailedPage
  <2>1. page \in Windows /\ ClosePage /\ pc' \in {"open", "loop"}
    BY <1>3 DEF Recycle, CloseFailedPage, PageFinished, At, TypeOK
  <2>2. /\ \A s \in Tasks : /\ code'[s].win = code[s].win
                            /\ code'[s].at = "links" => code'[s] = code[s]
        /\ \A w \in Windows : w # page => window'[w] = window[w]
        /\ window'[page] = window[page] \/ window'[page].addLink = None
    BY <2>1, ClosePageChange
  <2>3. QED BY <2>1, <2>2, LinksKept DEF LinksPlaced, Waited
<1>4. ASSUME NEW w \in Windows, OpenWindow(w) PROVE LinksPlaced'
  <2>1. /\ code' = code /\ pc' = "setup"
        /\ \A x \in Windows : x # w => window'[x] = window[x]
        /\ window'[w].addLink = None
    BY <1>4 DEF OpenWindow, NewWindow, TypeOK
  <2>2. QED BY <2>1, LinksKept DEF LinksPlaced, Waited
<1>5. CASE QuietStep
  <2>1. UNCHANGED <<page, code, window, crashed, loaded, hit>> /\ pc' # "crawl"
    BY <1>5 DEF QuietStep, TakeNew, LeaveLoop, OpenFails, SetupFails, InitPageThrows, CrawlReturns,
                TimeUp, CrawlThrows, PageFinished, UnchangedPages, At
  <2>2. pc' = "close" => pc = "crawl" /\ task' = task
    BY <1>5 DEF QuietStep, TakeNew, LeaveLoop, OpenFails, SetupFails, InitPageThrows, CrawlReturns,
                TimeUp, CrawlThrows, PageFinished, At
  <2>3. QED BY <2>1, <2>2 DEF LinksPlaced, Waited
<1>6. ASSUME NEW w \in Windows, WindowCrashes(w) PROVE LinksPlaced'
  <2>1. /\ UNCHANGED <<pc, task, page, loaded, found>> /\ hit \subseteq hit'
        /\ \A s \in Tasks : /\ code'[s].win = code[s].win
                            /\ code'[s].at = "links" => code'[s] = code[s]
        /\ \A x \in Windows : x # w => window'[x] = window[x]
        /\ window'[w].addLink = None
    BY <1>6, CrashChange DEF AtWork
  <2>2. ASSUME NEW s \in Tasks, Waited(s)', ~Overrun(page)'
        PROVE  /\ code'[s].at \in {"read", "wait", "links"} => window'[page'].doc = s
               /\ code'[s].at = "links" => code'[s].from = s /\ window'[page'].addLink = s
               /\ code'[s].at = "done" => <<s, s>> \in found'
    <3>1. Waited(s) /\ code[s].win = page /\ page \in Windows
      BY <2>1, <2>2, WaitedPlace DEF Waited
    <3>2. ~Overrun(page)
      <4>1. PICK x \in Windows : x = page /\ x = page'
        BY <2>1, <3>1
      <4>2. QED BY <1>6, <2>2, <4>1, HistoryGrows DEF Next
    <3>3. code'[s].at \in {"read", "wait", "links"} =>
            code'[s] = code[s] /\ window'[page] = window[page]
      BY <1>6, <2>1, <3>1, CrashChange DEF AtWork
    <3>4. code'[s].at = "done" => code'[s] = code[s]
      BY <1>6, CrashChange
    <3>5. QED BY <2>1, <3>1, <3>2, <3>3, <3>4 DEF LinksPlaced
  <2>3. ASSUME pc' \in {"crawl", "close"}, crashed', task' \in loaded'
        PROVE  <<page', task'>> \in hit'
    <3>1. task \in Tasks /\ page \in Windows /\ page # None /\ task \in loaded /\ pc \in {"crawl", "close"}
      BY <2>1, <2>3 DEF Counts, TypeOK
    <3>2. CASE w # page
      <4>1. crashed
        BY <1>6, <2>3, <3>2, CrashChange
      <4>2. QED BY <2>1, <3>1, <4>1 DEF LinksPlaced
    <3>3. CASE w = page /\ pc = "crawl"
      BY <1>6, <2>1, <3>3, CrashChange
    <3>4. CASE w = page /\ pc = "close"
      <4>1. ~crashed
        BY <1>6, <3>1, <3>4, CrashChange DEF WorkerPlaced
      <4>2. code[task].at = "threw"
        BY <3>4, <4>1 DEF WorkerPlaced
      <4>3. QED BY <3>1, <4>2 DEF LoadsMarked
    <3>5. QED BY <3>1, <3>2, <3>3, <3>4
  <2>4. QED BY <2>1, <2>2, <2>3, LinksKept DEF LinksPlaced
<1>7. CASE UNCHANGED vars
  BY <1>7 DEF vars, LinksPlaced, Waited, Overrun, UsedFor
<1>8. QED BY <1>1, <1>2, <1>3, <1>4, <1>5, <1>6, <1>7 DEF Next, WorkerStep, QuietStep

\* A task that started stays in the window it was started in.
LEMMA WinKept ==
  ASSUME IInv, Next, ~TakeReuse, ~SetupDone, NEW s \in Tasks
  PROVE  code'[s].win = code[s].win
<1> USE DEF IInv, PageAccounts
<1>1. CASE UNCHANGED code
  BY <1>1
<1>2. CASE \E x \in Windows : EndCode(x)
  BY <1>2, EndCodeChange
<1>3. ASSUME NEW t \in Tasks, CodeStep(t) PROVE code'[s].win = code[s].win
  BY <1>3, CodeStepCode
<1>4. CASE Recycle \/ CloseFailedPage
  <2>1. page \in Windows
    BY <1>4 DEF Recycle, CloseFailedPage, At, TypeOK
  <2>2. QED BY <1>1, <1>2, <1>4, <2>1 DEF Recycle, CloseFailedPage, ClosePage
<1>5. QED
  BY <1>1, <1>2, <1>3, <1>4
     DEF Next, WorkerStep, WindowCrashes, TakeNew, LeaveLoop, OpenWindow, OpenFails, SetupFails,
         InitPageThrows, CrawlReturns, TimeUp, CrawlThrows

\* Links that are queued as another page's are so in a window where one overran.
LEMMA ForeignLinks ==
  ASSUME IInv, WorkerPlaced, LinksPlaced, NEW t \in Tasks, LinksArrive(t),
         code[t].from # window[code[t].win].addLink
  PROVE  \E w \in Windows :
           {code[t].from, window[code[t].win].addLink} \subseteq UsedFor(w) /\ Overrun(w)
<1> USE DEF IInv, PageAccounts
<1> DEFINE w == code[t].win
<1>1. code[t].at = "links" /\ w \in Windows /\ w # None /\ Usable(w)
  BY CodeTyped DEF LinksArrive, CodeAt, CodePlaced
<1>2. code[t].from \in Tasks /\ window[w].addLink \in Tasks
  BY <1>1, CodeTyped, WindowTyped, PageAssumption DEF CodePlaced, Tasks, None
<1>3. code[code[t].from].win = w /\ code[window[w].addLink].win = w
  BY <1>1, <1>2 DEF LinksPlaced, Tasks, None
<1>4. {code[t].from, window[w].addLink} \subseteq UsedFor(w)
  BY <1>1, <1>2, <1>3 DEF UsedFor, CodePlaced
<1>5. Overrun(w)
  <2>1. CASE Waited(t)
    BY <1>1, <2>1, WaitedPlace DEF LinksPlaced
  <2>2. CASE ~Waited(t)
    BY <1>1, <2>2 DEF WorkerPlaced, AtWork, Overrun, UsedFor
  <2>3. QED BY <2>1, <2>2
<1>6. QED BY <1>1, <1>4, <1>5

\* Tasks end with their own links queued, unless one overran or their window crashed.
LEMMA OwnedStep ==
  ASSUME IInv, WorkerPlaced, LoadsMarked, LinksPlaced, LinksOwned, [Next]_vars
  PROVE  LinksOwned'
<1> USE DEF IInv, PageAccounts
<1>1. CASE UNCHANGED vars
  BY <1>1 DEF vars, LinksOwned, Overrun, UsedFor
<1>2. CASE Next
  <2>1. /\ found \subseteq found' /\ hit \subseteq hit'
        /\ \A w \in Windows : UsedFor(w) \subseteq UsedFor(w)' /\ (Overrun(w) => Overrun(w)')
    BY <1>2, HistoryGrows
  <2>2. ASSUME NEW t \in Tasks, outcome'[t] = "finished", ~Overrun(code[t].win)',
               <<code'[t].win, t>> \notin hit'
        PROVE  <<t, t>> \in found'
    <3>1. CASE outcome[t] = "finished"
      <4>1. code'[t].win = code[t].win
        <5>1. CASE TakeReuse \/ SetupDone
          BY <3>1, <5>1, StartChange DEF LoadsMarked
        <5>2. CASE ~TakeReuse /\ ~SetupDone
          BY <1>2, <5>2, WinKept
        <5>3. QED BY <5>1, <5>2
      <4>2. ~Overrun(code[t].win)
        <5>1. PICK w \in Windows \cup {None} : w = code[t].win /\ w = code'[t].win
          BY <4>1, CodeTyped
        <5>2. ~Overrun(w)'
          BY <2>2, <5>1
        <5>3. CASE w \in Windows
          BY <2>1, <5>1, <5>2, <5>3
        <5>4. CASE w = None
          BY <5>1, <5>4 DEF Overrun, UsedFor, CodePlaced
        <5>5. QED BY <5>1, <5>3, <5>4
      <4>3. QED BY <2>1, <2>2, <3>1, <4>1, <4>2 DEF LinksOwned
    <3>2. CASE outcome[t] # "finished"
      <4>1. CrawlReturns \/ TimeUp \/ CloseFailedPage
        BY <1>2, <2>2, <3>2
           DEF Next, WorkerStep, CodeStep, WindowCrashes, TakeReuse, TakeNew, LeaveLoop, Recycle,
               OpenWindow, OpenFails, SetupFails, SetupDone, InitPageThrows, CrawlThrows,
               StartGoto, GotoReturns, WindowFails, PageFails, PreExtractLinks, StartLinks,
               LinksArrive, LinksFail, LinksTimeOut, WorkerUnchanged
      <4>2. t = task /\ t \in loaded /\ pc \in {"crawl", "close"}
        BY <2>2, <3>2, <4>1 DEF CrawlReturns, TimeUp, CloseFailedPage, PageFinished, At, TypeOK
      <4>3. page \in Windows /\ code[t].win = page /\ code[t].at # "none" /\ page # None
        BY <4>2 DEF WorkerPlaced, TypeOK, CodePlaced
      <4>4. code'[t].win = page
        BY <1>2, <4>1, <4>3, WinKept DEF CrawlReturns, TimeUp, CloseFailedPage, TakeReuse, SetupDone, At
      <4>5. PICK w \in Windows : w = page /\ w = code[t].win /\ w = code'[t].win
        BY <4>3, <4>4
      <4>6. ~Overrun(w)' /\ ~Overrun(w)
        BY <2>1, <2>2, <4>5
      <4>7. CASE CrawlReturns
        BY <2>1, <4>2, <4>5, <4>6, <4>7 DEF CrawlReturns, At, Waited, LinksPlaced
      <4>8. CASE TimeUp
        <5>1. t \in overran' /\ code'[t] = code[t]
          BY <4>2, <4>8 DEF TimeUp
        <5>2. QED BY <4>3, <4>5, <4>6, <5>1 DEF Overrun, UsedFor
      <4>9. CASE CloseFailedPage
        <5>1. pc = "close"
          BY <4>9 DEF CloseFailedPage, At
        <5>2. crashed
          BY <4>2, <5>1 DEF WorkerPlaced, LoadsMarked
        <5>3. <<page, task>> \in hit
          BY <4>2, <5>1, <5>2 DEF LinksPlaced
        <5>4. QED BY <2>1, <2>2, <4>2, <4>4, <5>3
      <4>10. QED BY <4>1, <4>7, <4>8, <4>9
    <3>3. QED BY <3>1, <3>2
  <2>3. ASSUME NEW l \in found', l[1] # l[2]
        PROVE  \E w \in Windows : {l[1], l[2]} \subseteq UsedFor(w)' /\ Overrun(w)'
    <3>1. CASE l \in found
      BY <2>1, <2>3, <3>1 DEF LinksOwned
    <3>2. CASE l \notin found
      <4>1. PICK t \in Tasks : LinksArrive(t)
        BY <1>2, <2>3, <3>2
           DEF Next, WorkerStep, CodeStep, WindowCrashes, TakeReuse, TakeNew, LeaveLoop, Recycle,
               OpenWindow, OpenFails, SetupFails, SetupDone, InitPageThrows, CrawlReturns, TimeUp,
               CrawlThrows, CloseFailedPage, UnchangedPages, StartGoto, GotoReturns, WindowFails,
               PageFails, PreExtractLinks, StartLinks, LinksFail, LinksTimeOut
      <4>2. l = <<code[t].from, window[code[t].win].addLink>>
        BY <2>3, <3>2, <4>1 DEF LinksArrive
      <4>3. l[1] = code[t].from /\ l[2] = window[code[t].win].addLink
        BY <4>2
      <4>4. PICK w \in Windows : {l[1], l[2]} \subseteq UsedFor(w) /\ Overrun(w)
        BY <2>3, <4>1, <4>3, ForeignLinks
      <4>5. QED BY <2>1, <4>4
    <3>3. QED BY <3>1, <3>2
  <2>4. QED BY <2>2, <2>3 DEF LinksOwned
<1>3. QED BY <1>1, <1>2

\* There are no more failures without a cause of their own than windows to blame,
\* and no more of these than crashes and overruns.
LEMMA FailuresCounted ==
  ASSUME IInv, FailuresCaused
  PROVE  FailureHasCause
<1> USE DEF IInv
<1> DEFINE Crashed(t) == \E h \in hit : h[1] = code[t].win
           A == {t \in Unexplained : Crashed(t)}
           B == {t \in Unexplained : ~Crashed(t)}
<1>1. IsFiniteSet(hit) /\ IsFiniteSet(overran)
  <2>1. IsFiniteSet(Windows) /\ IsFiniteSet(0 .. MaxTasks) /\ IsFiniteSet(Tasks)
    BY PageAssumption, FS_Interval DEF Windows, Tasks
  <2>2. IsFiniteSet(Windows \X (0 .. MaxTasks))
    BY <2>1, FS_Product
  <2>3. QED BY <2>1, <2>2, FS_Subset DEF TypeOK
<1>2. IsFiniteSet(A) /\ Cardinality(A) <= Cardinality(hit)
  <2> DEFINE f == [t \in A |-> CHOOSE h \in hit : h[1] = code[t].win]
  <2>1. \A t \in A : f[t] \in hit /\ f[t][1] = code[t].win
    OBVIOUS
  <2>2. \A s, t \in A : f[s] = f[t] => s = t
    BY <2>1 DEF FailuresCaused
  <2>3. f \in Injection(A, hit)
    BY <2>1, <2>2 DEF Injection, IsInjective
  <2>4. QED BY <1>1, <2>3, FS_Injection
<1>3. IsFiniteSet(B) /\ Cardinality(B) <= Cardinality(overran)
  <2> DEFINE f == [t \in B |-> CHOOSE s \in overran : s \in UsedFor(code[t].win)]
  <2>1. \A t \in B : f[t] \in overran /\ code[f[t]].win = code[t].win
    <3> SUFFICES ASSUME NEW t \in B
                 PROVE  f[t] \in overran /\ code[f[t]].win = code[t].win
      OBVIOUS
    <3>1. \E s \in overran : s \in UsedFor(code[t].win)
      BY DEF FailuresCaused, Blamed, Overrun
    <3>2. f[t] \in overran /\ f[t] \in UsedFor(code[t].win)
      BY <3>1
    <3>3. QED BY <3>2 DEF UsedFor
  <2>2. \A s, t \in B : f[s] = f[t] => s = t
    BY <2>1 DEF FailuresCaused
  <2>3. f \in Injection(B, overran)
    BY <2>1, <2>2 DEF Injection, IsInjective
  <2>4. QED BY <1>1, <2>3, FS_Injection
<1>4. Unexplained = A \cup B /\ A \cap B = {}
  OBVIOUS
<1> HIDE DEF A, B
<1>5. Cardinality(Unexplained) = Cardinality(A) + Cardinality(B)
  <2>1. /\ Cardinality(A) \in Nat /\ Cardinality(B) \in Nat
        /\ Cardinality(A \cap B) = 0
    BY <1>2, <1>3, <1>4, FS_CardinalityType, FS_EmptySet
  <2>2. Cardinality(A \cup B) = Cardinality(A) + Cardinality(B) - Cardinality(A \cap B)
    BY <1>2, <1>3, FS_Union
  <2>3. Cardinality(A \cup B) = Cardinality(A) + Cardinality(B)
    BY <2>1, <2>2, SMT
  <2>4. QED BY <1>4, <2>3, Zenon
<1>6. /\ Cardinality(A) \in Nat /\ Cardinality(B) \in Nat
      /\ Cardinality(hit) \in Nat /\ Cardinality(overran) \in Nat
  BY <1>1, <1>2, <1>3, FS_CardinalityType
<1>7. Cardinality(Unexplained) <= Cardinality(hit) + Cardinality(overran)
  BY <1>2, <1>3, <1>5, <1>6
<1>8. QED BY <1>7 DEF FailureHasCause, Unexplained

\* At first nothing has happened.
LEMMA HistoryInit ==
  ASSUME Init
  PROVE  WorkerPlaced /\ LoadsMarked /\ FailuresCaused /\ LinksPlaced /\ LinksOwned
<1> USE DEF Init
<1>1. WorkerPlaced
  BY DEF WorkerPlaced, NoWindow, NewWindow, AtWork
<1>2. LoadsMarked
  BY DEF LoadsMarked
<1>3. FailuresCaused
  BY DEF FailuresCaused, Waited, Unexplained, Failed
<1>4. LinksPlaced
  BY DEF LinksPlaced, Waited, NoWindow, NewWindow
<1>5. LinksOwned
  BY DEF LinksOwned
<1>6. QED BY <1>1, <1>2, <1>3, <1>4, <1>5

---------------------------------------------------------------------------
(* Theorems.                                                               *)

\* Whatever crashes, overruns or fails to open or close: each window serves one
\* origin, and what it shows and who listens there are tasks of its own.
THEOREM PageAccountsHold == Spec => [](TypeOK /\ PageAccounts)
<1>1. Init => IInv
  BY AccountsInit
<1>2. IInv /\ [Next]_vars => IInv'
  BY AccountsStep
<1>3. QED BY <1>1, <1>2, PTL DEF Spec, IInv

\* The request listeners that earlier pages left on a window (DataCrawler.crawlPage)
\* never stop the navigation of a later page.
THEOREM PageNavigates == Spec => []NavigationAllowed
<1>1. IInv => NavigationAllowed
  BY AccountsAllow
<1>2. QED BY <1>1, PageAccountsHold, PTL DEF IInv

\* No window is used for more than MAX_REUSE pages, though initPage and
\* markPageUsed count in different places.
THEOREM UsesAreBounded == Spec => []UsesBounded
<1>1. Init => IInv /\ UsesCounted
  BY AccountsInit, UsesInit
<1>2. IInv /\ UsesCounted /\ [Next]_vars => (IInv /\ UsesCounted)'
  BY AccountsStep, UsesStep
<1>3. UsesCounted => UsesBounded
  BY DEF UsesCounted, UsesBounded
<1>4. QED BY <1>1, <1>2, <1>3, PTL DEF Spec

\* A task fails with no fault of its page and in time only where a window crashed
\* or the code of an earlier page went on in it, and each of these is paid once:
\* the worker leaves the window with the first failure (crawlPage's exceptions,
\* crashBreak and closePage; pageFinished looks at data.loadState only).
THEOREM FailuresHaveCauses == Spec => []FailureHasCause
<1> DEFINE Inv == IInv /\ WorkerPlaced /\ LoadsMarked /\ FailuresCaused
<1>1. Init => Inv
  BY AccountsInit, HistoryInit
<1>2. Inv /\ [Next]_vars => Inv'
  BY AccountsStep, PlacedStep, LoadsStep, CausedStep
<1>3. Inv => FailureHasCause
  BY FailuresCounted
<1>4. QED BY <1>1, <1>2, <1>3, PTL DEF Spec

\* Each page that ends with its load has queued the links of its own document as
\* its own, and only pages of a window that one overran in can be confused, though
\* the document and callbacks.addLink are the window's (extractLinks, addLink).
THEOREM LinksAreOwned == Spec => []LinksOwned
<1> DEFINE Inv == IInv /\ WorkerPlaced /\ LoadsMarked /\ LinksPlaced /\ LinksOwned
<1>1. Init => Inv
  BY AccountsInit, HistoryInit
<1>2. Inv /\ [Next]_vars => Inv'
  BY AccountsStep, PlacedStep, LoadsStep, LinksStep, OwnedStep
<1>3. Inv => LinksOwned
  OBVIOUS
<1>4. QED BY <1>1, <1>2, <1>3, PTL DEF Spec

---------------------------------------------------------------------------
(* What the windows request, and what of it reaches the archive: module    *)
(* Resources, whose specification is AssetsSpec.                           *)

\* Types.
RequestTypes == {"none", "sent", "answered", "stopped", "hangs"}
CollectTypes == [pc : {"none", "evaluate", "css", "files"}, css : SUBSET Urls]

\* The constants, and what is made of them, have their types.
LEMMA AssetConstants ==
  /\ Pages \subseteq Nat /\ Own \subseteq Urls
  /\ Nothing \notin Urls \cup {"dir"}
  /\ PathOf \in [Urls -> Paths] /\ DirOf \in [Paths -> Paths \cup {Nothing}]
  /\ \A u \in Urls : Links[u] \subseteq Urls /\ Served(u) \in Urls
  /\ \A p \in Pages : Home[p] \in Own /\ Home[p] \in Urls /\ Doc(p) \in Urls
<1>1. \A u \in Urls : Links[u] \subseteq Urls /\ Served(u) \in Urls
  BY ResourcesAssumption DEF Served
<1>2. \A p \in Pages : Home[p] \in Own /\ Home[p] \in Urls
  BY ResourcesAssumption
<1>3. \A p \in Pages : Doc(p) \in Urls
  BY <1>1, <1>2 DEF Doc
<1>4. QED BY <1>1, <1>2, <1>3, ResourcesAssumption

AssetTypes ==
  /\ resources \in [Urls -> Urls \cup {"absent", "missing"}]
  /\ request \in [Pages -> [Urls -> RequestTypes]]
  /\ collect \in [Pages -> CollectTypes]
  /\ jobs \subseteq [page : Pages, url : Urls, body : Urls, main : BOOLEAN,
                     pc : {"get", "write"}]
  /\ file \in [Paths -> Urls \cup {"dir", Nothing}]
  /\ wanted \in [Pages -> SUBSET Urls]
  /\ failed \subseteq Urls

\* They are what AssetsTypeOK says.
LEMMA AssetTypesHold == ASSUME AssetsTypeOK PROVE AssetTypes
<1>1. resources \in [Urls -> Urls \cup {"absent", "missing"}]
  BY DEF AssetsTypeOK, Absent, Missing
<1>2. request \in [Pages -> [Urls -> RequestTypes]]
  BY DEF AssetsTypeOK, RequestTypes
<1>3. collect \in [Pages -> CollectTypes]
  BY DEF AssetsTypeOK, CollectTypes
<1>4. jobs \subseteq [page : Pages, url : Urls, body : Urls, main : BOOLEAN,
                     pc : {"get", "write"}]
  BY DEF AssetsTypeOK, Job
<1>5. file \in [Paths -> Urls \cup {"dir", Nothing}]
  BY DEF AssetsTypeOK, Dir
<1>6. wanted \in [Pages -> SUBSET Urls] /\ failed \subseteq Urls
  BY DEF AssetsTypeOK
<1>7. QED BY <1>1, <1>2, <1>3, <1>4, <1>5, <1>6 DEF AssetTypes

\* A set of numbers has a least one.
LEMMA LeastNumber ==
  ASSUME NEW T \in SUBSET Nat, T # {}
  PROVE  \E m \in T : \A k \in T : m <= k
<1> DEFINE R == OpToRel(<, Nat)
<1>1. IsWellFoundedOn(R, Nat)
  BY NatLessThanWellFounded
<1>2. \A x, y \in Nat : x < y => <<x, y>> \in R
  BY DEF OpToRel
<1> HIDE DEF R
<1>3. PICK m \in T : \A k \in T : ~ (<<k, m>> \in R)
  BY <1>1, WFMin
<1>4. ASSUME NEW k \in T PROVE m <= k
  <2>1. ~ (<<k, m>> \in R)
    BY <1>3
  <2>2. ~ (k < m)
    BY <1>2, <2>1
  <2>3. QED BY <2>2
<1>5. QED BY <1>4

\* The listener that decides: the first in the window.
LEMMA FirstListener ==
  ASSUME NEW p \in Pages, at[p] # "idle"
  PROVE  Min(Listeners(p)) \in Pages
<1> DEFINE L == Listeners(p)
<1>a. Pages \subseteq Nat /\ p <= p
  BY AssetConstants
<1>1. L \subseteq Nat /\ L \subseteq Pages /\ p \in L
  BY <1>a DEF Listeners
<1> HIDE DEF L
<1>2. \E m \in L : \A k \in L : m <= k
  BY <1>1, LeastNumber
<1>3. Min(L) \in L
  BY <1>2 DEF Min
<1>4. QED BY <1>1, <1>3 DEF L

\* It acts at once, and so alone.
LEMMA ListenerDecides ==
  ASSUME NEW p, NEW u
  PROVE  Outcome(p, u) = {OwnVerdict(Min(Listeners(p)), u).act}
<1> DEFINE v == OwnVerdict(Min(Listeners(p)), u)
           now == {x \in AdVerdicts(u) : x.now} \cup OwnVerdicts(p, u)
           said == IF now # {} THEN now ELSE AdVerdicts(u)
<1>1. {x \in AdVerdicts(u) : x.now} = {}
  BY DEF AdVerdicts, AdVerdict
<1>2. now = {v}
  BY <1>1 DEF OwnVerdicts
<1>3. said = {v}
  BY <1>2
<1>4. Outcome(p, u) = {x.act : x \in said}
  BY DEF Outcome
<1> HIDE DEF v, said
<1>5. {x.act : x \in {v}} = {v.act}
  OBVIOUS
<1>6. QED BY <1>3, <1>4, <1>5 DEF v

\* It lets through what is of the origin and to be kept: the URLs of pages are.
LEMMA RequestVerdict ==
  ASSUME NEW p \in Pages, NEW u \in Urls, at[p] # "idle"
  PROVE  \/ Outcome(p, u) = {"abort"}
         \/ Outcome(p, u) = {"continue"} /\ u \in Own /\ TypeOf[u] \in Kept
<1> DEFINE m == Min(Listeners(p))
<1>1. m \in Pages
  BY FirstListener
<1> HIDE DEF m
<1>2. Outcome(p, u) = {OwnVerdict(m, u).act}
  BY ListenerDecides DEF m
<1>3. Home[m] \in Own /\ TypeOf[Home[m]] = "document"
  BY <1>1, ResourcesAssumption
<1>4. QED BY <1>2, <1>3 DEF OwnVerdict, Kept

\* Types: what requests and their answers change.
LEMMA RequestsTyped ==
  ASSUME AssetsTypeOK, NEW p \in Pages, NEW u \in Urls,
         Intercept(p, u) \/ Answer(p, u)
  PROVE  AssetsTypeOK'
<1>1. AssetTypes
  BY AssetTypesHold
<1>2. \E r \in {"sent", "answered", "stopped", "hangs"} :
        request' = [request EXCEPT ![p][u] = r]
  BY DEF Intercept, Answer
<1>3. request' \in [Pages -> [Urls -> RequestTypes]]
  <2>1. PICK r \in RequestTypes : request' = [request EXCEPT ![p][u] = r]
    BY <1>2 DEF RequestTypes
  <2>2. request \in [Pages -> [Urls -> RequestTypes]]
    BY <1>1 DEF AssetTypes
  <2>3. [request[p] EXCEPT ![u] = r] \in [Urls -> RequestTypes]
    BY <2>2
  <2>4. request' = [request EXCEPT ![p] = [request[p] EXCEPT ![u] = r]]
    BY <2>1
  <2>5. QED BY <2>2, <2>3, <2>4
<1>4. CASE Intercept(p, u)
  <2>1. resources' = resources \/ resources' = [resources EXCEPT ![u] = Missing]
    BY <1>4 DEF Intercept
  <2>2. resources' \in [Urls -> Urls \cup {"absent", "missing"}]
    BY <1>1, <2>1 DEF AssetTypes, Missing
  <2>3. QED BY <1>3, <1>4, <2>2
            DEF AssetsTypeOK, Intercept, RequestTypes, Absent, Missing
<1>5. CASE Answer(p, u)
  <2>1. resources' = resources \/ \E v \in Urls : resources' = [resources EXCEPT ![v] = u]
    BY <1>5 DEF Answer, Listed
  <2>2. resources' \in [Urls -> Urls \cup {"absent", "missing"}]
    BY <1>1, <2>1 DEF AssetTypes
  <2>3. QED BY <1>3, <1>5, <2>2
            DEF AssetsTypeOK, Answer, RequestTypes, Absent, Missing
<1>6. QED BY <1>4, <1>5

\* Types: the steps of crawlPage.
LEMMA CrawlPageTyped ==
  ASSUME AssetsTypeOK, NEW p \in Pages,
         CrawlPage(p)
  PROVE  AssetsTypeOK'
<1>1. CASE Start(p)
  BY <1>1 DEF AssetsTypeOK, Start
<1>2. CASE DocumentArrives(p)
  <2>1. /\ at' = [at EXCEPT ![p] = "save"]
        /\ jobs' = jobs \cup {[page |-> p, url |-> Home[p], body |-> Doc(p),
                               main |-> TRUE, pc |-> "get"]}
    BY <1>2 DEF DocumentArrives
  <2>2. Home[p] \in Urls /\ Doc(p) \in Urls
    BY AssetConstants
  <2>3. at' \in [Pages -> {"idle", "goto", "save", "read", "done", "failed"}]
    BY <2>1 DEF AssetsTypeOK
  <2>4. jobs' \subseteq Job
    <3>1. jobs \subseteq Job
      BY DEF AssetsTypeOK
    <3>2. [page |-> p, url |-> Home[p], body |-> Doc(p), main |-> TRUE, pc |-> "get"]
            \in Job
      BY <2>2 DEF Job
    <3>3. QED BY <2>1, <3>1, <3>2
  <2>5. \A j \in jobs' : j.main => at'[j.page] = "save"
    BY <2>1 DEF AssetsTypeOK, Job
  <2>6. QED BY <1>2, <2>3, <2>4, <2>5 DEF AssetsTypeOK, DocumentArrives
<1>3. CASE MainSaved(p)
  <2>1. /\ at' = [at EXCEPT ![p] = "read"] /\ jobs' = jobs
        /\ collect' = [collect EXCEPT ![p].pc = "evaluate"]
        /\ \A j \in jobs : ~ (j.page = p /\ j.main)
    BY <1>3 DEF MainSaved
  <2>2. collect' \in [Pages -> CollectTypes]
    <3>1. collect \in [Pages -> CollectTypes]
      BY AssetTypesHold DEF AssetTypes
    <3>2. [collect[p] EXCEPT !.pc = "evaluate"] \in CollectTypes
      BY <3>1 DEF CollectTypes
    <3>3. QED BY <2>1, <3>1, <3>2
  <2>3. at' \in [Pages -> {"idle", "goto", "save", "read", "done", "failed"}]
    BY <2>1 DEF AssetsTypeOK
  <2>4. \A j \in jobs' : j.main => at'[j.page] = "save"
    BY <2>1 DEF AssetsTypeOK, Job
  <2>5. QED BY <1>3, <2>2, <2>3, <2>4 DEF AssetsTypeOK, MainSaved, CollectTypes
<1>4. CASE ReadReturns(p) \/ PageThrows(p)
  <2>1. at' \in [Pages -> {"idle", "goto", "save", "read", "done", "failed"}]
    BY <1>4 DEF AssetsTypeOK, ReadReturns, PageThrows
  <2>2. at[p] # "save" /\ jobs' = jobs /\ \A q \in Pages : q # p => at'[q] = at[q]
    BY <1>4 DEF AssetsTypeOK, ReadReturns, PageThrows
  <2>3. \A j \in jobs' : j.main => at'[j.page] = "save"
    BY <2>2 DEF AssetsTypeOK, Job
  <2>4. QED BY <1>4, <2>1, <2>3 DEF AssetsTypeOK, ReadReturns, PageThrows
<1>5. QED BY <1>1, <1>2, <1>3, <1>4, RequestsTyped DEF CrawlPage

\* What Push puts on the list, and that it takes nothing off.
LEMMA PushTypes ==
  ASSUME resources \in [Urls -> Urls \cup {"absent", "missing"}],
         NEW us, NEW r \in Urls \cup {"missing"}
  PROVE  /\ Push(us, r) \in [Urls -> Urls \cup {"absent", "missing"}]
         /\ \A u \in Urls : LET x == Push(us, r)[u] IN
              /\ x \in {r, resources[u]}
              /\ resources[u] # "absent" => x = resources[u]
              /\ u \notin us => x = resources[u]
BY DEF Push, Absent

\* Types: the steps of downloadAllResources.
LEMMA CollectTyped ==
  ASSUME AssetsTypeOK, NEW p \in Pages,
         CollectAssets(p)
  PROVE  AssetsTypeOK'
<1>1. AssetTypes
  BY AssetTypesHold
<1>2. CASE Evaluate(p)
  <2>1. resources' \in [Urls -> Urls \cup {"absent", "missing"}]
    BY <1>1, <1>2, PushTypes DEF AssetTypes, Evaluate, Missing
  <2>2. PICK S \in SUBSET Urls : collect' = [collect EXCEPT ![p] = [pc |-> "css", css |-> S]]
    <3> DEFINE S == {u \in Urls : resources'[u] # Absent /\ TypeOf[u] = "stylesheet"}
    <3>1. S \in SUBSET Urls
      OBVIOUS
    <3>2. collect' = [collect EXCEPT ![p] = [pc |-> "css", css |-> S]]
      BY <1>2 DEF Evaluate
    <3>3. QED BY <3>1, <3>2
  <2>3. collect' \in [Pages -> CollectTypes]
    BY <1>1, <2>2 DEF AssetTypes, CollectTypes
  <2>4. DomLinks(p) \subseteq Urls
    BY AssetConstants DEF DomLinks
  <2>5. wanted' \in [Pages -> SUBSET Urls]
    BY <1>1, <1>2, <2>4 DEF AssetTypes, Evaluate
  <2>6. QED BY <1>2, <2>1, <2>3, <2>5
            DEF AssetsTypeOK, Evaluate, CollectTypes, Absent, Missing
<1>3. CASE EvaluateFails(p)
  BY <1>3 DEF AssetsTypeOK, EvaluateFails
<1>4. ASSUME NEW c \in Urls, ReadStylesheet(p, c) \/ StylesheetFails(p, c)
      PROVE  AssetsTypeOK'
  <2>1. collect' \in [Pages -> CollectTypes]
    <3>1. collect' = [collect EXCEPT ![p].css = @ \ {c}]
      BY <1>4 DEF ReadStylesheet, StylesheetFails
    <3> DEFINE S == collect[p].css \ {c}
    <3>2. collect \in [Pages -> CollectTypes]
      BY <1>1 DEF AssetTypes
    <3>3. S \in SUBSET Urls
      BY <3>2 DEF CollectTypes
    <3>4. collect' = [collect EXCEPT ![p].css = S]
      BY <3>1
    <3> HIDE DEF S
    <3>5. [collect[p] EXCEPT !.css = S] \in CollectTypes
      BY <3>2, <3>3 DEF CollectTypes
    <3>6. QED BY <3>2, <3>4, <3>5
  <2>2. CASE StylesheetFails(p, c)
    BY <2>1, <2>2 DEF AssetsTypeOK, StylesheetFails, CollectTypes
  <2>3. CASE ReadStylesheet(p, c)
    <3>1. wanted' \in [Pages -> SUBSET Urls]
      BY <1>1, <2>3, AssetConstants DEF AssetTypes, ReadStylesheet
    <3>2. resources' \in [Urls -> Urls \cup {"absent", "missing"}]
      <4>1. resources' = Push(Links[c], resources[c])
        BY <2>3 DEF ReadStylesheet
      <4>2. QED BY <1>1, <4>1 DEF AssetTypes, Push
    <3>3. QED BY <2>1, <2>3, <3>1, <3>2
              DEF AssetsTypeOK, ReadStylesheet, CollectTypes, Absent,
                  Missing
  <2>4. QED BY <1>4, <2>2, <2>3
<1>5. CASE StartDownloads(p)
  <2>1. collect' \in [Pages -> CollectTypes]
    <3>1. [collect[p] EXCEPT !.pc = "files"] \in CollectTypes
      BY <1>1 DEF AssetTypes, CollectTypes
    <3>2. QED BY <1>1, <1>5, <3>1 DEF AssetTypes, StartDownloads
  <2>2. ASSUME NEW j \in jobs' \ jobs
        PROVE  j \in Job /\ ~ j.main
    <3>1. PICK u \in Downloads :
            j = [page |-> p, url |-> u, main |-> FALSE, pc |-> "get",
                 body |-> IF resources[u] = Missing THEN Served(u)
                                                           ELSE resources[u]]
      BY <1>5, <2>2 DEF StartDownloads
    <3>2. u \in Urls /\ resources[u] \in Urls \cup {"missing"} /\ Served(u) \in Urls
      BY <1>1, AssetConstants DEF AssetTypes, Downloads, Absent
    <3>3. QED BY <3>1, <3>2 DEF Job, Missing
  <2>3. jobs' \subseteq Job /\ \A j \in jobs' : j.main => at[j.page] = "save"
    BY <2>2 DEF AssetsTypeOK
  <2>4. QED BY <1>5, <2>1, <2>3 DEF AssetsTypeOK, StartDownloads, CollectTypes
<1>6. QED BY <1>2, <1>3, <1>4, <1>5 DEF CollectAssets

\* What a step of a job does: its job is done, with a file of its URL's name or a
\* failure to show for it, or it goes on; one file at most changes.
LEMMA SaveFileChange ==
  ASSUME AssetTypes, NEW j \in jobs, SaveFile(j)
  PROVE  /\ \/ /\ jobs' = jobs \ {j}
               /\ j.url \in failed' \/ file'[PathOf[j.url]] # Nothing
            \/ jobs' = (jobs \ {j}) \cup {[j EXCEPT !.pc = "write"]}
         /\ failed' = failed \/ failed' = failed \cup {j.url}
         /\ \/ file' = file
            \/ \E f \in Paths : file' = [file EXCEPT ![f] = "dir"]
            \/ \E b \in {j.body, Served(j.url)} :
                 file' = [file EXCEPT ![PathOf[j.url]] = b]
         /\ UNCHANGED <<blockAds, windowOf, process, at, request, resources, collect, wanted>>
<1> DEFINE path == PathOf[j.url]
<1>1. /\ j.url \in Urls /\ j.body \in Urls /\ path \in Paths
      /\ Served(j.url) \in Urls /\ Nothing \notin Urls \cup {"dir"}
      /\ DirOf[path] \in Paths \cup {Nothing} /\ file \in [Paths -> Urls \cup {"dir", Nothing}]
  BY AssetConstants DEF AssetTypes
<1>2. UNCHANGED <<blockAds, windowOf, process, at, request, resources, collect, wanted>>
  BY DEF SaveFile, GetFails, Check, Write, UnchangedCrawl
<1>3. CASE Fail(j) /\ UNCHANGED file
  BY <1>2, <1>3 DEF Fail
<1>4. CASE Check(j) /\ ~ Blocked(j)
  <2>1. /\ IF file[path] = Nothing THEN Step(j, "write") ELSE jobs' = jobs \ {j}
        /\ file' = IF DirOf[path] = Nothing THEN file ELSE [file EXCEPT ![DirOf[path]] = "dir"]
        /\ failed' = failed
    BY <1>4 DEF Check, Dir
  <2>2. file' = file \/ \E f \in Paths : file' = [file EXCEPT ![f] = "dir"]
    BY <1>1, <2>1
  <2>3. file[path] # Nothing => file'[path] # Nothing
    BY <1>1, <2>2
  <2>4. QED BY <1>2, <2>1, <2>2, <2>3 DEF Step
<1>5. CASE Write(j) /\ file[path] # Dir
  <2>1. PICK b \in {j.body, Served(j.url)} : file' = [file EXCEPT ![path] = b]
    BY <1>5 DEF Write
  <2>2. jobs' = jobs \ {j} /\ failed' = failed
    BY <1>5 DEF Write
  <2>3. file'[path] # Nothing
    BY <1>1, <2>1
  <2>4. QED BY <1>2, <2>1, <2>2, <2>3
<1>6. CASE \/ GetFails(j)
           \/ Check(j) /\ Blocked(j)
           \/ Write(j) /\ file[path] = Dir
  <2>1. Fail(j) /\ UNCHANGED file
    BY <1>6 DEF GetFails, Check, Write
  <2>2. QED BY <1>3, <2>1
<1>7. QED BY <1>4, <1>5, <1>6 DEF SaveFile

\* Types: the steps of the jobs.
LEMMA SaveFileTyped ==
  ASSUME AssetsTypeOK, NEW j \in jobs, SaveFile(j)
  PROVE  AssetsTypeOK'
<1>1. AssetTypes
  BY AssetTypesHold
<1>2. /\ jobs' = jobs \ {j} \/ jobs' = (jobs \ {j}) \cup {[j EXCEPT !.pc = "write"]}
      /\ failed' = failed \/ failed' = failed \cup {j.url}
      /\ \/ file' = file
         \/ \E f \in Paths : file' = [file EXCEPT ![f] = "dir"]
         \/ \E b \in {j.body, Served(j.url)} :
              file' = [file EXCEPT ![PathOf[j.url]] = b]
      /\ UNCHANGED <<blockAds, windowOf, process, at, request, resources, collect, wanted>>
  BY <1>1, SaveFileChange
<1>3. j \in [page : Pages, url : Urls, body : Urls, main : BOOLEAN, pc : {"get", "write"}]
  BY <1>1 DEF AssetTypes
<1>4. Served(j.url) \in Urls /\ j.body \in Urls /\ j.url \in Urls
  BY <1>3, AssetConstants
<1>5. failed' \subseteq Urls
  BY <1>1, <1>2, <1>4 DEF AssetTypes
<1>6. file' \in [Paths -> Urls \cup {"dir", Nothing}]
  <2>1. file \in [Paths -> Urls \cup {"dir", Nothing}]
    BY <1>1 DEF AssetTypes
  <2>2. \/ file' = file
        \/ \E f \in Paths, b \in Urls \cup {"dir", Nothing} : file' = [file EXCEPT ![f] = b]
        \/ \E b \in Urls : file' = [file EXCEPT ![PathOf[j.url]] = b]
    BY <1>2, <1>4
  <2>3. QED BY <2>1, <2>2
<1>7. [j EXCEPT !.pc = "write"] \in Job /\ [j EXCEPT !.pc = "write"].main = j.main
      /\ [j EXCEPT !.pc = "write"].page = j.page
  BY <1>3 DEF Job
<1>8. jobs' \subseteq Job /\ \A k \in jobs' : k.main => at[k.page] = "save"
  BY <1>2, <1>7 DEF AssetsTypeOK
<1>9. QED BY <1>2, <1>5, <1>6, <1>8 DEF AssetsTypeOK, Dir

\* Every step keeps the types.
LEMMA AssetTypesStep ==
  ASSUME AssetsTypeOK, [AssetsNext]_assetVars
  PROVE  AssetsTypeOK'
<1>1. CASE UNCHANGED assetVars
  BY <1>1 DEF assetVars, AssetsTypeOK
<1>2. QED BY <1>1, CrawlPageTyped, CollectTyped, SaveFileTyped DEF AssetsNext

\* Requests: what goes on is allowed to.
LEMMA RequestsStep ==
  ASSUME AssetsTypeOK, RequestsDecided,
         [AssetsNext]_assetVars
  PROVE  RequestsDecided'
<1>1. request \in [Pages -> [Urls -> RequestTypes]]
  BY AssetTypesHold DEF AssetTypes
<1>2. ASSUME NEW p \in Pages, NEW u \in Urls, Intercept(p, u)
      PROVE  RequestsDecided'
  <2>1. \/ Outcome(p, u) = {"abort"}
        \/ Outcome(p, u) = {"continue"} /\ u \in Own /\ TypeOf[u] \in Kept
    BY <1>2, RequestVerdict DEF Intercept, Shown
  <2>2. {"abort"} # {"continue"}
    OBVIOUS
  <2>3. \/ request' = [request EXCEPT ![p][u] = "stopped"]
        \/ /\ request' = [request EXCEPT ![p][u] = "sent"]
           /\ u \in Own /\ TypeOf[u] \in Kept
    BY <1>2, <2>1, <2>2 DEF Intercept
  <2>4. QED BY <1>1, <2>3 DEF RequestsDecided
<1>3. ASSUME NEW p \in Pages, NEW u \in Urls, Answer(p, u)
      PROVE  RequestsDecided'
  <2>1. request[p][u] = "sent" /\ request' = [request EXCEPT ![p][u] = "answered"]
    BY <1>3 DEF Answer
  <2>2. QED BY <1>1, <2>1 DEF RequestsDecided
<1>4. ASSUME request' = request
      PROVE  RequestsDecided'
  BY <1>4 DEF RequestsDecided
<1>5. ASSUME NEW j \in jobs, SaveFile(j)
      PROVE  request' = request
  BY <1>5 DEF SaveFile, GetFails, Check, Write, UnchangedCrawl
<1>6. ASSUME NEW p \in Pages, CollectAssets(p)
      PROVE  request' = request
  BY <1>6 DEF CollectAssets, Evaluate, EvaluateFails,
              StartDownloads, ReadStylesheet, StylesheetFails
<1>7. ASSUME NEW p \in Pages, CrawlPage(p)
      PROVE  \/ request' = request
             \/ \E u \in Urls : Intercept(p, u) \/ Answer(p, u)
  BY <1>7 DEF CrawlPage, Start, DocumentArrives, MainSaved,
              ReadReturns, PageThrows
<1>8. CASE UNCHANGED assetVars
  BY <1>4, <1>8 DEF assetVars
<1>9. QED BY <1>2, <1>3, <1>4, <1>5, <1>6, <1>7, <1>8 DEF AssetsNext

\* What a stylesheet leads to includes what the stylesheets it leads to name.
LEMMA LeadsOn ==
  ASSUME NEW r, NEW c \in Urls, NEW u \in Links[c], TypeOf[c] = "stylesheet",
         r = c \/ LeadsTo(r, c)
  PROVE  LeadsTo(r, u)
BY DEF LeadsTo, Complete

\* The list only grows.
LEMMA ListGrows ==
  ASSUME AssetInv, [AssetsNext]_assetVars,
         NEW u \in Urls, resources[u] # "absent"
  PROVE  resources'[u] # "absent"
<1>1. resources \in [Urls -> Urls \cup {"absent", "missing"}]
  BY AssetTypesHold DEF AssetTypes, AssetInv
<1>2. "absent" \notin Urls
  BY ResourcesAssumption
<1>3. CASE \E p \in Pages, x \in Urls : Intercept(p, x)
  BY <1>1, <1>3 DEF Intercept, Missing
<1>4. CASE \E p \in Pages, x \in Urls : Answer(p, x)
  BY <1>1, <1>2, <1>4 DEF Answer, Listed
<1>5. CASE \E p \in Pages : Evaluate(p)
  BY <1>1, <1>5, PushTypes DEF Evaluate, Missing
<1>6. CASE \E p \in Pages, c \in Urls : ReadStylesheet(p, c)
  BY <1>6 DEF ReadStylesheet, Push, Absent
<1>7. CASE resources' = resources
  BY <1>7
<1>8. QED BY <1>3, <1>4, <1>5, <1>6, <1>7 DEF AssetsNext, CrawlPage, CollectAssets,
        SaveFile, Start, DocumentArrives, MainSaved, ReadReturns,
        PageThrows, EvaluateFails, StylesheetFails, StartDownloads,
        GetFails, Check, Write, UnchangedCrawl, assetVars

\* The stylesheets of a page are on the list.
LEMMA SheetsStep ==
  ASSUME AssetInv, [AssetsNext]_assetVars
  PROVE  SheetsListed'
<1>1. collect \in [Pages -> CollectTypes]
  BY AssetTypesHold DEF AssetTypes, AssetInv
<1>2. ASSUME NEW q \in Pages,
             \/ collect'[q].css \subseteq collect[q].css
             \/ \A c \in collect'[q].css : /\ c \in Urls /\ TypeOf[c] = "stylesheet"
                                           /\ resources'[c] # "absent"
      PROVE  collect'[q].css \subseteq {u \in Urls : /\ TypeOf[u] = "stylesheet"
                                                     /\ resources'[u] # Absent}
  BY <1>2, ListGrows DEF AssetInv, SheetsListed, Absent
<1>3. CASE \E p \in Pages : Evaluate(p)
  <2>1. PICK p \in Pages : Evaluate(p)
    BY <1>3
  <2>2. collect'[p].css = {u \in Urls : resources'[u] # "absent" /\ TypeOf[u] = "stylesheet"}
    BY <1>1, <2>1 DEF Evaluate, Absent
  <2>3. \A q \in Pages \ {p} : collect'[q] = collect[q]
    BY <1>1, <2>1 DEF Evaluate
  <2>4. QED BY <1>2, <2>2, <2>3 DEF SheetsListed
<1>4. CASE \E p \in Pages, c \in Urls :
             ReadStylesheet(p, c) \/ StylesheetFails(p, c)
  <2>1. PICK p \in Pages, c \in Urls : collect' = [collect EXCEPT ![p].css = @ \ {c}]
    BY <1>4 DEF ReadStylesheet, StylesheetFails
  <2>2. \A q \in Pages : collect'[q].css \subseteq collect[q].css
    BY <1>1, <2>1 DEF CollectTypes
  <2>3. QED BY <1>2, <2>2 DEF SheetsListed
<1>5. CASE \E p \in Pages, x \in {"evaluate", "files"} : collect' = [collect EXCEPT ![p].pc = x]
  <2>1. \A q \in Pages : collect'[q].css = collect[q].css
    BY <1>1, <1>5 DEF CollectTypes
  <2>2. QED BY <1>2, <2>1 DEF SheetsListed
<1>6. CASE collect' = collect
  BY <1>2, <1>6 DEF SheetsListed
<1>7. QED BY <1>3, <1>4, <1>5, <1>6 DEF AssetsNext, CrawlPage, CollectAssets,
        SaveFile, Start, DocumentArrives, MainSaved, ReadReturns,
        PageThrows, Intercept, Answer, EvaluateFails,
        StartDownloads, GetFails, Check, Write,
        UnchangedCrawl, assetVars

\* What is noted for a URL leads to it.
LEMMA NotedStep ==
  ASSUME AssetInv, [AssetsNext]_assetVars
  PROVE  Noted'
<1>1. resources \in [Urls -> Urls \cup {"absent", "missing"}]
  BY AssetTypesHold DEF AssetTypes, AssetInv
<1>2. CASE \E p \in Pages, x \in Urls : Intercept(p, x)
  BY <1>1, <1>2 DEF Intercept, AssetInv, Noted
<1>3. CASE \E p \in Pages, x \in Urls : Answer(p, x)
  BY <1>1, <1>3 DEF Answer, Listed, AssetInv, Noted
<1>4. CASE \E p \in Pages : Evaluate(p)
  BY <1>1, <1>4, PushTypes DEF Evaluate, AssetInv, Noted, Missing
<1>5. CASE \E p \in Pages, c \in Urls : ReadStylesheet(p, c)
  <2>1. PICK p \in Pages, c \in Urls : ReadStylesheet(p, c)
    BY <1>5
  <2>2. TypeOf[c] = "stylesheet" /\ resources[c] # Absent
    BY <2>1 DEF ReadStylesheet, AssetInv, SheetsListed
  <2>3. resources[c] \in {Missing, c} \/ LeadsTo(resources[c], c)
    BY <2>2 DEF AssetInv, Noted
  <2>4. ASSUME NEW u \in Urls
        PROVE  \/ resources'[u] \in {Absent, Missing, u}
               \/ LeadsTo(resources'[u], u)
    <3>1. \/ resources'[u] = resources[u]
          \/ u \in Links[c] /\ resources'[u] = resources[c]
      BY <2>1 DEF ReadStylesheet, Push
    <3>2. CASE resources'[u] = resources[u]
      BY <3>2 DEF AssetInv, Noted
    <3>3. CASE u \in Links[c] /\ resources'[u] = resources[c]
      BY <2>2, <2>3, <3>3, LeadsOn
    <3>4. QED BY <3>1, <3>2, <3>3
  <2>5. QED BY <2>4 DEF Noted, Absent, Missing, LeadsTo, Complete
<1>6. CASE resources' = resources
  BY <1>6 DEF AssetInv, Noted
<1>7. QED BY <1>2, <1>3, <1>4, <1>5, <1>6 DEF AssetsNext, CrawlPage,
        CollectAssets, SaveFile, Start, DocumentArrives,
        MainSaved, ReadReturns, PageThrows, EvaluateFails,
        StylesheetFails, StartDownloads, GetFails, Check,
        Write, UnchangedCrawl, assetVars

\* What a job carries belongs to its URL.
LEMMA CarriedStep ==
  ASSUME AssetInv, [AssetsNext]_assetVars
  PROVE  Carried'
<1>1. AssetTypes
  BY AssetTypesHold DEF AssetInv
<1>2. ASSUME NEW p \in Pages, DocumentArrives(p)
      PROVE  Carried'
  <2>1. jobs' = jobs \cup {[page |-> p, url |-> Home[p], body |-> Doc(p),
                            main |-> TRUE, pc |-> "get"]}
    BY <1>2 DEF DocumentArrives
  <2>2. Belongs(Doc(p), Home[p])
    BY DEF Belongs, Doc
  <2>3. QED BY <2>1, <2>2 DEF AssetInv, Carried
<1>3. ASSUME NEW p \in Pages, StartDownloads(p)
      PROVE  Carried'
  <2>1. ASSUME NEW j \in jobs' \ jobs
        PROVE  Belongs(j.body, j.url)
    <3>1. PICK u \in Downloads :
            j = [page |-> p, url |-> u, main |-> FALSE, pc |-> "get",
                 body |-> IF resources[u] = Missing THEN Served(u)
                                                           ELSE resources[u]]
      BY <1>3, <2>1 DEF StartDownloads
    <3>2. u \in Urls /\ resources[u] # Absent
      BY DEF Downloads
    <3>3. j.url = u /\ j.body = IF resources[u] = Missing THEN Served(u)
                                                                 ELSE resources[u]
      BY <3>1
    <3>4. resources[u] \in {Missing, u} \/ LeadsTo(resources[u], u)
      BY <3>2 DEF AssetInv, Noted
    <3>5. QED BY <3>3, <3>4 DEF Belongs
  <2>2. QED BY <2>1 DEF AssetInv, Carried
<1>4. ASSUME NEW j \in jobs, SaveFile(j)
      PROVE  Carried'
  <2>1. jobs' = jobs \ {j} \/ jobs' = (jobs \ {j}) \cup {[j EXCEPT !.pc = "write"]}
    BY <1>1, <1>4, SaveFileChange
  <2>2. [j EXCEPT !.pc = "write"].body = j.body /\ [j EXCEPT !.pc = "write"].url = j.url
    BY <1>1 DEF AssetTypes
  <2>3. QED BY <2>1, <2>2 DEF AssetInv, Carried
<1>5. CASE jobs' = jobs
  BY <1>5 DEF AssetInv, Carried
<1>6. QED BY <1>2, <1>3, <1>4, <1>5 DEF AssetsNext, CrawlPage, CollectAssets,
        Start, MainSaved, ReadReturns, PageThrows,
        Intercept, Answer, Evaluate, EvaluateFails,
        ReadStylesheet, StylesheetFails, assetVars

\* What is written belongs to the URL of the job that writes it.
LEMMA BytesStep ==
  ASSUME AssetInv, [AssetsNext]_assetVars
  PROVE  BytesBelong'
<1>1. AssetTypes
  BY AssetTypesHold DEF AssetInv
<1>2. ASSUME NEW j \in jobs, SaveFile(j)
      PROVE  BytesBelong'
  <2>1. \/ file' = file
        \/ \E f \in Paths : file' = [file EXCEPT ![f] = "dir"]
        \/ \E b \in {j.body, Served(j.url)} :
             file' = [file EXCEPT ![PathOf[j.url]] = b]
    BY <1>1, <1>2, SaveFileChange
  <2>2. j.url \in Urls /\ file \in [Paths -> Urls \cup {"dir", Nothing}]
    BY <1>1 DEF AssetTypes
  <2>3. "dir" \notin Urls
    BY ResourcesAssumption
  <2>4. \A b \in {j.body, Served(j.url)} : Belongs(b, j.url)
    BY DEF AssetInv, Carried, Belongs
  <2>5. ASSUME NEW f \in Paths, file'[f] \in Urls
        PROVE  \E u \in Urls : PathOf[u] = f /\ Belongs(file'[f], u)
    <3>1. CASE file'[f] = file[f]
      BY <2>5, <3>1 DEF AssetInv, BytesBelong
    <3>2. CASE file'[f] # file[f]
      <4>1. PathOf[j.url] = f /\ file'[f] \in {j.body, Served(j.url)}
        BY <2>1, <2>2, <2>3, <2>5, <3>2
      <4>2. QED BY <2>2, <2>4, <4>1
    <3>3. QED BY <3>1, <3>2
  <2>6. QED BY <2>5 DEF BytesBelong, Belongs, LeadsTo, Complete,
                        Served
<1>3. CASE file' = file
  BY <1>3 DEF AssetInv, BytesBelong, Belongs, LeadsTo, Complete,
              Served
<1>4. QED BY <1>2, <1>3 DEF AssetsNext, CrawlPage, CollectAssets,
        Start, DocumentArrives, MainSaved, ReadReturns,
        PageThrows, Intercept, Answer, Evaluate,
        EvaluateFails, ReadStylesheet, StylesheetFails,
        StartDownloads, assetVars

\* What the document and the stylesheets of p named is not lost on its way.
KeptFor(p, u) ==
  /\ collect[p].pc = "css" => resources[u] # "absent"
  /\ collect[p].pc = "files" => \/ file[PathOf[u]] # Nothing \/ u \in failed
                                \/ \E j \in jobs : j.page = p /\ j.url = u

\* Of a page whose downloads the step is not about.
LEMMA KeptElsewhere ==
  ASSUME AssetInv, AssetsNext, NEW q \in Pages,
         collect'[q].pc \in {collect[q].pc, "evaluate"}, wanted'[q] = wanted[q],
         file' = file, failed' = failed, jobs \subseteq jobs'
  PROVE  \A u \in wanted'[q] : KeptFor(q, u)'
<1>1. ASSUME NEW u \in wanted[q]
      PROVE  KeptFor(q, u)'
  <2>1. u \in Urls
    BY AssetTypesHold DEF AssetTypes, AssetInv
  <2>2. KeptFor(q, u)
    BY DEF AssetInv, WantedKept, KeptFor, Absent
  <2>3. resources[u] # "absent" => resources'[u] # "absent"
    BY <2>1, ListGrows
  <2>4. QED BY <2>2, <2>3 DEF KeptFor
<1>2. QED BY <1>1

\* By the steps of downloadAllResources.
LEMMA KeptByCollecting ==
  ASSUME AssetInv, AssetsNext, NEW p \in Pages,
         CollectAssets(p), NEW q \in Pages
  PROVE  \A u \in wanted'[q] : KeptFor(q, u)'
<1>1. AssetTypes
  BY AssetTypesHold DEF AssetInv
<1>2. /\ "absent" \notin Urls /\ collect \in [Pages -> CollectTypes]
      /\ wanted \in [Pages -> SUBSET Urls]
  BY <1>1, ResourcesAssumption DEF AssetTypes
<1>3. CASE Evaluate(p)
  <2>1. wanted' = [wanted EXCEPT ![p] = DomLinks(p)]
        /\ \A x \in Pages \ {p} : collect'[x] = collect[x]
    BY <1>2, <1>3 DEF Evaluate
  <2>2. CASE q # p
    BY <1>3, <2>1, <2>2, KeptElsewhere DEF Evaluate
  <2>3. CASE q = p
    <3>1. collect'[p].pc = "css" /\ wanted'[p] = DomLinks(p)
      BY <1>2, <1>3 DEF Evaluate
    <3>2. \A u \in DomLinks(p) : u \in Urls
      BY AssetConstants DEF DomLinks
    <3>3. \A u \in DomLinks(p) : resources'[u] # "absent"
      BY <1>3, <3>2 DEF Evaluate, Push, Absent, Missing
    <3>4. QED BY <2>3, <3>1, <3>3 DEF KeptFor
  <2>4. QED BY <2>2, <2>3
<1>4. CASE EvaluateFails(p)
  BY <1>4, KeptElsewhere DEF EvaluateFails
<1>5. ASSUME NEW c \in Urls, ReadStylesheet(p, c)
      PROVE  \A u \in wanted'[q] : KeptFor(q, u)'
  <2>1. collect'[q].pc = collect[q].pc
    BY <1>2, <1>5 DEF ReadStylesheet, CollectTypes
  <2>2. CASE q # p
    BY <1>5, <2>1, <2>2, KeptElsewhere DEF ReadStylesheet, AssetInv, AssetsTypeOK
  <2>3. CASE q = p
    <3>1. collect[p].pc = "css" /\ wanted'[p] = wanted[p] \cup Links[c]
      BY <1>2, <1>5 DEF ReadStylesheet
    <3>2. \A u \in wanted[p] : u \in Urls /\ resources'[u] # "absent"
      <4>1. \A u \in wanted[p] : u \in Urls /\ resources[u] # "absent"
        BY <1>2, <3>1 DEF AssetInv, WantedKept, Absent
      <4>2. QED BY <4>1, ListGrows
    <3>3. \A u \in Links[c] : resources'[u] # "absent"
      <4>1. resources[c] # "absent" /\ Links[c] \subseteq Urls
        BY <1>5, AssetConstants DEF ReadStylesheet, AssetInv, SheetsListed, Absent
      <4>2. QED BY <1>5, <4>1 DEF ReadStylesheet, Push, Absent
    <3>4. QED BY <2>1, <2>3, <3>1, <3>2, <3>3 DEF KeptFor
  <2>4. QED BY <2>2, <2>3
<1>6. ASSUME NEW c \in Urls, StylesheetFails(p, c)
      PROVE  \A u \in wanted'[q] : KeptFor(q, u)'
  <2>1. collect'[q].pc = collect[q].pc
    BY <1>2, <1>6 DEF StylesheetFails, CollectTypes
  <2>2. QED BY <1>6, <2>1, KeptElsewhere DEF StylesheetFails
<1>7. CASE StartDownloads(p)
  <2>1. /\ collect[p].pc = "css" /\ collect' = [collect EXCEPT ![p].pc = "files"]
        /\ jobs \subseteq jobs' /\ wanted' = wanted /\ file' = file /\ failed' = failed
    BY <1>7 DEF StartDownloads
  <2>2. CASE q # p
    <3>1. collect'[q].pc = collect[q].pc
      BY <1>2, <2>1, <2>2
    <3>2. QED BY <2>1, <3>1, KeptElsewhere
  <2>3. CASE q = p
    <3>1. collect'[p].pc = "files"
      BY <1>2, <2>1 DEF CollectTypes
    <3>2. ASSUME NEW u \in wanted[p]
          PROVE  \E j \in jobs' : j.page = p /\ j.url = u
      <4>1. u \in Downloads
        BY <1>2, <2>1 DEF AssetInv, WantedKept, Downloads
      <4> DEFINE J(x) == [page |-> p, url |-> x, main |-> FALSE, pc |-> "get",
                          body |-> IF resources[x] = Missing THEN Served(x)
                                                                    ELSE resources[x]]
      <4>2. jobs' = jobs \cup {J(x) : x \in Downloads}
        BY <1>7 DEF StartDownloads
      <4>3. J(u).page = p /\ J(u).url = u
        OBVIOUS
      <4> HIDE DEF J
      <4>4. QED BY <4>1, <4>2, <4>3
    <3>3. QED BY <2>1, <2>3, <3>1, <3>2 DEF KeptFor
  <2>4. QED BY <2>2, <2>3
<1>8. QED BY <1>3, <1>4, <1>5, <1>6, <1>7 DEF CollectAssets

\* By the steps of a job.
LEMMA KeptByJobs ==
  ASSUME AssetInv, NEW j \in jobs, SaveFile(j),
         NEW q \in Pages, NEW u \in wanted[q]
  PROVE  KeptFor(q, u)'
<1>1. AssetTypes
  BY AssetTypesHold DEF AssetInv
<1>2. KeptFor(q, u)
  BY DEF AssetInv, WantedKept, KeptFor, Absent
<1>3. /\ \/ /\ jobs' = jobs \ {j}
            /\ j.url \in failed' \/ file'[PathOf[j.url]] # Nothing
         \/ jobs' = (jobs \ {j}) \cup {[j EXCEPT !.pc = "write"]}
      /\ failed' = failed \/ failed' = failed \cup {j.url}
      /\ \/ file' = file
         \/ \E f \in Paths : file' = [file EXCEPT ![f] = "dir"]
         \/ \E b \in {j.body, Served(j.url)} :
              file' = [file EXCEPT ![PathOf[j.url]] = b]
      /\ collect' = collect /\ resources' = resources
  BY <1>1, SaveFileChange
<1>4. file[PathOf[u]] # Nothing => file'[PathOf[u]] # Nothing
  <2>1. j.body \in Urls /\ Served(j.url) \in Urls /\ Nothing \notin Urls \cup {"dir"}
    BY <1>1, AssetConstants DEF AssetTypes
  <2>2. file \in [Paths -> Urls \cup {"dir", Nothing}] /\ PathOf[u] \in Paths
    BY <1>1, AssetConstants DEF AssetTypes
  <2>3. QED BY <1>3, <2>1, <2>2
<1>5. u \in failed => u \in failed'
  BY <1>3
<1>6. ASSUME NEW k \in jobs, k.page = q, k.url = u
      PROVE  \/ file'[PathOf[u]] # Nothing \/ u \in failed'
             \/ \E i \in jobs' : i.page = q /\ i.url = u
  <2>1. CASE k # j
    BY <1>3, <1>6, <2>1
  <2>2. CASE k = j /\ jobs' = (jobs \ {j}) \cup {[j EXCEPT !.pc = "write"]}
    <3>1. [j EXCEPT !.pc = "write"].page = q /\ [j EXCEPT !.pc = "write"].url = u
      BY <1>1, <1>6, <2>2 DEF AssetTypes
    <3>2. QED BY <2>2, <3>1
  <2>3. QED BY <1>3, <1>6, <2>1, <2>2
<1>7. QED BY <1>2, <1>3, <1>4, <1>5, <1>6 DEF KeptFor

\* By every step.
LEMMA WantedStep ==
  ASSUME AssetInv, [AssetsNext]_assetVars
  PROVE  WantedKept'
<1>1. collect \in [Pages -> CollectTypes]
  BY AssetTypesHold DEF AssetTypes, AssetInv
<1>2. ASSUME AssetsNext, NEW q \in Pages
      PROVE  \A u \in wanted'[q] : KeptFor(q, u)'
  <2>1. ASSUME NEW p \in Pages, CrawlPage(p)
        PROVE  \A u \in wanted'[q] : KeptFor(q, u)'
    <3>1. wanted' = wanted /\ file' = file /\ failed' = failed /\ jobs \subseteq jobs'
      BY <2>1 DEF CrawlPage, Start, DocumentArrives, MainSaved,
                  ReadReturns, PageThrows, Intercept, Answer
    <3>2. collect' = collect \/ collect' = [collect EXCEPT ![p].pc = "evaluate"]
      BY <2>1 DEF CrawlPage, Start, DocumentArrives, MainSaved,
                  ReadReturns, PageThrows, Intercept, Answer
    <3>3. collect'[q].pc \in {collect[q].pc, "evaluate"}
      BY <1>1, <3>2 DEF CollectTypes
    <3>4. QED BY <1>2, <3>1, <3>3, KeptElsewhere
  <2>2. ASSUME NEW p \in Pages, CollectAssets(p)
        PROVE  \A u \in wanted'[q] : KeptFor(q, u)'
    BY <1>2, <2>2, KeptByCollecting
  <2>3. ASSUME NEW j \in jobs, SaveFile(j)
        PROVE  \A u \in wanted'[q] : KeptFor(q, u)'
    <3>1. wanted' = wanted
      BY <2>3 DEF SaveFile, GetFails, Check, Write,
                  UnchangedCrawl
    <3>2. QED BY <2>3, <3>1, KeptByJobs
  <2>4. QED BY <1>2, <2>1, <2>2, <2>3 DEF AssetsNext
<1>3. CASE AssetsNext
  BY <1>2, <1>3 DEF WantedKept, KeptFor, Absent
<1>4. CASE UNCHANGED assetVars
  BY <1>4 DEF assetVars, AssetInv, WantedKept
<1>5. QED BY <1>3, <1>4

\* Before the first page.
LEMMA AssetInvBegins == ASSUME AssetsInit PROVE AssetInv
<1>1. AssetsTypeOK
  BY ResourcesAssumption DEF AssetsInit, AssetsTypeOK, Absent, Dir
<1>2. RequestsDecided
  BY DEF AssetsInit, RequestsDecided
<1>3. BytesBelong
  BY AssetConstants DEF AssetsInit, BytesBelong
<1>4. Noted /\ Carried /\ SheetsListed /\ WantedKept
  BY DEF AssetsInit, Noted, Carried, SheetsListed, WantedKept
<1>5. QED BY <1>1, <1>2, <1>3, <1>4 DEF AssetInv

\* What the windows of a process request and what of it is written, whatever the
\* pages, URLs and links are: the variables keep their types, the inductive
\* invariant holds.
THEOREM AssetsAccounted == AssetsSpec => [](AssetsTypeOK /\ AssetInv)
<1>1. AssetsInit => AssetInv
  BY AssetInvBegins
<1>2. AssetInv /\ [AssetsNext]_assetVars => AssetInv'
  <2> SUFFICES ASSUME AssetInv, [AssetsNext]_assetVars PROVE AssetInv'
    OBVIOUS
  <2>1. AssetsTypeOK' /\ RequestsDecided'
    BY AssetTypesStep, RequestsStep DEF AssetInv
  <2>2. QED BY <2>1, BytesStep, NotedStep, CarriedStep, SheetsStep, WantedStep DEF AssetInv
<1>3. AssetInv => AssetsTypeOK
  BY DEF AssetInv
<1>4. QED BY <1>1, <1>2, <1>3, PTL DEF AssetsSpec

\* Whichever listeners a window has gathered and whatever the rules for
\* advertisements are, a request of a page is decided, and goes on only if it is the
\* page's own URL or of its origin and of a type to keep.
THEOREM RequestsAreDecided == AssetsSpec => []RequestsDecided
<1>1. AssetInv => RequestsDecided
  BY DEF AssetInv
<1>2. QED BY <1>1, AssetsAccounted, PTL

\* However many pages write at once, a file holds bytes that a URL of its name
\* leads to.
THEOREM BytesAreTheirOwn == AssetsSpec => []BytesBelong
<1>1. AssetInv => BytesBelong
  BY DEF AssetInv
<1>2. QED BY <1>1, AssetsAccounted, PTL

\* When the downloads of a page are over, nothing is missing without an error.
THEOREM NothingIsMissed == AssetsSpec => []NothingMissed
<1>1. AssetInv => NothingMissed
  BY DEF AssetInv, WantedKept, NothingMissed
<1>2. QED BY <1>1, AssetsAccounted, PTL
===========================================================================
