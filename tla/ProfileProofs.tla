---------------------------- MODULE ProfileProofs -------------------------
(***************************************************************************)
(* Theorems about ProfileServer, for any requests, page loads and command  *)
(* lines: a creation that reports success has kept the profile, and the    *)
(* process does not end by itself while it is pinged.  Handlers of         *)
(* requests, handlers of page loads and main step in any order.            *)
(***************************************************************************)
EXTENDS ProfileServer, TLAPS

IInv == TypeOK /\ ServerInv

\* The new state of a handler is one that handlers have.
LEMMA NewJobIsOne == NewJob \in JobRecord
BY DEF NewJob, JobRecord, JobPcs

LEMMA ReplyIsOne ==
  ASSUME NEW j \in JobRecord, NEW status \in {0, 200, 500}
  PROVE  Reply(j, status) \in JobRecord
<1>1. CASE j.kind \in Creates
  <2>1. Reply(j, status) = [kind |-> j.kind, pc |-> "done", status |-> status,
                            copy |-> {}, visited |-> 0, saved |-> TRUE, read |-> {}]
    BY <1>1 DEF Reply, NewJob
  <2>2. "done" \in JobPcs
    BY DEF JobPcs
  <2>3. QED BY <1>1, <2>1, <2>2 DEF JobRecord
<1>2. CASE j.kind \notin Creates
  BY <1>2, NewJobIsOne DEF Reply
<1>3. QED BY <1>1, <1>2

LEMMA VisitedIsOne ==
  ASSUME TypeOK, NEW j \in Jobs, NEW saved \in BOOLEAN
  PROVE  Visited(j, saved) \in JobRecord
<1>1. CASE j \in Loads
  BY <1>1, NewJobIsOne DEF Visited
<1>2. CASE j \notin Loads
  <2> DEFINE pc == IF job[j].visited + 1 < Cardinality(originSet) THEN "get" ELSE "cache"
  <2>1. job[j] \in JobRecord
    BY DEF TypeOK, JobTypeOK
  <2>2. Visited(j, saved) = [kind |-> job[j].kind, pc |-> pc, status |-> job[j].status,
                             copy |-> {}, visited |-> job[j].visited + 1,
                             saved |-> saved, read |-> job[j].read]
    BY <1>2, <2>1 DEF Visited, JobRecord
  <2>3. pc \in JobPcs
    BY DEF JobPcs
  <2> HIDE DEF pc
  <2>4. QED BY <2>1, <2>2, <2>3 DEF JobRecord
<1>3. QED BY <1>1, <1>2

LEMMA SaveAllIsOne ==
  ASSUME NEW j \in JobRecord
  PROVE  SaveAll(j) \in JobRecord
<1> DEFINE pc == IF originSet # {} /\ params.cookieDays > 0 THEN "get" ELSE "cache"
<1>1. SaveAll(j) = [kind |-> j.kind, pc |-> pc, status |-> j.status,
                    copy |-> j.copy, visited |-> j.visited,
                    saved |-> j.saved, read |-> j.read]
  BY DEF SaveAll, JobRecord
<1>2. pc \in JobPcs
  BY DEF JobPcs
<1> HIDE DEF pc
<1>3. QED BY <1>1, <1>2 DEF JobRecord

LEMMA ReadIsOne ==
  ASSUME NEW j \in JobRecord, NEW there \in SUBSET Cookies
  PROVE  [j EXCEPT !.pc = "set", !.read = there, !.copy = there] \in JobRecord
<1>1. [j EXCEPT !.pc = "set"] \in JobRecord
  BY DEF JobRecord, JobPcs
<1>2. \A i \in JobRecord : [i EXCEPT !.read = there] \in JobRecord
  BY DEF JobRecord
<1>3. \A i \in JobRecord : [i EXCEPT !.copy = there] \in JobRecord
  BY DEF JobRecord
<1>4. [j EXCEPT !.pc = "set", !.read = there, !.copy = there]
        = [[[j EXCEPT !.pc = "set"] EXCEPT !.read = there] EXCEPT !.copy = there]
  OBVIOUS
<1>5. QED BY <1>1, <1>2, <1>3, <1>4

\* A handler that goes on to another place.
LEMMA GotoTypes ==
  ASSUME TypeOK, NEW j \in Jobs, NEW pc \in JobPcs, Goto(j, pc)
  PROVE  JobTypeOK'
<1>1. job[j] \in JobRecord
  BY DEF TypeOK, JobTypeOK
<1>2. [job[j] EXCEPT !.pc = pc] \in JobRecord
  BY <1>1 DEF JobRecord
<1>3. QED BY <1>2 DEF Goto, TypeOK, JobTypeOK

\* An answer keeps the types.
LEMMA AnswerTypes ==
  ASSUME TypeOK, NEW j \in Jobs, NEW status \in {0, 200, 500},
         Answered(j, status)
  PROVE  JobTypeOK' /\ exitTimers' \subseteq 0..ExitDelay
<1>1. JobTypeOK'
  <2>1. Reply(job[j], status) \in JobRecord
    BY ReplyIsOne DEF TypeOK, JobTypeOK
  <2>2. QED BY <2>1 DEF Answered, TypeOK, JobTypeOK
<1>2. exitTimers' \subseteq exitTimers \cup {ExitDelay}
  BY DEF Answered
<1>3. QED BY <1>1, <1>2, ProfileAssumption DEF TypeOK, TimerTypeOK

---------------------------------------------------------------------------
(* Type correctness.                                                       *)

LEMMA MainTypes ==
  ASSUME TypeOK, MainStep
  PROVE  TypeOK'
<1> USE DEF TypeOK, ProcessTypeOK, TimerTypeOK, ProfileTypeOK
<1>0. Main \in Jobs
  BY DEF Jobs
<1>1. CASE Launch
  <2>1. JobTypeOK'
    <3>1. CASE Goto(Main, "prompt")
      BY <1>0, <3>1, GotoTypes DEF JobPcs
    <3>2. CASE UNCHANGED job
      BY <3>2 DEF JobTypeOK
    <3>3. QED BY <1>1, <3>1, <3>2 DEF Launch
  <2>2. /\ browser' \in {"open", browser} /\ exitCode' \in {exitCode, 1}
        /\ UNCHANGED <<params, page, jar, originSet, shutdownTimer, exitTimers, tar,
                       uploaded, sincePing>>
    BY <1>1 DEF Launch, Exit
  <2>3. QED BY <2>1, <2>2
<1>2. CASE Prompt
  <2>1. JobTypeOK'
    BY <1>0, <1>2, GotoTypes DEF Prompt, JobPcs
  <2>2. /\ params' \in CommandLine /\ params'.shutdownWait = params.shutdownWait
        /\ UNCHANGED <<exitCode, browser, page, jar, originSet, shutdownTimer,
                       exitTimers, tar, uploaded, sincePing>>
    BY <1>2 DEF Prompt, CommandLine
  <2>3. QED BY <2>1, <2>2
<1>3. CASE OpenWindow
  <2>1. JobTypeOK'
    <3>1. CASE \E pc \in {"form", "done"} : Goto(Main, pc)
      BY <1>0, <3>1, GotoTypes DEF JobPcs
    <3>2. CASE UNCHANGED job
      BY <3>2 DEF JobTypeOK
    <3>3. QED BY <1>3, <3>1, <3>2 DEF OpenWindow
  <2>2. /\ exitCode' \in {exitCode, 1}
        /\ shutdownTimer' \in {shutdownTimer, Off, params.shutdownWait}
        /\ sincePing' \in {sincePing, 0}
        /\ UNCHANGED <<params, browser, page, jar, originSet, exitTimers, tar, uploaded>>
    BY <1>3 DEF OpenWindow, Exit
  <2>3. params.shutdownWait \in Nat
    BY DEF CommandLine
  <2>4. QED BY <2>1, <2>2, <2>3
<1>4. CASE LogIn
  <2>1. JobTypeOK'
    <3>1. CASE Goto(Main, "cache")
      BY <1>0, <3>1, GotoTypes DEF JobPcs
    <3>2. CASE UNCHANGED job
      BY <3>2 DEF JobTypeOK
    <3>3. QED BY <1>4, <3>1, <3>2 DEF LogIn
  <2>2. jar' \in Jar
    BY <1>4 DEF LogIn, Jar
  <2>3. /\ page' \in Origins \cup {page} /\ exitCode' \in {exitCode, 1}
        /\ UNCHANGED <<params, browser, originSet, shutdownTimer, exitTimers, tar,
                       uploaded, sincePing>>
    BY <1>4 DEF LogIn, Exit
  <2>4. QED BY <2>1, <2>2, <2>3
<1>5. QED BY <1>1, <1>2, <1>3, <1>4 DEF MainStep

LEMMA BrowserTypes ==
  ASSUME TypeOK,
         \/ BrowserGone
         \/ \E c \in Cookies : PageSetsCookie(c)
         \/ \E l \in Loads, o \in Origins : PageLoad(l, o)
  PROVE  TypeOK'
<1> USE DEF TypeOK, ProcessTypeOK, TimerTypeOK, ProfileTypeOK
<1>1. CASE BrowserGone
  BY <1>1 DEF BrowserGone, JobTypeOK
<1>2. ASSUME NEW c \in Cookies, PageSetsCookie(c) PROVE TypeOK'
  <2>1. jar' \in Jar
    BY <1>2 DEF PageSetsCookie, Jar
  <2>2. \A j \in Jobs : [job[j] EXCEPT !.read = @ \ {c}] \in JobRecord
    BY DEF JobTypeOK, JobRecord
  <2>3. JobTypeOK'
    BY <1>2, <2>2 DEF PageSetsCookie, JobTypeOK
  <2>4. QED BY <1>2, <2>1, <2>3 DEF PageSetsCookie
<1>3. ASSUME NEW l \in Loads, NEW o \in Origins, PageLoad(l, o) PROVE TypeOK'
  <2>1. l \in Jobs
    BY DEF Jobs
  <2>2. \E pc \in {"get", "idle"} : Goto(l, pc)
    BY <1>3 DEF PageLoad, Goto
  <2>3. JobTypeOK'
    BY <2>1, <2>2, GotoTypes DEF JobPcs
  <2>4. QED BY <1>3, <2>3 DEF PageLoad
<1>4. QED BY <1>1, <1>2, <1>3

LEMMA RequestTypes ==
  ASSUME TypeOK, NEW r \in Requests, NEW path \in {"/navigate"} \cup Creates,
         HandleRequest(r, path)
  PROVE  TypeOK'
<1>1. [NewJob EXCEPT !.kind = path, !.pc = "body"] \in JobRecord
  BY NewJobIsOne DEF JobRecord, JobPcs
<1>2. [NewJob EXCEPT !.kind = path] \in JobRecord
  BY NewJobIsOne DEF JobRecord
<1>3. SaveAll([NewJob EXCEPT !.kind = path]) \in JobRecord
  BY <1>2, SaveAllIsOne
<1>4. JobTypeOK'
  BY <1>1, <1>3 DEF HandleRequest, TypeOK, JobTypeOK
<1>5. QED BY <1>4 DEF HandleRequest, TypeOK, ProcessTypeOK, TimerTypeOK, ProfileTypeOK

LEMMA TimerTypes ==
  ASSUME TypeOK, Ping \/ Tick \/ TimerFires \/ HandleTerminate
  PROVE  TypeOK'
<1> USE DEF TypeOK, ProcessTypeOK, TimerTypeOK, ProfileTypeOK, JobTypeOK
<1>0. params.shutdownWait \in Nat
  BY DEF CommandLine
<1>1. CASE Ping
  BY <1>0, <1>1 DEF Ping
<1>2. CASE Tick
  <2>1. exitTimers' \subseteq 0..ExitDelay
    BY <1>2, ProfileAssumption DEF Tick
  <2>2. shutdownTimer' \in {Off} \cup 0..params.shutdownWait
    BY <1>0, <1>2 DEF Tick, Off
  <2>3. sincePing' \in 0..(params.shutdownWait + 1)
    BY <1>0, <1>2 DEF Tick
  <2>4. QED BY <1>2, <2>1, <2>2, <2>3 DEF Tick
<1>3. CASE TimerFires \/ HandleTerminate
  BY <1>3 DEF TimerFires, HandleTerminate, Exit
<1>4. QED BY <1>1, <1>2, <1>3

LEMMA JobTypes ==
  ASSUME TypeOK, NEW j \in Jobs, JobStep(j)
  PROVE  TypeOK'
<1> USE DEF TypeOK, ProcessTypeOK, TimerTypeOK, ProfileTypeOK
<1>0. job[j] \in JobRecord /\ \A status \in {0, 200, 500} : Reply(job[j], status) \in JobRecord
  BY ReplyIsOne DEF JobTypeOK
<1>1. CASE ReadBody(j)
  <2>1. CASE job[j].kind = "/navigate"
    <3>1. \A status \in {200, 400} : Reply(job[j], status) = NewJob
      BY <2>1 DEF Reply, Creates
    <3>2. job' = [job EXCEPT ![j] = NewJob] /\ UNCHANGED exitTimers
      BY <1>1, <2>1, <3>1 DEF ReadBody, Answered, Creates
    <3>3. JobTypeOK'
      BY <3>2, NewJobIsOne DEF JobTypeOK
    <3>4. QED BY <1>1, <3>2, <3>3 DEF ReadBody
  <2>2. CASE job' = [job EXCEPT ![j] = SaveAll(@)] /\ UNCHANGED exitTimers
    <3>1. SaveAll(job[j]) \in JobRecord
      BY <1>0, SaveAllIsOne
    <3>2. JobTypeOK'
      BY <2>2, <3>1 DEF JobTypeOK
    <3>3. QED BY <1>1, <2>2, <3>2 DEF ReadBody
  <2>3. CASE Answered(j, 500)
    <3>1. JobTypeOK' /\ exitTimers' \subseteq 0..ExitDelay
      BY <1>0, <2>3, AnswerTypes
    <3>2. QED BY <1>1, <3>1 DEF ReadBody
  <2>4. QED BY <1>1, <2>1, <2>2, <2>3 DEF ReadBody
<1>2. CASE GetCookies(j)
  <2> DEFINE there == {c \in InJar(jar) : OriginOf[c] = page}
             new == [job[j] EXCEPT !.pc = "set", !.read = there, !.copy = there]
  <2>1. there \subseteq Cookies
    BY DEF InJar
  <2>2. new \in JobRecord
    BY <1>0, <2>1, ReadIsOne
  <2>3. job' = [job EXCEPT ![j] = new]
    BY <1>2 DEF GetCookies
  <2> HIDE DEF new
  <2>4. JobTypeOK'
    BY <2>2, <2>3 DEF JobTypeOK
  <2>5. QED BY <1>2, <2>4 DEF GetCookies
<1>3. CASE SetCookies(j)
  <2>1. JobTypeOK'
    BY <1>3, VisitedIsOne DEF SetCookies, JobTypeOK
  <2>2. jar' \in Jar
    BY <1>3 DEF SetCookies, Jar
  <2>3. QED BY <1>3, <2>1, <2>2 DEF SetCookies
<1>4. CASE SaveFails(j)
  <2>1. JobTypeOK'
    BY <1>4, VisitedIsOne DEF SaveFails, JobTypeOK
  <2>2. QED BY <1>4, <2>1 DEF SaveFails
<1>5. CASE ClearCache(j)
  <2>1. JobTypeOK'
    BY <1>5, GotoTypes DEF ClearCache, JobPcs
  <2>2. QED BY <1>5, <2>1 DEF ClearCache
<1>6. CASE Pack(j)
  <2>1. JobTypeOK' /\ exitTimers' \subseteq 0..ExitDelay /\ exitCode' \in {exitCode, 0}
    <3>1. CASE Goto(j, "upload") /\ UNCHANGED <<exitCode, exitTimers>>
      BY <3>1, GotoTypes DEF JobPcs
    <3>2. CASE Exit(0) /\ UNCHANGED <<job, exitTimers>>
      BY <3>2 DEF Exit, JobTypeOK
    <3>3. CASE Answered(j, 200) /\ UNCHANGED exitCode
      BY <1>0, <3>3, AnswerTypes
    <3>4. QED BY <1>6, <3>1, <3>2, <3>3 DEF Pack, Packed
  <2>2. [jar |-> jar, saved |-> job[j].saved, read |-> job[j].read]
          \in [jar : Jar, saved : BOOLEAN, read : SUBSET Cookies]
    BY <1>0 DEF JobRecord
  <2>3. tar' \in {{t} : t \in [jar : Jar, saved : BOOLEAN, read : SUBSET Cookies]}
    BY <1>6, <2>2 DEF Pack
  <2>4. QED BY <1>6, <2>1, <2>3 DEF Pack
<1>7. CASE Upload(j)
  <2>1. JobTypeOK' /\ exitTimers' \subseteq 0..ExitDelay /\ exitCode' \in {exitCode, 0}
    <3>1. CASE Exit(0) /\ UNCHANGED <<job, exitTimers>>
      BY <3>1 DEF Exit, JobTypeOK
    <3>2. CASE Answered(j, 200) /\ UNCHANGED exitCode
      BY <1>0, <3>2, AnswerTypes
    <3>3. QED BY <1>7, <3>1, <3>2 DEF Upload
  <2>2. QED BY <1>7, <2>1 DEF Upload
<1>8. CASE CreateFails(j)
  <2>1. JobTypeOK' /\ exitTimers' \subseteq 0..ExitDelay /\ exitCode' \in {exitCode, 1}
    <3>1. CASE Exit(1) /\ UNCHANGED <<job, exitTimers>>
      BY <3>1 DEF Exit, JobTypeOK
    <3>2. CASE Answered(j, 500) /\ UNCHANGED exitCode
      BY <1>0, <3>2, AnswerTypes
    <3>3. QED BY <1>8, <3>1, <3>2 DEF CreateFails
  <2>2. QED BY <1>8, <2>1 DEF CreateFails
<1>9. QED BY <1>1, <1>2, <1>3, <1>4, <1>5, <1>6, <1>7, <1>8 DEF JobStep

---------------------------------------------------------------------------
(* The invariant.                                                          *)

\* Where nothing but the browser changes, or the process ends with code 1,
\* the invariant stays.
LEMMA Frame ==
  ASSUME ServerInv, exitCode' \in {Running, 1},
         UNCHANGED <<params, job, shutdownTimer, exitTimers, tar, uploaded, sincePing>>
  PROVE  ServerInv'
<1>1. exitCode' # 0
  BY ProfileAssumption
<1>2. ServerIsLast' /\ HandlersInPlace' /\ TimersHaveCause'
  BY DEF ServerInv, ServerIsLast, HandlersInPlace, TimersHaveCause
<1>3. SuccessMeansKept' /\ PingsKeepAlive'
  BY <1>1 DEF ServerInv, SuccessMeansKept, PingsKeepAlive
<1>4. QED BY <1>2, <1>3 DEF ServerInv

\* The same where handlers go from place to place, and neither their kind nor
\* their answer changes.
LEMMA JobFrame ==
  ASSUME IInv, exitCode = Running, exitCode' = Running,
         NEW j \in Requests \cup Loads, job[Main].pc = "done",
         job' \in [Jobs -> JobRecord],
         \A k \in Jobs \ {j} : job'[k] = job[k],
         job[j].pc # "done",
         job'[j].kind \in {"none", "/navigate"} \cup Creates,
         job'[j].status = 0,
         j \in Loads => job'[j].pc \in {"idle", "get", "set"},
         j \in Requests => job'[j].pc \in {"idle", "body"}
                           \/ (job'[j].kind \in Creates /\ job'[j].pc \in {"get", "set", "cache", "close", "upload"}),
         job'[j].pc = "upload" => tar' # {},
         UNCHANGED <<params, shutdownTimer, exitTimers, uploaded, sincePing>>,
         tar' = tar \/ tar' # {}
  PROVE  ServerInv'
<1>0. Main \in Jobs \ {j} /\ Requests \subseteq Jobs /\ Loads \subseteq Jobs /\ j \in Jobs
  BY ProfileAssumption DEF Jobs
<1>1. exitCode' # 0
  BY ProfileAssumption
<1>2. job'[Main] = job[Main]
  BY <1>0
<1>3. ServerIsLast'
  BY <1>2 DEF IInv, ServerInv, ServerIsLast
<1>4. HandlersInPlace'
  BY <1>0 DEF IInv, ServerInv, HandlersInPlace
<1>5. job[j].status = 0
  BY <1>0 DEF IInv, ServerInv, HandlersInPlace
<1>6. \A r \in Requests : job[r].status # 0 => job'[r] = job[r]
  BY <1>0, <1>5
<1>7. TimersHaveCause'
  <2>1. \A k \in Jobs : job'[k].pc = "upload" => tar' # {}
    BY DEF IInv, ServerInv, TimersHaveCause
  <2>2. exitTimers' # {} => \E r \in Requests : job'[r].kind \in Creates /\ job'[r].status # 0
    BY <1>6 DEF IInv, ServerInv, TimersHaveCause
  <2>3. QED BY <2>1, <2>2 DEF IInv, ServerInv, TimersHaveCause
<1>8. SuccessMeansKept'
  BY <1>0, <1>1 DEF IInv, ServerInv, SuccessMeansKept
<1>9. PingsKeepAlive'
  BY <1>1 DEF PingsKeepAlive
<1>10. QED BY <1>3, <1>4, <1>7, <1>8, <1>9 DEF ServerInv

\* The answer to a creation sets a timer, and the answer is its cause.
LEMMA AnswerKeeps ==
  ASSUME IInv, exitCode = Running, exitCode' = Running,
         NEW j \in Requests, job[Main].pc = "done", JobTypeOK',
         NEW status \in {200, 500}, job[j].kind \in Creates, job[j].pc # "done",
         Answered(j, status),
         tar' = tar \/ tar' # {},
         uploaded \in BOOLEAN, uploaded => uploaded',
         status = 200 => tar' # {} /\ (HasStorage => uploaded'),
         UNCHANGED <<params, shutdownTimer, sincePing>>
  PROVE  ServerInv'
<1>0. Main \in Jobs \ {j} /\ Requests \subseteq Jobs /\ Loads \subseteq Jobs /\ j \notin Loads
  BY ProfileAssumption DEF Jobs
<1>1. exitCode' # 0
  BY ProfileAssumption
<1>2. /\ \A k \in Jobs \ {j} : job'[k] = job[k]
      /\ job'[j] = Reply(job[j], status)
  BY <1>0 DEF Answered, IInv, TypeOK, JobTypeOK
<1>3. job'[j].pc = "done" /\ job'[j].status = status /\ job'[j].kind \in Creates
  BY <1>2 DEF Reply, NewJob
<1>4. ServerIsLast'
  BY <1>0, <1>2 DEF IInv, ServerInv, ServerIsLast
<1>5. HandlersInPlace'
  BY <1>0, <1>2, <1>3 DEF IInv, ServerInv, HandlersInPlace
<1>6. TimersHaveCause'
  <2>1. \A k \in Jobs : job'[k].pc = "upload" => tar' # {}
    BY <1>2, <1>3 DEF IInv, ServerInv, TimersHaveCause
  <2>2. \E r \in Requests : job'[r].kind \in Creates /\ job'[r].status # 0
    BY <1>3
  <2>3. QED BY <2>1, <2>2 DEF IInv, ServerInv, TimersHaveCause
<1>7. SuccessMeansKept'
  <2>1. ASSUME NEW r \in Requests, job'[r].kind \in Creates, job'[r].status = 200
        PROVE  tar' # {} /\ (HasStorage => uploaded')
    BY <1>0, <1>2, <1>3, <2>1 DEF IInv, ServerInv, SuccessMeansKept
  <2>2. QED BY <1>1, <2>1 DEF SuccessMeansKept
<1>8. PingsKeepAlive'
  BY <1>1 DEF PingsKeepAlive
<1>9. QED BY <1>4, <1>5, <1>6, <1>7, <1>8 DEF ServerInv

---------------------------------------------------------------------------
(* Every step keeps it.                                                    *)

\* Before the server is there, no other handler runs, and no timer is set.
LEMMA MainMoves ==
  ASSUME IInv, exitCode' = Running, job[Main].pc \notin {"upload", "done"},
         NEW pc \in {"prompt", "window", "form", "cache", "close", "upload", "done"},
         Goto(Main, pc),
         pc \in {"form", "cache", "close", "upload"} => params'.automated,
         pc = "upload" => tar' # {},
         pc = "done" => ~params'.automated,
         pc # "done" => UNCHANGED shutdownTimer,
         params'.shutdownWait = params.shutdownWait,
         shutdownTimer' # Off =>
           params.shutdownWait > 0 /\ sincePing' + shutdownTimer' >= params.shutdownWait,
         UNCHANGED <<exitTimers, uploaded>>
  PROVE  ServerInv'
<1>0. Main \in Jobs /\ Requests \subseteq Jobs \ {Main} /\ Loads \subseteq Jobs \ {Main}
  BY ProfileAssumption DEF Jobs
<1>1. exitCode' # 0
  BY ProfileAssumption
<1>2. job'[Main].pc = pc /\ job'[Main].status = job[Main].status
  BY <1>0 DEF Goto, IInv, TypeOK, JobTypeOK, JobRecord
<1>3. \A k \in Jobs \ {Main} : job'[k] = job[k] /\ job'[k].pc = "idle"
  BY <1>0 DEF Goto, IInv, TypeOK, JobTypeOK, ServerInv, ServerIsLast
<1>4. job[Main].status = 0
  BY <1>0 DEF IInv, ServerInv, HandlersInPlace
<1>5. \A k \in Jobs : job'[k].status = 0
  BY <1>0, <1>2, <1>3, <1>4 DEF IInv, ServerInv, HandlersInPlace
<1>6. ServerIsLast'
  BY <1>2, <1>3 DEF IInv, ServerInv, ServerIsLast
<1>7. HandlersInPlace'
  BY <1>0, <1>3, <1>5 DEF HandlersInPlace
<1>8. TimersHaveCause'
  BY <1>2, <1>3 DEF IInv, ServerInv, ServerIsLast, TimersHaveCause
<1>9. SuccessMeansKept'
  BY <1>0, <1>1, <1>5 DEF SuccessMeansKept
<1>10. PingsKeepAlive'
  BY <1>1 DEF PingsKeepAlive
<1>11. QED BY <1>6, <1>7, <1>8, <1>9, <1>10 DEF ServerInv

\* The automated program ends well.
LEMMA MainEnds ==
  ASSUME IInv, job[Main].pc \in {"close", "upload"}, Exit(0),
         tar' # {}, HasStorage => uploaded',
         UNCHANGED <<params, job, shutdownTimer, exitTimers, sincePing>>
  PROVE  ServerInv'
<1>1. params'.automated
  BY DEF IInv, ServerInv, ServerIsLast
<1>2. ServerIsLast' /\ HandlersInPlace'
  BY DEF IInv, ServerInv, ServerIsLast, HandlersInPlace
<1>3. TimersHaveCause'
  BY DEF IInv, ServerInv, TimersHaveCause
<1>4. SuccessMeansKept' /\ PingsKeepAlive'
  BY <1>1 DEF SuccessMeansKept, PingsKeepAlive
<1>5. QED BY <1>2, <1>3, <1>4 DEF ServerInv

LEMMA MainKeeps ==
  ASSUME IInv, exitCode = Running, MainStep
  PROVE  ServerInv'
<1>0. /\ params.shutdownWait \in Nat /\ sincePing \in Nat
      /\ job[Main].pc # "done" => shutdownTimer = Off
  BY DEF IInv, TypeOK, ProcessTypeOK, TimerTypeOK, CommandLine, ServerInv, ServerIsLast
<1>1. CASE exitCode' = 1
  <2>1. UNCHANGED <<params, job, shutdownTimer, exitTimers, tar, uploaded, sincePing>>
    BY <1>1, ProfileAssumption DEF MainStep, Launch, Prompt, OpenWindow, LogIn, Exit
  <2>2. QED BY <1>1, <2>1, Frame DEF IInv
<1>2. CASE exitCode' # 1 /\ Launch
  BY <1>0, <1>2, MainMoves DEF Launch, Exit
<1>3. CASE Prompt
  <2>1. params'.shutdownWait = params.shutdownWait
    BY <1>3 DEF Prompt, IInv, TypeOK, ProcessTypeOK, CommandLine
  <2>2. QED BY <1>0, <1>3, <2>1, MainMoves DEF Prompt
<1>4. CASE exitCode' # 1 /\ OpenWindow
  <2>1. Goto(Main, IF params.automated THEN "form" ELSE "done")
    BY <1>4 DEF OpenWindow, Exit
  <2>2. /\ exitCode' = Running
        /\ UNCHANGED <<params, exitTimers, uploaded>>
        /\ sincePing' = 0
        /\ shutdownTimer' = IF ~params.automated /\ params.shutdownWait > 0
                              THEN params.shutdownWait ELSE Off
        /\ job[Main].pc = "window"
    BY <1>4 DEF OpenWindow, Exit
  <2>3. CASE params.automated
    BY <1>0, <2>1, <2>2, <2>3, MainMoves
  <2>4. CASE ~params.automated
    BY <1>0, <2>1, <2>2, <2>4, MainMoves
  <2>5. QED BY <2>3, <2>4
<1>5. CASE exitCode' # 1 /\ LogIn
  <2>1. params.automated
    BY <1>5 DEF LogIn, IInv, ServerInv, ServerIsLast
  <2>2. QED BY <1>0, <1>5, <2>1, MainMoves DEF LogIn, Exit
<1>6. QED BY <1>1, <1>2, <1>3, <1>4, <1>5 DEF MainStep

LEMMA TimersKeep ==
  ASSUME IInv, exitCode = Running, Ping \/ Tick \/ TimerFires
  PROVE  ServerInv'
<1>0. /\ params.shutdownWait \in Nat /\ sincePing \in Nat
      /\ shutdownTimer \in {Off} \cup Nat
      /\ exitTimers \subseteq Nat
  BY ProfileAssumption DEF IInv, TypeOK, ProcessTypeOK, TimerTypeOK, CommandLine
<1>1. CASE Ping \/ Tick
  <2>1. /\ UNCHANGED <<params, exitCode, job, tar, uploaded>>
        /\ exitTimers' # {} => exitTimers # {}
    BY <1>1 DEF Ping, Tick
  <2>2. exitCode' # 0
    BY <2>1, ProfileAssumption
  <2>3. job[Main].pc = "done" \/ (shutdownTimer' = shutdownTimer /\ exitTimers' = exitTimers)
    BY <1>1 DEF Ping, Tick, IInv, ServerInv, ServerIsLast
  <2>4. ServerIsLast' /\ HandlersInPlace'
    BY <2>1, <2>3 DEF IInv, ServerInv, ServerIsLast, HandlersInPlace
  <2>5. shutdownTimer' # Off =>
          params.shutdownWait > 0 /\ sincePing' + shutdownTimer' >= params.shutdownWait
    <3>1. CASE Ping
      BY <1>0, <3>1 DEF Ping, IInv, ServerInv, TimersHaveCause
    <3>2. CASE Tick
      BY <1>0, <3>2 DEF Tick, Off, IInv, ServerInv, TimersHaveCause
    <3>3. QED BY <1>1, <3>1, <3>2
  <2>6. TimersHaveCause'
    BY <2>1, <2>5 DEF IInv, ServerInv, TimersHaveCause
  <2>7. SuccessMeansKept' /\ PingsKeepAlive'
    BY <2>1, <2>2 DEF IInv, ServerInv, SuccessMeansKept, PingsKeepAlive
  <2>8. QED BY <2>4, <2>6, <2>7 DEF ServerInv
<1>2. CASE TimerFires
  <2>1. /\ UNCHANGED <<params, job, shutdownTimer, exitTimers, tar, uploaded, sincePing>>
        /\ exitTimers # {} \/ shutdownTimer = 0
    BY <1>2 DEF TimerFires
  <2>2. ~params.automated
    BY <2>1 DEF Off, IInv, ServerInv, ServerIsLast
  <2>3. ServerIsLast' /\ HandlersInPlace' /\ TimersHaveCause'
    BY <2>1 DEF IInv, ServerInv, ServerIsLast, HandlersInPlace, TimersHaveCause
  <2>4. SuccessMeansKept'
    BY <2>1, <2>2 DEF IInv, ServerInv, SuccessMeansKept
  <2>5. PingsKeepAlive'
    BY <1>0, <2>1 DEF Off, IInv, ServerInv, TimersHaveCause, PingsKeepAlive
  <2>6. QED BY <2>3, <2>4, <2>5 DEF ServerInv
<1>3. QED BY <1>1, <1>2

LEMMA BrowserKeeps ==
  ASSUME IInv, exitCode = Running,
         \/ BrowserGone
         \/ \E c \in Cookies : PageSetsCookie(c)
         \/ \E l \in Loads, o \in Origins : PageLoad(l, o)
  PROVE  ServerInv'
<1>0. Main \in Jobs /\ Requests \subseteq Jobs /\ Loads \subseteq Jobs
  BY DEF Jobs
<1>1. CASE BrowserGone
  BY <1>1, Frame DEF BrowserGone, IInv
<1>2. ASSUME NEW c \in Cookies, PageSetsCookie(c) PROVE ServerInv'
  <2>1. \A j \in Jobs : /\ job'[j].pc = job[j].pc /\ job'[j].kind = job[j].kind
                        /\ job'[j].status = job[j].status
    BY <1>2 DEF PageSetsCookie, IInv, TypeOK, JobTypeOK, JobRecord
  <2>2. /\ UNCHANGED <<params, exitCode, shutdownTimer, exitTimers, tar, uploaded, sincePing>>
        /\ exitCode' # 0
    BY <1>2, ProfileAssumption DEF PageSetsCookie
  <2>3. ServerIsLast' /\ HandlersInPlace' /\ TimersHaveCause'
    BY <1>0, <2>1, <2>2 DEF IInv, ServerInv, ServerIsLast, HandlersInPlace, TimersHaveCause
  <2>4. SuccessMeansKept' /\ PingsKeepAlive'
    BY <1>0, <2>1, <2>2 DEF IInv, ServerInv, SuccessMeansKept, PingsKeepAlive
  <2>5. QED BY <2>3, <2>4 DEF ServerInv
<1>3. ASSUME NEW l \in Loads, NEW o \in Origins, PageLoad(l, o) PROVE ServerInv'
  <2>1. /\ job'[l].pc \in {"get", "idle"} /\ job'[l].kind = job[l].kind
        /\ job'[l].status = job[l].status
        /\ \A k \in Jobs \ {l} : job'[k] = job[k]
    BY <1>0, <1>3 DEF PageLoad, IInv, TypeOK, JobTypeOK, JobRecord
  <2>2. /\ UNCHANGED <<params, exitCode, shutdownTimer, exitTimers, tar, uploaded, sincePing>>
        /\ job[Main].pc = "done" /\ job[l].pc = "idle"
    BY <1>3 DEF PageLoad
  <2>3. job[l].status = 0 /\ job[l].kind \in {"none", "/navigate"} \cup Creates
    BY <1>0, <2>2 DEF IInv, ServerInv, HandlersInPlace, TypeOK, JobTypeOK, JobRecord
  <2>4. l \notin Requests
    BY ProfileAssumption
  <2>5. job' \in [Jobs -> JobRecord]
    BY <1>3, BrowserTypes DEF IInv, TypeOK, JobTypeOK
  <2>6. QED BY <2>1, <2>2, <2>3, <2>4, <2>5, JobFrame
<1>4. QED BY <1>1, <1>2, <1>3

LEMMA RequestKeeps ==
  ASSUME IInv, exitCode = Running,
         NEW r \in Requests, NEW path \in {"/navigate"} \cup Creates,
         HandleRequest(r, path)
  PROVE  ServerInv'
<1>0. r \in Jobs /\ r \notin Loads
  BY ProfileAssumption DEF Jobs
<1>1. /\ job'[r].status = 0 /\ job'[r].kind = path
      /\ job'[r].pc \in {"body", "get", "cache"}
      /\ path = "/navigate" => job'[r].pc = "body"
      /\ \A k \in Jobs \ {r} : job'[k] = job[k]
  BY <1>0 DEF HandleRequest, SaveAll, NewJob, Creates, IInv, TypeOK, JobTypeOK
<1>2. /\ UNCHANGED <<params, exitCode, shutdownTimer, exitTimers, tar, uploaded, sincePing>>
      /\ job[Main].pc = "done" /\ job[r].pc = "idle"
  BY DEF HandleRequest
<1>3. job' \in [Jobs -> JobRecord]
  BY RequestTypes DEF IInv, TypeOK, JobTypeOK
<1>4. QED BY <1>0, <1>1, <1>2, <1>3, JobFrame

\* Main in createProfile: it goes on, or the process ends.
LEMMA MainCreates ==
  ASSUME IInv, exitCode = Running, JobStep(Main)
  PROVE  ServerInv'
<1>0. /\ job[Main].pc \in {"cache", "close", "upload"} /\ params.automated
      /\ shutdownTimer = Off /\ params.shutdownWait \in Nat
      /\ uploaded \in BOOLEAN
  BY DEF JobStep, ReadBody, GetCookies, SetCookies, SaveFails, ClearCache, Pack, Upload,
         CreateFails, IInv, ServerInv, ServerIsLast, TypeOK, ProcessTypeOK, CommandLine,
         ProfileTypeOK
<1>1. CASE ClearCache(Main)
  BY <1>0, <1>1, MainMoves DEF ClearCache
<1>2. CASE Pack(Main)
  <2>1. /\ tar' # {} /\ job[Main].pc = "close"
        /\ UNCHANGED <<params, shutdownTimer, sincePing, uploaded>>
    BY <1>2 DEF Pack
  <2>2. CASE HasStorage
    <3>1. Goto(Main, "upload") /\ UNCHANGED <<exitCode, exitTimers>>
      BY <1>2, <2>2 DEF Pack, Packed
    <3>2. QED BY <1>0, <2>1, <3>1, MainMoves
  <2>3. CASE ~HasStorage
    <3>1. Exit(0) /\ UNCHANGED <<job, exitTimers>>
      BY <1>2, <2>3 DEF Pack, Packed
    <3>2. QED BY <2>1, <2>3, <3>1, MainEnds
  <2>4. QED BY <2>2, <2>3
<1>3. CASE Upload(Main)
  <2>1. tar # {}
    BY <1>3 DEF Upload, IInv, ServerInv, TimersHaveCause, Jobs
  <2>2. QED BY <1>3, <2>1, MainEnds DEF Upload
<1>4. CASE CreateFails(Main)
  BY <1>4, Frame DEF CreateFails, IInv, Exit
<1>5. QED BY <1>0, <1>1, <1>2, <1>3, <1>4
        DEF JobStep, ReadBody, GetCookies, SetCookies, SaveFails

LEMMA HandlersKeep ==
  ASSUME IInv, exitCode = Running, NEW j \in Requests \cup Loads, JobStep(j)
  PROVE  ServerInv'
<1>0. /\ j \in Jobs /\ j # Main /\ (j \in Requests <=> j \notin Loads)
      /\ job[j] \in JobRecord /\ Running # 0 /\ Running # 1
  BY ProfileAssumption DEF Jobs, IInv, TypeOK, JobTypeOK
<1>1. job[j].pc \in {"body", "get", "set", "cache", "close", "upload"}
  BY DEF JobStep, ReadBody, GetCookies, SetCookies, SaveFails, ClearCache, Pack, Upload,
         CreateFails
<1>2. job[Main].pc = "done"
  BY <1>0, <1>1 DEF IInv, ServerInv, ServerIsLast
<1>3. /\ job[j].status = 0
      /\ job[j].pc = "upload" => tar # {}
      /\ job[j].kind \in {"none", "/navigate"} \cup Creates
      /\ j \in Requests /\ job[j].pc # "body" => job[j].kind \in Creates
      /\ j \in Loads => job[j].pc \in {"get", "set"}
      /\ uploaded \in BOOLEAN
  BY <1>0, <1>1 DEF IInv, ServerInv, HandlersInPlace, TimersHaveCause, JobRecord, TypeOK,
                    ProfileTypeOK
<1>4. JobTypeOK' /\ job' \in [Jobs -> JobRecord]
  BY <1>0, JobTypes DEF IInv, TypeOK, JobTypeOK
<1>5. ASSUME job' = [job EXCEPT ![j] = NewJob],
             UNCHANGED <<params, exitCode, shutdownTimer, exitTimers, tar, uploaded,
                         sincePing>>
      PROVE  ServerInv'
  <2>1. /\ job'[j].kind = "none" /\ job'[j].pc = "idle" /\ job'[j].status = 0
        /\ \A k \in Jobs \ {j} : job'[k] = job[k]
    BY <1>0, <1>5 DEF NewJob, IInv, TypeOK, JobTypeOK
  <2>2. QED BY <1>0, <1>1, <1>2, <1>4, <1>5, <2>1, JobFrame
<1>6. ASSUME NEW new,
             job' = [job EXCEPT ![j] = new],
             j \in Requests, new.kind = job[j].kind, new.kind \in Creates, new.status = 0,
             new.pc \in {"get", "set", "cache", "close", "upload"},
             new.pc = "upload" => tar' # {},
             tar' = tar \/ tar' # {},
             UNCHANGED <<params, exitCode, shutdownTimer, exitTimers, uploaded, sincePing>>
      PROVE  ServerInv'
  <2>1. job'[j] = new /\ \A k \in Jobs \ {j} : job'[k] = job[k]
    BY <1>0, <1>6 DEF IInv, TypeOK, JobTypeOK
  <2>2. QED BY <1>0, <1>1, <1>2, <1>4, <1>6, <2>1, JobFrame
<1>7. CASE ReadBody(j)
  <2>1. CASE job[j].kind = "/navigate"
    <3>1. \A status \in {200, 400} : Reply(job[j], status) = NewJob
      BY <2>1 DEF Reply, Creates
    <3>2. job' = [job EXCEPT ![j] = NewJob] /\ UNCHANGED exitTimers
      BY <1>7, <2>1, <3>1 DEF ReadBody, Answered, Creates
    <3>3. QED BY <1>5, <1>7, <3>2 DEF ReadBody
  <2>2. CASE job[j].kind = "/createProfileJS" /\ job' = [job EXCEPT ![j] = SaveAll(@)]
                                              /\ UNCHANGED exitTimers
    <3>1. /\ SaveAll(job[j]).kind = job[j].kind /\ SaveAll(job[j]).status = 0
          /\ SaveAll(job[j]).pc \in {"get", "cache"}
      BY <1>0, <1>3 DEF SaveAll, JobRecord
    <3>2. /\ j \in Requests /\ job' = [job EXCEPT ![j] = SaveAll(job[j])]
          /\ UNCHANGED <<params, exitCode, shutdownTimer, tar, uploaded, sincePing>>
      BY <1>3, <1>7, <2>2 DEF ReadBody
    <3>3. job[j].kind \in Creates
      BY <2>2 DEF Creates
    <3>4. QED BY <1>6, <2>2, <3>1, <3>2, <3>3
  <2>3. CASE job[j].kind = "/createProfileJS" /\ Answered(j, 500)
    <3>1. /\ j \in Requests
          /\ UNCHANGED <<params, exitCode, shutdownTimer, tar, uploaded, sincePing>>
      BY <1>3, <1>7 DEF ReadBody
    <3>2. job[j].kind \in Creates
      BY <2>3 DEF Creates
    <3>3. QED BY <1>1, <1>2, <1>3, <1>4, <2>3, <3>1, <3>2, AnswerKeeps
  <2>4. QED BY <1>7, <2>1, <2>2, <2>3 DEF ReadBody
<1>8. CASE GetCookies(j)
  <2> DEFINE there == {c \in InJar(jar) : OriginOf[c] = page}
             new == [job[j] EXCEPT !.pc = "set", !.read = there, !.copy = there]
  <2>1. /\ job' = [job EXCEPT ![j] = new]
        /\ UNCHANGED <<params, exitCode, shutdownTimer, exitTimers, tar, uploaded,
                       sincePing>>
        /\ job[j].pc = "get"
    BY <1>8 DEF GetCookies
  <2>2. new.kind = job[j].kind /\ new.status = 0 /\ new.pc = "set"
    BY <1>0, <1>3 DEF JobRecord
  <2> HIDE DEF new
  <2>3. job'[j] = new /\ \A k \in Jobs \ {j} : job'[k] = job[k]
    BY <1>0, <2>1 DEF IInv, TypeOK, JobTypeOK
  <2>4. QED BY <1>0, <1>1, <1>2, <1>3, <1>4, <2>1, <2>2, <2>3, JobFrame
<1>9. CASE SetCookies(j) \/ SaveFails(j)
  <2>1. PICK saved \in BOOLEAN : job' = [job EXCEPT ![j] = Visited(j, saved)]
    BY <1>9 DEF SetCookies, SaveFails
  <2>2. /\ UNCHANGED <<params, exitCode, shutdownTimer, exitTimers, tar, uploaded,
                       sincePing>>
        /\ job[j].pc \in {"get", "set"}
    BY <1>9 DEF SetCookies, SaveFails
  <2>3. CASE j \in Loads
    BY <1>5, <2>1, <2>2, <2>3 DEF Visited
  <2>4. CASE j \notin Loads
    <3>1. /\ Visited(j, saved).kind = job[j].kind /\ Visited(j, saved).status = 0
          /\ Visited(j, saved).pc \in {"get", "cache"}
      BY <1>0, <1>3, <2>4 DEF Visited, JobRecord
    <3>2. QED BY <1>0, <1>3, <1>6, <2>1, <2>2, <2>4, <3>1
  <2>5. QED BY <2>3, <2>4
<1>10. CASE ClearCache(j)
  <2>1. /\ job' = [job EXCEPT ![j] = [job[j] EXCEPT !.pc = "close"]]
        /\ UNCHANGED <<params, exitCode, shutdownTimer, exitTimers, tar, uploaded,
                       sincePing>>
        /\ job[j].pc = "cache"
    BY <1>10 DEF ClearCache, Goto
  <2>2. /\ [job[j] EXCEPT !.pc = "close"].kind = job[j].kind
        /\ [job[j] EXCEPT !.pc = "close"].status = 0
        /\ [job[j] EXCEPT !.pc = "close"].pc = "close"
    BY <1>0, <1>3 DEF JobRecord
  <2>3. j \in Requests /\ job[j].kind \in Creates
    BY <1>0, <1>3, <2>1
  <2>4. QED BY <1>6, <2>1, <2>2, <2>3
<1>11. CASE Pack(j)
  <2>1. /\ tar' # {} /\ job[j].pc = "close" /\ j \in Requests /\ job[j].kind \in Creates
        /\ UNCHANGED <<params, shutdownTimer, sincePing, uploaded>>
    BY <1>0, <1>3, <1>11 DEF Pack
  <2>2. CASE HasStorage
    <3>1. /\ job' = [job EXCEPT ![j] = [job[j] EXCEPT !.pc = "upload"]]
          /\ UNCHANGED <<exitCode, exitTimers>>
      BY <1>11, <2>2 DEF Pack, Packed, Goto
    <3>2. /\ [job[j] EXCEPT !.pc = "upload"].kind = job[j].kind
          /\ [job[j] EXCEPT !.pc = "upload"].status = 0
          /\ [job[j] EXCEPT !.pc = "upload"].pc = "upload"
      BY <1>0, <1>3 DEF JobRecord
    <3>3. QED BY <1>6, <2>1, <3>1, <3>2
  <2>3. CASE ~HasStorage
    <3>1. Answered(j, 200) /\ UNCHANGED exitCode
      BY <1>0, <1>11, <2>3 DEF Pack, Packed
    <3>2. QED BY <1>2, <1>3, <1>4, <2>1, <2>3, <3>1, AnswerKeeps
  <2>4. QED BY <2>2, <2>3
<1>12. CASE Upload(j)
  <2>1. /\ job[j].pc = "upload" /\ j \in Requests /\ job[j].kind \in Creates
        /\ UNCHANGED <<params, exitCode, shutdownTimer, sincePing, tar>>
        /\ uploaded' = TRUE /\ tar # {} /\ Answered(j, 200)
    BY <1>0, <1>3, <1>12 DEF Upload
  <2>2. QED BY <1>2, <1>3, <1>4, <2>1, AnswerKeeps
<1>13. CASE CreateFails(j)
  <2>1. /\ job[j].pc \in {"cache", "close", "upload"} /\ j \in Requests
        /\ job[j].kind \in Creates
        /\ UNCHANGED <<params, exitCode, shutdownTimer, sincePing, tar, uploaded>>
        /\ Answered(j, 500)
    BY <1>0, <1>3, <1>13 DEF CreateFails
  <2>2. QED BY <1>2, <1>3, <1>4, <2>1, AnswerKeeps
<1>14. QED BY <1>7, <1>8, <1>9, <1>10, <1>11, <1>12, <1>13 DEF JobStep

---------------------------------------------------------------------------
(* The cookies that were read.                                             *)

\* The jar and the profile stay, and one handler changes to one that has kept
\* what it read.
LEMMA OneChanges ==
  ASSUME TypeOK, CookiesKept, NEW j \in Jobs, NEW new,
         job' = [job EXCEPT ![j] = new], ReadIsKept(new, jar),
         UNCHANGED <<jar, tar>>
  PROVE  CookiesKept'
<1>1. \A h \in Jobs : job'[h] = IF h = j THEN new ELSE job[h]
  BY DEF TypeOK, JobTypeOK
<1>2. \A h \in Jobs : ReadIsKept(job[h]', jar')
  BY <1>1 DEF CookiesKept
<1>3. ReadCookiesLast'
  BY DEF CookiesKept, ReadCookiesLast
<1>4. QED BY <1>2, <1>3 DEF CookiesKept

\* A handler that goes to another place, but not to write, has kept what it had.
LEMMA MovedKeeps ==
  ASSUME NEW h \in JobRecord, NEW j, ReadIsKept(h, j), h.pc # "set",
         NEW pc \in JobPcs \ {"set"},
         pc \in {"idle", "start", "prompt", "window", "form"} => h.read = {}
  PROVE  ReadIsKept([h EXCEPT !.pc = pc], j)
<1>1. /\ [h EXCEPT !.pc = pc].pc = pc /\ [h EXCEPT !.pc = pc].read = h.read
      /\ [h EXCEPT !.pc = pc].saved = h.saved
  BY DEF JobRecord
<1>2. QED BY <1>1 DEF ReadIsKept

\* One that has read nothing has kept it.
LEMMA NothingIsKept ==
  ASSUME NEW h, h.read = {}, NEW j
  PROVE  ReadIsKept(h, j)
BY DEF ReadIsKept

LEMMA ReplyIsKept ==
  ASSUME NEW h, NEW status, NEW j
  PROVE  ReadIsKept(Reply(h, status), j)
<1>1. Reply(h, status).read = {}
  BY DEF Reply, NewJob
<1>2. QED BY <1>1, NothingIsKept

\* The jar changes: it is enough that every handler's claim holds of the new one,
\* for a packed profile keeps its own copy of the jar.
LEMMA JarChanges ==
  ASSUME CookiesKept, UNCHANGED tar,
         \A h \in Jobs : ReadIsKept(job'[h], jar')
  PROVE  CookiesKept'
BY DEF CookiesKept, ReadCookiesLast

LEMMA MainCookies ==
  ASSUME IInv, CookiesKept, MainStep
  PROVE  CookiesKept'
<1>0. /\ Main \in Jobs /\ job[Main] \in JobRecord /\ TypeOK
      /\ ReadIsKept(job[Main], jar)
  BY DEF Jobs, IInv, TypeOK, JobTypeOK, CookiesKept
<1>1. ASSUME NEW pc \in JobPcs \ {"set"}, Goto(Main, pc),
             job[Main].pc \in {"start", "prompt", "window", "form"},
             UNCHANGED <<jar, tar>>
      PROVE  CookiesKept'
  <2>1. ReadIsKept([job[Main] EXCEPT !.pc = pc], jar)
    BY <1>0, <1>1, MovedKeeps DEF ReadIsKept
  <2>2. job' = [job EXCEPT ![Main] = [job[Main] EXCEPT !.pc = pc]]
    BY <1>1 DEF Goto
  <2>3. QED BY <1>0, <1>1, <2>1, <2>2, OneChanges
<1>2. CASE UNCHANGED <<job, jar, tar>>
  BY <1>2 DEF CookiesKept, ReadCookiesLast
<1>3. CASE Launch
  BY <1>1, <1>2, <1>3 DEF Launch, JobPcs
<1>4. CASE Prompt
  BY <1>1, <1>4 DEF Prompt, JobPcs
<1>5. CASE OpenWindow
  BY <1>1, <1>2, <1>5 DEF OpenWindow, JobPcs
<1>6. CASE LogIn
  <2>1. CASE UNCHANGED <<job, jar>>
    BY <1>2, <1>6, <2>1 DEF LogIn
  <2>2. CASE Goto(Main, "cache")
    <3>1. \A h \in Jobs : job[h].read = {}
      BY <1>6 DEF LogIn, IInv, ServerInv, ServerIsLast, CookiesKept, ReadIsKept
    <3>2. \A h \in Jobs : job'[h].read = {}
      BY <2>2, <3>1, <1>0 DEF Goto, TypeOK, JobTypeOK, JobRecord
    <3>3. \A h \in Jobs : ReadIsKept(job'[h], jar')
      BY <3>2, NothingIsKept
    <3>4. QED BY <1>6, <3>3, JarChanges DEF LogIn
  <2>3. QED BY <1>6, <2>1, <2>2 DEF LogIn
<1>7. QED BY <1>3, <1>4, <1>5, <1>6 DEF MainStep

\* A page that sets a cookie again takes it out of what the handlers have read.
LEMMA PageCookies ==
  ASSUME IInv, CookiesKept, NEW c \in Cookies, PageSetsCookie(c)
  PROVE  CookiesKept'
<1> SUFFICES ASSUME NEW h \in Jobs
             PROVE  ReadIsKept(job'[h], jar')
  BY JarChanges DEF PageSetsCookie
<1>1. job[h] \in JobRecord /\ ReadIsKept(job[h], jar) /\ jar \in Jar
  BY DEF IInv, TypeOK, JobTypeOK, ProfileTypeOK, CookiesKept
<1>2. job'[h] = [job[h] EXCEPT !.read = @ \ {c}]
  BY DEF PageSetsCookie
<1>3. /\ job'[h].read = job[h].read \ {c} /\ job'[h].pc = job[h].pc
      /\ job'[h].copy = job[h].copy /\ job'[h].saved = job[h].saved
  BY <1>1, <1>2 DEF JobRecord
<1>4. \A d \in Cookies \ {c} : jar'[d] = jar[d]
  BY <1>1 DEF PageSetsCookie, Jar
<1>5. job[h].read \subseteq Cookies
  BY <1>1 DEF JobRecord
<1>6. QED BY <1>1, <1>3, <1>4, <1>5 DEF ReadIsKept

\* saveCookiesFor writes what it has read, less what pages set since, and what
\* others have kept stays so.
LEMMA SetKeeps ==
  ASSUME IInv, CookiesKept, NEW j \in Jobs, SetCookies(j)
  PROVE  CookiesKept'
<1>0. /\ job[j] \in JobRecord /\ ReadIsKept(job[j], jar) /\ job[j].pc = "set"
      /\ job \in [Jobs -> JobRecord]
  BY DEF SetCookies, CookiesKept, IInv, TypeOK, JobTypeOK
<1>1. \A c \in Cookies : jar'[c] = IF c \in job[j].copy THEN "lasting" ELSE jar[c]
  BY DEF SetCookies
<1>2. job' = [job EXCEPT ![j] = Visited(j, TRUE)]
  BY DEF SetCookies
<1> SUFFICES ASSUME NEW h \in Jobs
             PROVE  ReadIsKept(job'[h], jar')
  BY JarChanges DEF SetCookies
<1>3. CASE h # j
  <2>1. job'[h] = job[h] /\ job[h].read \subseteq Cookies /\ ReadIsKept(job[h], jar)
    BY <1>0, <1>2, <1>3 DEF JobRecord, CookiesKept
  <2>2. QED BY <1>1, <2>1 DEF ReadIsKept
<1>4. CASE h = j
  <2>1. job'[h] = Visited(j, TRUE)
    BY <1>0, <1>2, <1>4
  <2>2. CASE j \in Loads
    <3>1. Visited(j, TRUE).read = {}
      BY <2>2 DEF Visited, NewJob
    <3>2. QED BY <2>1, <3>1, NothingIsKept
  <2>3. CASE j \notin Loads
    <3>1. Visited(j, TRUE).read = job[j].read /\ Visited(j, TRUE).pc \in {"get", "cache"}
      BY <1>0, <2>3 DEF Visited, JobRecord
    <3>2. job[j].read \subseteq job[j].copy \cap Cookies
      BY <1>0 DEF ReadIsKept, JobRecord
    <3>3. QED BY <1>1, <2>1, <3>1, <3>2 DEF ReadIsKept
  <2>4. QED BY <2>2, <2>3
<1>5. QED BY <1>3, <1>4

\* The profile that is packed has the jar of this moment and the claim of the
\* handler that packs it.
LEMMA PackKeeps ==
  ASSUME IInv, CookiesKept, NEW j \in Jobs, Pack(j)
  PROVE  CookiesKept'
<1>0. job[j] \in JobRecord /\ ReadIsKept(job[j], jar) /\ job[j].pc = "close"
  BY DEF Pack, CookiesKept, IInv, TypeOK, JobTypeOK
<1>1. ReadCookiesLast'
  BY <1>0 DEF Pack, ReadCookiesLast, ReadIsKept
<1>2. \A h \in Jobs : ReadIsKept(job'[h], jar)
  <2>1. ASSUME NEW new, job' = [job EXCEPT ![j] = new], ReadIsKept(new, jar)
        PROVE  \A h \in Jobs : ReadIsKept(job'[h], jar)
    BY <2>1 DEF CookiesKept, IInv, TypeOK, JobTypeOK
  <2>2. CASE Goto(j, "upload")
    <3>1. ReadIsKept([job[j] EXCEPT !.pc = "upload"], jar)
      BY <1>0, MovedKeeps DEF JobPcs
    <3>2. QED BY <2>1, <2>2, <3>1 DEF Goto
  <2>3. CASE UNCHANGED job
    BY <2>3 DEF CookiesKept
  <2>4. CASE Answered(j, 200)
    BY <2>1, <2>4, ReplyIsKept DEF Answered
  <2>5. QED BY <2>2, <2>3, <2>4 DEF Pack, Packed
<1>3. QED BY <1>1, <1>2 DEF CookiesKept, Pack

LEMMA JobCookies ==
  ASSUME IInv, CookiesKept, NEW j \in Jobs, JobStep(j)
  PROVE  CookiesKept'
<1>0. job[j] \in JobRecord /\ ReadIsKept(job[j], jar) /\ TypeOK
  BY DEF CookiesKept, IInv, TypeOK, JobTypeOK
<1>1. ASSUME NEW status, Answered(j, status), UNCHANGED <<jar, tar>>
      PROVE  CookiesKept'
  BY <1>0, <1>1, ReplyIsKept, OneChanges DEF Answered
<1>2. CASE UNCHANGED <<job, jar, tar>>
  BY <1>2 DEF CookiesKept, ReadCookiesLast
<1>3. CASE ReadBody(j)
  <2>1. CASE \E status \in {200, 400, 500} : Answered(j, status)
    BY <1>1, <1>3, <2>1 DEF ReadBody
  <2>2. CASE job' = [job EXCEPT ![j] = SaveAll(@)]
    <3>1. \E pc \in {"get", "cache"} : SaveAll(job[j]) = [job[j] EXCEPT !.pc = pc]
      BY DEF SaveAll
    <3>2. ReadIsKept(SaveAll(job[j]), jar)
      BY <1>0, <1>3, <3>1, MovedKeeps DEF ReadBody, JobPcs
    <3>3. QED BY <1>0, <1>3, <2>2, <3>2, OneChanges DEF ReadBody
  <2>3. QED BY <1>3, <2>1, <2>2 DEF ReadBody
<1>4. CASE GetCookies(j)
  <2> DEFINE there == {c \in InJar(jar) : OriginOf[c] = page}
             new == [job[j] EXCEPT !.pc = "set", !.read = there, !.copy = there]
  <2>1. job' = [job EXCEPT ![j] = new] /\ UNCHANGED <<jar, tar>>
    BY <1>4 DEF GetCookies
  <2>2. new.pc = "set" /\ new.read = there /\ new.copy = there
    BY <1>0 DEF JobRecord
  <2> HIDE DEF new, there
  <2>3. ReadIsKept(new, jar)
    BY <2>2 DEF ReadIsKept
  <2>4. QED BY <1>0, <2>1, <2>3, OneChanges
<1>5. CASE SaveFails(j)
  <2>1. job' = [job EXCEPT ![j] = Visited(j, FALSE)] /\ UNCHANGED <<jar, tar>>
    BY <1>5 DEF SaveFails
  <2>2. CASE j \in Loads
    <3>1. Visited(j, FALSE).read = {}
      BY <2>2 DEF Visited, NewJob
    <3>2. QED BY <1>0, <2>1, <3>1, NothingIsKept, OneChanges
  <2>3. CASE j \notin Loads
    <3>1. ~Visited(j, FALSE).saved /\ Visited(j, FALSE).pc \in {"get", "cache"}
      BY <1>0, <2>3 DEF Visited, JobRecord
    <3>2. ReadIsKept(Visited(j, FALSE), jar)
      BY <3>1 DEF ReadIsKept
    <3>3. QED BY <1>0, <2>1, <3>2, OneChanges
  <2>4. QED BY <2>2, <2>3
<1>6. CASE ClearCache(j)
  <2>1. ReadIsKept([job[j] EXCEPT !.pc = "close"], jar)
    BY <1>0, <1>6, MovedKeeps DEF ClearCache, JobPcs
  <2>2. QED BY <1>0, <1>6, <2>1, OneChanges DEF ClearCache, Goto
<1>7. CASE Upload(j)
  BY <1>1, <1>2, <1>7 DEF Upload
<1>8. CASE CreateFails(j)
  BY <1>1, <1>2, <1>8 DEF CreateFails
<1>9. QED BY <1>3, <1>4, <1>5, <1>6, <1>7, <1>8, SetKeeps, PackKeeps DEF JobStep

LEMMA CookiesStep == IInv /\ CookiesKept /\ [Next]_vars => CookiesKept'
<1> SUFFICES ASSUME IInv, CookiesKept, [Next]_vars PROVE CookiesKept'
  OBVIOUS
<1>0. TypeOK
  BY DEF IInv
<1>1. CASE UNCHANGED <<job, jar, tar>>
  BY <1>1 DEF CookiesKept, ReadCookiesLast
<1>2. ASSUME NEW r \in Requests, NEW path \in {"/navigate"} \cup Creates,
             HandleRequest(r, path)
      PROVE  CookiesKept'
  <2> DEFINE new == IF path = "/createProfile"
                      THEN SaveAll([NewJob EXCEPT !.kind = path])
                      ELSE [NewJob EXCEPT !.kind = path, !.pc = "body"]
  <2>1. r \in Jobs /\ job' = [job EXCEPT ![r] = new] /\ UNCHANGED <<jar, tar>>
    BY <1>2 DEF HandleRequest, Jobs
  <2>2. new.read = {}
    BY DEF SaveAll, NewJob
  <2> HIDE DEF new
  <2>3. QED BY <1>0, <2>1, <2>2, NothingIsKept, OneChanges
<1>3. ASSUME NEW l \in Loads, NEW o \in Origins, PageLoad(l, o)
      PROVE  CookiesKept'
  <2>1. /\ l \in Jobs /\ UNCHANGED <<jar, tar>>
        /\ job' = [job EXCEPT ![l].pc = IF params.cookieDays > 0 THEN "get" ELSE "idle"]
    BY <1>3 DEF PageLoad, Jobs
  <2>2. job[l].read = {} /\ job[l] \in JobRecord
    BY <1>3, <2>1 DEF PageLoad, CookiesKept, ReadIsKept, IInv, TypeOK, JobTypeOK
  <2>3. \A pc : [job[l] EXCEPT !.pc = pc].read = {}
    BY <2>2 DEF JobRecord
  <2>4. QED BY <1>0, <2>1, <2>3, NothingIsKept, OneChanges
<1>4. CASE BrowserGone \/ Tick \/ TimerFires \/ HandleTerminate \/ Ping
  BY <1>1, <1>4 DEF BrowserGone, Tick, TimerFires, HandleTerminate, Ping
<1>5. QED BY <1>1, <1>2, <1>3, <1>4, MainCookies, PageCookies, JobCookies DEF Next, vars

LEMMA CookiesInit == Init => CookiesKept
<1> SUFFICES ASSUME Init PROVE CookiesKept
  OBVIOUS
<1>1. \A h \in Jobs : job[h].read = {}
  BY DEF Init, NewJob
<1>2. QED BY <1>1, NothingIsKept DEF Init, CookiesKept, ReadCookiesLast

---------------------------------------------------------------------------
(* The theorems.                                                           *)

LEMMA InitHolds == Init => IInv
<1> SUFFICES ASSUME Init PROVE IInv
  OBVIOUS
<1>0. /\ params \in CommandLine /\ params.shutdownWait \in Nat /\ exitCode # 0
      /\ Main \in Jobs /\ Requests \subseteq Jobs \ {Main} /\ Loads \subseteq Jobs \ {Main}
  BY ProfileAssumption DEF Init, CommandLine, Jobs
<1>1. [NewJob EXCEPT !.pc = "start"] \in JobRecord
  BY NewJobIsOne DEF JobRecord, JobPcs
<1>2. JobTypeOK
  BY <1>1, NewJobIsOne DEF Init, JobTypeOK
<1>3. ProcessTypeOK /\ TimerTypeOK /\ ProfileTypeOK
  <2>1. ProcessTypeOK
    BY <1>0 DEF Init, ProcessTypeOK
  <2>2. TimerTypeOK
    BY <1>0 DEF Init, TimerTypeOK
  <2>3. jar \in Jar
    BY DEF Init, Jar, NoCookies
  <2>4. ProfileTypeOK
    BY <2>3 DEF Init, ProfileTypeOK
  <2>5. QED BY <2>1, <2>2, <2>4
<1>4. /\ job[Main].pc = "start" /\ \A j \in Jobs : job[j].status = 0
      /\ \A j \in Jobs \ {Main} : job[j].pc = "idle"
  BY <1>0 DEF Init, NewJob
<1>5. ServerIsLast /\ HandlersInPlace /\ TimersHaveCause
  BY <1>0, <1>4 DEF Init, ServerIsLast, HandlersInPlace, TimersHaveCause
<1>6. SuccessMeansKept /\ PingsKeepAlive
  BY <1>0, <1>4 DEF SuccessMeansKept, PingsKeepAlive
<1>7. QED BY <1>2, <1>3, <1>5, <1>6 DEF IInv, TypeOK, ServerInv

LEMMA StepHolds == IInv /\ [Next]_vars => IInv'
<1> SUFFICES ASSUME IInv, [Next]_vars PROVE IInv'
  OBVIOUS
<1>1. CASE UNCHANGED vars
  BY <1>1 DEF vars, IInv, TypeOK, ProcessTypeOK, TimerTypeOK, JobTypeOK, ProfileTypeOK,
              ServerInv, ServerIsLast, HandlersInPlace, TimersHaveCause, SuccessMeansKept,
              PingsKeepAlive
<1>2. CASE Next
  <2>0. TypeOK /\ exitCode = Running
    BY <1>2 DEF Next, IInv
  <2>1. CASE MainStep
    BY <2>0, <2>1, MainTypes, MainKeeps DEF IInv
  <2>2. CASE \/ BrowserGone
             \/ \E c \in Cookies : PageSetsCookie(c)
             \/ \E l \in Loads, o \in Origins : PageLoad(l, o)
    BY <2>0, <2>2, BrowserTypes, BrowserKeeps DEF IInv
  <2>3. CASE Ping \/ Tick \/ TimerFires
    BY <2>0, <2>3, TimerTypes, TimersKeep DEF IInv
  <2>4. CASE HandleTerminate
    BY <2>0, <2>4, TimerTypes, Frame DEF IInv, HandleTerminate, Exit
  <2>5. ASSUME NEW r \in Requests, NEW path \in {"/navigate"} \cup Creates,
               HandleRequest(r, path)
        PROVE  IInv'
    BY <2>0, <2>5, RequestTypes, RequestKeeps DEF IInv
  <2>6. ASSUME NEW j \in Jobs, JobStep(j) PROVE IInv'
    BY <2>0, <2>6, JobTypes, MainCreates, HandlersKeep DEF IInv, Jobs
  <2>7. QED BY <1>2, <2>1, <2>2, <2>3, <2>4, <2>5, <2>6 DEF Next
<1>3. QED BY <1>1, <1>2

\* The inductive invariant: the types, which handlers may run before main has
\* set up the server, what kind each handler is of, and what set each timer.
THEOREM ServerInvariant == Spec => []IInv
BY InitHolds, StepHolds, PTL DEF Spec

\* createLoginProfile.ts reports success, in its answer or by its exit code,
\* only when the profile is packed and, with a storage, uploaded.
THEOREM SuccessIsKept == Spec => []SuccessMeansKept
<1>1. IInv => SuccessMeansKept
  BY DEF IInv, ServerInv
<1>2. QED BY <1>1, ServerInvariant, PTL

\* The interactive program ends with code 0 only after a creation was answered
\* or when nobody pinged it for shutdownWait.
THEOREM PingsKeepItAlive == Spec => []PingsKeepAlive
<1>1. IInv => PingsKeepAlive
  BY DEF IInv, ServerInv
<1>2. QED BY <1>1, ServerInvariant, PTL

\* The cookies that the request for the profile read, and that no page set after
\* that, are in the profile as ones that outlive the browser: whatever handlers
\* of other requests and of page loads save, at whatever await they are.
THEOREM CookiesAreLast == Spec => []ReadCookiesLast
<1>1. CookiesKept => ReadCookiesLast
  BY DEF CookiesKept
<1>2. QED BY <1>1, CookiesInit, CookiesStep, ServerInvariant, PTL DEF Spec
===========================================================================
