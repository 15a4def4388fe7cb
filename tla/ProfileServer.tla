--------------------------- MODULE ProfileServer --------------------------
(***************************************************************************)
(* The program that creates browser profiles, createLoginProfile.ts: it    *)
(* starts a browser and either logs in by itself (automated) or serves     *)
(* HTTP requests by which a user drives the browser, until one of them     *)
(* asks for the profile: the cookies are made to last, the browser is      *)
(* closed, its directory packed and uploaded, the request answered and the *)
(* process ended.  Handlers of requests and page loads interleave at their *)
(* awaits; what lies between two awaits is one action.                     *)
(***************************************************************************)
EXTENDS Integers, FiniteSets

CONSTANTS
  Requests,      \* the HTTP requests of a run
  Loads,         \* the page loads of a run that the handler is called for
  Main,          \* the job of main itself
  Origins,       \* http(s) origins the page may be at
  Cookies,       \* names of cookies
  OriginOf,      \* the origin each of them belongs to
  Blank,         \* where the page is before it is loaded
  Params,        \* the command lines: user, password, automated, ...
  HasStorage,    \* initStorage() returns a storage
  ExitDelay,     \* ticks from the answer of a creation to the exit, 200 ms
  Running        \* the exit code of a process that runs

CommandLine == [user : BOOLEAN, password : BOOLEAN, automated : BOOLEAN,
                shutdownWait : Nat, cookieDays : Nat]

ASSUME ProfileAssumption ==
  /\ Params \subseteq CommandLine
  /\ HasStorage \in BOOLEAN
  /\ OriginOf \in [Cookies -> Origins]
  /\ ExitDelay \in Nat
  /\ Blank \notin Origins
  /\ Running \notin {0, 1}
  /\ Requests \cap Loads = {}
  /\ Main \notin Requests \cup Loads

Jobs == Requests \cup Loads \cup {Main}
Off == -1                           \* a timer that is not set

\* A cookie ends with the browser or outlives it; what is in it no step of
\* the program looks at.
Jar == [Cookies -> {"none", "session", "lasting"}]
NoCookies == [c \in Cookies |-> "none"]
InJar(j) == {c \in Cookies : j[c] # "none"}

VARIABLES
  params,         \* what initArgs returns
  exitCode,       \* of the process, or Running
  browser,        \* "none", "open", "closing", "closed"
  page,           \* the origin the page is at, or Blank
  jar,            \* the cookies of the browser
  originSet,      \* InteractiveBrowser.originSet
  shutdownTimer,  \* ticks until it exits, or Off
  exitTimers,     \* the same of the timers set after a creation
  job,            \* the handlers that run, and main
  tar,            \* the packed profile, {} for no file: its cookies, and the
                  \* history of the job that packed it
  uploaded,       \* whether a profile was uploaded
  sincePing       \* history: ticks since the start or the last ping

vars == <<params, exitCode, browser, page, jar, originSet, shutdownTimer,
          exitTimers, job, tar, uploaded, sincePing>>

\* The requests that ask for the profile.
Creates == {"/createProfileJS", "/createProfile"}

JobPcs == {"idle", "start", "prompt", "window", "form", "navigate", "body",
           "get", "set", "cache", "close", "upload", "done"}

\* kind is the path of a request; copy the cookies saveCookiesFor has read;
\* visited how many of originSet saveAllCookies has been at; status the HTTP
\* answer.  History: whether the cookies were saved without an error, and
\* those that were last read, less what pages set since (read).
NewJob == [kind |-> "none", pc |-> "idle", status |-> 0, copy |-> {},
           visited |-> 0, saved |-> TRUE, read |-> {}]

JobRecord == [kind : {"none", "/navigate"} \cup Creates, pc : JobPcs,
              status : {0, 200, 500}, copy : SUBSET Cookies, visited : Nat,
              saved : BOOLEAN, read : SUBSET Cookies]

ProcessTypeOK ==
  /\ params \in CommandLine
  /\ exitCode \in {Running, 0, 1}
  /\ browser \in {"none", "open", "closing", "closed"}
  /\ page \in Origins \cup {Blank}
  /\ originSet \subseteq Origins
TimerTypeOK ==
  /\ shutdownTimer \in {Off} \cup 0..params.shutdownWait
  /\ exitTimers \subseteq 0..ExitDelay
  /\ sincePing \in 0..(params.shutdownWait + 1)
JobTypeOK == job \in [Jobs -> JobRecord]
ProfileTypeOK ==
  /\ jar \in Jar
  /\ tar \in {{}} \cup {{t} : t \in [jar : Jar, saved : BOOLEAN,
                             read : SUBSET Cookies]}
  /\ uploaded \in BOOLEAN

\* The types of the variables.
TypeOK == ProcessTypeOK /\ TimerTypeOK /\ JobTypeOK /\ ProfileTypeOK

Init ==
  /\ params \in Params
  /\ exitCode = Running
  /\ browser = "none"
  /\ page = Blank
  /\ jar = NoCookies
  /\ originSet = {}
  /\ shutdownTimer = Off
  /\ exitTimers = {}
  /\ job = [j \in Jobs |->
              IF j = Main THEN [NewJob EXCEPT !.pc = "start"] ELSE NewJob]
  /\ tar = {}
  /\ uploaded = FALSE
  /\ sincePing = 0

Goto(j, pc) == job' = [job EXCEPT ![j].pc = pc]

Exit(code) == exitCode' = code

---------------------------------------------------------------------------
(* main *)

\* main gives a user or a password to type in: it is automated, whatever the
\* option says.
Automated == params.automated \/ params.user \/ params.password

\* browser.launch, which may fail; an error ends the process with code 1.
Launch ==
  /\ job[Main].pc = "start"
  /\ \/ browser' = "open" /\ Goto(Main, "prompt") /\ UNCHANGED exitCode
     \/ Exit(1) /\ UNCHANGED <<browser, job>>
  /\ UNCHANGED <<params, page, jar, originSet, shutdownTimer, exitTimers, tar,
                 uploaded, sincePing>>

\* promptInput for what is missing; interactive profiles are asked nothing.
Prompt ==
  /\ job[Main].pc = "prompt"
  /\ params' = IF Automated THEN [params EXCEPT !.automated = TRUE,
                                    !.user = TRUE, !.password = TRUE]
                            ELSE params
  /\ Goto(Main, "window")
  /\ UNCHANGED <<exitCode, browser, page, jar, originSet, shutdownTimer, exitTimers,
                 tar, uploaded, sincePing>>

\* newWindowPageWithCDP; then the constructor of InteractiveBrowser, which
\* sets the timer and starts the server, or automatedProfile.  The page is
\* about:blank still, so addOrigin adds nothing.
OpenWindow ==
  /\ job[Main].pc = "window"
  /\ \/ /\ browser = "open"
        /\ Goto(Main, IF params.automated THEN "form" ELSE "done")
        /\ shutdownTimer' = IF ~params.automated /\ params.shutdownWait > 0
                              THEN params.shutdownWait ELSE Off
        /\ sincePing' = 0
        /\ UNCHANGED exitCode
     \/ /\ browser = "closed"
        /\ Exit(1)
        /\ UNCHANGED <<job, shutdownTimer, sincePing>>
  /\ UNCHANGED <<params, browser, page, jar, originSet, exitTimers, tar, uploaded>>

\* automatedProfile up to createProfile: the form is found and filled in, and
\* what it leads to sets cookies, or there is none and the process ends.
LogIn ==
  /\ job[Main].pc = "form"
  /\ \/ /\ browser = "open"
        /\ \E o \in Origins :
             /\ page' = o
             /\ jar' = [c \in Cookies |->
                          IF OriginOf[c] = o THEN "session" ELSE "none"]
        /\ Goto(Main, "cache")
        /\ UNCHANGED exitCode
     \/ Exit(1) /\ UNCHANGED <<job, page, jar>>
  /\ UNCHANGED <<params, browser, originSet, shutdownTimer, exitTimers, tar,
                 uploaded, sincePing>>

---------------------------------------------------------------------------
(* The browser *)

\* The page, or what it loads, sets a cookie of the session.
PageSetsCookie(c) ==
  /\ browser = "open" /\ job[Main].pc = "done" /\ page # Blank
  /\ jar' = [jar EXCEPT ![c] = "session"]
  /\ job' = [j \in Jobs |-> [job[j] EXCEPT !.read = @ \ {c}]]
  /\ UNCHANGED <<params, exitCode, browser, page, originSet, shutdownTimer,
                 exitTimers, tar, uploaded, sincePing>>

\* handlePageLoad: addOrigin, then saveCookiesFor, which nobody waits for.
PageLoad(l, o) ==
  /\ browser = "open" /\ job[Main].pc = "done"
  /\ job[l].pc = "idle"
  /\ page' = o
  /\ originSet' = originSet \cup {o}
  /\ job' = [job EXCEPT ![l].pc = IF params.cookieDays > 0
                                     THEN "get" ELSE "idle"]
  /\ UNCHANGED <<params, exitCode, browser, jar, shutdownTimer, exitTimers,
                 tar, uploaded, sincePing>>

\* The browser goes away, or ends because it is told to.
BrowserGone ==
  /\ browser \in {"open", "closing"}
  /\ browser' = "closed"
  /\ UNCHANGED <<params, exitCode, page, jar, originSet, shutdownTimer, exitTimers,
                 job, tar, uploaded, sincePing>>

---------------------------------------------------------------------------
(* Requests *)

\* Mutant: the timer that is set already goes on.
PingKeepsTimer ==
  /\ job[Main].pc = "done"
  /\ sincePing' = 0
  /\ UNCHANGED <<params, exitCode, browser, page, jar, originSet, shutdownTimer,
                 exitTimers, job, tar, uploaded>>

\* /ping: clearTimeout and setTimeout.
Ping ==
  /\ job[Main].pc = "done"
  /\ shutdownTimer' = IF params.shutdownWait > 0
                        THEN params.shutdownWait ELSE shutdownTimer
  /\ sincePing' = 0
  /\ UNCHANGED <<params, exitCode, browser, page, jar, originSet, exitTimers,
                 job, tar, uploaded>>

\* Where saveAllCookies starts: there is nothing to save without an origin or
\* when cookieDays is 0.
SaveAll(j) ==
  [j EXCEPT !.pc = IF originSet # {} /\ params.cookieDays > 0
                     THEN "get" ELSE "cache"]

\* handleRequest of a POST whose handler has to wait.  All other requests are
\* answered at once, with 200 or 404, and change nothing.
HandleRequest(r, path) ==
  /\ job[Main].pc = "done"
  /\ job[r].pc = "idle"
  /\ job' = [job EXCEPT ![r] =
               IF path = "/createProfile"
                 THEN SaveAll([NewJob EXCEPT !.kind = path])
                 ELSE [NewJob EXCEPT !.kind = path, !.pc = "body"]]
  /\ UNCHANGED <<params, exitCode, browser, page, jar, originSet, shutdownTimer,
                 exitTimers, tar, uploaded, sincePing>>

\* The end of a handler; what became of a creation is kept.
Reply(j, status) ==
  IF j.kind \in Creates
    THEN [NewJob EXCEPT !.kind = j.kind, !.pc = "done", !.status = status]
    ELSE NewJob

\* Mutant: the timer is set only when a creation succeeded.
AnsweredOnSuccess(r, status) ==
  /\ job' = [job EXCEPT ![r] = Reply(@, status)]
  /\ exitTimers' = IF job[r].kind \in Creates /\ status = 200
                     THEN exitTimers \cup {ExitDelay} ELSE exitTimers

\* The timers of 200 ms are set on success and on failure alike.
Answered(r, status) ==
  /\ job' = [job EXCEPT ![r] = Reply(@, status)]
  /\ exitTimers' = IF job[r].kind \in Creates THEN exitTimers \cup {ExitDelay}
                                              ELSE exitTimers

\* readBodyJson has read the body; an empty one is undefined, and looking for
\* a field of it throws.  /navigate answers before the page is loaded.
ReadBody(r) ==
  /\ job[r].pc = "body"
  /\ \/ /\ job[r].kind = "/navigate"
        /\ \E status \in {200, 400} : Answered(r, status)
     \/ /\ job[r].kind = "/createProfileJS"
        /\ job' = [job EXCEPT ![r] = SaveAll(@)]
        /\ UNCHANGED exitTimers
     \/ /\ job[r].kind = "/createProfileJS"
        /\ Answered(r, 500)
  /\ UNCHANGED <<params, exitCode, browser, page, jar, originSet, shutdownTimer,
                 tar, uploaded, sincePing>>

---------------------------------------------------------------------------
(* saveCookiesFor: the cookies are read, given a new expiry and written    *)
(* back, with an await before each; its errors are only logged.            *)

\* What comes after one call: the next, or the end of saveAllCookies.
Visited(j, saved) ==
  IF j \in Loads
    THEN NewJob
    ELSE [job[j] EXCEPT !.copy = {}, !.saved = saved, !.visited = @ + 1,
            !.pc = IF job[j].visited + 1 < Cardinality(originSet)
                     THEN "get" ELSE "cache"]

\* A call that failed: the browser is gone.
SaveFails(j) ==
  /\ job[j].pc \in {"get", "set"}
  /\ browser # "open"
  /\ job' = [job EXCEPT ![j] = Visited(j, FALSE)]
  /\ UNCHANGED <<params, exitCode, browser, page, jar, originSet,
                 shutdownTimer, exitTimers, tar, uploaded, sincePing>>

\* page.cookies(): those of the URL the page is at, whatever origin the call
\* is for.
GetCookies(j) ==
  /\ job[j].pc = "get"
  /\ browser = "open"
  /\ LET there == {c \in InJar(jar) : OriginOf[c] = page} IN
       job' = [job EXCEPT ![j].pc = "set", ![j].read = there,
                          ![j].copy = there]
  /\ UNCHANGED <<params, exitCode, browser, page, jar, originSet,
                 shutdownTimer, exitTimers, tar, uploaded, sincePing>>

\* Mutant: the cookies keep their expiry.
SetCookiesAsTheyAre(j) ==
  /\ job[j].pc = "set"
  /\ browser = "open"
  /\ jar' = [c \in Cookies |->
               IF c \in job[j].copy THEN "session" ELSE jar[c]]
  /\ job' = [job EXCEPT ![j] = Visited(j, TRUE)]
  /\ UNCHANGED <<params, exitCode, browser, page, originSet, shutdownTimer,
                 exitTimers, tar, uploaded, sincePing>>

SetCookies(j) ==
  /\ job[j].pc = "set"
  /\ browser = "open"
  /\ jar' = [c \in Cookies |->
               IF c \in job[j].copy THEN "lasting" ELSE jar[c]]
  /\ job' = [job EXCEPT ![j] = Visited(j, TRUE)]
  /\ UNCHANGED <<params, exitCode, browser, page, originSet, shutdownTimer,
                 exitTimers, tar, uploaded, sincePing>>

---------------------------------------------------------------------------
(* createProfile, of a request or of main *)

\* An error: a request is answered with 500, main ends with code 1.
CreateFails(j) ==
  /\ job[j].pc \in {"cache", "close", "upload"}
  /\ job[j].pc = "cache" => browser # "open"
  /\ IF j = Main THEN Exit(1) /\ UNCHANGED <<job, exitTimers>>
                 ELSE Answered(j, 500) /\ UNCHANGED exitCode
  /\ UNCHANGED <<params, browser, page, jar, originSet, shutdownTimer, tar,
                 uploaded, sincePing>>

\* The answer to Network.clearBrowserCache, which may come while another
\* request closes the browser already; then browser.close() is called.
ClearCache(j) ==
  /\ job[j].pc = "cache"
  /\ browser \in {"open", "closing"}
  /\ browser' = "closing"
  /\ Goto(j, "close")
  /\ UNCHANGED <<params, exitCode, page, jar, originSet, shutdownTimer,
                 exitTimers, tar, uploaded, sincePing>>

\* Mutant: the request is answered while the upload goes on.
PackedAnswers(j) ==
  IF j = Main THEN Exit(0) /\ UNCHANGED <<job, exitTimers>>
             ELSE Answered(j, 200) /\ UNCHANGED exitCode

\* What follows the packing, up to the next await.
Packed(j) ==
  IF HasStorage
    THEN Goto(j, "upload") /\ UNCHANGED <<exitCode, exitTimers>>
    ELSE IF j = Main THEN Exit(0) /\ UNCHANGED <<job, exitTimers>>
                     ELSE Answered(j, 200) /\ UNCHANGED exitCode

\* The browser is closed, and tar has packed its directory.
Pack(j) ==
  /\ job[j].pc = "close"
  /\ browser = "closed"
  /\ tar' = {[jar |-> jar, saved |-> job[j].saved,
               read |-> job[j].read]}
  /\ Packed(j)
  /\ UNCHANGED <<params, browser, page, jar, originSet, shutdownTimer,
                 uploaded, sincePing>>

Upload(j) ==
  /\ job[j].pc = "upload"
  /\ uploaded' = TRUE
  /\ IF j = Main THEN Exit(0) /\ UNCHANGED <<job, exitTimers>>
                 ELSE Answered(j, 200) /\ UNCHANGED exitCode
  /\ UNCHANGED <<params, browser, page, jar, originSet, shutdownTimer, tar,
                 sincePing>>

---------------------------------------------------------------------------
(* The clock and the ends of the process *)

\* Time goes on while no timer is due.
Tick ==
  /\ 0 \notin exitTimers \cup {shutdownTimer}
  /\ exitTimers \cup {shutdownTimer} # {Off}
  /\ exitTimers' = {t - 1 : t \in exitTimers}
  /\ shutdownTimer' = IF shutdownTimer = Off THEN Off ELSE shutdownTimer - 1
  /\ sincePing' = IF sincePing > params.shutdownWait THEN sincePing
                                                     ELSE sincePing + 1
  /\ UNCHANGED <<params, exitCode, browser, page, jar, originSet, job, tar,
                 uploaded>>

TimerFires ==
  /\ 0 \in exitTimers \cup {shutdownTimer}
  /\ Exit(0)
  /\ UNCHANGED <<params, browser, page, jar, originSet, shutdownTimer,
                 exitTimers, job, tar, uploaded, sincePing>>

\* SIGINT or SIGTERM.
HandleTerminate ==
  /\ Exit(1)
  /\ UNCHANGED <<params, browser, page, jar, originSet, shutdownTimer,
                 exitTimers, job, tar, uploaded, sincePing>>

JobStep(j) ==
  \/ ReadBody(j) \/ GetCookies(j) \/ SetCookies(j) \/ SaveFails(j)
  \/ ClearCache(j) \/ Pack(j) \/ Upload(j) \/ CreateFails(j)

MainStep == Launch \/ Prompt \/ OpenWindow \/ LogIn

Next ==
  /\ exitCode = Running
  /\ \/ MainStep \/ BrowserGone \/ Tick \/ TimerFires \/ HandleTerminate
     \/ \E j \in Jobs : JobStep(j)
     \/ \E c \in Cookies : PageSetsCookie(c)
     \/ \E l \in Loads, o \in Origins : PageLoad(l, o)
     \/ Ping
     \/ \E r \in Requests, path \in {"/navigate"} \cup Creates :
          HandleRequest(r, path)

Spec == Init /\ [][Next]_vars

\* What is under way goes on: handlers run on, a browser that was told to close
\* closes, timers fire.
Live == exitCode = Running
FairSpec ==
  /\ Spec
  /\ \A j \in Jobs : WF_vars(Live /\ JobStep(j))
  /\ WF_vars(Live /\ MainStep)
  /\ WF_vars(Live /\ browser = "closing" /\ BrowserGone)
  /\ WF_vars(Live /\ Tick) /\ WF_vars(Live /\ TimerFires)

---------------------------------------------------------------------------

\* A creation that is answered with success, or that the automated program
\* ended with 0 after, has left a packed profile, and an uploaded one when
\* there is a storage: nothing is promised before it is done, whichever of
\* several requests closes the browser and whoever loses it meanwhile.
SuccessMeansKept ==
  \/ \E r \in Requests : job[r].kind \in Creates /\ job[r].status = 200
  \/ params.automated /\ exitCode = 0
  => tar # {} /\ (HasStorage => uploaded)

\* The cookies that the request read, and that no page set again after that,
\* outlive the browser in the profile it packs: neither the handler of a page
\* load that saves the same cookies nor a second request turns them back.
ReadCookiesLast ==
  \A t \in tar :
    t.saved => \A c \in t.read : t.jar[c] = "lasting"

\* The process ends by itself only after a creation was answered or when no
\* ping came for shutdownWait: the timer that a ping cleared never fires.
PingsKeepAlive ==
  exitCode = 0 /\ ~params.automated =>
    \/ \E r \in Requests : job[r].kind \in Creates /\ job[r].status # 0
    \/ params.shutdownWait > 0 /\ sincePing >= params.shutdownWait

---------------------------------------------------------------------------
(* What the first and the last of these rest on. *)

\* Only main runs before the server and its timers are set, and an automated
\* program never gets that far.
ServerIsLast ==
  /\ job[Main].pc \in {"start", "prompt", "window", "form", "cache", "close",
                       "upload", "done"}
  /\ job[Main].pc \in {"form", "cache", "close", "upload"} => params.automated
  /\ job[Main].pc = "done" => ~params.automated
  /\ job[Main].pc # "done" =>
       /\ shutdownTimer = Off /\ exitTimers = {}
       /\ \A j \in Jobs \ {Main} : job[j].pc = "idle"

\* What the handlers of page loads and of requests get to.
HandlersInPlace ==
  /\ \A l \in Loads : job[l].pc \in {"idle", "get", "set"}
  /\ \A r \in Requests :
       job[r].pc \in {"get", "set", "cache", "close", "upload", "done"} =>
         job[r].kind \in Creates
  /\ \A j \in Jobs : job[j].status # 0 => job[j].pc = "done"

\* A profile that is to be uploaded is packed; timers of creations have an
\* answered one; the shutdown timer knows the time of the last ping.
TimersHaveCause ==
  /\ \A j \in Jobs : job[j].pc = "upload" => tar # {}
  /\ exitTimers # {} =>
       \E r \in Requests : job[r].kind \in Creates /\ job[r].status # 0
  /\ shutdownTimer # Off =>
       params.shutdownWait > 0 /\ sincePing + shutdownTimer >= params.shutdownWait

ServerInv ==
  /\ ServerIsLast /\ HandlersInPlace /\ TimersHaveCause
  /\ SuccessMeansKept /\ PingsKeepAlive

\* What a handler h has read it has written back as lasting in the jar j, unless
\* it is just about to; one that has not read yet holds nothing.
ReadIsKept(h, j) ==
  /\ h.pc \in {"idle", "start", "prompt", "window", "form"} => h.read = {}
  /\ h.pc = "set" => h.read \subseteq h.copy
  /\ h.pc # "set" /\ h.saved => \A c \in h.read : j[c] = "lasting"

CookiesKept ==
  /\ \A h \in Jobs : ReadIsKept(job[h], jar)
  /\ ReadCookiesLast
---------------------------------------------------------------------------
(* Liveness *)

\* The pings cease.
Unpinged == <>[][~Ping]_vars

\* The process ends: after a creation has begun, whether it succeeds or not,
\* and, with a shutdownWait, also when nobody asks for anything any more.
ProcessEnds ==
  /\ params.automated => <>(~Live)
  /\ params.shutdownWait > 0 /\ Unpinged => <>(~Live)
  /\ (\E r \in Requests : job[r].kind \in Creates
                           /\ job[r].pc \notin {"done"})  ~> ~Live
===========================================================================
