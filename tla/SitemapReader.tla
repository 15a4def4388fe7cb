--------------------------- MODULE SitemapReader --------------------------
(***************************************************************************)
(* class SitemapReader of src/src/util/sitemapper.ts and its caller        *)
(* parseSitemap of src/src/services/statemanager.ts: nested sitemaps are   *)
(* fetched by a queue of bounded concurrency and parsed as streams, side   *)
(* by side; when all is read, or the limit reached, "end" is emitted.      *)
(*                                                                         *)
(* A sitemap is the set of its entries: pages, and further sitemaps.  The  *)
(* parser's errors that it resumes from are left out.                      *)
(***************************************************************************)
EXTENDS Naturals, Sequences, FiniteSets

CONSTANTS
  Sitemaps, Pages,
  Entries,       \* what each sitemap lists
  OutOfRange,    \* entries whose lastmod is outside of fromDate .. toDate
  Listed,        \* the sitemaps that robots.txt lists
  SitemapXml,    \* the sitemap at /sitemap.xml
  Concurrency,   \* SITEMAP_CONCURRENCY
  Limit,         \* limit, 0 means none
  Failing,       \* sitemaps whose fetch may fail
  Jobs           \* bound: names for sitemaps being read at one time

ASSUME ReaderAssumption ==
  /\ Entries \in [Sitemaps -> SUBSET (Sitemaps \cup Pages)]
  /\ Sitemaps \cap Pages = {}
  /\ OutOfRange \in SUBSET (Sitemaps \cup Pages)
  /\ Listed \in SUBSET Sitemaps
  /\ SitemapXml \in Sitemaps
  /\ Concurrency \in Nat \ {0}
  /\ Limit \in Nat
  /\ Failing \in SUBSET Sitemaps
  /\ Jobs \in SUBSET Nat /\ IsFiniteSet(Jobs)

VARIABLES
  phase,     \* of parse: "start", "robots", then "reading" or "failed"
  toAdd,     \* lines of robots.txt that are still to be looked at
  queue,     \* tasks that wait in the PQueue
  job,       \* sitemaps that are fetched or parsed
  pending,   \* pending
  seenSitemapSet, \* seenSitemapSet
  count,     \* count
  closing,   \* a call of closeSitemap waits for onIdle
  done,      \* "end" was emitted, and markSitemapDone called
  top,       \* history: the sitemaps that parse began with
  twice,     \* history: a sitemap was read twice at the same time
  emitted,   \* history: the pages passed on by "url" events
  failures   \* history: sitemaps that could not be fetched or read to the end

vars == <<phase, toAdd, queue, job, pending, seenSitemapSet, count, closing,
          done, top, twice, emitted, failures>>

NoJob == [at |-> "off", url |-> SitemapXml, rest |-> {}]
Fetch(s) == [at |-> "fetch", url |-> s, rest |-> {}]
Parse(s) == [at |-> "parse", url |-> s, rest |-> Entries[s]]

Fetching(jobs) == {j \in Jobs : jobs[j].at = "fetch"}
Running == Fetching(job)
AtLimit == Limit > 0 /\ count >= Limit
Idle == Running = {} /\ queue = <<>>

Reading == [at : {"off", "fetch", "parse"}, url : Sitemaps,
            rest : SUBSET (Sitemaps \cup Pages)]

ReaderTypeOK ==
  /\ phase \in {"start", "robots", "reading", "failed"}
  /\ toAdd \in SUBSET Listed
  /\ pending \in SUBSET Sitemaps
  /\ seenSitemapSet \in SUBSET Sitemaps
  /\ count \in Nat
  /\ closing \in BOOLEAN /\ done \in BOOLEAN /\ twice \in BOOLEAN
  /\ top \in SUBSET Sitemaps /\ emitted \in SUBSET Pages
  /\ failures \in SUBSET Sitemaps

\* Of the tasks that jobs and the queue q hold, no more run than the PQueue has
\* places, and none waits while there is a free one.
PlacesUsed(jobs, q) ==
  /\ Cardinality(Fetching(jobs)) <= Concurrency
  /\ q # <<>> => Cardinality(Fetching(jobs)) = Concurrency

QueueTypeOK ==
  /\ queue \in Seq(Sitemaps)
  /\ job \in [Jobs -> Reading]
  /\ PlacesUsed(job, queue)

\* The variables hold values of their types, and the places of the PQueue are used.
TypeOK == ReaderTypeOK /\ QueueTypeOK

Init ==
  /\ phase = "start"
  /\ toAdd = {}
  /\ queue = <<>>
  /\ job = [j \in Jobs |-> NoJob]
  /\ pending = {}
  /\ seenSitemapSet = {}
  /\ count = 0
  /\ closing = FALSE
  /\ done = FALSE
  /\ top = {}
  /\ twice = FALSE
  /\ emitted = {}
  /\ failures = {}

---------------------------------------------------------------------------
(* The PQueue and closeSitemap, as parts of the actions below.             *)

\* A name for a sitemap that is read from now on: the first free one.
Free(jobs) ==
  LET free == {j \in Jobs : jobs[j].at = "off"}
  IN {j \in free : \A k \in free : j <= k}

\* The first round trip of parseSitemap: the task starts at once.
\* Mutant: the sitemap is not pending until its parser starts.
StartTaskNotPending(s, jobs, from) ==
  \E j \in Free(jobs) :
    /\ job' = [jobs EXCEPT ![j] = Fetch(s)]
    /\ seenSitemapSet' = seenSitemapSet \cup {s}
    /\ pending' = from
    /\ twice' = (twice \/ s \in from)

StartTask(s, jobs, from) ==
  \E j \in Free(jobs) :
    /\ job' = [jobs EXCEPT ![j] = Fetch(s)]
    /\ seenSitemapSet' = seenSitemapSet \cup {s}
    /\ pending' = from \cup {s}
    /\ twice' = (twice \/ s \in from)

\* addNewSitemap, called while the jobs are as given.  The sitemap counts as
\* seen when its task starts, not yet when it is added.
AddNewSitemap(s, outOfRange, jobs) ==
  LET free == Cardinality(Fetching(jobs)) < Concurrency
      ignored == s \in seenSitemapSet \/ outOfRange \/ AtLimit
  IN \/ /\ ignored
        /\ job' = jobs
        /\ UNCHANGED <<queue, pending, seenSitemapSet, twice>>
     \/ ~ignored /\ free /\ StartTask(s, jobs, pending) /\ UNCHANGED queue
     \/ /\ ~ignored /\ ~free
        /\ queue' = Append(queue, s)
        /\ job' = jobs
        /\ UNCHANGED <<pending, seenSitemapSet, twice>>

\* A task is over: the next one that waits is started.
TaskOver(jobs, from) ==
  \/ queue = <<>> /\ job' = jobs /\ pending' = from
     /\ UNCHANGED <<queue, seenSitemapSet, twice>>
  \/ queue # <<>> /\ StartTask(Head(queue), jobs, from) /\ queue' = Tail(queue)

\* Mutant: the sitemap stays pending.
CloseSitemapKeeps(s) ==
  /\ closing' = (closing \/ pending = {})
  /\ UNCHANGED pending

CloseSitemap(s) ==
  /\ pending' = pending \ {s}
  /\ closing' = (closing \/ pending' = {})

---------------------------------------------------------------------------

\* parse: robots.txt is there, or the given URL is one.
ParseRobots ==
  /\ phase = "start"
  /\ top' = Listed
  /\ phase' = "robots"
  /\ toAdd' = Listed
  /\ UNCHANGED <<queue, job, pending, seenSitemapSet, count, closing, done,
                 twice, emitted, failures>>

\* One line of robots.txt, which has no lastmod.  All of them are added before
\* anything is fetched.
AddListed(s) ==
  /\ phase = "robots"
  /\ s \in toAdd
  /\ toAdd' = toAdd \ {s}
  /\ AddNewSitemap(s, FALSE, job)
  /\ UNCHANGED <<phase, count, closing, done, top, emitted, failures>>

Listen ==
  /\ phase = "robots"
  /\ toAdd = {}
  /\ phase' = "reading"
  /\ UNCHANGED <<toAdd, queue, job, pending, seenSitemapSet, count, closing,
                 done, top, twice, emitted, failures>>

\* parse without robots.txt: /sitemap.xml is parsed outside of the PQueue,
\* and is not entered in seenSitemapSet.
ParseSitemapXml ==
  /\ phase = "start"
  /\ top' = {SitemapXml}
  /\ phase' = "reading"
  /\ pending' = {SitemapXml}
  /\ \E j \in Free(job) : job' = [job EXCEPT ![j] = Parse(SitemapXml)]
  /\ UNCHANGED <<toAdd, queue, seenSitemapSet, count, closing, done,
                 twice, emitted, failures>>

\* Neither is there: parse throws, and its caller gives up.
NotFound ==
  /\ phase = "start"
  /\ SitemapXml \in Failing
  /\ phase' = "failed"
  /\ failures' = failures \cup {SitemapXml}
  /\ UNCHANGED <<toAdd, queue, job, pending, seenSitemapSet, count, closing,
                 done, top, twice, emitted>>

\* parseSitemap of a nested sitemap: its response has come.
Fetched(j) ==
  /\ job[j].at = "fetch"
  /\ TaskOver([job EXCEPT ![j] = Parse(job[j].url)], pending \cup {job[j].url})
  /\ UNCHANGED <<phase, toAdd, count, closing, done, top, emitted, failures>>

\* No response, or one without success: the task is over, and the sitemap
\* stays pending.
FetchFails(j) ==
  /\ job[j].at = "fetch"
  /\ job[j].url \in Failing
  /\ failures' = failures \cup {job[j].url}
  /\ TaskOver([job EXCEPT ![j] = NoJob], pending)
  /\ UNCHANGED <<phase, toAdd, count, closing, done, top, emitted>>

\* The stream breaks off: the sitemap is closed.
StreamFails(j) ==
  /\ job[j].at = "parse"
  /\ job[j].url \in Failing
  /\ failures' = failures \cup {job[j].url}
  /\ job' = [job EXCEPT ![j] = NoJob]
  /\ CloseSitemap(job[j].url)
  /\ UNCHANGED <<phase, toAdd, queue, seenSitemapSet, count, done, top,
                 twice, emitted>>

\* </sitemap>
NestedSitemap(j, s) ==
  /\ job[j].at = "parse"
  /\ s \in job[j].rest \cap Sitemaps
  /\ AddNewSitemap(s, s \in OutOfRange, [job EXCEPT ![j].rest = @ \ {s}])
  /\ UNCHANGED <<phase, toAdd, count, closing, done, top, emitted, failures>>

\* </url>: emitEntry, and the parser is closed at the limit, which closes
\* the sitemap although the rest of the file is still to come.
\* Mutant: the limit is only looked at afterwards.
EmitEntryUnlimited(j, p) ==
  /\ job[j].at = "parse"
  /\ p \in job[j].rest \cap Pages
  /\ job' = [job EXCEPT ![j].rest = @ \ {p}]
  /\ emitted' = emitted \cup {p}
  /\ count' = count + 1
  /\ IF Limit > 0 /\ count' >= Limit
       THEN CloseSitemap(job[j].url) ELSE UNCHANGED <<pending, closing>>
  /\ UNCHANGED <<phase, toAdd, queue, seenSitemapSet, done, top, twice,
                 failures>>

EmitEntry(j, p) ==
  /\ job[j].at = "parse"
  /\ p \in job[j].rest \cap Pages
  /\ job' = [job EXCEPT ![j].rest = @ \ {p}]
  /\ \/ /\ p \in OutOfRange
        /\ UNCHANGED <<queue, emitted, count>>
     \/ /\ p \notin OutOfRange /\ AtLimit
        /\ queue' = <<>>
        /\ UNCHANGED <<emitted, count>>
     \/ /\ p \notin OutOfRange /\ ~AtLimit
        /\ emitted' = emitted \cup {p}
        /\ count' = count + 1
        /\ UNCHANGED queue
  /\ IF Limit > 0 /\ count' >= Limit
       THEN CloseSitemap(job[j].url) ELSE UNCHANGED <<pending, closing>>
  /\ UNCHANGED <<phase, toAdd, seenSitemapSet, done, top, twice, failures>>

\* The parser's "end".
StreamEnds(j) ==
  /\ job[j].at = "parse"
  /\ job[j].rest = {}
  /\ job' = [job EXCEPT ![j] = NoJob]
  /\ CloseSitemap(job[j].url)
  /\ UNCHANGED <<phase, toAdd, queue, seenSitemapSet, count, done, top,
                 twice, emitted, failures>>

\* closeSitemap after onIdle: "end"; its first handler call marks the sitemap
\* done.
End ==
  /\ closing /\ Idle
  /\ closing' = FALSE
  /\ done' = TRUE
  /\ UNCHANGED <<phase, toAdd, queue, job, pending, seenSitemapSet, count, top,
                 twice, emitted, failures>>

\* The handlers of the caller are there once parse has returned.
JobStep(j) ==
  /\ phase = "reading"
  /\ \/ Fetched(j) \/ FetchFails(j) \/ StreamFails(j)
     \/ \E s \in Sitemaps : NestedSitemap(j, s)
     \/ \E p \in Pages : EmitEntry(j, p)
     \/ StreamEnds(j)

ParseStep ==
  \/ ParseRobots \/ (\E s \in Listed : AddListed(s)) \/ Listen
  \/ ParseSitemapXml \/ NotFound

Next ==
  \/ ParseStep
  \/ \E j \in Jobs : JobStep(j)
  \/ End

Spec == Init /\ [][Next]_vars

\* Every fetch is answered in the end, every stream ends, and the PQueue
\* tells those who wait that it is idle.
Fairness ==
  /\ WF_vars(ParseStep)
  /\ \A j \in Jobs : WF_vars(JobStep(j))
  /\ WF_vars(End)

FairSpec == Spec /\ Fairness
---------------------------------------------------------------------------
(* Properties.                                                             *)

\* However many sitemaps are read side by side, no more pages are passed on
\* than the limit says, not even by files that are parsed on after it.
CountWithinLimit == Limit > 0 => count <= Limit

\* The sitemaps that those of the start lead to: they are in every set that
\* has these, and with each of its sitemaps all that it lists in range.
Reached ==
  {s \in Sitemaps :
     \A C \in SUBSET Sitemaps :
       /\ top \subseteq C
       /\ \A r \in C : (Entries[r] \cap Sitemaps) \ OutOfRange \subseteq C
       => s \in C}
Wanted == (UNION {Entries[s] : s \in Reached}) \cap (Pages \ OutOfRange)

\* The sitemap is marked as done, which a restart skips, only when all of its
\* pages were passed on, unless a fetch failed or the limit was reached.  It
\* may be done too early when the same sitemap is read twice at once, since
\* the first of the two to end takes the other's URL out of pending.
DoneMeansRead ==
  done /\ failures = {} /\ ~AtLimit /\ ~twice => Wanted \subseteq emitted

\* "end" comes if every sitemap could be read, also when the same one is
\* listed several times and when the limit is reached half way.
EndComes ==
  <>(done \/ failures # {} \/ (phase = "reading" /\ top = {}))

===========================================================================
