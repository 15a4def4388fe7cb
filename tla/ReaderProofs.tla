---------------------------- MODULE ReaderProofs --------------------------
(***************************************************************************)
(* Theorems about SitemapReader, for any sitemaps, limit and number of     *)
(* places: no more sitemaps are fetched at one time than there are places, *)
(* none waits while there is a free one, the limit is kept by all parsers  *)
(* together, and a reader that says it is done has read everything.        *)
(***************************************************************************)
EXTENDS SitemapReader, FiniteSetTheorems, TLAPS

IInv == TypeOK /\ CountWithinLimit

---------------------------------------------------------------------------
(* The places of the PQueue.                                               *)

\* The jobs that fetch are finitely many.
LEMMA FetchingIsFinite ==
  ASSUME NEW jobs
  PROVE  IsFiniteSet(Fetching(jobs)) /\ Cardinality(Fetching(jobs)) \in Nat
<1>1. Fetching(jobs) \subseteq Jobs
  BY DEF Fetching
<1>2. IsFiniteSet(Fetching(jobs))
  BY <1>1, ReaderAssumption, FS_Subset
<1>3. QED BY <1>2, FS_CardinalityType

LEMMA NewReadings ==
  ASSUME NEW s \in Sitemaps
  PROVE  NoJob \in Reading /\ Fetch(s) \in Reading /\ Parse(s) \in Reading
BY ReaderAssumption DEF NoJob, Fetch, Parse, Reading

\* A task that starts takes one more place.
LEMMA StartTakesPlace ==
  ASSUME NEW s \in Sitemaps, NEW jobs \in [Jobs -> Reading], NEW from \in SUBSET Sitemaps,
         StartTask(s, jobs, from), seenSitemapSet \in SUBSET Sitemaps, twice \in BOOLEAN
  PROVE  /\ job' \in [Jobs -> Reading]
         /\ Cardinality(Fetching(job')) = Cardinality(Fetching(jobs)) + 1
         /\ seenSitemapSet' \in SUBSET Sitemaps /\ pending' \in SUBSET Sitemaps
         /\ twice' \in BOOLEAN
<1>1. PICK j \in Jobs : jobs[j].at = "off" /\ job' = [jobs EXCEPT ![j] = Fetch(s)]
  BY DEF StartTask, Free
<1>2. job' \in [Jobs -> Reading]
  BY <1>1, NewReadings
<1>3. Fetching(job') = Fetching(jobs) \cup {j} /\ j \notin Fetching(jobs)
  BY <1>1 DEF Fetching, Fetch
<1>4. Cardinality(Fetching(job')) = Cardinality(Fetching(jobs)) + 1
  BY <1>3, FetchingIsFinite, FS_AddElement
<1>5. QED BY <1>2, <1>4 DEF StartTask

LEMMA AddKeepsPlaces ==
  ASSUME TypeOK, NEW s \in Sitemaps, NEW b, NEW jobs \in [Jobs -> Reading],
         Fetching(jobs) = Fetching(job), AddNewSitemap(s, b, jobs)
  PROVE  /\ QueueTypeOK'
         /\ seenSitemapSet' \in SUBSET Sitemaps /\ pending' \in SUBSET Sitemaps
         /\ twice' \in BOOLEAN
<1>0. /\ Cardinality(Fetching(job)) \in Nat /\ Concurrency \in Nat
      /\ queue \in Seq(Sitemaps) /\ PlacesUsed(job, queue)
      /\ seenSitemapSet \in SUBSET Sitemaps /\ pending \in SUBSET Sitemaps
      /\ twice \in BOOLEAN
  BY FetchingIsFinite, ReaderAssumption DEF TypeOK, ReaderTypeOK, QueueTypeOK
<1>1. CASE job' = jobs /\ UNCHANGED <<queue, pending, seenSitemapSet, twice>>
  <2>1. Fetching(job') = Fetching(job)
    BY <1>1
  <2>2. PlacesUsed(job', queue')
    BY <1>0, <1>1, <2>1 DEF PlacesUsed
  <2>3. QED BY <1>0, <1>1, <2>2 DEF QueueTypeOK
<1>2. CASE /\ Cardinality(Fetching(jobs)) < Concurrency
           /\ StartTask(s, jobs, pending) /\ UNCHANGED queue
  <2>1. /\ job' \in [Jobs -> Reading]
        /\ Cardinality(Fetching(job')) = Cardinality(Fetching(jobs)) + 1
        /\ seenSitemapSet' \in SUBSET Sitemaps /\ pending' \in SUBSET Sitemaps
        /\ twice' \in BOOLEAN
    BY <1>0, <1>2, StartTakesPlace
  <2>2. PlacesUsed(job', queue')
    BY <1>0, <1>2, <2>1 DEF PlacesUsed
  <2>3. QED BY <1>0, <1>2, <2>1, <2>2 DEF QueueTypeOK
<1>3. CASE /\ ~(Cardinality(Fetching(jobs)) < Concurrency)
           /\ queue' = Append(queue, s) /\ job' = jobs
           /\ UNCHANGED <<pending, seenSitemapSet, twice>>
  <2>1. Cardinality(Fetching(job')) = Concurrency
    BY <1>0, <1>3 DEF PlacesUsed
  <2>2. queue' \in Seq(Sitemaps)
    BY <1>0, <1>3
  <2>3. PlacesUsed(job', queue')
    BY <1>0, <2>1 DEF PlacesUsed
  <2>4. QED BY <1>0, <1>3, <2>2, <2>3 DEF QueueTypeOK
<1>4. QED BY <1>1, <1>2, <1>3 DEF AddNewSitemap

\* A task that is over gives its place to the next one.
LEMMA OverKeepsPlaces ==
  ASSUME TypeOK, NEW j \in Jobs, job[j].at = "fetch", NEW new \in Reading, new.at # "fetch",
         NEW from \in SUBSET Sitemaps, TaskOver([job EXCEPT ![j] = new], from)
  PROVE  /\ QueueTypeOK'
         /\ seenSitemapSet' \in SUBSET Sitemaps /\ pending' \in SUBSET Sitemaps
         /\ twice' \in BOOLEAN
<1> DEFINE jobs == [job EXCEPT ![j] = new]
<1>0. /\ Cardinality(Fetching(job)) \in Nat /\ Concurrency \in Nat
      /\ queue \in Seq(Sitemaps) /\ PlacesUsed(job, queue) /\ job \in [Jobs -> Reading]
      /\ seenSitemapSet \in SUBSET Sitemaps /\ twice \in BOOLEAN
  BY FetchingIsFinite, ReaderAssumption DEF TypeOK, ReaderTypeOK, QueueTypeOK
<1>1. jobs \in [Jobs -> Reading]
  BY <1>0
<1>2. Fetching(jobs) = Fetching(job) \ {j} /\ j \in Fetching(job)
  <2>1. jobs[j] = new /\ \A k \in Jobs \ {j} : jobs[k] = job[k]
    BY <1>0
  <2> HIDE DEF jobs
  <2>2. QED BY <2>1 DEF Fetching
<1>3. Cardinality(Fetching(jobs)) = Cardinality(Fetching(job)) - 1
  <2>1. IsFiniteSet(Fetching(job))
    BY FetchingIsFinite
  <2>2. Cardinality(Fetching(job) \ {j}) = Cardinality(Fetching(job)) - 1
    BY <1>2, <2>1, FS_RemoveElement
  <2>3. QED BY <1>2, <2>2
<1>4. TaskOver(jobs, from)
  OBVIOUS
<1> HIDE DEF jobs
<1>5. CASE queue = <<>> /\ job' = jobs /\ pending' = from
           /\ UNCHANGED <<queue, seenSitemapSet, twice>>
  <2>1. PlacesUsed(job', queue')
    BY <1>0, <1>3, <1>5 DEF PlacesUsed
  <2>2. QED BY <1>0, <1>1, <1>5, <2>1 DEF QueueTypeOK
<1>6. CASE queue # <<>> /\ StartTask(Head(queue), jobs, from) /\ queue' = Tail(queue)
  <2>1. Head(queue) \in Sitemaps /\ queue' \in Seq(Sitemaps)
    BY <1>0, <1>6
  <2>2. /\ job' \in [Jobs -> Reading]
        /\ Cardinality(Fetching(job')) = Cardinality(Fetching(jobs)) + 1
        /\ seenSitemapSet' \in SUBSET Sitemaps /\ pending' \in SUBSET Sitemaps
        /\ twice' \in BOOLEAN
    BY <1>0, <1>1, <1>6, <2>1, StartTakesPlace
  <2>3. PlacesUsed(job', queue')
    BY <1>0, <1>3, <1>6, <2>2 DEF PlacesUsed
  <2>4. QED BY <2>1, <2>2, <2>3 DEF QueueTypeOK
<1>7. QED BY <1>4, <1>5, <1>6 DEF TaskOver

\* A job that is not fetched, before or after.
LEMMA OtherKeepsPlaces ==
  ASSUME TypeOK, NEW j \in Jobs, job[j].at # "fetch", NEW new \in Reading, new.at # "fetch",
         job' = [job EXCEPT ![j] = new], queue' \in {queue, <<>>}
  PROVE  QueueTypeOK'
<1>1. job \in [Jobs -> Reading] /\ queue \in Seq(Sitemaps) /\ PlacesUsed(job, queue)
  BY DEF TypeOK, QueueTypeOK
<1>2. Fetching(job') = Fetching(job)
  <2>1. job'[j] = new /\ \A k \in Jobs \ {j} : job'[k] = job[k]
    BY <1>1
  <2>2. QED BY <2>1 DEF Fetching
<1>3. PlacesUsed(job', queue')
  BY <1>1, <1>2 DEF PlacesUsed
<1>4. queue' \in Seq(Sitemaps) /\ job' \in [Jobs -> Reading]
  <2>1. job' \in [Jobs -> Reading]
    BY <1>1
  <2>2. <<>> \in Seq(Sitemaps)
    OBVIOUS
  <2>3. QED BY <1>1, <2>1, <2>2
<1>5. QED BY <1>3, <1>4 DEF QueueTypeOK

---------------------------------------------------------------------------
(* The steps.                                                              *)

LEMMA CloseTypes ==
  ASSUME ReaderTypeOK, NEW s \in Sitemaps, CloseSitemap(s)
  PROVE  pending' \in SUBSET Sitemaps /\ closing' \in BOOLEAN
BY DEF CloseSitemap, ReaderTypeOK

LEMMA ParseStepHolds ==
  ASSUME IInv, ParseStep
  PROVE  IInv'
<1>0. ReaderTypeOK /\ QueueTypeOK /\ CountWithinLimit /\ job \in [Jobs -> Reading]
  BY DEF IInv, TypeOK, QueueTypeOK
<1> USE DEF IInv, TypeOK
<1>1. CASE ParseRobots \/ Listen \/ NotFound
  <2>1. /\ UNCHANGED <<queue, job, pending, seenSitemapSet, count, closing, done, twice, emitted>>
        /\ phase' \in {"robots", "reading", "failed"} /\ toAdd' \in SUBSET Listed
        /\ top' \in SUBSET Sitemaps /\ failures' \in SUBSET Sitemaps
    BY <1>0, <1>1, ReaderAssumption DEF ParseRobots, Listen, NotFound, ReaderTypeOK
  <2>2. ReaderTypeOK' /\ CountWithinLimit'
    BY <1>0, <2>1 DEF ReaderTypeOK, CountWithinLimit
  <2>3. QueueTypeOK'
    BY <1>0, <2>1 DEF QueueTypeOK, PlacesUsed, Fetching
  <2>4. QED BY <2>2, <2>3
<1>2. ASSUME NEW s \in Listed, AddListed(s) PROVE IInv'
  <2>1. /\ AddNewSitemap(s, FALSE, job) /\ s \in Sitemaps /\ toAdd' \in SUBSET Listed
        /\ UNCHANGED <<phase, count, closing, done, top, emitted, failures>>
    BY <1>0, <1>2, ReaderAssumption DEF AddListed, ReaderTypeOK
  <2>2. /\ QueueTypeOK' /\ seenSitemapSet' \in SUBSET Sitemaps
        /\ pending' \in SUBSET Sitemaps /\ twice' \in BOOLEAN
    BY <1>0, <2>1, AddKeepsPlaces
  <2>3. ReaderTypeOK' /\ CountWithinLimit'
    BY <1>0, <2>1, <2>2 DEF ReaderTypeOK, CountWithinLimit
  <2>4. QED BY <2>2, <2>3
<1>3. CASE ParseSitemapXml
  <2>1. PICK j \in Jobs : job[j].at = "off" /\ job' = [job EXCEPT ![j] = Parse(SitemapXml)]
    BY <1>3 DEF ParseSitemapXml, Free
  <2>2. SitemapXml \in Sitemaps
    BY ReaderAssumption
  <2>3. Parse(SitemapXml) \in Reading /\ Parse(SitemapXml).at = "parse"
    BY <2>2, NewReadings DEF Parse
  <2>4. UNCHANGED queue
    BY <1>3 DEF ParseSitemapXml
  <2>5. QueueTypeOK'
    BY <2>1, <2>3, <2>4, OtherKeepsPlaces
  <2>6. /\ phase' = "reading" /\ top' = {SitemapXml} /\ pending' = {SitemapXml}
        /\ UNCHANGED <<toAdd, seenSitemapSet, count, closing, done, twice, emitted, failures>>
    BY <1>3 DEF ParseSitemapXml
  <2>7. ReaderTypeOK' /\ CountWithinLimit'
    BY <1>0, <2>2, <2>6 DEF ReaderTypeOK, CountWithinLimit
  <2>8. QED BY <2>5, <2>7
<1>4. QED BY <1>1, <1>2, <1>3 DEF ParseStep

LEMMA JobStepHolds ==
  ASSUME IInv, NEW j \in Jobs, JobStep(j)
  PROVE  IInv'
<1>0. /\ ReaderTypeOK /\ QueueTypeOK /\ CountWithinLimit /\ job \in [Jobs -> Reading]
      /\ job[j] \in Reading /\ job[j].url \in Sitemaps
      /\ TypeOK
  BY DEF IInv, TypeOK, QueueTypeOK, Reading
<1>1. NoJob \in Reading /\ NoJob.at = "off"
      /\ Parse(job[j].url) \in Reading /\ Parse(job[j].url).at = "parse"
  BY <1>0, NewReadings DEF NoJob, Parse
<1>2. CASE Fetched(j)
  <2>1. /\ job[j].at = "fetch"
        /\ TaskOver([job EXCEPT ![j] = Parse(job[j].url)], pending \cup {job[j].url})
        /\ UNCHANGED <<phase, toAdd, count, closing, done, top, emitted, failures>>
    BY <1>2 DEF Fetched
  <2>2. pending \cup {job[j].url} \in SUBSET Sitemaps
    BY <1>0 DEF ReaderTypeOK
  <2>3. /\ QueueTypeOK' /\ seenSitemapSet' \in SUBSET Sitemaps
        /\ pending' \in SUBSET Sitemaps /\ twice' \in BOOLEAN
    BY <1>0, <1>1, <2>1, <2>2, OverKeepsPlaces
  <2>4. ReaderTypeOK' /\ CountWithinLimit'
    BY <1>0, <2>1, <2>3 DEF ReaderTypeOK, CountWithinLimit
  <2>5. QED BY <2>3, <2>4 DEF IInv, TypeOK
<1>3. CASE FetchFails(j)
  <2>1. /\ job[j].at = "fetch" /\ TaskOver([job EXCEPT ![j] = NoJob], pending)
        /\ failures' = failures \cup {job[j].url}
        /\ UNCHANGED <<phase, toAdd, count, closing, done, top, emitted>>
    BY <1>3 DEF FetchFails
  <2>2. pending \in SUBSET Sitemaps /\ failures' \in SUBSET Sitemaps
    BY <1>0, <2>1 DEF ReaderTypeOK
  <2>3. /\ QueueTypeOK' /\ seenSitemapSet' \in SUBSET Sitemaps
        /\ pending' \in SUBSET Sitemaps /\ twice' \in BOOLEAN
    BY <1>0, <1>1, <2>1, <2>2, OverKeepsPlaces
  <2>4. ReaderTypeOK' /\ CountWithinLimit'
    BY <1>0, <2>1, <2>2, <2>3 DEF ReaderTypeOK, CountWithinLimit
  <2>5. QED BY <2>3, <2>4 DEF IInv, TypeOK
<1>4. CASE StreamFails(j) \/ StreamEnds(j)
  <2>1. /\ job[j].at = "parse" /\ job' = [job EXCEPT ![j] = NoJob]
        /\ CloseSitemap(job[j].url)
        /\ failures' \in {failures, failures \cup {job[j].url}}
        /\ UNCHANGED <<phase, toAdd, queue, seenSitemapSet, count, done, top, twice, emitted>>
    BY <1>4 DEF StreamFails, StreamEnds
  <2>2. QueueTypeOK'
    BY <1>0, <1>1, <2>1, OtherKeepsPlaces
  <2>3. pending' \in SUBSET Sitemaps /\ closing' \in BOOLEAN
    BY <1>0, <2>1, CloseTypes
  <2>4. ReaderTypeOK' /\ CountWithinLimit'
    BY <1>0, <2>1, <2>3 DEF ReaderTypeOK, CountWithinLimit
  <2>5. QED BY <2>2, <2>4 DEF IInv, TypeOK
<1>5. ASSUME NEW s \in Sitemaps, NestedSitemap(j, s) PROVE IInv'
  <2> DEFINE new == [job[j] EXCEPT !.rest = @ \ {s}]
             jobs == [job EXCEPT ![j] = new]
  <2>1. /\ AddNewSitemap(s, s \in OutOfRange, [job EXCEPT ![j].rest = @ \ {s}])
        /\ job[j].at = "parse"
        /\ UNCHANGED <<phase, toAdd, count, closing, done, top, emitted, failures>>
    BY <1>5 DEF NestedSitemap
  <2>2. [job EXCEPT ![j].rest = @ \ {s}] = jobs
    BY <1>0
  <2>3. new \in Reading /\ new.at = "parse"
    BY <1>0, <2>1 DEF Reading
  <2> HIDE DEF new
  <2>4. jobs \in [Jobs -> Reading]
    BY <1>0, <2>3
  <2>5. Fetching(jobs) = Fetching(job)
    <3>1. jobs[j] = new /\ \A k \in Jobs \ {j} : jobs[k] = job[k]
      BY <1>0
    <3> HIDE DEF jobs
    <3>2. QED BY <2>1, <2>3, <3>1 DEF Fetching
  <2> HIDE DEF jobs
  <2>6. /\ QueueTypeOK' /\ seenSitemapSet' \in SUBSET Sitemaps
        /\ pending' \in SUBSET Sitemaps /\ twice' \in BOOLEAN
    <3>1. AddNewSitemap(s, s \in OutOfRange, jobs)
      BY <2>1, <2>2
    <3>2. QED BY <1>0, <2>4, <2>5, <3>1, AddKeepsPlaces
  <2>7. ReaderTypeOK' /\ CountWithinLimit'
    BY <1>0, <2>1, <2>6 DEF ReaderTypeOK, CountWithinLimit
  <2>8. QED BY <2>6, <2>7 DEF IInv, TypeOK
<1>6. ASSUME NEW p \in Pages, EmitEntry(j, p) PROVE IInv'
  <2> DEFINE new == [job[j] EXCEPT !.rest = @ \ {p}]
  <2>1. /\ job[j].at = "parse" /\ queue' \in {queue, <<>>}
        /\ UNCHANGED <<phase, toAdd, seenSitemapSet, done, top, twice, failures>>
        /\ \/ UNCHANGED <<emitted, count>>
           \/ ~AtLimit /\ emitted' = emitted \cup {p} /\ count' = count + 1
        /\ CloseSitemap(job[j].url) \/ UNCHANGED <<pending, closing>>
    <3>1. /\ job[j].at = "parse"
          /\ UNCHANGED <<phase, toAdd, seenSitemapSet, done, top, twice, failures>>
      BY <1>6 DEF EmitEntry
    <3>2. \/ UNCHANGED <<queue, emitted, count>>
          \/ queue' = <<>> /\ UNCHANGED <<emitted, count>>
          \/ ~AtLimit /\ emitted' = emitted \cup {p} /\ count' = count + 1 /\ UNCHANGED queue
      BY <1>6 DEF EmitEntry
    <3>3. CloseSitemap(job[j].url) \/ UNCHANGED <<pending, closing>>
      BY <1>6 DEF EmitEntry
    <3>4. QED BY <3>1, <3>2, <3>3
  <2>2. job' = [job EXCEPT ![j] = new]
    BY <1>0, <1>6 DEF EmitEntry
  <2>3. new \in Reading /\ new.at = "parse"
    BY <1>0, <2>1 DEF Reading
  <2> HIDE DEF new
  <2>4. QueueTypeOK'
    BY <1>0, <2>1, <2>2, <2>3, OtherKeepsPlaces
  <2>5. pending' \in SUBSET Sitemaps /\ closing' \in BOOLEAN
    BY <1>0, <2>1, CloseTypes DEF ReaderTypeOK
  <2>6. count' \in Nat /\ emitted' \in SUBSET Pages
    BY <1>0, <2>1 DEF ReaderTypeOK
  <2>7. ReaderTypeOK'
    BY <1>0, <2>1, <2>5, <2>6 DEF ReaderTypeOK
  <2>8. CountWithinLimit'
    BY <1>0, <2>1, ReaderAssumption DEF ReaderTypeOK, CountWithinLimit, AtLimit
  <2>9. QED BY <2>4, <2>7, <2>8 DEF IInv, TypeOK
<1>7. QED BY <1>2, <1>3, <1>4, <1>5, <1>6 DEF JobStep

---------------------------------------------------------------------------
(* The theorems.                                                           *)

\* The types, and the places of the PQueue: at most SITEMAP_CONCURRENCY fetches
\* at one time, and no waiting task while there is a free place; and no more
\* entries than the limit are counted (addNewSitemap, emitEntry).
THEOREM ReaderInvariant == Spec => [](TypeOK /\ CountWithinLimit)
<1>1. Init => IInv
  <2> SUFFICES ASSUME Init PROVE IInv
    OBVIOUS
  <2>1. job \in [Jobs -> Reading]
    <3>1. SitemapXml \in Sitemaps
      BY ReaderAssumption
    <3>2. NoJob \in Reading
      BY <3>1, NewReadings
    <3>3. QED BY <3>2 DEF Init
  <2>2. Fetching(job) = {}
    BY DEF Init, NoJob, Fetching
  <2>3. QueueTypeOK
    <3>1. Cardinality(Fetching(job)) = 0
      BY <2>2, FS_EmptySet
    <3>2. queue = <<>> /\ <<>> \in Seq(Sitemaps)
      BY DEF Init
    <3>3. QED BY <2>1, <3>1, <3>2, ReaderAssumption DEF QueueTypeOK, PlacesUsed
  <2>4. ReaderTypeOK /\ CountWithinLimit
    <3>1. count = 0 /\ Limit \in Nat
      BY ReaderAssumption DEF Init
    <3>2. CountWithinLimit
      BY <3>1 DEF CountWithinLimit
    <3>3. ReaderTypeOK
      BY DEF Init, ReaderTypeOK
    <3>4. QED BY <3>2, <3>3
  <2>5. QED BY <2>3, <2>4 DEF IInv, TypeOK
<1>2. IInv /\ [Next]_vars => IInv'
  <2> SUFFICES ASSUME IInv, [Next]_vars PROVE IInv'
    OBVIOUS
  <2>1. CASE UNCHANGED vars
    BY <2>1 DEF vars, IInv, TypeOK, ReaderTypeOK, QueueTypeOK, PlacesUsed, Fetching,
                CountWithinLimit
  <2>2. CASE End
    <3>1. /\ closing' = FALSE /\ done' = TRUE
          /\ UNCHANGED <<phase, toAdd, queue, job, pending, seenSitemapSet, count, top,
                         twice, emitted, failures>>
      BY <2>2 DEF End
    <3>2. ReaderTypeOK' /\ CountWithinLimit'
      BY <3>1 DEF IInv, TypeOK, ReaderTypeOK, CountWithinLimit
    <3>3. QueueTypeOK'
      BY <3>1 DEF IInv, TypeOK, QueueTypeOK, PlacesUsed, Fetching
    <3>4. QED BY <3>2, <3>3 DEF IInv, TypeOK
  <2>3. QED BY <2>1, <2>2, ParseStepHolds, JobStepHolds DEF Next
<1>3. QED BY <1>1, <1>2, PTL DEF Spec, IInv

\* However many sitemaps are parsed side by side, the limit is kept.
THEOREM LimitIsKept == Spec => []CountWithinLimit
BY ReaderInvariant, PTL

---------------------------------------------------------------------------
(* What is read when "end" comes.  As long as nothing has failed, every     *)
(* sitemap that counts as seen is fetched, is parsed with the rest of its  *)
(* entries still to come, or was read; and every one that is read is       *)
(* pending, so that closeSitemap finds pending empty only at the end.      *)

QueueSet == {queue[i] : i \in 1 .. Len(queue)}
Quiet == failures = {} /\ ~AtLimit /\ ~twice

\* Entries that were met: passed on, left out, or going to be read.
Met == OutOfRange \cup emitted \cup seenSitemapSet \cup QueueSet

\* A sitemap is fetched, or what was parsed of it was met, or all of it.
Begun(jobs, met, s) ==
  \/ \E j \in Jobs : /\ jobs[j].url = s
                     /\ \/ jobs[j].at = "fetch"
                        \/ jobs[j].at = "parse" /\ Entries[s] \ jobs[j].rest \subseteq met
  \/ Entries[s] \subseteq met

\* What was seen is being read, or was.
ReadingAccount ==
  /\ \A s \in seenSitemapSet : Begun(job, Met, s)
  /\ \A s \in top : s \in toAdd \cup QueueSet \/ Begun(job, Met, s)

\* Every sitemap that is read is pending, and read once at a time.
PendingAccount(jobs, pend) ==
  /\ \A j \in Jobs : jobs[j].at # "off" => jobs[j].url \in pend
  /\ \A j, k \in Jobs :
       jobs[j].at # "off" /\ jobs[k].at # "off" /\ jobs[j].url = jobs[k].url => j = k

\* closeSitemap waits, or has ended, only when nothing is left to read.
EndAccount ==
  closing \/ done => /\ phase = "reading" /\ queue = <<>>
                     /\ \A j \in Jobs : job[j].at = "off"

PhaseAccount ==
  /\ phase = "start" => /\ top = {} /\ seenSitemapSet = {} /\ queue = <<>>
                        /\ \A j \in Jobs : job[j].at = "off"
  /\ phase # "robots" => toAdd = {}

DoneInv ==
  Quiet => ReadingAccount /\ PendingAccount(job, pending) /\ EndAccount /\ PhaseAccount

LEMMA QueueSets ==
  ASSUME queue \in Seq(Sitemaps)
  PROVE  /\ QueueSet \subseteq Sitemaps
         /\ \A s \in Sitemaps : queue' = Append(queue, s) => QueueSet' = QueueSet \cup {s}
         /\ queue # <<>> => /\ Head(queue) \in Sitemaps
                            /\ queue' = Tail(queue) => QueueSet \subseteq QueueSet' \cup {Head(queue)}
<1>1. QueueSet \subseteq Sitemaps
  BY DEF QueueSet
<1>2. ASSUME NEW s \in Sitemaps, queue' = Append(queue, s)
      PROVE  QueueSet' = QueueSet \cup {s}
  BY <1>2 DEF QueueSet
<1>3. ASSUME queue # <<>>, queue' = Tail(queue)
      PROVE  QueueSet \subseteq QueueSet' \cup {Head(queue)}
  <2> SUFFICES ASSUME NEW i \in 1 .. Len(queue), i # 1
               PROVE  queue[i] \in QueueSet'
    BY DEF QueueSet
  <2>1. i - 1 \in 1 .. Len(queue') /\ queue'[i - 1] = queue[i]
    BY <1>3
  <2>2. QED BY <2>1 DEF QueueSet
<1>4. QED BY <1>1, <1>2, <1>3

\* The histories, the count and the limit only grow.
LEMMA QuietBefore ==
  ASSUME TypeOK, Next, Quiet'
  PROVE  Quiet
<1>1. count' >= count /\ count \in Nat /\ count' \in Nat
  <2>1. count \in Nat
    BY DEF TypeOK, ReaderTypeOK
  <2>2. count' = count \/ count' = count + 1
    BY DEF Next, ParseStep, JobStep, ParseRobots, AddListed, Listen, ParseSitemapXml, NotFound,
           Fetched, FetchFails, StreamFails, NestedSitemap, EmitEntry, StreamEnds, End
  <2>3. QED BY <2>1, <2>2
<1>2. failures \subseteq failures'
  BY DEF Next, ParseStep, JobStep, ParseRobots, AddListed, Listen, ParseSitemapXml, NotFound,
         Fetched, FetchFails, StreamFails, NestedSitemap, EmitEntry, StreamEnds, End
<1>3. twice => twice'
  BY DEF Next, ParseStep, JobStep, ParseRobots, AddListed, Listen, ParseSitemapXml, NotFound,
         Fetched, FetchFails, StreamFails, NestedSitemap, EmitEntry, StreamEnds, End,
         AddNewSitemap, TaskOver, StartTask
<1>4. QED BY <1>1, <1>2, <1>3, ReaderAssumption DEF Quiet, AtLimit

\* A task that starts, while the jobs and what is pending are as given.
LEMMA StartKeepsReading ==
  ASSUME NEW x \in Sitemaps, NEW jobs \in [Jobs -> Reading], NEW from,
         StartTask(x, jobs, from), ~twice', PendingAccount(jobs, from)
  PROVE  /\ PendingAccount(job', pending')
         /\ \A s, m1, m2 : Begun(jobs, m1, s) /\ m1 \subseteq m2 => Begun(job', m2, s)
         /\ \A m : Begun(job', m, x)
<1>1. PICK k \in Jobs : jobs[k].at = "off" /\ job' = [jobs EXCEPT ![k] = Fetch(x)]
  BY DEF StartTask, Free
<1>2. pending' = from \cup {x} /\ x \notin from
  BY DEF StartTask
<1>3. /\ job'[k].url = x /\ job'[k].at = "fetch"
      /\ \A j \in Jobs : j # k => job'[j] = jobs[j]
  BY <1>1 DEF Fetch
<1>4. QED BY <1>1, <1>2, <1>3 DEF PendingAccount, Begun

\* addNewSitemap, called for an entry of a sitemap that is parsed, or by parse.
LEMMA AddKeepsReading ==
  ASSUME TypeOK, NEW x \in Sitemaps, NEW b, NEW jobs \in [Jobs -> Reading], NEW T,
         AddNewSitemap(x, b, jobs), b => x \in OutOfRange, Quiet', UNCHANGED <<emitted, count>>,
         PendingAccount(jobs, pending),
         \A s \in seenSitemapSet \cup T : Begun(jobs, Met \cup {x}, s)
  PROVE  /\ PendingAccount(job', pending')
         /\ \A s \in seenSitemapSet' \cup T : Begun(job', Met', s)
         /\ QueueSet \subseteq QueueSet' \cup seenSitemapSet'
         /\ b \/ x \in QueueSet' \cup seenSitemapSet'
<1>0. queue \in Seq(Sitemaps)
  BY DEF TypeOK, QueueTypeOK
<1>m. \A s, m1, m2 : Begun(jobs, m1, s) /\ m1 \subseteq m2 => Begun(jobs, m2, s)
  BY DEF Begun
<1>1. CASE /\ x \in seenSitemapSet \/ b \/ AtLimit
           /\ job' = jobs /\ UNCHANGED <<queue, pending, seenSitemapSet, twice>>
  <2>1. ~AtLimit
    BY DEF Quiet, AtLimit
  <2>2. QueueSet' = QueueSet
    BY <1>1 DEF QueueSet
  <2>3. Met \cup {x} \subseteq Met'
    BY <1>1, <2>1, <2>2 DEF Met
  <2>4. QED BY <1>1, <1>m, <2>1, <2>2, <2>3
<1>2. CASE StartTask(x, jobs, pending) /\ UNCHANGED queue
  <2>1. QueueSet' = QueueSet /\ seenSitemapSet' = seenSitemapSet \cup {x}
    BY <1>2 DEF QueueSet, StartTask
  <2>2. Met \cup {x} \subseteq Met'
    BY <2>1 DEF Met
  <2>3. ~twice'
    BY DEF Quiet
  <2>4. QED BY <1>2, <2>1, <2>2, <2>3, StartKeepsReading
<1>3. CASE /\ queue' = Append(queue, x) /\ job' = jobs
           /\ UNCHANGED <<pending, seenSitemapSet, twice>>
  <2>1. QueueSet' = QueueSet \cup {x}
    BY <1>0, <1>3, QueueSets
  <2>2. Met \cup {x} \subseteq Met'
    BY <1>3, <2>1 DEF Met
  <2>3. QED BY <1>3, <1>m, <2>1, <2>2
<1>4. QED BY <1>1, <1>2, <1>3 DEF AddNewSitemap

\* A task of the PQueue that is over; what it leaves to the next one.
LEMMA OverKeepsReading ==
  ASSUME TypeOK, NEW jobs \in [Jobs -> Reading], NEW from, NEW T,
         TaskOver(jobs, from), Quiet', UNCHANGED emitted,
         PendingAccount(jobs, from),
         \A s \in seenSitemapSet \cup T : Begun(jobs, Met, s)
  PROVE  /\ PendingAccount(job', pending')
         /\ \A s \in seenSitemapSet' \cup T : Begun(job', Met', s)
         /\ QueueSet \subseteq QueueSet' \cup seenSitemapSet'
<1>0. queue \in Seq(Sitemaps)
  BY DEF TypeOK, QueueTypeOK
<1>1. CASE job' = jobs /\ pending' = from /\ UNCHANGED <<queue, seenSitemapSet, twice>>
  <2>1. QueueSet' = QueueSet
    BY <1>1 DEF QueueSet
  <2>2. Met' = Met
    BY <1>1, <2>1 DEF Met
  <2>3. QED BY <1>1, <2>1, <2>2
<1>2. CASE queue # <<>> /\ StartTask(Head(queue), jobs, from) /\ queue' = Tail(queue)
  <2>1. /\ Head(queue) \in Sitemaps
        /\ QueueSet \subseteq QueueSet' \cup {Head(queue)}
    BY <1>0, <1>2, QueueSets
  <2>2. seenSitemapSet' = seenSitemapSet \cup {Head(queue)}
    BY <1>2 DEF StartTask
  <2>3. Met \subseteq Met'
    BY <2>1, <2>2 DEF Met
  <2>4. ~twice'
    BY DEF Quiet
  <2>5. QED BY <1>2, <2>1, <2>2, <2>3, <2>4, StartKeepsReading
<1>3. QED BY <1>1, <1>2 DEF TaskOver


\* The steps of parse.
LEMMA ParseStepReads ==
  ASSUME TypeOK, Quiet, Quiet', ParseStep,
         ReadingAccount, PendingAccount(job, pending), EndAccount, PhaseAccount
  PROVE  ReadingAccount' /\ PendingAccount(job', pending') /\ EndAccount' /\ PhaseAccount'
<1>t. job \in [Jobs -> Reading]
  BY DEF TypeOK, QueueTypeOK
<1>1. CASE ParseRobots
  <2>1. QueueSet' = QueueSet /\ Met' = Met
    BY <1>1 DEF ParseRobots, QueueSet, Met
  <2>2. ReadingAccount'
    BY <1>1, <2>1 DEF ParseRobots, ReadingAccount, PhaseAccount
  <2>3. QED BY <1>1, <2>2 DEF ParseRobots, PendingAccount, EndAccount, PhaseAccount
<1>2. ASSUME NEW x \in Listed, AddListed(x)
      PROVE  ReadingAccount' /\ PendingAccount(job', pending') /\ EndAccount' /\ PhaseAccount'
  <2> DEFINE T == {s \in top : Begun(job, Met, s)}
  <2>1. /\ phase = "robots" /\ toAdd' = toAdd \ {x} /\ AddNewSitemap(x, FALSE, job)
        /\ UNCHANGED <<phase, count, closing, done, top, emitted>>
    BY <1>2 DEF AddListed
  <2>2. \A s \in seenSitemapSet \cup T : Begun(job, Met \cup {x}, s)
    BY DEF ReadingAccount, Begun
  <2>3. /\ PendingAccount(job', pending')
        /\ \A s \in seenSitemapSet' \cup T : Begun(job', Met', s)
        /\ QueueSet \subseteq QueueSet' \cup seenSitemapSet'
        /\ x \in QueueSet' \cup seenSitemapSet'
    <3> HIDE DEF T
    <3>1. x \in Sitemaps
      BY ReaderAssumption
    <3>2. QED BY <1>t, <2>1, <2>2, <3>1, AddKeepsReading
  <2>4. ReadingAccount'
    BY <2>1, <2>3 DEF ReadingAccount
  <2>5. QED BY <2>1, <2>3, <2>4 DEF EndAccount, PhaseAccount
<1>3. CASE Listen
  <2>1. QueueSet' = QueueSet /\ Met' = Met
    BY <1>3 DEF Listen, QueueSet, Met
  <2>2. QED BY <1>3, <2>1 DEF Listen, ReadingAccount, PendingAccount, EndAccount, PhaseAccount
<1>4. CASE ParseSitemapXml
  <2>1. PICK j \in Jobs : job' = [job EXCEPT ![j] = Parse(SitemapXml)]
    BY <1>4 DEF ParseSitemapXml, Free
  <2>2. /\ job'[j].url = SitemapXml /\ job'[j].at = "parse" /\ job'[j].rest = Entries[SitemapXml]
        /\ \A k \in Jobs : k # j => job'[k] = job[k]
    BY <1>t, <2>1 DEF Parse
  <2>3. PendingAccount(job', pending')
    BY <1>4, <2>2 DEF ParseSitemapXml, PendingAccount, PhaseAccount
  <2>4. Begun(job', Met', SitemapXml)
    BY <2>2 DEF Begun
  <2>5. ReadingAccount'
    BY <1>4, <2>4 DEF ParseSitemapXml, ReadingAccount, PhaseAccount
  <2>6. QED BY <1>4, <2>3, <2>5 DEF ParseSitemapXml, EndAccount, PhaseAccount
<1>5. CASE NotFound
  BY <1>5 DEF NotFound, Quiet
<1>6. QED BY <1>1, <1>2, <1>3, <1>4, <1>5 DEF ParseStep

\* A sitemap that is closed: the others are pending still, and if there is none
\* everything is read.
LEMMA CloseReads ==
  ASSUME TypeOK, NEW j \in Jobs, job[j].at = "parse", NEW new \in Reading, new.at = "off",
         job' = [job EXCEPT ![j] = new], CloseSitemap(job[j].url),
         phase = "reading", UNCHANGED <<phase, queue, done>>,
         PendingAccount(job, pending), EndAccount
  PROVE  PendingAccount(job', pending') /\ EndAccount'
<1>t. job \in [Jobs -> Reading] /\ queue \in Seq(Sitemaps) /\ PlacesUsed(job, queue)
  BY DEF TypeOK, QueueTypeOK
<1>1. job'[j].at = "off" /\ \A k \in Jobs : k # j => job'[k] = job[k]
  BY <1>t
<1>2. PendingAccount(job', pending')
  BY <1>1 DEF PendingAccount, CloseSitemap
<1>3. ~closing /\ ~done
  BY DEF EndAccount
<1>4. ASSUME pending' = {}
      PROVE  queue = <<>> /\ \A k \in Jobs : job'[k].at = "off"
  <2>1. \A k \in Jobs : job'[k].at = "off"
    BY <1>2, <1>4 DEF PendingAccount
  <2>2. Fetching(job) = {}
    BY <1>1, <2>1 DEF Fetching
  <2>3. Cardinality(Fetching(job)) = 0
    BY <2>2, FS_EmptySet
  <2>4. QED BY <1>t, <2>1, <2>3, ReaderAssumption DEF PlacesUsed
<1>5. EndAccount'
  BY <1>3, <1>4 DEF EndAccount, CloseSitemap
<1>6. QED BY <1>2, <1>5

\* The steps of a job.
LEMMA JobStepReads ==
  ASSUME TypeOK, Quiet, Quiet', NEW j \in Jobs, JobStep(j),
         ReadingAccount, PendingAccount(job, pending), EndAccount, PhaseAccount
  PROVE  ReadingAccount' /\ PendingAccount(job', pending') /\ EndAccount' /\ PhaseAccount'
<1> DEFINE T == {s \in top : Begun(job, Met, s)}
<1>t. /\ job \in [Jobs -> Reading] /\ job[j] \in Reading /\ job[j].url \in Sitemaps
      /\ job[j].rest \subseteq Sitemaps \cup Pages /\ queue \in Seq(Sitemaps)
  BY DEF TypeOK, QueueTypeOK, Reading
<1>n. /\ NoJob \in Reading /\ NoJob.at = "off"
      /\ Parse(job[j].url) \in Reading /\ Parse(job[j].url).at = "parse"
      /\ Parse(job[j].url).url = job[j].url
      /\ Parse(job[j].url).rest = Entries[job[j].url]
  BY <1>t, NewReadings DEF NoJob, Parse
<1>p. phase = "reading" /\ toAdd = {}
  BY DEF JobStep, PhaseAccount
<1>b. \A s \in seenSitemapSet \cup T : Begun(job, Met, s)
  BY DEF ReadingAccount
<1>m. \A jobs, s, m1, m2 : Begun(jobs, m1, s) /\ m1 \subseteq m2 => Begun(jobs, m2, s)
  BY DEF Begun
\* A job that becomes new, by which it has met what x holds.
<1>j. ASSUME NEW new \in Reading, NEW x, new.url = job[j].url, new.at = "parse",
             job[j].at = "fetch" => new.rest = Entries[new.url],
             job[j].at = "parse" => job[j].rest \subseteq new.rest \cup x,
             job[j].at # "off", NEW s, Begun(job, Met, s)
      PROVE  Begun([job EXCEPT ![j] = new], Met \cup x, s)
  <2> DEFINE jobs == [job EXCEPT ![j] = new]
  <2>1. jobs[j] = new /\ \A k \in Jobs : k # j => jobs[k] = job[k]
    BY <1>t
  <2> HIDE DEF jobs
  <2>2. CASE Entries[s] \subseteq Met
    BY <2>2 DEF Begun
  <2>3. ASSUME NEW k \in Jobs, k # j, job[k].url = s,
               \/ job[k].at = "fetch"
               \/ job[k].at = "parse" /\ Entries[s] \ job[k].rest \subseteq Met
        PROVE  Begun(jobs, Met \cup x, s)
    BY <2>1, <2>3 DEF Begun
  <2>4. CASE job[j].url = s /\ job[j].at = "fetch"
    BY <1>j, <2>1, <2>4 DEF Begun
  <2>5. CASE job[j].url = s /\ job[j].at = "parse" /\ Entries[s] \ job[j].rest \subseteq Met
    <3>1. Entries[s] \ new.rest \subseteq Met \cup x
      BY <1>j, <2>5
    <3>2. QED BY <1>j, <2>1, <2>5, <3>1 DEF Begun
  <2>6. QED BY <1>j, <2>2, <2>3, <2>4, <2>5 DEF Begun
<1>o. ASSUME ReadingAccount', PendingAccount(job', pending'), job[j].at # "off",
             UNCHANGED <<closing, done, phase, toAdd>>
      PROVE  ReadingAccount' /\ PendingAccount(job', pending') /\ EndAccount' /\ PhaseAccount'
  <2>1. ~closing /\ ~done
    BY <1>o DEF EndAccount
  <2>2. EndAccount'
    BY <1>o, <2>1 DEF EndAccount
  <2>3. PhaseAccount'
    BY <1>o, <1>p DEF PhaseAccount
  <2>4. QED BY <1>o, <2>2, <2>3
<1>1. CASE Fetched(j)
  <2> DEFINE jobs == [job EXCEPT ![j] = Parse(job[j].url)]
             from == pending \cup {job[j].url}
  <2>1. /\ job[j].at = "fetch" /\ TaskOver(jobs, from)
        /\ UNCHANGED <<phase, toAdd, count, closing, done, top, emitted>>
    BY <1>1 DEF Fetched
  <2>2. \A s \in seenSitemapSet \cup T : Begun(jobs, Met, s)
    <3> SUFFICES ASSUME NEW s \in seenSitemapSet \cup T PROVE Begun(jobs, Met, s)
      OBVIOUS
    <3>1. Begun(job, Met, s)
      BY <1>b
    <3>2. Begun(jobs, Met \cup {}, s)
      BY <1>j, <1>n, <2>1, <3>1
    <3>3. Met \cup {} = Met
      OBVIOUS
    <3>4. QED BY <3>2, <3>3
  <2>3. jobs \in [Jobs -> Reading]
    BY <1>t, <1>n
  <2>4. PendingAccount(jobs, from)
    <3>1. jobs[j] = Parse(job[j].url) /\ \A k \in Jobs : k # j => jobs[k] = job[k]
      BY <1>t
    <3> HIDE DEF jobs
    <3>2. QED BY <1>n, <2>1, <3>1 DEF PendingAccount
  <2> HIDE DEF jobs, from, T
  <2>5. /\ PendingAccount(job', pending')
        /\ \A s \in seenSitemapSet' \cup T : Begun(job', Met', s)
        /\ QueueSet \subseteq QueueSet' \cup seenSitemapSet'
    BY <2>1, <2>2, <2>3, <2>4, OverKeepsReading
  <2>6. ReadingAccount'
    BY <2>1, <2>5 DEF ReadingAccount, T
  <2>7. QED BY <1>o, <2>1, <2>5, <2>6
<1>2. CASE FetchFails(j) \/ StreamFails(j)
  BY <1>2 DEF FetchFails, StreamFails, Quiet
<1>3. ASSUME NEW x \in Sitemaps, NestedSitemap(j, x)
      PROVE  ReadingAccount' /\ PendingAccount(job', pending') /\ EndAccount' /\ PhaseAccount'
  <2> DEFINE new == [job[j] EXCEPT !.rest = @ \ {x}]
             jobs == [job EXCEPT ![j] = new]
  <2>1. /\ job[j].at = "parse"
        /\ AddNewSitemap(x, x \in OutOfRange, [job EXCEPT ![j].rest = @ \ {x}])
        /\ UNCHANGED <<phase, toAdd, count, closing, done, top, emitted>>
    BY <1>3 DEF NestedSitemap
  <2>2. [job EXCEPT ![j].rest = @ \ {x}] = jobs
    BY <1>t
  <2>3. /\ new \in Reading /\ new.at = "parse" /\ new.url = job[j].url
        /\ job[j].rest \subseteq new.rest \cup {x}
    BY <1>t, <2>1 DEF Reading
  <2> HIDE DEF new
  <2>4. \A s \in seenSitemapSet \cup T : Begun(jobs, Met \cup {x}, s)
    BY <1>b, <1>j, <2>1, <2>3
  <2>5. jobs \in [Jobs -> Reading]
    BY <1>t, <2>3
  <2>6. PendingAccount(jobs, pending)
    <3>1. jobs[j] = new /\ \A k \in Jobs : k # j => jobs[k] = job[k]
      BY <1>t
    <3> HIDE DEF jobs
    <3>2. QED BY <2>1, <2>3, <3>1 DEF PendingAccount
  <2> HIDE DEF jobs, T
  <2>7. /\ PendingAccount(job', pending')
        /\ \A s \in seenSitemapSet' \cup T : Begun(job', Met', s)
        /\ QueueSet \subseteq QueueSet' \cup seenSitemapSet'
    <3>1. AddNewSitemap(x, x \in OutOfRange, jobs)
      BY <2>1, <2>2
    <3>2. UNCHANGED <<emitted, count>>
      BY <2>1
    <3> HIDE DEF Quiet
    <3>3. QED BY <2>4, <2>5, <2>6, <3>1, <3>2, AddKeepsReading
  <2>8. ReadingAccount'
    BY <2>1, <2>7 DEF ReadingAccount, T
  <2>9. QED BY <1>o, <2>1, <2>7, <2>8
<1>4. ASSUME NEW p \in Pages, EmitEntry(j, p)
      PROVE  ReadingAccount' /\ PendingAccount(job', pending') /\ EndAccount' /\ PhaseAccount'
  <2> DEFINE new == [job[j] EXCEPT !.rest = @ \ {p}]
             jobs == [job EXCEPT ![j] = new]
  <2>1. /\ job[j].at = "parse" /\ job' = jobs
        /\ UNCHANGED <<phase, toAdd, seenSitemapSet, done, top>>
    BY <1>4, <1>t DEF EmitEntry
  <2>2. /\ UNCHANGED queue
        /\ (p \in OutOfRange /\ UNCHANGED emitted) \/ emitted' = emitted \cup {p}
    BY <1>4 DEF EmitEntry, Quiet, AtLimit
  <2>3. UNCHANGED <<pending, closing>>
    <3>1. ~(Limit > 0 /\ count' >= Limit)
      BY DEF Quiet, AtLimit
    <3>2. QED BY <1>4, <3>1 DEF EmitEntry
  <2>4. /\ new \in Reading /\ new.at = "parse" /\ new.url = job[j].url
        /\ job[j].rest \subseteq new.rest \cup {p}
    BY <1>t, <2>1 DEF Reading
  <2> HIDE DEF new
  <2>5. QueueSet' = QueueSet
    BY <2>2 DEF QueueSet
  <2>6. Met \cup {p} \subseteq Met'
    BY <2>1, <2>2, <2>5 DEF Met
  <2>7. \A s \in seenSitemapSet \cup T : Begun(jobs, Met \cup {p}, s)
    BY <1>b, <1>j, <2>1, <2>4
  <2>8. PendingAccount(jobs, pending)
    <3>1. jobs[j] = new /\ \A k \in Jobs : k # j => jobs[k] = job[k]
      BY <1>t
    <3> HIDE DEF jobs
    <3>2. QED BY <2>1, <2>4, <3>1 DEF PendingAccount
  <2> HIDE DEF jobs
  <2>9. \A s \in seenSitemapSet \cup T : Begun(job', Met', s)
    BY <1>m, <2>1, <2>6, <2>7
  <2>10. ReadingAccount'
    BY <2>1, <2>5, <2>9 DEF ReadingAccount
  <2>11. QED BY <1>o, <2>1, <2>3, <2>8, <2>10
<1>5. CASE StreamEnds(j)
  <2>1. /\ job[j].at = "parse" /\ job[j].rest = {}
        /\ job' = [job EXCEPT ![j] = NoJob] /\ CloseSitemap(job[j].url)
        /\ UNCHANGED <<phase, toAdd, queue, seenSitemapSet, done, top, emitted>>
    BY <1>5 DEF StreamEnds
  <2>2. PendingAccount(job', pending') /\ EndAccount'
    BY <1>n, <1>p, <2>1, CloseReads
  <2>3. QueueSet' = QueueSet /\ Met' = Met
    BY <2>1 DEF QueueSet, Met
  <2>4. job'[j].at = "off" /\ \A k \in Jobs : k # j => job'[k] = job[k]
    BY <1>t, <1>n, <2>1
  <2>5. \A s : Begun(job, Met, s) => Begun(job', Met', s)
    <3> SUFFICES ASSUME NEW s, Begun(job, Met, s) PROVE Begun(job', Met', s)
      OBVIOUS
    <3>1. CASE job[j].url = s /\ Entries[s] \ job[j].rest \subseteq Met
      BY <2>1, <2>3, <3>1 DEF Begun
    <3>2. CASE ~(job[j].url = s /\ Entries[s] \ job[j].rest \subseteq Met)
      BY <2>1, <2>3, <2>4, <3>2 DEF Begun
    <3>3. QED BY <3>1, <3>2
  <2>6. ReadingAccount'
    BY <2>1, <2>3, <2>5 DEF ReadingAccount
  <2>7. QED BY <1>p, <2>1, <2>2, <2>6 DEF PhaseAccount
<1>6. QED BY <1>1, <1>2, <1>3, <1>4, <1>5 DEF JobStep

\* The account of what is read is kept until a failure, the limit or a sitemap
\* that is read twice at the same time.
LEMMA DoneInvStep ==
  ASSUME TypeOK, DoneInv, [Next]_vars
  PROVE  DoneInv'
<1> SUFFICES ASSUME Quiet'
             PROVE  ReadingAccount' /\ PendingAccount(job', pending') /\ EndAccount' /\ PhaseAccount'
  BY DEF DoneInv
<1>1. CASE UNCHANGED vars
  <2>1. QueueSet' = QueueSet /\ Met' = Met /\ Quiet
    BY <1>1 DEF vars, QueueSet, Met, Quiet, AtLimit
  <2>2. QED
    BY <1>1, <2>1 DEF vars, DoneInv, ReadingAccount, PendingAccount, EndAccount, PhaseAccount
<1>2. CASE Next
  <2>1. /\ Quiet
        /\ ReadingAccount /\ PendingAccount(job, pending) /\ EndAccount /\ PhaseAccount
    BY <1>2, QuietBefore DEF DoneInv
  <2>2. CASE End
    <3>1. QueueSet' = QueueSet /\ Met' = Met
      BY <2>2 DEF End, QueueSet, Met
    <3>2. QED BY <2>1, <2>2, <3>1 DEF End, ReadingAccount, PendingAccount, EndAccount, PhaseAccount
  <2>3. QED BY <1>2, <2>1, <2>2, ParseStepReads, JobStepReads DEF Next
<1>3. QED BY <1>1, <1>2

\* When "end" was emitted, the sitemaps that were read are closed under what
\* they list, so that none that the first ones lead to is missing.
LEMMA EndMeansRead ==
  ASSUME TypeOK, DoneInv
  PROVE  DoneMeansRead
<1> SUFFICES ASSUME done, Quiet
             PROVE  Wanted \subseteq emitted
  BY DEF DoneMeansRead, Quiet
<1>1. ReadingAccount /\ EndAccount /\ PhaseAccount
  BY DEF DoneInv
<1>2. QueueSet = {} /\ toAdd = {} /\ \A j \in Jobs : job[j].at = "off"
  BY <1>1 DEF EndAccount, PhaseAccount, QueueSet
<1>3. Met = OutOfRange \cup emitted \cup seenSitemapSet
  BY <1>2 DEF Met
<1>4. \A s : Begun(job, Met, s) => Entries[s] \subseteq Met
  BY <1>2 DEF Begun
<1>t. /\ seenSitemapSet \in SUBSET Sitemaps /\ top \in SUBSET Sitemaps /\ emitted \in SUBSET Pages
  BY DEF TypeOK, ReaderTypeOK
<1> DEFINE C == {s \in Sitemaps : Entries[s] \subseteq Met}
<1>5. top \subseteq C /\ seenSitemapSet \subseteq C
  BY <1>1, <1>2, <1>4, <1>t DEF ReadingAccount
<1>6. \A r \in C : (Entries[r] \cap Sitemaps) \ OutOfRange \subseteq C
  <2> SUFFICES ASSUME NEW r \in C, NEW s \in Sitemaps, s \in Entries[r], s \notin OutOfRange
               PROVE  s \in C
    OBVIOUS
  <2>1. s \in Met /\ s \notin Pages
    BY ReaderAssumption
  <2>2. s \in seenSitemapSet
    BY <1>3, <1>t, <2>1
  <2>3. QED BY <1>5, <2>2
<1>7. Reached \subseteq C
  BY <1>5, <1>6 DEF Reached
<1>8. QED
  <2> SUFFICES ASSUME NEW s \in Reached, NEW p \in Entries[s], p \in Pages, p \notin OutOfRange
               PROVE  p \in emitted
    <3> HIDE DEF C
    <3>1. \A p \in Wanted : p \in Pages \ OutOfRange /\ \E s \in Reached : p \in Entries[s]
      BY DEF Wanted
    <3>2. QED BY <3>1
  <2>1. p \in Met
    BY <1>7
  <2>2. p \notin Sitemaps
    BY ReaderAssumption
  <2>3. QED BY <1>3, <1>t, <2>1, <2>2

\* A sitemap reader that says it is done, which a restart of the crawl believes,
\* has passed on every page that the sitemaps lead to, unless a file failed, the
\* limit was reached, or a sitemap was read twice at once (closeSitemap).
THEOREM DoneIsRead == Spec => []DoneMeansRead
<1>1. Init => DoneInv
  <2> SUFFICES ASSUME Init PROVE DoneInv
    OBVIOUS
  <2>1. \A j \in Jobs : job[j].at = "off"
    BY DEF Init, NoJob
  <2>2. QED
    BY <2>1 DEF Init, DoneInv, ReadingAccount, PendingAccount, EndAccount, PhaseAccount
<1>2. TypeOK /\ DoneInv /\ [Next]_vars => DoneInv'
  BY DoneInvStep
<1>3. TypeOK /\ DoneInv => DoneMeansRead
  BY EndMeansRead
<1>4. QED BY <1>1, <1>2, <1>3, ReaderInvariant, PTL DEF Spec
===========================================================================
