----------------------------- MODULE SaveState ----------------------------
(***************************************************************************)
(* The save-state files of a crawl: CrawlStateManager.serializeConfig,     *)
(* which a worker calls after each of its pages, RedisCrawlState.serialize *)
(* with the iterators it reads Redis by, and RedisCrawlState.load, which   *)
(* restores what a file holds.  The crawl goes on between the round trips  *)
(* of serialize; its steps are those of module CrawlState.                 *)
(*                                                                         *)
(* Locks are left out: they only tell when requeue may take a pending URL, *)
(* and as they run out by themselves that is at any time.  Limits of the   *)
(* queue are left out as well (module CrawlWorkers has them).  Saves do    *)
(* not look at each other's contents, so a behaviour follows those of one, *)
(* of any; the others only take their time and write their file.           *)
(***************************************************************************)
EXTENDS CrawlState, Sequences, Functions

CONSTANTS
  Workers,            \* the workers of the process that saves
  Score,              \* depth + extraHops * MAX_DEPTH of each URL
  Rank,               \* order of the JSON texts of the entries
  Seed,               \* the URL of the seed
  Redirects,          \* where its page may redirect to
  Inc,                \* how many entries one page of an iterator has
  Restarts,           \* how a state may be loaded: into a fresh Redis or the
                      \* old one, and what recheckScope accepts by then
  SaveStateInterval,  \* seconds between two saves of one process
  SaveStateHistory,   \* how many files a process keeps
  MaxTime             \* bound of the clock of a run

ASSUME SaveAssumption ==
  /\ Score \in [Urls -> Int]
  /\ Rank \in [Urls -> Nat]
  /\ \A u, v \in Urls : Rank[u] = Rank[v] => u = v
  /\ Inc \in Nat \ {0}
  /\ {Seed} \cup Redirects \subseteq Urls
  /\ Restarts \subseteq [fresh : BOOLEAN, inScope : SUBSET Urls]
  /\ {SaveStateInterval, SaveStateHistory} \subseteq Nat \ {0}
  /\ MaxTime \in Nat

VARIABLES
  failedList,      \* list f of Redis, the newest entry first
  now,             \* the clock, in seconds
  lastSaveTime,    \* config.lastSaveTime
  save,            \* the call of serializeConfig each worker is in
  disk,            \* the save-state files: time in the name -> what it holds
  saveStateFiles,  \* config.saveStateFiles, the oldest first
  followed,        \* the time of the one save whose contents are followed
  loaded           \* what load restored, or NoFile before it is called

saveVars == <<now, lastSaveTime, save, disk, saveStateFiles, followed>>
vars == <<stateVars, failedList, saveVars, loaded>>

NoFile == [quiet |-> FALSE]

\* What serialize has read so far: left is seenSet, from which the iterators
\* delete; before and quiet are history, the URLs seen at its start and that
\* nothing upset its reading.
Idle == [pc |-> "idle", time |-> 0, len |-> 0, i |-> 0, left |-> {},
         queued |-> {}, pending |-> {}, failed |-> {}, extra |-> {},
         before |-> {}, quiet |-> TRUE]

Saves == [pc : {"idle", "scan", "zcard", "queue", "pending", "llen",
                "failed", "extra", "write", "unlink"},
          time : 0..MaxTime, len : Nat, i : Nat, left : SUBSET Urls,
          queued : SUBSET Entry, pending : SUBSET Entry,
          failed : SUBSET Entry, extra : SUBSET Urls,
          before : SUBSET Urls, quiet : BOOLEAN]

\* What a file holds, with the history of the save, and what is kept of a load.
File == [left : SUBSET Urls, queued : SUBSET Entry, pending : SUBSET Entry,
         failed : SUBSET Entry, extra : SUBSET Urls, before : SUBSET Urls,
         quiet : BOOLEAN]
Loaded == [fresh : BOOLEAN, inScope : SUBSET Urls, before : SUBSET Urls,
           live : SUBSET Urls, quiet : BOOLEAN]

\* The types of the variables.
TypeOK ==
  /\ StateTypeOK
  /\ failedList \in Seq(Entry)
  /\ now \in 0..MaxTime
  /\ lastSaveTime \in Int
  /\ save \in [Workers -> Saves]
  /\ DOMAIN disk \subseteq 0..MaxTime /\ disk \in [DOMAIN disk -> File]
  /\ saveStateFiles \in Seq(0..MaxTime)
  /\ followed \in 0..MaxTime
  /\ loaded \in Loaded \cup {NoFile}

Init ==
  /\ StateInit
  /\ failedList = <<>>
  /\ now = 0
  /\ lastSaveTime = -SaveStateInterval  \* 1970: the first save waits for nothing
  /\ save = [w \in Workers |-> Idle]
  /\ disk = <<>>
  /\ saveStateFiles = <<>>
  /\ followed \in 0..MaxTime
  /\ loaded = NoFile

---------------------------------------------------------------------------
(* The crawl, which no save stops. *)

Requeued(u) == Pending(u) /\ pending'[u] = NoEntry
               /\ \E e \in queue' : e.url = u

\* An iterator that goes by offsets sees all of a list that fits in one page,
\* or that does not change while it is read.
Upset(s) ==
  \/ \E u \in Urls : Requeued(u)
  \/ /\ s.pc = "queue"
     /\ queue' # queue
     /\ s.len > Inc \/ Cardinality(queue') > Inc
  \/ /\ s.pc = "failed"
     /\ failedList' # failedList
     /\ s.len > Inc \/ Len(failedList') > Inc

CrawlStep ==
  /\ \/ \E u \in Urls : AddQueue(u, Score[u], 0) /\ UNCHANGED failedList
     \/ \E e \in queue : GetNext(e) /\ UNCHANGED failedList
     \/ \E u \in PendingUrls : RemovePending(u) /\ UNCHANGED failedList
     \/ \E u \in PendingUrls : Requeue(u) /\ UNCHANGED failedList
     \/ \E u \in PendingUrls : /\ MoveFailed(u)
                               /\ failedList' = <<pending[u]>> \o failedList
     \/ \E u \in Redirects : /\ Pending(Seed)
                             /\ AddNewSeed(u)
                             /\ UNCHANGED failedList
  /\ save' = [w \in Workers |->
                [save[w] EXCEPT !.quiet = @ /\ ~Upset(save[w])]]
  /\ UNCHANGED <<now, lastSaveTime, disk, saveStateFiles, followed, loaded>>

Tick ==
  /\ now < MaxTime
  /\ now' = now + 1
  /\ UNCHANGED <<stateVars, failedList, lastSaveTime, save, disk,
                 saveStateFiles, followed, loaded>>

---------------------------------------------------------------------------
(* serializeConfig(false) with saveState "always", its only mode that ever *)
(* saves: no call has done = true, which "partial" asks for.               *)

\* Mutant: the time of the last save is set only once the file is written.
BeginLate(w) ==
  /\ save[w].pc = "idle"
  /\ now - lastSaveTime >= SaveStateInterval
  /\ save' = [save EXCEPT ![w] =
                IF now = followed
                  THEN [Idle EXCEPT !.pc = "scan", !.time = now,
                                    !.before = seen]
                  ELSE [Idle EXCEPT !.pc = "write", !.time = now]]
  /\ UNCHANGED <<stateVars, failedList, now, lastSaveTime, disk,
                 saveStateFiles, followed, loaded>>

\* From the interval's test to the start of the scan of s.
Begin(w) ==
  /\ save[w].pc = "idle"
  /\ now - lastSaveTime >= SaveStateInterval
  /\ lastSaveTime' = now
  /\ save' = [save EXCEPT ![w] =
                IF now = followed
                  THEN [Idle EXCEPT !.pc = "scan", !.time = now,
                                    !.before = seen]
                  ELSE [Idle EXCEPT !.pc = "write", !.time = now]]
  /\ UNCHANGED <<stateVars, failedList, now, disk, saveStateFiles, followed, loaded>>

\* One round trip of worker w's serialize.
Read(w, pc, step) ==
  /\ save[w].pc = pc
  /\ save' = [save EXCEPT ![w] = step]
  /\ UNCHANGED <<stateVars, failedList, now, lastSaveTime, disk,
                 saveStateFiles, followed, loaded>>

\* _iterSet: sscan returns what is in s all the time, and of what is added
\* meanwhile some.
Scan(w) ==
  \E S \in SUBSET (seen \ save[w].before) :
    Read(w, "scan", [save[w] EXCEPT !.pc = "zcard",
                                    !.left = save[w].before \cup S])

\* _iterSortedKey: the length, then zrangebyscore 0 inf limit i Inc.
CountQueue(w) ==
  Read(w, "zcard", [save[w] EXCEPT !.pc = "queue", !.i = 0,
                                   !.len = Cardinality(queue)])

Before(e, f) == \/ e.score < f.score
                \/ e.score = f.score /\ Rank[e.url] < Rank[f.url]

\* What zrangebyscore from 0 up looks at, and how many entries come before e.
Scored == {e \in queue : e.score >= 0}
Place(e) == Cardinality({f \in Scored : Before(f, e)})

UrlsOf(entries) == {e.url : e \in entries}

ReadQueue(w) ==
  LET s == save[w]
      page == {e \in Scored : s.i <= Place(e) /\ Place(e) < s.i + Inc}
  IN  Read(w, "queue",
           IF s.i < s.len
             THEN [s EXCEPT !.queued = @ \cup page, !.i = @ + Inc,
                            !.left = @ \ UrlsOf(page)]
             ELSE [s EXCEPT !.pc = "pending"])

\* getPendingList: hvals.  What is pending stays in seenSet.
ReadPending(w) ==
  Read(w, "pending",
       [save[w] EXCEPT !.pc = "llen",
                       !.pending = {pending[u] : u \in PendingUrls}])

\* _iterListKeys of f: llen, then lrange by pages.
CountFailed(w) ==
  Read(w, "llen", [save[w] EXCEPT !.pc = "failed", !.i = 0,
                                  !.len = Len(failedList)])

ReadFailed(w) ==
  LET s == save[w]
      page == {failedList[k] : k \in {n \in DOMAIN failedList :
                                        s.i < n /\ n <= s.i + Inc}}
  IN  Read(w, "failed",
           IF s.i < s.len
             THEN [s EXCEPT !.failed = @ \cup page, !.i = @ + Inc,
                            !.left = @ \ UrlsOf(page)]
             ELSE [s EXCEPT !.pc = "extra"])

\* _iterListKeys of extraSeeds, which one page holds.
ReadExtra(w) ==
  Read(w, "extra", [save[w] EXCEPT !.pc = "write", !.extra = extraSeeds,
                                   !.left = @ \ extraSeeds])

\* What the file holds, and the history that goes with it.
Saved(s) == [left |-> s.left, queued |-> s.queued, pending |-> s.pending,
             failed |-> s.failed, extra |-> s.extra,
             before |-> s.before, quiet |-> s.quiet]

\* writeFile, then push and shift; the rest of the file is in the name.
Write(w) ==
  LET s == save[w]
      files == Append(saveStateFiles, s.time)
  IN
  /\ s.pc = "write"
  /\ disk' = [t \in DOMAIN disk \cup {s.time} |->
                IF t = s.time THEN Saved(s) ELSE disk[t]]
  /\ IF Len(files) > SaveStateHistory
       THEN /\ saveStateFiles' = Tail(files)
            /\ save' = [save EXCEPT ![w] = [Idle EXCEPT !.pc = "unlink",
                                                        !.time = Head(files)]]
       ELSE /\ saveStateFiles' = files
            /\ save' = [save EXCEPT ![w] = Idle]
  /\ UNCHANGED <<stateVars, failedList, now, lastSaveTime, followed, loaded>>

WriteFails(w) == Read(w, "write", Idle)

Unlink(w) ==
  /\ save[w].pc = "unlink"
  /\ disk' = [t \in DOMAIN disk \ {save[w].time} |-> disk[t]]
  /\ save' = [save EXCEPT ![w] = Idle]
  /\ UNCHANGED <<stateVars, failedList, now, lastSaveTime, saveStateFiles,
                 followed, loaded>>

---------------------------------------------------------------------------

\* History: the crawl has not finished u.  Scores below 0, which only a seed
\* with negative extraHops has, zrangebyscore never looks at.
Unfinished(u) == Score[u] >= 0 /\ (Queued(u) \/ Pending(u) \/ failed[u] > 0)

\* Mutant: only what was queued is queued again.
ToQueueNoPending(s, inScope) ==
  {e \in s.queued : e.url \in inScope} \cup s.failed

\* The entries load adds to q: what was queued or pending and is in scope
\* still, and all that failed.
ToQueue(s, inScope) ==
  {e \in s.queued \cup s.pending : e.url \in inScope}
    \cup s.failed

\* Mutant: what is queued again is not put to s.
LoadForgets(t, fresh, inScope) ==
  LET s == disk[t]
      known == IF fresh THEN {} ELSE extraSeeds
      entries == ToQueue(s, inScope)
  IN
  /\ t \in DOMAIN disk
  /\ queue' = entries
  /\ pending' = [u \in Urls |-> NoEntry]
  /\ failed' = [u \in Urls |-> 0]
  /\ failedList' = <<>>
  /\ done' = Cardinality(s.left)
  /\ extraSeeds' = known \cup s.extra
  /\ seen' = s.left \cup (s.extra \ known)
  /\ loaded' = [fresh |-> fresh, inScope |-> inScope, before |-> s.before,
                live |-> {u \in s.before : Unfinished(u)},
                quiet |-> s.quiet]
  /\ lastSaveTime' = -SaveStateInterval
  /\ save' = [w \in Workers |-> Idle]
  /\ saveStateFiles' = <<>>
  /\ UNCHANGED <<lock, stopping, handed, finished, dropped, now, disk,
                 followed>>

\* load, which a new process calls before any worker runs, on a Redis of its own (fresh) or on
\* the one of the saved crawl, where extraSeeds and esMap are not deleted.
Load(t, fresh, inScope) ==
  LET s == disk[t]
      known == IF fresh THEN {} ELSE extraSeeds
      entries == ToQueue(s, inScope)
  IN
  /\ t \in DOMAIN disk
  /\ queue' = entries
  /\ pending' = [u \in Urls |-> NoEntry]
  /\ failed' = [u \in Urls |-> 0]
  /\ failedList' = <<>>
  /\ done' = Cardinality(s.left)
  /\ extraSeeds' = known \cup s.extra
  /\ seen' = s.left \cup UrlsOf(entries) \cup (s.extra \ known)
  /\ loaded' = [fresh |-> fresh, inScope |-> inScope, before |-> s.before,
                live |-> {u \in s.before : Unfinished(u)},
                \* the file is that of a save that nothing upset
                quiet |-> s.quiet]
  /\ lastSaveTime' = -SaveStateInterval
  /\ save' = [w \in Workers |-> Idle]
  /\ saveStateFiles' = <<>>
  /\ UNCHANGED <<lock, stopping, handed, finished, dropped, now, disk,
                 followed>>

Next ==
  /\ loaded = NoFile
  /\ \/ CrawlStep
     \/ Tick
     \/ \E w \in Workers :
          \/ Begin(w) \/ Scan(w) \/ CountQueue(w) \/ ReadQueue(w)
          \/ ReadPending(w) \/ CountFailed(w) \/ ReadFailed(w)
          \/ ReadExtra(w) \/ Write(w) \/ WriteFails(w) \/ Unlink(w)
     \/ \E r \in Restarts : Load(followed, r.fresh, r.inScope)

Spec == Init /\ [][Next]_vars

---------------------------------------------------------------------------

\* What a save that nothing upset has read is complete: once its file is
\* loaded, every URL that was seen when serialize began and that the crawl has
\* not finished waits in the queue again, unless it left the scope.  The URLs
\* move from q to p and from p to f while they are read one after the other,
\* so the order of the reads is what this rests on.
ResumesAll ==
  loaded # NoFile /\ loaded.quiet =>
    \A u \in loaded.live : Queued(u) \/ u \notin loaded.inScope

\* Even a save that was upset loses no URL of s: whatever had been seen when it
\* began is known after load and so is never added anew.  Left out are what
\* is out of scope and, when Redis was not emptied, the extra seeds, which
\* addnewseed then does not put back to s.
StaysSeen ==
  loaded # NoFile =>
    \A u \in loaded.before :
      u \in seen \/ u \notin loaded.inScope \/ (~loaded.fresh /\ u \in extraSeeds)

Kept == Range(saveStateFiles)
Removed == {save[w].time : w \in {v \in Workers : save[v].pc = "unlink"}}

\* The names in saveStateFiles are those of files that are there, two saves
\* never write to one name, and no more files are left than saveStateHistory
\* asks for, but for those whose removal is under way.
FilesKept ==
  loaded = NoFile =>
    /\ IsInjective(saveStateFiles)
    /\ Kept \cap Removed = {}
    /\ DOMAIN disk = Kept \cup Removed
    /\ Len(saveStateFiles) <= SaveStateHistory

---------------------------------------------------------------------------
(* What these rest on. *)

\* The sets are finite, so that the length of a list bounds the places in it.
SetsAreFinite == IsFiniteSet(seen) /\ IsFiniteSet(queue)

\* The times of saves under way, of files and of files to be removed are all
\* different, and not after the last start of a save.
NamesDiffer ==
  /\ \A v, w \in Workers :
       save[v].pc # "idle" /\ save[w].pc # "idle" /\ save[v].time = save[w].time => v = w
  /\ \A w \in Workers :
       save[w].pc \notin {"idle", "unlink"} =>
         save[w].time \notin Kept /\ save[w].time <= lastSaveTime
  /\ \A t \in Kept \cup Removed : t <= lastSaveTime
  /\ lastSaveTime <= now

\* Entries are those of their URLs; list f has the URLs that it is counted for.
EntriesOwn ==
  /\ \A e \in queue : e.score = Score[e.url]
  /\ \A u \in PendingUrls : pending[u].url = u /\ pending[u].score = Score[u]
  /\ \A u \in Urls : failed[u] > 0 => \E k \in DOMAIN failedList : failedList[k].url = u

\* What was seen when s began is in its copy of seenSet or was read from a list.
LeftOrRead(s) ==
  s.before \subseteq s.left \cup UrlsOf(s.queued \cup s.failed) \cup s.extra

\* The URLs that s answers for, and those that it has met.
Old(s) == {u \in s.before : Score[u] >= 0}
Met(s) == UrlsOf(s.queued \cup s.pending \cup s.failed)

\* s has met every old URL that waits, is pending, or has failed.
QueueRead(s) == \A u \in Old(s) : Queued(u) => u \in Met(s)
PendingRead(s) == \A u \in Old(s) : Queued(u) \/ Pending(u) => u \in Met(s)
FailedRead(s) ==
  \A k \in DOMAIN failedList : failedList[k].url \in Old(s) => failedList[k].url \in Met(s)

\* A list is read by offsets: up to s.i as long as it does not change, or all
\* at once when it fits in one page.
QueueBeingRead(s) ==
  /\ s.i = 0 \/ s.i >= Inc
  /\ \/ /\ Cardinality(queue) = s.len
        /\ \A e \in Scored : e.url \in Old(s) /\ Place(e) < s.i => e.url \in Met(s)
     \/ /\ s.len <= Inc /\ Cardinality(queue) <= Inc
        /\ s.i < s.len \/ QueueRead(s)
FailedBeingRead(s) ==
  /\ s.i = 0 \/ s.i >= Inc
  /\ \/ /\ Len(failedList) = s.len
        /\ \A k \in DOMAIN failedList : failedList[k].url \in Old(s) /\ k <= s.i =>
                                         failedList[k].url \in Met(s)
     \/ /\ s.len <= Inc /\ Len(failedList) <= Inc
        /\ s.i < s.len \/ FailedRead(s)

\* What s has met, at each of its round trips; what it has not, it has left.
ReadSoFar(s) ==
  /\ s.pc = "queue" => QueueBeingRead(s)
  /\ s.pc = "pending" => QueueRead(s)
  /\ s.pc \in {"llen", "failed", "extra", "write"} => PendingRead(s)
  /\ s.pc = "failed" => FailedBeingRead(s)
  /\ s.pc \in {"extra", "write"} => FailedRead(s)

SaveReads(s) ==
  /\ IsFiniteSet(s.left) /\ s.before \subseteq seen
  /\ s.pc \in {"scan", "zcard", "queue", "pending"} => s.pending = {}
  /\ s.pc # "write" => s.extra = {}
  /\ s.pc # "scan" => LeftOrRead(s)
  /\ s.quiet => ReadSoFar(s)
SavesRead == \A w \in Workers : SaveReads(save[w])

\* A file holds what the save that wrote it had met in the end.
FileComplete(f) ==
  /\ IsFiniteSet(f.left) /\ f.before \subseteq seen
  /\ LeftOrRead(f)
  /\ f.quiet => PendingRead(f) /\ FailedRead(f)
FilesComplete == \A t \in DOMAIN disk : FileComplete(disk[t])

SaveInv ==
  loaded = NoFile =>
    SetsAreFinite /\ NamesDiffer /\ EntriesOwn /\ SavesRead /\ FilesComplete
===========================================================================
