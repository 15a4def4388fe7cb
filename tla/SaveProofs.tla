----------------------------- MODULE SaveProofs ---------------------------
(***************************************************************************)
(* Theorems about SaveState, for any number of URLs, workers and restarts, *)
(* any page of the iterators, interval and history: the saved files are    *)
(* those config.saveStateFiles names, a URL that was known when a save     *)
(* began is known when its file is loaded, and one that was not finished   *)
(* is queued again, when nothing upset the reading of its list.            *)
(***************************************************************************)
EXTENDS SaveState, FiniteSetTheorems, SequenceTheorems, TLAPS

IInv == TypeOK /\ SaveInv /\ FilesKept /\ StaysSeen /\ ResumesAll

---------------------------------------------------------------------------
(* The operations of the crawl that go on while it is saved.               *)

\* They keep the types of the crawl state.
LEMMA CrawlTypes ==
  ASSUME StateTypeOK,
         \/ \E e \in queue : GetNext(e)
         \/ \E u \in Urls : \/ AddQueue(u, Score[u], 0) \/ RemovePending(u)
                            \/ Requeue(u) \/ MoveFailed(u) \/ AddNewSeed(u)
  PROVE  StateTypeOK'
<1> USE StateAssumption, SaveAssumption DEF StateTypeOK
<1>1. ASSUME NEW u \in Urls, AddQueue(u, Score[u], 0) PROVE StateTypeOK'
  <2>1. [url |-> u, score |-> Score[u], retry |-> 0] \in Entry
    BY DEF Entry
  <2>2. QED BY <1>1, <2>1 DEF AddQueue
<1>2. ASSUME NEW e \in queue, GetNext(e) PROVE StateTypeOK'
  <2>1. e \in Entry /\ e.url \in Urls
    BY DEF Entry
  <2>2. handed' \in [Urls -> Nat]
    BY <1>2, <2>1 DEF GetNext
  <2>3. QED BY <1>2, <2>1, <2>2 DEF GetNext
<1>3. ASSUME NEW u \in Urls, RemovePending(u) PROVE StateTypeOK'
  BY <1>3 DEF RemovePending
<1>4. ASSUME NEW u \in Urls, Requeue(u) PROVE StateTypeOK'
  <2>1. CASE UNCHANGED <<pending, queue, dropped>>
    BY <1>4, <2>1 DEF Requeue
  <2>2. CASE Pending(u)
    <3>1. [pending[u] EXCEPT !.retry = @ + 1] \in Entry
      BY <2>2 DEF Pending, Entry
    <3>2. QED BY <1>4, <3>1 DEF Requeue
  <2>3. QED BY <1>4, <2>1, <2>2 DEF Requeue
<1>5. ASSUME NEW u \in Urls, MoveFailed(u) PROVE StateTypeOK'
  BY <1>5 DEF MoveFailed
<1>6. ASSUME NEW u \in Urls, AddNewSeed(u) PROVE StateTypeOK'
  BY <1>6 DEF AddNewSeed
<1>7. QED BY <1>1, <1>2, <1>3, <1>4, <1>5, <1>6

---------------------------------------------------------------------------
(* Type correctness.                                                       *)

LEMMA SaveTypes ==
  ASSUME TypeOK, NEW w \in Workers, NEW t \in Saves, save' = [save EXCEPT ![w] = t]
  PROVE  save' \in [Workers -> Saves]
BY DEF TypeOK

LEMMA ReadTypes ==
  ASSUME TypeOK, NEW w \in Workers,
         \/ Scan(w) \/ CountQueue(w) \/ ReadQueue(w) \/ ReadPending(w) \/ CountFailed(w)
         \/ ReadFailed(w) \/ ReadExtra(w) \/ WriteFails(w),
         IsFiniteSet(queue)
  PROVE  TypeOK'
<1> DEFINE s == save[w]
<1>0. /\ s \in Saves /\ queue \subseteq Entry /\ extraSeeds \subseteq Urls
      /\ seen \subseteq Urls /\ failedList \in Seq(Entry) /\ Inc \in Nat
      /\ \A u \in PendingUrls : pending[u] \in Entry
      /\ 0 \in 0..MaxTime
  BY SaveAssumption DEF TypeOK, StateTypeOK, PendingUrls, Pending
<1>1. ASSUME NEW pc, NEW t \in Saves, Read(w, pc, t) PROVE TypeOK'
  BY <1>1, SaveTypes DEF Read, TypeOK, StateTypeOK, stateVars
<1> HIDE DEF s
<1>2. CASE Scan(w)
  <2>1. PICK S \in SUBSET (seen \ s.before) :
          Read(w, "scan", [s EXCEPT !.pc = "zcard", !.left = s.before \cup S])
    BY <1>2 DEF Scan, s
  <2>2. [s EXCEPT !.pc = "zcard", !.left = s.before \cup S] \in Saves
    <3>1. s.before \cup S \in SUBSET Urls
      BY <1>0 DEF Saves
    <3>2. QED BY <1>0, <3>1 DEF Saves
  <2>3. QED BY <1>1, <2>1, <2>2
<1>3. CASE CountQueue(w)
  <2>1. Cardinality(queue) \in Nat
    BY FS_CardinalityType
  <2>2. [s EXCEPT !.pc = "queue", !.i = 0, !.len = Cardinality(queue)] \in Saves
    BY <1>0, <2>1 DEF Saves
  <2>3. QED BY <1>1, <1>3, <2>2 DEF CountQueue, s
<1>4. CASE ReadQueue(w)
  <2> DEFINE page == {e \in Scored : s.i <= Place(e) /\ Place(e) < s.i + Inc}
             t == [s EXCEPT !.queued = @ \cup page, !.i = @ + Inc,
                            !.left = @ \ UrlsOf(page)]
  <2>1. page \subseteq Entry
    BY <1>0 DEF Scored
  <2> HIDE DEF page
  <2>2. t \in Saves
    <3>1. s.queued \cup page \in SUBSET Entry /\ s.i + Inc \in Nat
          /\ s.left \ UrlsOf(page) \in SUBSET Urls
      BY <1>0, <2>1 DEF Saves
    <3>2. QED BY <1>0, <3>1 DEF Saves
  <2>3. [s EXCEPT !.pc = "pending"] \in Saves
    BY <1>0 DEF Saves
  <2> HIDE DEF t
  <2>4. Read(w, "queue", IF s.i < s.len THEN t ELSE [s EXCEPT !.pc = "pending"])
    BY <1>4 DEF ReadQueue, s, t, page
  <2>5. QED BY <1>1, <2>2, <2>3, <2>4
<1>5. CASE ReadPending(w)
  <2> DEFINE P == {pending[u] : u \in PendingUrls}
  <2>1. P \subseteq Entry
    BY <1>0
  <2> HIDE DEF P
  <2>2. [s EXCEPT !.pc = "llen", !.pending = P] \in Saves
    BY <1>0, <2>1 DEF Saves
  <2>3. QED BY <1>1, <1>5, <2>2 DEF ReadPending, s, P
<1>6. CASE CountFailed(w)
  <2>1. [s EXCEPT !.pc = "failed", !.i = 0, !.len = Len(failedList)] \in Saves
    <3>1. Len(failedList) \in Nat
      BY <1>0, LenProperties
    <3>2. QED BY <1>0, <3>1 DEF Saves
  <2>2. QED BY <1>1, <1>6, <2>1 DEF CountFailed, s
<1>7. CASE ReadFailed(w)
  <2> DEFINE page == {failedList[k] : k \in {n \in DOMAIN failedList :
                                               s.i < n /\ n <= s.i + Inc}}
             t == [s EXCEPT !.failed = @ \cup page, !.i = @ + Inc,
                            !.left = @ \ UrlsOf(page)]
  <2>1. page \subseteq Entry
    BY <1>0
  <2> HIDE DEF page
  <2>2. t \in Saves
    <3>1. s.failed \cup page \in SUBSET Entry /\ s.i + Inc \in Nat
          /\ s.left \ UrlsOf(page) \in SUBSET Urls
      BY <1>0, <2>1 DEF Saves
    <3>2. QED BY <1>0, <3>1 DEF Saves
  <2>3. [s EXCEPT !.pc = "extra"] \in Saves
    BY <1>0 DEF Saves
  <2> HIDE DEF t
  <2>4. Read(w, "failed", IF s.i < s.len THEN t ELSE [s EXCEPT !.pc = "extra"])
    BY <1>7 DEF ReadFailed, s, t, page
  <2>5. QED BY <1>1, <2>2, <2>3, <2>4
<1>8. CASE ReadExtra(w)
  <2>1. [s EXCEPT !.pc = "write", !.extra = extraSeeds, !.left = @ \ extraSeeds] \in Saves
    BY <1>0 DEF Saves
  <2>2. QED BY <1>1, <1>8, <2>1 DEF ReadExtra, s
<1>9. CASE WriteFails(w)
  <2>1. Idle \in Saves
    BY <1>0 DEF Idle, Saves
  <2>2. QED BY <1>1, <1>9, <2>1 DEF WriteFails
<1>10. QED BY <1>2, <1>3, <1>4, <1>5, <1>6, <1>7, <1>8, <1>9

LEMMA FileTypes ==
  ASSUME TypeOK, NEW w \in Workers, Begin(w) \/ Write(w) \/ Unlink(w)
  PROVE  TypeOK'
<1> DEFINE s == save[w]
<1>0. /\ s \in Saves /\ seen \subseteq Urls /\ now \in 0..MaxTime /\ MaxTime \in Nat
      /\ SaveStateHistory \in Nat \ {0}
  BY SaveAssumption DEF TypeOK, StateTypeOK
<1>1. Idle \in Saves
  BY <1>0 DEF Idle, Saves
<1>2. ASSUME NEW pc \in {"idle", "scan", "write", "unlink"}, NEW time \in 0..MaxTime,
             NEW B \in SUBSET Urls
      PROVE  /\ [Idle EXCEPT !.pc = pc, !.time = time] \in Saves
             /\ [Idle EXCEPT !.pc = pc, !.time = time, !.before = B] \in Saves
  <2>1. [Idle EXCEPT !.pc = pc, !.time = time] \in Saves
    BY <1>1 DEF Saves
  <2>2. \A t \in Saves : [t EXCEPT !.before = B] \in Saves
    BY DEF Saves
  <2>3. [Idle EXCEPT !.pc = pc, !.time = time, !.before = B]
          = [[Idle EXCEPT !.pc = pc, !.time = time] EXCEPT !.before = B]
    OBVIOUS
  <2>4. QED BY <2>1, <2>2, <2>3
<1> HIDE DEF s
<1>4. CASE Begin(w)
  <2>1. PICK t \in Saves : save' = [save EXCEPT ![w] = t]
    <3>1. [Idle EXCEPT !.pc = "write", !.time = now] \in Saves
      BY <1>0, <1>2
    <3>2. [Idle EXCEPT !.pc = "scan", !.time = now, !.before = seen] \in Saves
      BY <1>0, <1>2
    <3>3. QED BY <1>4, <3>1, <3>2 DEF Begin
  <2>2. save' \in [Workers -> Saves]
    BY <2>1, SaveTypes
  <2>3. QED BY <1>0, <1>4, <2>2 DEF Begin, TypeOK, StateTypeOK, stateVars
<1>5. CASE Write(w)
  <2> DEFINE files == Append(saveStateFiles, s.time)
  <2>1. s.time \in 0..MaxTime /\ files \in Seq(0..MaxTime) /\ files # <<>>
    <3>1. s.time \in 0..MaxTime /\ saveStateFiles \in Seq(0..MaxTime)
      BY <1>0 DEF TypeOK, Saves
    <3>2. QED BY <3>1, AppendProperties
  <2>2. Head(files) \in 0..MaxTime /\ Tail(files) \in Seq(0..MaxTime)
    BY <2>1, HeadTailProperties
  <2>3. Saved(s) \in File
    BY <1>0 DEF Saved, File, Saves
  <2>4. disk' = [t \in DOMAIN disk \cup {s.time} |-> IF t = s.time THEN Saved(s) ELSE disk[t]]
    BY <1>5 DEF Write, s
  <2>5. DOMAIN disk' \subseteq 0..MaxTime /\ disk' \in [DOMAIN disk' -> File]
    BY <2>1, <2>3, <2>4 DEF TypeOK
  <2> HIDE DEF files
  <2>6. saveStateFiles' \in {files, Tail(files)} /\ \E t \in Saves : save' = [save EXCEPT ![w] = t]
    <3>1. [Idle EXCEPT !.pc = "unlink", !.time = Head(files)] \in Saves
      BY <1>2, <2>2
    <3>2. QED BY <1>1, <1>5, <3>1 DEF Write, files, s
  <2>7. save' \in [Workers -> Saves]
    BY <2>6, SaveTypes
  <2>8. QED BY <1>5, <2>1, <2>2, <2>5, <2>6, <2>7 DEF Write, TypeOK, StateTypeOK, stateVars
<1>6. CASE Unlink(w)
  <2>1. save' \in [Workers -> Saves]
    BY <1>1, <1>6, SaveTypes DEF Unlink
  <2>2. DOMAIN disk' \subseteq 0..MaxTime /\ disk' \in [DOMAIN disk' -> File]
    BY <1>6 DEF Unlink, TypeOK
  <2>3. QED BY <1>6, <2>1, <2>2 DEF Unlink, TypeOK, StateTypeOK, stateVars
<1>7. QED BY <1>4, <1>5, <1>6

LEMMA CrawlStepTypes ==
  ASSUME TypeOK, CrawlStep
  PROVE  TypeOK'
<1>1. StateTypeOK'
  <2>1. StateTypeOK /\ PendingUrls \subseteq Urls /\ Redirects \subseteq Urls
    BY SaveAssumption DEF TypeOK, PendingUrls
  <2>2. QED BY <2>1, CrawlTypes DEF CrawlStep
<1>2. failedList' \in Seq(Entry)
  <2>1. \A u \in PendingUrls : <<pending[u]>> \o failedList \in Seq(Entry)
    BY DEF TypeOK, StateTypeOK, PendingUrls, Pending
  <2>2. QED BY <2>1 DEF CrawlStep, TypeOK
<1>3. save' \in [Workers -> Saves]
  <2>1. \A w \in Workers : [save[w] EXCEPT !.quiet = @ /\ ~Upset(save[w])] \in Saves
    <3> SUFFICES ASSUME NEW w \in Workers
                 PROVE  [save[w] EXCEPT !.quiet = @ /\ ~Upset(save[w])] \in Saves
      OBVIOUS
    <3> DEFINE q == save[w].quiet /\ ~Upset(save[w])
    <3>1. q \in BOOLEAN /\ save[w] \in Saves
      BY DEF TypeOK
    <3> HIDE DEF q
    <3>2. [save[w] EXCEPT !.quiet = q] \in Saves
      BY <3>1 DEF Saves
    <3>3. QED BY <3>2 DEF q
  <2>2. QED BY <2>1 DEF CrawlStep
<1>4. QED BY <1>1, <1>2, <1>3 DEF CrawlStep, TypeOK

LEMMA LoadTypes ==
  ASSUME TypeOK, FilesComplete, NEW r \in Restarts, Load(followed, r.fresh, r.inScope)
  PROVE  TypeOK'
<1> DEFINE s == disk[followed]
<1>0. /\ s \in File /\ r.fresh \in BOOLEAN /\ r.inScope \subseteq Urls
      /\ followed \in DOMAIN disk
  BY SaveAssumption DEF Load, TypeOK
<1>1. IsFiniteSet(s.left)
  BY <1>0 DEF FilesComplete, FileComplete
<1>2. Cardinality(s.left) \in Nat
  BY <1>1, FS_CardinalityType
<1>3. ToQueue(s, r.inScope) \subseteq Entry
  BY <1>0 DEF ToQueue, File
<1>4. /\ s.left \cup UrlsOf(ToQueue(s, r.inScope)) \subseteq Urls
      /\ s.extra \subseteq Urls /\ extraSeeds \subseteq Urls
  BY <1>0, <1>3 DEF UrlsOf, Entry, File, TypeOK, StateTypeOK
<1>5. [fresh |-> r.fresh, inScope |-> r.inScope, before |-> s.before,
       live |-> {u \in s.before : Unfinished(u)}, quiet |-> s.quiet] \in Loaded
  BY <1>0 DEF Loaded, File
<1>6. Idle \in Saves /\ -SaveStateInterval \in Int
  BY SaveAssumption DEF Idle, Saves
<1>7. QED BY <1>0, <1>2, <1>3, <1>4, <1>5, <1>6 DEF Load, TypeOK, StateTypeOK

---------------------------------------------------------------------------
(* The names of the files.                                                 *)

FilesInv == NamesDiffer /\ FilesKept

\* No save begins, writes a file or removes one: some go on, or give up.
LEMMA NamesStay ==
  ASSUME FilesInv,
         \A w \in Workers : \/ save'[w].pc = "idle" /\ save[w].pc # "unlink"
                            \/ /\ save'[w].time = save[w].time /\ save[w].pc # "idle"
                               /\ save'[w].pc = "unlink" <=> save[w].pc = "unlink",
         UNCHANGED <<disk, saveStateFiles, lastSaveTime, loaded>>,
         now \in Int, now' \in Int, lastSaveTime \in Int, now <= now'
  PROVE  FilesInv'
<1>1. Kept' = Kept
  BY DEF Kept
<1>2. Removed' = Removed
  BY DEF Removed
<1>3. NamesDiffer'
  <2>1. lastSaveTime' <= now'
    BY DEF FilesInv, NamesDiffer
  <2>2. QED BY <1>1, <1>2, <2>1 DEF FilesInv, NamesDiffer
<1>4. FilesKept'
  BY <1>1, <1>2 DEF FilesInv, FilesKept
<1>5. QED BY <1>3, <1>4 DEF FilesInv

LEMMA BeginNames ==
  ASSUME TypeOK, FilesInv, NEW w \in Workers, Begin(w)
  PROVE  FilesInv'
<1>1. /\ lastSaveTime < now /\ now \in Int /\ lastSaveTime \in Int /\ lastSaveTime' = now
      /\ now' = now
  BY SaveAssumption DEF Begin, TypeOK
<1>2. PICK t : /\ t.time = now /\ t.pc \in {"scan", "write"}
               /\ save' = [save EXCEPT ![w] = t] /\ save[w].pc = "idle"
  <2> DEFINE a == [Idle EXCEPT !.pc = "scan", !.time = now, !.before = seen]
             b == [Idle EXCEPT !.pc = "write", !.time = now]
  <2>1. a.time = now /\ a.pc = "scan" /\ b.time = now /\ b.pc = "write"
    BY DEF Idle
  <2> HIDE DEF a, b
  <2>2. save[w].pc = "idle" /\ save' = [save EXCEPT ![w] = IF now = followed THEN a ELSE b]
    BY DEF Begin, a, b
  <2>3. QED BY <2>1, <2>2
<1>3. save'[w] = t /\ \A v \in Workers \ {w} : save'[v] = save[v]
  BY <1>2 DEF TypeOK
<1>4. Kept' = Kept
  BY DEF Begin, Kept
<1>5. Removed' = Removed
  BY <1>2, <1>3 DEF Removed
<1>6. \A v \in Workers : save[v].pc # "idle" => save[v].time <= lastSaveTime
  BY DEF FilesInv, NamesDiffer, Removed
<1>7. \A s \in Kept \cup Removed : s <= lastSaveTime
  BY DEF FilesInv, NamesDiffer
<1>8. Kept \cup Removed \subseteq Int /\ \A v \in Workers : save[v].time \in Int
  <2>1. \A v \in Workers : save[v].time \in 0..MaxTime
    BY DEF TypeOK, Saves
  <2>2. \A k \in DOMAIN saveStateFiles : saveStateFiles[k] \in 0..MaxTime
    BY ElementOfSeq, LenProperties DEF TypeOK
  <2>3. QED BY <2>1, <2>2 DEF Kept, Removed, Range
<1>9. NamesDiffer'
  <2>1. \A v \in Workers \ {w} : save[v].pc # "idle" => save[v].time # now
    BY <1>1, <1>6, <1>8
  <2>2. \A s \in Kept \cup Removed : s <= now /\ s # now
    BY <1>1, <1>7, <1>8
  <2>3. \A v, u \in Workers : save'[v].pc # "idle" /\ save'[u].pc # "idle"
                              /\ save'[v].time = save'[u].time => v = u
    BY <1>2, <1>3, <2>1 DEF FilesInv, NamesDiffer
  <2>4. \A v \in Workers : save'[v].pc \notin {"idle", "unlink"} =>
                             save'[v].time \notin Kept /\ save'[v].time <= now
    BY <1>1, <1>2, <1>3, <1>6, <1>8, <2>2 DEF FilesInv, NamesDiffer
  <2>5. QED BY <1>1, <1>4, <1>5, <2>2, <2>3, <2>4 DEF NamesDiffer
<1>10. FilesKept'
  BY <1>4, <1>5 DEF Begin, FilesInv, FilesKept
<1>11. QED BY <1>9, <1>10 DEF FilesInv

\* The range of a sequence that grew at its end or lost its head.
LEMMA RangeOfAppend ==
  ASSUME NEW S, NEW seq \in Seq(S), NEW x \in S
  PROVE  /\ Range(Append(seq, x)) = Range(seq) \cup {x}
         /\ IsInjective(seq) /\ x \notin Range(seq) => IsInjective(Append(seq, x))
<1>1. /\ Len(seq) \in Nat /\ DOMAIN seq = 1..Len(seq)
      /\ DOMAIN Append(seq, x) = 1..(Len(seq) + 1)
      /\ \A k \in 1..Len(seq) : Append(seq, x)[k] = seq[k]
      /\ Append(seq, x)[Len(seq) + 1] = x
  BY AppendProperties, LenProperties
<1>2. QED BY <1>1 DEF Range, IsInjective

LEMMA RangeOfTail ==
  ASSUME NEW S, NEW seq \in Seq(S), seq # <<>>, IsInjective(seq)
  PROVE  /\ Head(seq) \notin Range(Tail(seq))
         /\ Range(seq) = Range(Tail(seq)) \cup {Head(seq)}
         /\ IsInjective(Tail(seq))
<1>1. /\ Len(seq) \in Nat \ {0} /\ DOMAIN seq = 1..Len(seq)
      /\ DOMAIN Tail(seq) = 1..(Len(seq) - 1)
      /\ \A k \in 1..(Len(seq) - 1) : Tail(seq)[k] = seq[k + 1]
      /\ Head(seq) = seq[1]
  BY HeadTailProperties, LenProperties, EmptySeq
<1>2. Head(seq) \notin Range(Tail(seq)) /\ IsInjective(Tail(seq))
  BY <1>1 DEF Range, IsInjective
<1>3. Range(seq) \subseteq Range(Tail(seq)) \cup {Head(seq)}
  <2> SUFFICES ASSUME NEW k \in 1..Len(seq), k # 1
               PROVE  seq[k] \in Range(Tail(seq))
    BY <1>1 DEF Range
  <2>1. k - 1 \in 1..(Len(seq) - 1) /\ Tail(seq)[k - 1] = seq[k]
    BY <1>1
  <2>2. QED BY <1>1, <2>1 DEF Range
<1>4. Range(Tail(seq)) \cup {Head(seq)} \subseteq Range(seq)
  BY <1>1 DEF Range
<1>5. QED BY <1>2, <1>3, <1>4

LEMMA WriteNames ==
  ASSUME TypeOK, FilesInv, loaded = NoFile, NEW w \in Workers, Write(w)
  PROVE  FilesInv'
<1> DEFINE s == save[w]
           files == Append(saveStateFiles, s.time)
<1>0. /\ s.pc = "write" /\ s.time \in 0..MaxTime /\ saveStateFiles \in Seq(0..MaxTime)
      /\ save \in [Workers -> Saves] /\ SaveStateHistory \in Nat \ {0}
      /\ UNCHANGED <<now, lastSaveTime, loaded>>
  BY SaveAssumption DEF Write, TypeOK, Saves
<1>1. s.time \notin Kept /\ s.time <= lastSaveTime
  BY <1>0 DEF FilesInv, NamesDiffer
<1>2. s.time \notin Removed
  BY <1>0 DEF FilesInv, NamesDiffer, Removed
<1>3. /\ IsInjective(saveStateFiles) /\ Kept \cap Removed = {} /\ DOMAIN disk = Kept \cup Removed
      /\ Len(saveStateFiles) <= SaveStateHistory
  BY DEF FilesInv, FilesKept
<1>4. /\ files \in Seq(0..MaxTime) /\ files # <<>> /\ Len(files) = Len(saveStateFiles) + 1
      /\ Len(saveStateFiles) \in Nat
      /\ Range(files) = Kept \cup {s.time} /\ IsInjective(files)
  <2>1. /\ files \in Seq(0..MaxTime) /\ files # <<>> /\ Len(files) = Len(saveStateFiles) + 1
        /\ Len(saveStateFiles) \in Nat
    BY <1>0, AppendProperties, LenProperties
  <2>2. Range(files) = Kept \cup {s.time} /\ IsInjective(files)
    <3>1. /\ Range(files) = Range(saveStateFiles) \cup {s.time}
          /\ IsInjective(saveStateFiles) /\ s.time \notin Range(saveStateFiles) =>
               IsInjective(files)
      BY <1>0, RangeOfAppend
    <3>2. QED BY <1>1, <1>3, <3>1 DEF Kept
  <2>3. QED BY <2>1, <2>2
<1>5. DOMAIN disk' = Kept \cup Removed \cup {s.time}
  BY <1>3 DEF Write
<1>6. \A t \in Kept \cup Removed \cup {s.time} : t <= lastSaveTime
  BY <1>1 DEF FilesInv, NamesDiffer
<1>7. \A v \in Workers : save[v].pc # "idle" => \/ v = w
                                              \/ save[v].time # s.time
  BY <1>0 DEF FilesInv, NamesDiffer
<1> HIDE DEF s, files
<1>8. CASE Len(files) > SaveStateHistory
  <2> DEFINE h == Head(files)
             t == [Idle EXCEPT !.pc = "unlink", !.time = h]
  <2>1. t.pc = "unlink" /\ t.time = h
    BY DEF Idle
  <2>2. saveStateFiles' = Tail(files) /\ save' = [save EXCEPT ![w] = t]
    BY <1>8 DEF Write, s, files
  <2>3. /\ h \notin Range(Tail(files)) /\ Range(files) = Range(Tail(files)) \cup {h}
        /\ IsInjective(Tail(files)) /\ Len(Tail(files)) = Len(files) - 1
    BY <1>4, RangeOfTail, HeadTailProperties
  <2> HIDE DEF h, t
  <2>4. save'[w] = t /\ \A v \in Workers \ {w} : save'[v] = save[v]
    BY <1>0, <2>2
  <2>5. Kept' = Range(Tail(files)) /\ h \in Kept \cup {s.time}
    BY <1>4, <2>2, <2>3 DEF Kept
  <2>6. Removed' = Removed \cup {h}
    <3>1. \A v \in Workers : save'[v].pc = "unlink" <=> v = w \/ save[v].pc = "unlink"
      BY <1>0, <2>1, <2>4 DEF s
    <3>2. \A v \in Workers : save'[v].time = IF v = w THEN h ELSE save[v].time
      BY <2>1, <2>4
    <3>3. w \notin {v \in Workers : save[v].pc = "unlink"}
      BY <1>0 DEF s
    <3>4. QED BY <3>1, <3>2, <3>3 DEF Removed
  <2>7. \A v \in Workers \ {w} : save[v].pc # "idle" => save[v].time # h
    <3> SUFFICES ASSUME NEW v \in Workers \ {w}, save[v].pc # "idle", save[v].time = h
                 PROVE  FALSE
      OBVIOUS
    <3>1. h \in Kept
      BY <1>7, <2>5
    <3>2. save[v].pc = "unlink"
      BY <3>1 DEF FilesInv, NamesDiffer
    <3>3. h \in Removed
      BY <3>2 DEF Removed
    <3>4. QED BY <1>3, <3>1, <3>3
  <2>8. NamesDiffer'
    <3>1. \A v, u \in Workers : save'[v].pc # "idle" /\ save'[u].pc # "idle"
                                /\ save'[v].time = save'[u].time => v = u
      BY <2>1, <2>4, <2>7 DEF FilesInv, NamesDiffer
    <3>2. Kept' \subseteq Kept \cup {s.time}
      BY <1>4, <2>3, <2>5
    <3>3. \A v \in Workers : save'[v].pc \notin {"idle", "unlink"} =>
                             save'[v].time \notin Kept' /\ save'[v].time <= lastSaveTime
      BY <1>7, <2>1, <2>4, <3>2 DEF FilesInv, NamesDiffer
    <3>4. \A x \in Kept' \cup Removed' : x <= lastSaveTime
      BY <1>6, <2>5, <2>6, <3>2
    <3>5. QED BY <1>0, <3>1, <3>3, <3>4 DEF FilesInv, NamesDiffer
  <2>9. FilesKept'
    <3>1. Kept' \cap Removed' = {}
      BY <1>2, <1>3, <1>4, <2>3, <2>5, <2>6
    <3>2. DOMAIN disk' = Kept' \cup Removed'
      BY <1>4, <1>5, <2>3, <2>5, <2>6
    <3>3. Len(saveStateFiles') <= SaveStateHistory
      BY <1>0, <1>3, <1>4, <2>2, <2>3
    <3>4. QED BY <2>2, <2>3, <3>1, <3>2, <3>3 DEF FilesKept
  <2>10. QED BY <2>8, <2>9 DEF FilesInv
<1>9. CASE ~(Len(files) > SaveStateHistory)
  <2>1. saveStateFiles' = files /\ save' = [save EXCEPT ![w] = Idle]
    BY <1>9 DEF Write, s, files
  <2>2. save'[w].pc = "idle" /\ \A v \in Workers \ {w} : save'[v] = save[v]
    BY <1>0, <2>1 DEF Idle
  <2>3. Kept' = Kept \cup {s.time}
    BY <1>4, <2>1 DEF Kept
  <2>4. Removed' = Removed
    BY <1>0, <2>2 DEF Removed, s
  <2>5. NamesDiffer'
    <3>1. \A v \in Workers : save'[v].pc # "idle" => v # w /\ save'[v] = save[v]
      BY <2>2
    <3>2. \A v \in Workers : save'[v].pc \notin {"idle", "unlink"} =>
                             save'[v].time \notin Kept' /\ save'[v].time <= lastSaveTime
      BY <1>7, <2>3, <3>1 DEF FilesInv, NamesDiffer
    <3>3. QED BY <1>0, <1>6, <2>3, <2>4, <3>1, <3>2 DEF FilesInv, NamesDiffer
  <2>6. FilesKept'
    <3>1. Len(saveStateFiles') <= SaveStateHistory
      BY <1>0, <1>4, <1>9, <2>1
    <3>2. QED BY <1>2, <1>3, <1>4, <1>5, <2>1, <2>3, <2>4, <3>1 DEF FilesKept
  <2>7. QED BY <2>5, <2>6 DEF FilesInv
<1>10. QED BY <1>8, <1>9

LEMMA UnlinkNames ==
  ASSUME TypeOK, FilesInv, loaded = NoFile, NEW w \in Workers, Unlink(w)
  PROVE  FilesInv'
<1>1. /\ save[w].pc = "unlink" /\ save'[w].pc = "idle" /\ UNCHANGED <<now, lastSaveTime>>
      /\ \A v \in Workers \ {w} : save'[v] = save[v]
  BY DEF Unlink, Idle, TypeOK
<1>2. Kept' = Kept
  BY DEF Unlink, Kept
<1>3. Removed' = Removed \ {save[w].time}
  <2>1. \A v \in Workers \ {w} : save[v].pc = "unlink" => save[v].time # save[w].time
    BY <1>1 DEF FilesInv, NamesDiffer
  <2>2. QED BY <1>1, <2>1 DEF Removed
<1>4. save[w].time \in Removed
  BY <1>1 DEF Removed
<1>5. NamesDiffer'
  <2>1. \A v \in Workers : save'[v].pc # "idle" => v # w /\ save'[v] = save[v]
    BY <1>1
  <2>2. QED BY <1>1, <1>2, <1>3, <2>1 DEF FilesInv, NamesDiffer
<1>6. FilesKept'
  <2>1. DOMAIN disk' = DOMAIN disk \ {save[w].time} /\ UNCHANGED <<saveStateFiles, loaded>>
    BY DEF Unlink
  <2>2. QED BY <1>2, <1>3, <1>4, <2>1 DEF FilesInv, FilesKept
<1>7. QED BY <1>5, <1>6 DEF FilesInv

---------------------------------------------------------------------------
(* What a save has met.                                                    *)

\* What a step of the crawl may do to the lists that are read: no URL that was
\* seen comes to the queue but by requeue, and to list f only from the hash.
Moves ==
  /\ seen \subseteq seen' /\ IsFiniteSet(seen') /\ IsFiniteSet(queue')
  /\ \A u \in seen : /\ Queued(u)' => Queued(u) \/ Requeued(u)
                     /\ Queued(u)' \/ Pending(u)' => Queued(u) \/ Pending(u)
  /\ \/ failedList' = failedList
     \/ \E u \in PendingUrls : /\ pending[u].url = u
                               /\ failedList' = <<pending[u]>> \o failedList

LEMMA EntryPlaces ==
  ASSUME TypeOK, SetsAreFinite, NEW e \in Scored
  PROVE  Place(e) \in Nat /\ Place(e) < Cardinality(queue) /\ Cardinality(queue) \in Nat
<1> DEFINE B == {f \in Scored : Before(f, e)}
<1>1. e \in queue /\ e.score \in Int /\ Rank[e.url] \in Nat
  BY SaveAssumption DEF Scored, TypeOK, StateTypeOK, Entry
<1>2. B \subseteq queue \ {e}
  BY <1>1 DEF Before, Scored
<1>3. IsFiniteSet(queue \ {e}) /\ Cardinality(queue \ {e}) = Cardinality(queue) - 1
  BY <1>1, FS_RemoveElement DEF SetsAreFinite
<1> HIDE DEF B
<1>4. IsFiniteSet(B) /\ Cardinality(B) <= Cardinality(queue \ {e})
  BY <1>2, <1>3, FS_Subset
<1>5. Cardinality(B) \in Nat /\ Cardinality(queue) \in Nat
  BY <1>4, FS_CardinalityType DEF SetsAreFinite
<1>6. QED BY <1>3, <1>4, <1>5 DEF Place, B

\* At the end of the loop over the queue, or over list f, all of it was met.
LEMMA QueueDone ==
  ASSUME TypeOK, SetsAreFinite, EntriesOwn, NEW s \in Saves, QueueBeingRead(s),
         ~(s.i < s.len)
  PROVE  QueueRead(s)
<1>0. s.i \in Nat /\ s.len \in Nat
  BY DEF Saves
<1>1. CASE QueueRead(s)
  BY <1>1
<1>2. CASE /\ Cardinality(queue) = s.len
           /\ \A e \in Scored : e.url \in Old(s) /\ Place(e) < s.i => e.url \in Met(s)
  <2> SUFFICES ASSUME NEW u \in Old(s), NEW e \in queue, e.url = u PROVE u \in Met(s)
    BY DEF QueueRead, Queued
  <2>1. e \in Scored
    BY DEF EntriesOwn, Scored, Old
  <2>2. Place(e) < s.i
    BY <1>0, <1>2, <2>1, EntryPlaces
  <2>3. QED BY <1>2, <2>1, <2>2
<1>3. QED BY <1>1, <1>2 DEF QueueBeingRead

LEMMA FailedDone ==
  ASSUME TypeOK, NEW s \in Saves, FailedBeingRead(s), ~(s.i < s.len)
  PROVE  FailedRead(s)
<1>0. s.i \in Nat /\ s.len \in Nat /\ DOMAIN failedList = 1..Len(failedList)
  BY LenProperties DEF Saves, TypeOK
<1>1. QED BY <1>0 DEF FailedBeingRead, FailedRead

\* A page of the queue, read while i is below the length.
LEMMA QueuePage ==
  ASSUME TypeOK, SetsAreFinite, EntriesOwn, NEW s \in Saves, QueueBeingRead(s),
         s.i < s.len, NEW t, t.i = s.i + Inc, t.len = s.len, t.before = s.before,
         t.queued = s.queued \cup {e \in Scored : s.i <= Place(e) /\ Place(e) < s.i + Inc},
         t.pending = s.pending, t.failed = s.failed
  PROVE  QueueBeingRead(t)
<1>0. s.i \in Nat /\ s.len \in Nat /\ Inc \in Nat \ {0} /\ Cardinality(queue) \in Nat
  BY SaveAssumption, FS_CardinalityType DEF Saves, SetsAreFinite
<1>1. Old(t) = Old(s) /\ Met(s) \subseteq Met(t)
  BY DEF Old, Met, UrlsOf
<1>2. \A e \in Scored : s.i <= Place(e) /\ Place(e) < s.i + Inc => e.url \in Met(t)
  BY DEF Met, UrlsOf
<1>3. t.i >= Inc
  BY <1>0
<1>4. CASE /\ Cardinality(queue) = s.len
           /\ \A e \in Scored : e.url \in Old(s) /\ Place(e) < s.i => e.url \in Met(s)
  <2>1. ASSUME NEW e \in Scored, e.url \in Old(t), Place(e) < t.i
        PROVE  e.url \in Met(t)
    BY <1>0, <1>1, <1>2, <1>4, <2>1, EntryPlaces
  <2>2. QED BY <1>3, <1>4, <2>1 DEF QueueBeingRead
<1>5. CASE s.len <= Inc /\ Cardinality(queue) <= Inc
  <2>1. s.i = 0
    BY <1>0, <1>5 DEF QueueBeingRead
  <2>2. ASSUME NEW u \in Old(t), NEW e \in queue, e.url = u PROVE u \in Met(t)
    <3>1. e \in Scored
      BY <2>2 DEF EntriesOwn, Scored, Old
    <3>2. 0 <= Place(e) /\ Place(e) < Inc
      BY <1>0, <1>5, <3>1, EntryPlaces
    <3>3. QED BY <1>0, <1>2, <2>1, <2>2, <3>1, <3>2
  <2>3. QueueRead(t)
    BY <2>2 DEF QueueRead, Queued
  <2>4. QED BY <1>3, <1>5, <2>3 DEF QueueBeingRead
<1>6. QED BY <1>4, <1>5 DEF QueueBeingRead

LEMMA FailedPage ==
  ASSUME TypeOK, NEW s \in Saves, FailedBeingRead(s), s.i < s.len,
         NEW t, t.i = s.i + Inc, t.len = s.len, t.before = s.before,
         t.failed = s.failed \cup {failedList[k] : k \in {n \in DOMAIN failedList :
                                                       s.i < n /\ n <= s.i + Inc}},
         t.pending = s.pending, t.queued = s.queued
  PROVE  FailedBeingRead(t)
<1>0. /\ s.i \in Nat /\ s.len \in Nat /\ Inc \in Nat \ {0}
      /\ DOMAIN failedList = 1..Len(failedList) /\ Len(failedList) \in Nat
  BY SaveAssumption, LenProperties DEF Saves, TypeOK
<1>1. Old(t) = Old(s) /\ Met(s) \subseteq Met(t)
  BY DEF Old, Met, UrlsOf
<1>2. \A k \in DOMAIN failedList : s.i < k /\ k <= s.i + Inc => failedList[k].url \in Met(t)
  BY DEF Met, UrlsOf
<1>3. t.i >= Inc
  BY <1>0
<1>4. CASE /\ Len(failedList) = s.len
           /\ \A k \in DOMAIN failedList : failedList[k].url \in Old(s) /\ k <= s.i =>
                                            failedList[k].url \in Met(s)
  <2>1. ASSUME NEW k \in DOMAIN failedList, failedList[k].url \in Old(t), k <= t.i
        PROVE  failedList[k].url \in Met(t)
    BY <1>0, <1>1, <1>2, <1>4, <2>1
  <2>2. QED BY <1>3, <1>4, <2>1 DEF FailedBeingRead
<1>5. CASE s.len <= Inc /\ Len(failedList) <= Inc
  <2>1. s.i = 0
    BY <1>0, <1>5 DEF FailedBeingRead
  <2>2. FailedRead(t)
    BY <1>0, <1>2, <1>5, <2>1 DEF FailedRead
  <2>3. QED BY <1>3, <1>5, <2>2 DEF FailedBeingRead
<1>6. QED BY <1>4, <1>5 DEF FailedBeingRead

\* A step of the crawl moves URLs on along q, p and f; only requeue moves one
\* back, and that upsets a save.
LEMMA CrawlMoves ==
  ASSUME TypeOK, SetsAreFinite, EntriesOwn, CrawlStep
  PROVE  Moves /\ EntriesOwn'
<1> USE StateAssumption, SaveAssumption DEF SetsAreFinite
<1>0. /\ queue \subseteq Entry /\ pending \in [Urls -> Entry \cup {NoEntry}]
      /\ seen \subseteq Urls /\ failed \in [Urls -> Nat] /\ failedList \in Seq(Entry)
      /\ DOMAIN failedList = 1..Len(failedList) /\ Len(failedList) \in Nat
  BY LenProperties DEF TypeOK, StateTypeOK
<1>1. ASSUME NEW u \in Urls, AddQueue(u, Score[u], 0), UNCHANGED failedList
      PROVE  Moves /\ EntriesOwn'
  <2>1. CASE u \in seen
    <3>1. UNCHANGED <<seen, queue, pending, failed, failedList>>
      BY <1>1, <2>1 DEF AddQueue, AddQueueResult
    <3>2. QED BY <3>1 DEF Moves, EntriesOwn, Queued, Pending, PendingUrls
  <2>2. CASE u \notin seen
    <3> DEFINE e == [url |-> u, score |-> Score[u], retry |-> 0]
    <3>1. /\ seen' = seen \cup {u} /\ queue' = queue \cup {e}
          /\ pending' = [pending EXCEPT ![u] = NoEntry] /\ UNCHANGED failed
      BY <1>1, <2>2 DEF AddQueue, AddQueueResult
    <3>2. e.url = u /\ e.score = Score[u]
      OBVIOUS
    <3> HIDE DEF e
    <3>3. IsFiniteSet(seen') /\ IsFiniteSet(queue')
      BY <3>1, FS_AddElement
    <3>4. \A v \in seen : (Queued(v)' => Queued(v)) /\ (Pending(v)' => Pending(v))
      BY <1>0, <2>2, <3>1, <3>2 DEF Queued, Pending
    <3>5. Moves
      BY <1>1, <3>1, <3>3, <3>4 DEF Moves
    <3>6. EntriesOwn'
      BY <1>0, <1>1, <3>1, <3>2 DEF EntriesOwn, PendingUrls, Pending
    <3>7. QED BY <3>5, <3>6
  <2>3. QED BY <2>1, <2>2
<1>2. ASSUME NEW e \in queue, GetNext(e), UNCHANGED failedList
      PROVE  Moves /\ EntriesOwn'
  <2>1. /\ queue' = queue \ {e} /\ pending' = [pending EXCEPT ![e.url] = e]
        /\ UNCHANGED <<seen, failed>> /\ e.url \in Urls /\ e \in queue
        /\ e.score = Score[e.url]
    BY <1>0, <1>2 DEF GetNext, Entry, EntriesOwn
  <2>2. IsFiniteSet(queue')
    BY <2>1, FS_RemoveElement
  <2>3. \A v \in seen : /\ Queued(v)' => Queued(v)
                        /\ Queued(v)' \/ Pending(v)' => Queued(v) \/ Pending(v)
    BY <1>0, <2>1 DEF Queued, Pending
  <2>4. Moves
    BY <1>2, <2>1, <2>2, <2>3 DEF Moves
  <2>5. EntriesOwn'
    BY <1>0, <1>2, <2>1 DEF EntriesOwn, PendingUrls, Pending
  <2>6. QED BY <2>4, <2>5
<1>3. ASSUME NEW u \in PendingUrls, RemovePending(u), UNCHANGED failedList
      PROVE  Moves /\ EntriesOwn'
  <2>1. /\ pending' = [pending EXCEPT ![u] = NoEntry]
        /\ UNCHANGED <<queue, seen, failed>>
    BY <1>3 DEF RemovePending
  <2>2. QED BY <1>0, <1>3, <2>1 DEF Moves, EntriesOwn, Queued, Pending, PendingUrls
<1>4. ASSUME NEW u \in PendingUrls, Requeue(u), UNCHANGED failedList
      PROVE  Moves /\ EntriesOwn'
  <2> DEFINE e == [pending[u] EXCEPT !.retry = @ + 1]
  <2>1. u \in Urls /\ Pending(u) /\ pending[u] \in Entry /\ pending[u].url = u
        /\ pending[u].score = Score[u]
    BY <1>0 DEF PendingUrls, Pending, EntriesOwn
  <2>2. e.url = u /\ e.score = Score[u]
    BY <2>1 DEF Entry
  <2>3. /\ UNCHANGED <<seen, failed>>
        /\ \/ UNCHANGED <<queue, pending>>
           \/ /\ pending' = [pending EXCEPT ![u] = NoEntry]
              /\ queue' = queue \cup {e} \/ queue' = queue
    BY <1>4 DEF Requeue
  <2> HIDE DEF e
  <2>4. CASE UNCHANGED <<queue, pending>>
    BY <1>4, <2>3, <2>4 DEF Moves, EntriesOwn, Queued, Pending, PendingUrls
  <2>5. CASE /\ pending' = [pending EXCEPT ![u] = NoEntry]
             /\ queue' = queue \cup {e} \/ queue' = queue
    <3>1. IsFiniteSet(queue')
      BY <2>5, FS_AddElement
    <3>2. \A v \in seen : Queued(v)' => Queued(v) \/ Requeued(v)
      <4> SUFFICES ASSUME NEW v \in seen, NEW f \in queue', f.url = v, ~Queued(v)
                   PROVE  Requeued(v)
        BY DEF Queued
      <4>1. v = u
        BY <2>2, <2>5 DEF Queued
      <4>2. pending'[v] = NoEntry
        BY <1>0, <2>1, <2>5, <4>1
      <4>3. QED BY <2>1, <4>1, <4>2 DEF Requeued
    <3>3. \A v \in seen : Queued(v)' \/ Pending(v)' => Queued(v) \/ Pending(v)
      BY <1>0, <2>1, <2>2, <2>5 DEF Queued, Pending
    <3>4. Moves
      BY <1>4, <2>3, <3>1, <3>2, <3>3 DEF Moves
    <3>5. EntriesOwn'
      BY <1>0, <1>4, <2>1, <2>2, <2>3, <2>5 DEF EntriesOwn, PendingUrls, Pending
    <3>6. QED BY <3>4, <3>5
  <2>6. QED BY <2>3, <2>4, <2>5
<1>5. ASSUME NEW u \in PendingUrls, MoveFailed(u), failedList' = <<pending[u]>> \o failedList
      PROVE  Moves /\ EntriesOwn'
  <2>1. u \in Urls /\ Pending(u) /\ pending[u] \in Entry /\ pending[u].url = u
    BY <1>0 DEF PendingUrls, Pending, EntriesOwn
  <2>2. /\ failed' = [failed EXCEPT ![u] = @ + 1]
        /\ pending' = [pending EXCEPT ![u] = NoEntry]
        /\ UNCHANGED <<queue, seen>>
    BY <1>5, <2>1 DEF MoveFailed
  <2>3. Moves
    <3>1. \A v \in seen : (Queued(v)' => Queued(v)) /\ (Pending(v)' => Pending(v))
      BY <1>0, <2>2 DEF Queued, Pending
    <3>2. QED BY <1>5, <2>1, <2>2, <3>1 DEF Moves
  <2>4. /\ DOMAIN failedList' = 1..(Len(failedList) + 1) /\ failedList'[1] = pending[u]
        /\ \A k \in 1..Len(failedList) : failedList'[k + 1] = failedList[k]
    <3>1. <<pending[u]>> \in Seq(Entry) /\ Len(<<pending[u]>>) = 1 /\ <<pending[u]>>[1] = pending[u]
      BY <2>1
    <3>2. QED BY <1>0, <1>5, <3>1, ConcatProperties, LenProperties
  <2>5. \A v \in Urls : failed'[v] > 0 => \E k \in DOMAIN failedList' : failedList'[k].url = v
    <3> SUFFICES ASSUME NEW v \in Urls, failed'[v] > 0
                 PROVE  \E k \in DOMAIN failedList' : failedList'[k].url = v
      OBVIOUS
    <3>1. CASE v = u
      <4>1. 1 \in DOMAIN failedList' /\ failedList'[1].url = v
        BY <1>0, <2>1, <2>4, <3>1
      <4>2. QED BY <4>1
    <3>2. CASE v # u
      <4>1. PICK k \in DOMAIN failedList : failedList[k].url = v
        BY <1>0, <2>2, <3>2 DEF EntriesOwn
      <4>2. k + 1 \in DOMAIN failedList' /\ failedList'[k + 1].url = v
        BY <1>0, <2>4, <4>1
      <4>3. QED BY <4>2
    <3>3. QED BY <3>1, <3>2
  <2>6. /\ \A e \in queue' : e.score = Score[e.url]
        /\ \A v \in Urls : pending'[v] # NoEntry =>
                            pending'[v].url = v /\ pending'[v].score = Score[v]
    BY <1>0, <2>2 DEF EntriesOwn, PendingUrls, Pending
  <2>7. EntriesOwn'
    BY <2>5, <2>6 DEF EntriesOwn, PendingUrls, Pending
  <2>8. QED BY <2>3, <2>7
<1>6. ASSUME NEW u \in Redirects, AddNewSeed(u), UNCHANGED failedList
      PROVE  Moves /\ EntriesOwn'
  <2>1. /\ seen' \in {seen, seen \cup {u}} /\ UNCHANGED <<queue, pending, failed>>
    BY <1>6 DEF AddNewSeed
  <2>2. IsFiniteSet(seen')
    BY <2>1, FS_AddElement
  <2>3. QED BY <1>6, <2>1, <2>2 DEF Moves, EntriesOwn, Queued, Pending, PendingUrls
<1>7. QED BY <1>1, <1>2, <1>3, <1>4, <1>5, <1>6 DEF CrawlStep

\* What is new in list f was pending before, and met already.
LEMMA MovesKeepFailed ==
  ASSUME TypeOK, Moves, NEW s, PendingRead(s), FailedRead(s)
  PROVE  FailedRead(s)'
<1>0. Old(s)' = Old(s) /\ Met(s)' = Met(s)
  BY DEF Old, Met, UrlsOf
<1>1. CASE failedList' = failedList
  BY <1>0, <1>1 DEF FailedRead
<1>2. ASSUME NEW u \in PendingUrls, pending[u].url = u,
             failedList' = <<pending[u]>> \o failedList
      PROVE  FailedRead(s)'
  <2>1. pending[u] \in Entry /\ failedList \in Seq(Entry) /\ Pending(u)
    BY DEF TypeOK, StateTypeOK, PendingUrls, Pending
  <2>2. /\ Len(failedList) \in Nat /\ DOMAIN failedList' = 1..(Len(failedList) + 1)
        /\ failedList'[1] = pending[u]
        /\ \A k \in 2..(Len(failedList) + 1) : failedList'[k] = failedList[k - 1]
    <3>1. <<pending[u]>> \in Seq(Entry) /\ Len(<<pending[u]>>) = 1
          /\ <<pending[u]>>[1] = pending[u]
      BY <2>1
    <3>2. QED BY <1>2, <2>1, <3>1, ConcatProperties, LenProperties
  <2>3. DOMAIN failedList = 1..Len(failedList)
    BY <2>1, LenProperties
  <2>4. u \in Old(s) => u \in Met(s)
    BY <1>2, <2>1 DEF PendingRead
  <2>5. \A k \in 1..Len(failedList) : failedList[k].url \in Old(s) => failedList[k].url \in Met(s)
    BY <1>2, <2>3 DEF FailedRead
  <2>6. ASSUME NEW k \in DOMAIN failedList', failedList'[k].url \in Old(s)
        PROVE  failedList'[k].url \in Met(s)
    <3>1. CASE k = 1
      BY <1>2, <2>2, <2>4, <2>6, <3>1
    <3>2. CASE k # 1
      <4>1. k - 1 \in 1..Len(failedList) /\ failedList'[k] = failedList[k - 1]
        BY <2>2, <3>2
      <4>2. QED BY <2>5, <2>6, <4>1
    <3>3. QED BY <3>1, <3>2
  <2>7. QED BY <1>0, <2>6 DEF FailedRead
<1>3. QED BY <1>1, <1>2 DEF Moves

\* A save that is not upset has met, after such a step, what it should.
LEMMA CrawlKeepsReading ==
  ASSUME TypeOK, TypeOK', SetsAreFinite, EntriesOwn, Moves, NEW s \in Saves,
         s.before \subseteq seen, ReadSoFar(s), ~Upset(s)
  PROVE  ReadSoFar(s)'
<1>0. /\ Old(s) \subseteq seen /\ Old(s)' = Old(s) /\ Met(s)' = Met(s)
      /\ \A u \in Urls : ~Requeued(u)
      /\ seen \subseteq Urls
  BY DEF Old, Met, UrlsOf, Upset, TypeOK, StateTypeOK
<1>1. QueueRead(s) => QueueRead(s)'
  BY <1>0 DEF QueueRead, Moves
<1>2. PendingRead(s) => PendingRead(s)'
  BY <1>0 DEF PendingRead, Moves
<1>3. PendingRead(s) /\ FailedRead(s) => FailedRead(s)'
  BY <1>0, MovesKeepFailed
<1>4. s.pc = "queue" => QueueBeingRead(s)'
  <2> SUFFICES ASSUME s.pc = "queue" PROVE QueueBeingRead(s)'
    OBVIOUS
  <2>1. QueueBeingRead(s)
    BY DEF ReadSoFar
  <2>2. CASE queue' = queue
    <3>1. Scored' = Scored
      BY <2>2 DEF Scored
    <3>2. \A e \in Scored : Place(e)' = Place(e)
      BY <3>1 DEF Place, Before
    <3>3. QED BY <1>0, <1>1, <2>1, <2>2, <3>1, <3>2 DEF QueueBeingRead
  <2>3. CASE queue' # queue
    <3>1. s.len <= Inc /\ Cardinality(queue') <= Inc
      <4>1. Cardinality(queue') \in Nat /\ s.len \in Nat /\ Inc \in Nat
        BY FS_CardinalityType, SaveAssumption DEF Moves, Saves
      <4>2. QED BY <2>3, <4>1 DEF Upset
    <3>2. s.i < s.len \/ QueueRead(s)'
      BY <1>1, <2>1, QueueDone
    <3>3. QED BY <2>1, <3>1, <3>2 DEF QueueBeingRead
  <2>4. QED BY <2>2, <2>3
<1>5. s.pc = "failed" => FailedBeingRead(s)'
  <2> SUFFICES ASSUME s.pc = "failed" PROVE FailedBeingRead(s)'
    OBVIOUS
  <2>1. FailedBeingRead(s) /\ PendingRead(s)
    BY DEF ReadSoFar
  <2>2. CASE failedList' = failedList
    BY <1>0, <1>3, <2>1, <2>2 DEF FailedBeingRead
  <2>3. CASE failedList' # failedList
    <3>1. s.len <= Inc /\ Len(failedList') <= Inc
      <4>1. Len(failedList') \in Nat /\ s.len \in Nat /\ Inc \in Nat
        BY LenProperties, SaveAssumption DEF TypeOK, Saves
      <4>2. QED BY <2>3, <4>1 DEF Upset
    <3>2. s.i < s.len \/ FailedRead(s)'
      BY <1>3, <2>1, FailedDone
    <3>3. QED BY <2>1, <3>1, <3>2 DEF FailedBeingRead
  <2>4. QED BY <2>2, <2>3
<1>6. QED BY <1>1, <1>2, <1>3, <1>4, <1>5 DEF ReadSoFar

\* So does a file, upset or not: nothing is read any more.
LEMMA CrawlKeepsFile ==
  ASSUME TypeOK, EntriesOwn, Moves, NEW f \in File, FileComplete(f)
  PROVE  FileComplete(f)'
<1>0. /\ Old(f)' = Old(f) /\ Met(f)' = Met(f) /\ LeftOrRead(f)' = LeftOrRead(f)
      /\ Old(f) \subseteq seen /\ seen \subseteq Urls /\ f.before \subseteq seen'
  BY DEF Old, Met, UrlsOf, LeftOrRead, FileComplete, Moves, TypeOK, StateTypeOK
<1>1. PendingRead(f) => PendingRead(f)'
  BY <1>0 DEF PendingRead, Moves
<1>2. PendingRead(f) /\ FailedRead(f) => FailedRead(f)'
  BY <1>0, MovesKeepFailed
<1>3. QED BY <1>0, <1>1, <1>2 DEF FileComplete
---------------------------------------------------------------------------
(* Every step keeps what the saves have read.                              *)

\* What was read depends on the crawl state alone, and on the history no more
\* than that it is quiet.
LEMMA Unmoved ==
  ASSUME UNCHANGED <<stateVars, failedList>>, NEW x
  PROVE  (SaveReads(x)' <=> SaveReads(x)) /\ (FileComplete(x)' <=> FileComplete(x))
<1>0. UNCHANGED <<queue, pending, seen, failedList>>
  BY DEF stateVars
<1>1. Old(x)' = Old(x) /\ Met(x)' = Met(x) /\ (LeftOrRead(x)' <=> LeftOrRead(x))
  BY DEF Old, Met, UrlsOf, LeftOrRead
<1>2. /\ \A u : (Queued(u)' <=> Queued(u)) /\ (Pending(u)' <=> Pending(u))
      /\ Scored' = Scored
  BY <1>0 DEF Queued, Pending, Scored
<1>3. \A e : Place(e)' = Place(e)
  BY <1>2 DEF Place, Before
<1>4. (QueueRead(x)' <=> QueueRead(x)) /\ (PendingRead(x)' <=> PendingRead(x))
  BY <1>1, <1>2 DEF QueueRead, PendingRead
<1>5. FailedRead(x)' <=> FailedRead(x)
  BY <1>0, <1>1 DEF FailedRead
<1>6. QueueBeingRead(x)' <=> QueueBeingRead(x)
  BY <1>0, <1>1, <1>2, <1>3, <1>4 DEF QueueBeingRead
<1>7. FailedBeingRead(x)' <=> FailedBeingRead(x)
  BY <1>0, <1>1, <1>5 DEF FailedBeingRead
<1>8. ReadSoFar(x)' <=> ReadSoFar(x)
  BY <1>4, <1>5, <1>6, <1>7 DEF ReadSoFar
<1>9. QED BY <1>0, <1>1, <1>4, <1>5, <1>8 DEF SaveReads, FileComplete

LEMMA Requieted ==
  ASSUME NEW s \in Saves, NEW t \in Saves, NEW q, t = [s EXCEPT !.quiet = q],
         ReadSoFar(s)'
  PROVE  ReadSoFar(t)'
<1>1. /\ t.pc = s.pc /\ t.len = s.len /\ t.i = s.i /\ t.queued = s.queued
      /\ t.pending = s.pending /\ t.failed = s.failed /\ t.before = s.before
  BY DEF Saves
<1>2. Old(t)' = Old(s)' /\ Met(t)' = Met(s)'
  BY <1>1 DEF Old, Met
<1>3. /\ QueueRead(s)' => QueueRead(t)'
      /\ PendingRead(s)' => PendingRead(t)'
  BY <1>2 DEF QueueRead, PendingRead
<1>4. QED
  BY <1>1, <1>2 DEF ReadSoFar, QueueBeingRead, FailedBeingRead, QueueRead, PendingRead,
                    FailedRead

\* While nothing is loaded, what the other lemmas start from.
Going == TypeOK /\ SaveInv /\ FilesKept /\ loaded = NoFile

\* A step of the crawl.
LEMMA CrawlKeeps ==
  ASSUME Going, CrawlStep
  PROVE  SaveInv' /\ FilesKept'
<1>0. /\ TypeOK /\ SetsAreFinite /\ NamesDiffer /\ EntriesOwn /\ SavesRead /\ FilesComplete
      /\ FilesKept
  BY DEF Going, SaveInv
<1>1. TypeOK'
  BY <1>0, CrawlStepTypes
<1>2. Moves /\ EntriesOwn'
  BY <1>0, CrawlMoves
<1>3. SetsAreFinite'
  BY <1>2 DEF Moves, SetsAreFinite
<1>4. UNCHANGED <<now, lastSaveTime, disk, saveStateFiles, loaded>>
  BY DEF CrawlStep
<1>5. FilesInv'
  <2>1. \A w \in Workers : save'[w].pc = save[w].pc /\ save'[w].time = save[w].time
    BY <1>0 DEF CrawlStep, TypeOK, Saves
  <2>2. now \in Int /\ now' \in Int /\ lastSaveTime \in Int /\ now <= now'
    BY <1>0, <1>4, SaveAssumption DEF TypeOK
  <2>3. QED BY <1>0, <1>4, <2>1, <2>2, NamesStay DEF FilesInv
<1>6. SavesRead'
  <2> SUFFICES ASSUME NEW w \in Workers PROVE SaveReads(save[w])'
    BY DEF SavesRead
  <2>1. PICK s \in Saves : s = save[w]
    BY <1>0 DEF TypeOK
  <2>2. PICK t \in Saves : t = save'[w]
    BY <1>1 DEF TypeOK
  <2>3. PICK q \in BOOLEAN : t = [s EXCEPT !.quiet = q] /\ q = (s.quiet /\ ~Upset(s))
    <3> DEFINE r == save[w].quiet /\ ~Upset(save[w])
    <3>1. save'[w] = [save[w] EXCEPT !.quiet = r] /\ r \in BOOLEAN
      BY DEF CrawlStep
    <3>2. QED BY <2>1, <2>2, <3>1
  <2>4. SaveReads(s)
    BY <1>0, <2>1 DEF SavesRead
  <2>5. /\ t.pc = s.pc /\ t.left = s.left /\ t.before = s.before /\ t.pending = s.pending
        /\ t.extra = s.extra /\ t.queued = s.queued /\ t.failed = s.failed /\ t.quiet = q
    BY <2>3 DEF Saves
  <2>6. q => ReadSoFar(t)'
    <3> SUFFICES ASSUME q PROVE ReadSoFar(t)'
      OBVIOUS
    <3>1. ReadSoFar(s) /\ ~Upset(s) /\ s.before \subseteq seen
      BY <2>3, <2>4 DEF SaveReads
    <3>2. ReadSoFar(s)'
      BY <1>0, <1>1, <1>2, <3>1, CrawlKeepsReading
    <3>3. QED BY <2>3, <3>2, Requieted
  <2>7. t.before \subseteq seen' /\ IsFiniteSet(t.left)
    BY <1>2, <2>4, <2>5 DEF SaveReads, Moves
  <2>8. t.pc # "scan" => LeftOrRead(t)'
    BY <2>4, <2>5 DEF SaveReads, LeftOrRead, UrlsOf
  <2>9. SaveReads(t)'
    BY <2>4, <2>5, <2>6, <2>7, <2>8 DEF SaveReads
  <2>10. QED BY <2>2, <2>9 DEF SaveReads, ReadSoFar, LeftOrRead
<1>7. FilesComplete'
  <2> SUFFICES ASSUME NEW n \in DOMAIN disk PROVE FileComplete(disk[n])'
    BY <1>4 DEF FilesComplete
  <2>1. PICK f \in File : f = disk[n]
    BY <1>0 DEF TypeOK
  <2>2. FileComplete(f)'
    BY <1>0, <1>2, <2>1, CrawlKeepsFile DEF FilesComplete
  <2>3. QED BY <1>4, <2>1, <2>2 DEF FileComplete
<1>8. QED BY <1>2, <1>3, <1>5, <1>6, <1>7 DEF SaveInv, FilesInv

\* A step of one save: what is to be shown of it is about that save only.
LEMMA OneSaveMoves ==
  ASSUME Going, UNCHANGED <<stateVars, failedList>>, NEW w \in Workers, NEW t,
         save' = [save EXCEPT ![w] = t], SaveReads(t)
  PROVE  SetsAreFinite' /\ EntriesOwn' /\ SavesRead'
<1>0. SetsAreFinite /\ EntriesOwn /\ SavesRead /\ save \in [Workers -> Saves]
  BY DEF Going, SaveInv, TypeOK
<1>1. UNCHANGED <<queue, pending, seen, failed, failedList>>
  BY DEF stateVars
<1>2. SetsAreFinite' /\ EntriesOwn'
  BY <1>0, <1>1 DEF SetsAreFinite, EntriesOwn, PendingUrls, Pending
<1>3. ASSUME NEW v \in Workers PROVE SaveReads(save[v])'
  <2>1. PICK x : x = save'[v] /\ SaveReads(x)
    <3>1. CASE v = w
      BY <1>0, <3>1
    <3>2. CASE v # w
      BY <1>0, <3>2 DEF SavesRead
    <3>3. QED BY <3>1, <3>2
  <2>2. SaveReads(x)'
    BY <2>1, Unmoved
  <2>3. QED BY <2>1, <2>2 DEF SaveReads, LeftOrRead, ReadSoFar
<1>4. QED BY <1>2, <1>3 DEF SavesRead

LEMMA FilesUnmoved ==
  ASSUME Going, UNCHANGED <<stateVars, failedList, disk>>
  PROVE  FilesComplete'
<1>1. ASSUME NEW n \in DOMAIN disk PROVE FileComplete(disk[n])'
  <2>1. PICK f : f = disk[n] /\ FileComplete(f)
    BY DEF Going, SaveInv, FilesComplete
  <2>2. FileComplete(f)'
    BY <2>1, Unmoved
  <2>3. QED BY <2>1, <2>2 DEF FileComplete
<1>2. QED BY <1>1 DEF FilesComplete

\* A save that holds nothing has left nothing to be read.
LEMMA EmptyReads ==
  ASSUME NEW t, t.left = {}, t.before = {}, t.pending = {}, t.extra = {},
         t.pc \in {"idle", "write", "unlink"}
  PROVE  SaveReads(t)
<1>1. Old(t) = {}
  BY DEF Old
<1>2. PendingRead(t) /\ FailedRead(t) /\ LeftOrRead(t) /\ IsFiniteSet(t.left)
  BY <1>1, FS_EmptySet DEF PendingRead, FailedRead, LeftOrRead
<1>3. QED BY <1>2 DEF SaveReads, ReadSoFar

\* One round trip of serialize.
LEMMA RoundTrip ==
  ASSUME Going, NEW w \in Workers, NEW pc, pc \notin {"idle", "unlink"}, NEW t, Read(w, pc, t),
         t.pc = "idle" \/ (t.pc # "unlink" /\ t.time = save[w].time), SaveReads(t)
  PROVE  SaveInv' /\ FilesKept'
<1>0. /\ save \in [Workers -> Saves] /\ save' = [save EXCEPT ![w] = t] /\ save[w].pc = pc
      /\ UNCHANGED <<stateVars, failedList, now, lastSaveTime, disk, saveStateFiles, loaded>>
  BY DEF Read, Going, TypeOK
<1>1. SetsAreFinite' /\ EntriesOwn' /\ SavesRead'
  BY <1>0, OneSaveMoves
<1>2. FilesComplete'
  BY <1>0, FilesUnmoved
<1>3. FilesInv'
  <2>1. \A v \in Workers : \/ save'[v].pc = "idle" /\ save[v].pc # "unlink"
                           \/ /\ save'[v].time = save[v].time /\ save[v].pc # "idle"
                              /\ save'[v].pc = "unlink" <=> save[v].pc = "unlink"
    BY <1>0
  <2>2. now \in Int /\ now' \in Int /\ lastSaveTime \in Int /\ now <= now'
    BY <1>0, SaveAssumption DEF Going, TypeOK
  <2>3. FilesInv
    BY DEF Going, SaveInv, FilesInv
  <2>4. QED BY <1>0, <2>1, <2>2, <2>3, NamesStay
<1>4. QED BY <1>1, <1>2, <1>3 DEF SaveInv, FilesInv

\* The reads of the queue, and what comes before them.
LEMMA QueueReads ==
  ASSUME Going, NEW w \in Workers, Scan(w) \/ CountQueue(w) \/ ReadQueue(w)
  PROVE  SaveInv' /\ FilesKept'
<1>1. PICK s \in Saves : s = save[w]
  BY DEF Going, TypeOK
<1>2. /\ TypeOK /\ SetsAreFinite /\ EntriesOwn /\ SaveReads(s) /\ IsFiniteSet(seen)
      /\ Inc \in Nat \ {0} /\ queue \subseteq Entry /\ seen \subseteq Urls
  BY <1>1, SaveAssumption DEF Going, SaveInv, SavesRead, SetsAreFinite, TypeOK, StateTypeOK
<1>3. CASE Scan(w)
  <2>1. PICK S \in SUBSET (seen \ s.before) :
          Read(w, "scan", [s EXCEPT !.pc = "zcard", !.left = s.before \cup S])
    BY <1>1, <1>3 DEF Scan
  <2> DEFINE t == [s EXCEPT !.pc = "zcard", !.left = s.before \cup S]
  <2>2. /\ t.pc = "zcard" /\ t.left = s.before \cup S /\ t.time = s.time
        /\ t.before = s.before /\ t.pending = s.pending /\ t.extra = s.extra
    BY DEF Saves
  <2> HIDE DEF t
  <2>3. s.pc = "scan"
    BY <1>1, <2>1 DEF Read
  <2>4. IsFiniteSet(t.left)
    <3>1. s.before \cup S \subseteq seen
      BY <1>2 DEF SaveReads
    <3>2. QED BY <1>2, <2>2, <3>1, FS_Subset
  <2>5. SaveReads(t)
    BY <1>2, <2>2, <2>3, <2>4 DEF SaveReads, LeftOrRead, ReadSoFar
  <2>6. Read(w, "scan", t)
    BY <2>1 DEF t
  <2>7. QED BY <1>1, <2>2, <2>5, <2>6, RoundTrip
<1>4. CASE CountQueue(w)
  <2> DEFINE t == [s EXCEPT !.pc = "queue", !.i = 0, !.len = Cardinality(queue)]
  <2>1. /\ t.pc = "queue" /\ t.i = 0 /\ t.len = Cardinality(queue) /\ t.left = s.left
        /\ t.time = s.time /\ t.before = s.before /\ t.pending = s.pending
        /\ t.extra = s.extra /\ t.queued = s.queued /\ t.failed = s.failed
    BY DEF Saves
  <2> HIDE DEF t
  <2>2. s.pc = "zcard" /\ Read(w, "zcard", t)
    BY <1>1, <1>4 DEF CountQueue, Read, t
  <2>3. QueueBeingRead(t)
    <3>1. \A e \in Scored : ~(Place(e) < 0)
      BY <1>2, EntryPlaces
    <3>2. QED BY <2>1, <3>1 DEF QueueBeingRead
  <2>4. SaveReads(t)
    BY <1>2, <2>1, <2>2, <2>3 DEF SaveReads, LeftOrRead, ReadSoFar
  <2>5. QED BY <1>1, <2>1, <2>2, <2>4, RoundTrip
<1>5. CASE ReadQueue(w)
  <2> DEFINE page == {e \in Scored : s.i <= Place(e) /\ Place(e) < s.i + Inc}
             t == [s EXCEPT !.queued = @ \cup page, !.i = @ + Inc,
                            !.left = @ \ UrlsOf(page)]
             n == [s EXCEPT !.pc = "pending"]
  <2>1. Read(w, "queue", IF s.i < s.len THEN t ELSE n)
    BY <1>1, <1>5 DEF ReadQueue
  <2>2. s.pc = "queue"
    BY <1>1, <2>1 DEF Read
  <2>3. CASE s.i < s.len
    <3>1. /\ t.pc = s.pc /\ t.i = s.i + Inc /\ t.len = s.len /\ t.time = s.time
          /\ t.before = s.before /\ t.pending = s.pending /\ t.extra = s.extra
          /\ t.queued = s.queued \cup page /\ t.failed = s.failed
          /\ t.left = s.left \ UrlsOf(page) /\ t.quiet = s.quiet
      BY DEF Saves
    <3> HIDE DEF t
    <3>2. s.quiet => QueueBeingRead(t)
      <4> SUFFICES ASSUME s.quiet PROVE QueueBeingRead(t)
        OBVIOUS
      <4>1. QueueBeingRead(s)
        BY <1>2, <2>2 DEF SaveReads, ReadSoFar
      <4>2. QED BY <1>2, <2>3, <3>1, <4>1, QueuePage
    <3> HIDE DEF page
    <3>3. LeftOrRead(t)
      BY <1>2, <2>2, <3>1 DEF SaveReads, LeftOrRead, UrlsOf
    <3>4. IsFiniteSet(t.left)
      BY <1>2, <3>1, FS_Subset DEF SaveReads
    <3>5. SaveReads(t)
      BY <1>2, <2>2, <3>1, <3>2, <3>3, <3>4 DEF SaveReads, ReadSoFar
    <3>6. QED BY <1>1, <2>1, <2>2, <2>3, <3>1, <3>5, RoundTrip
  <2>4. CASE ~(s.i < s.len)
    <3>1. /\ n.pc = "pending" /\ n.time = s.time /\ n.left = s.left /\ n.quiet = s.quiet
          /\ n.before = s.before /\ n.pending = s.pending /\ n.extra = s.extra
          /\ n.queued = s.queued /\ n.failed = s.failed
      BY DEF Saves
    <3> HIDE DEF n, t
    <3>2. s.quiet => QueueRead(n)
      <4>1. s.quiet => QueueRead(s)
        BY <1>2, <2>2, <2>4, QueueDone DEF SaveReads, ReadSoFar
      <4>2. QED BY <3>1, <4>1 DEF QueueRead, Old, Met
    <3>3. SaveReads(n)
      BY <1>2, <2>2, <3>1, <3>2 DEF SaveReads, ReadSoFar, LeftOrRead
    <3>4. QED BY <1>1, <2>1, <2>4, <3>1, <3>3, RoundTrip
  <2>5. QED BY <2>3, <2>4
<1>6. QED BY <1>3, <1>4, <1>5

\* The reads that follow, of the hash and of the two lists.
LEMMA ListReads ==
  ASSUME Going, NEW w \in Workers,
         ReadPending(w) \/ CountFailed(w) \/ ReadFailed(w) \/ ReadExtra(w) \/ WriteFails(w)
  PROVE  SaveInv' /\ FilesKept'
<1>1. PICK s \in Saves : s = save[w]
  BY DEF Going, TypeOK
<1>2. /\ TypeOK /\ SetsAreFinite /\ EntriesOwn /\ SaveReads(s)
      /\ Inc \in Nat \ {0} /\ failedList \in Seq(Entry) /\ seen \subseteq Urls
  BY <1>1, SaveAssumption DEF Going, SaveInv, SavesRead, SetsAreFinite, TypeOK, StateTypeOK
<1>3. CASE ReadPending(w)
  <2> DEFINE P == {pending[u] : u \in PendingUrls}
             t == [s EXCEPT !.pc = "llen", !.pending = P]
  <2>1. /\ t.pc = "llen" /\ t.left = s.left /\ t.time = s.time /\ t.before = s.before
        /\ t.pending = P /\ t.extra = s.extra /\ t.queued = s.queued
        /\ t.failed = s.failed /\ t.quiet = s.quiet
    BY DEF Saves
  <2> HIDE DEF t
  <2>2. s.pc = "pending" /\ Read(w, "pending", t)
    BY <1>1, <1>3 DEF ReadPending, Read, t
  <2>3. s.quiet => PendingRead(t)
    <3> SUFFICES ASSUME s.quiet, NEW u \in Old(s), Queued(u) \/ Pending(u)
                 PROVE  u \in Met(t)
      BY <2>1 DEF PendingRead, Old
    <3>1. CASE Queued(u)
      <4>1. u \in Met(s)
        BY <1>2, <2>2, <3>1 DEF SaveReads, ReadSoFar, QueueRead
      <4>2. s.pending = {}
        BY <1>2, <2>2 DEF SaveReads
      <4>3. QED BY <2>1, <4>1, <4>2 DEF Met, UrlsOf
    <3>2. CASE Pending(u)
      <4>1. u \in PendingUrls
        BY <1>2, <3>2 DEF PendingUrls, Old, SaveReads
      <4>2. pending[u] \in P /\ pending[u].url = u
        BY <1>2, <4>1 DEF EntriesOwn
      <4>3. QED BY <2>1, <4>2 DEF Met, UrlsOf
    <3>3. QED BY <3>1, <3>2
  <2>4. SaveReads(t)
    BY <1>2, <2>1, <2>2, <2>3 DEF SaveReads, LeftOrRead, ReadSoFar
  <2>5. QED BY <1>1, <2>1, <2>2, <2>4, RoundTrip
<1>4. CASE CountFailed(w)
  <2> DEFINE t == [s EXCEPT !.pc = "failed", !.i = 0, !.len = Len(failedList)]
  <2>1. /\ t.pc = "failed" /\ t.i = 0 /\ t.len = Len(failedList) /\ t.left = s.left
        /\ t.time = s.time /\ t.before = s.before /\ t.pending = s.pending
        /\ t.extra = s.extra /\ t.queued = s.queued /\ t.failed = s.failed
        /\ t.quiet = s.quiet
    BY DEF Saves
  <2> HIDE DEF t
  <2>2. s.pc = "llen" /\ Read(w, "llen", t)
    BY <1>1, <1>4 DEF CountFailed, Read, t
  <2>3. FailedBeingRead(t)
    <3>1. DOMAIN failedList = 1..Len(failedList) /\ Len(failedList) \in Nat
      BY <1>2, LenProperties
    <3>2. QED BY <2>1, <3>1 DEF FailedBeingRead
  <2>4. PendingRead(s) => PendingRead(t)
    BY <2>1 DEF PendingRead, Old, Met
  <2>5. SaveReads(t)
    BY <1>2, <2>1, <2>2, <2>3, <2>4 DEF SaveReads, LeftOrRead, ReadSoFar
  <2>6. QED BY <1>1, <2>1, <2>2, <2>5, RoundTrip
<1>5. CASE ReadFailed(w)
  <2> DEFINE page == {failedList[k] : k \in {n \in DOMAIN failedList :
                                               s.i < n /\ n <= s.i + Inc}}
             t == [s EXCEPT !.failed = @ \cup page, !.i = @ + Inc,
                            !.left = @ \ UrlsOf(page)]
             x == [s EXCEPT !.pc = "extra"]
  <2>1. Read(w, "failed", IF s.i < s.len THEN t ELSE x)
    BY <1>1, <1>5 DEF ReadFailed
  <2>2. s.pc = "failed"
    BY <1>1, <2>1 DEF Read
  <2>3. s.quiet => FailedBeingRead(s) /\ PendingRead(s)
    BY <1>2, <2>2 DEF SaveReads, ReadSoFar
  <2>4. CASE s.i < s.len
    <3>1. /\ t.pc = s.pc /\ t.i = s.i + Inc /\ t.len = s.len /\ t.time = s.time
          /\ t.before = s.before /\ t.pending = s.pending /\ t.extra = s.extra
          /\ t.failed = s.failed \cup page /\ t.queued = s.queued
          /\ t.left = s.left \ UrlsOf(page) /\ t.quiet = s.quiet
      BY DEF Saves
    <3> HIDE DEF t
    <3>2. s.quiet => FailedBeingRead(t)
      BY <1>2, <2>3, <2>4, <3>1, FailedPage
    <3> HIDE DEF page
    <3>3. LeftOrRead(t) /\ (PendingRead(s) => PendingRead(t))
      BY <1>2, <2>2, <3>1 DEF SaveReads, LeftOrRead, UrlsOf, PendingRead, Old, Met
    <3>4. IsFiniteSet(t.left)
      BY <1>2, <3>1, FS_Subset DEF SaveReads
    <3>5. SaveReads(t)
      BY <1>2, <2>2, <2>3, <3>1, <3>2, <3>3, <3>4 DEF SaveReads, ReadSoFar
    <3>6. QED BY <1>1, <2>1, <2>2, <2>4, <3>1, <3>5, RoundTrip
  <2>5. CASE ~(s.i < s.len)
    <3>1. /\ x.pc = "extra" /\ x.time = s.time /\ x.left = s.left /\ x.quiet = s.quiet
          /\ x.before = s.before /\ x.pending = s.pending /\ x.extra = s.extra
          /\ x.queued = s.queued /\ x.failed = s.failed
      BY DEF Saves
    <3> HIDE DEF x, t
    <3>2. s.quiet => FailedRead(x) /\ PendingRead(x)
      <4>1. s.quiet => FailedRead(s)
        BY <1>2, <2>3, <2>5, FailedDone
      <4>2. QED BY <2>3, <3>1, <4>1 DEF FailedRead, PendingRead, Old, Met
    <3>3. SaveReads(x)
      BY <1>2, <2>2, <3>1, <3>2 DEF SaveReads, ReadSoFar, LeftOrRead
    <3>4. QED BY <1>1, <2>1, <2>5, <3>1, <3>3, RoundTrip
  <2>6. QED BY <2>4, <2>5
<1>6. CASE ReadExtra(w)
  <2> DEFINE t == [s EXCEPT !.pc = "write", !.extra = extraSeeds, !.left = @ \ extraSeeds]
  <2>1. /\ t.pc = "write" /\ t.left = s.left \ extraSeeds /\ t.time = s.time
        /\ t.before = s.before /\ t.pending = s.pending /\ t.extra = extraSeeds
        /\ t.queued = s.queued /\ t.failed = s.failed /\ t.quiet = s.quiet
    BY DEF Saves
  <2> HIDE DEF t
  <2>2. s.pc = "extra" /\ Read(w, "extra", t)
    BY <1>1, <1>6 DEF ReadExtra, Read, t
  <2>3. s.quiet => PendingRead(t) /\ FailedRead(t)
    <3>1. s.quiet => PendingRead(s) /\ FailedRead(s)
      BY <1>2, <2>2 DEF SaveReads, ReadSoFar
    <3>2. QED BY <2>1, <3>1 DEF PendingRead, FailedRead, Old, Met
  <2>4. LeftOrRead(t) /\ IsFiniteSet(t.left)
    BY <1>2, <2>1, <2>2, FS_Subset DEF SaveReads, LeftOrRead
  <2>5. SaveReads(t)
    BY <1>2, <2>1, <2>3, <2>4 DEF SaveReads, ReadSoFar
  <2>6. QED BY <1>1, <2>1, <2>2, <2>5, RoundTrip
<1>7. CASE WriteFails(w)
  <2>1. SaveReads(Idle) /\ Idle.pc = "idle"
    BY EmptyReads DEF Idle
  <2>2. QED BY <1>7, <2>1, RoundTrip DEF WriteFails
<1>8. QED BY <1>3, <1>4, <1>5, <1>6, <1>7

\* The start of a save, its end, and the removal of an old file.
LEMMA BeginKeeps ==
  ASSUME Going, NEW w \in Workers, Begin(w)
  PROVE  SaveInv' /\ FilesKept'
<1> DEFINE a == [Idle EXCEPT !.pc = "scan", !.time = now, !.before = seen]
           b == [Idle EXCEPT !.pc = "write", !.time = now]
<1>0. TypeOK /\ FilesInv
  BY DEF Going, SaveInv, FilesInv
<1>1. SaveReads(a)
  <2>1. /\ a.pc = "scan" /\ a.left = {} /\ a.before = seen /\ a.pending = {} /\ a.extra = {}
    BY DEF Idle
  <2> HIDE DEF a
  <2>2. QED BY <2>1, FS_EmptySet DEF SaveReads, ReadSoFar
<1>2. SaveReads(b)
  <2>1. /\ b.pc = "write" /\ b.left = {} /\ b.before = {} /\ b.pending = {} /\ b.extra = {}
    BY DEF Idle
  <2> HIDE DEF b
  <2>2. QED BY <2>1, EmptyReads
<1>3. PICK t : save' = [save EXCEPT ![w] = t] /\ SaveReads(t)
  BY <1>1, <1>2 DEF Begin
<1>4. UNCHANGED <<stateVars, failedList, disk>>
  BY DEF Begin
<1>5. SetsAreFinite' /\ EntriesOwn' /\ SavesRead'
  BY <1>3, <1>4, OneSaveMoves
<1>6. FilesComplete'
  BY <1>4, FilesUnmoved
<1>7. FilesInv'
  BY <1>0, BeginNames
<1>8. QED BY <1>5, <1>6, <1>7 DEF SaveInv, FilesInv

LEMMA WriteKeeps ==
  ASSUME Going, NEW w \in Workers, Write(w)
  PROVE  SaveInv' /\ FilesKept'
<1>0. TypeOK /\ FilesInv /\ loaded = NoFile
  BY DEF Going, SaveInv, FilesInv
<1>1. PICK s \in Saves : s = save[w]
  BY <1>0 DEF TypeOK
<1>2. /\ s.pc = "write" /\ SaveReads(s)
      /\ disk' = [n \in DOMAIN disk \cup {s.time} |-> IF n = s.time THEN Saved(s) ELSE disk[n]]
      /\ UNCHANGED <<stateVars, failedList>>
  BY <1>1 DEF Write, Going, SaveInv, SavesRead
<1>3. PICK t : save' = [save EXCEPT ![w] = t] /\ SaveReads(t)
  <2> DEFINE h == Head(Append(saveStateFiles, save[w].time))
             x == [Idle EXCEPT !.pc = "unlink", !.time = h]
  <2>1. SaveReads(Idle)
    BY EmptyReads DEF Idle
  <2>2. SaveReads(x)
    <3>1. x.pc = "unlink" /\ x.left = {} /\ x.before = {} /\ x.pending = {} /\ x.extra = {}
      BY DEF Idle
    <3> HIDE DEF x
    <3>2. QED BY <3>1, EmptyReads
  <2>3. \/ save' = [save EXCEPT ![w] = x]
        \/ save' = [save EXCEPT ![w] = Idle]
    BY DEF Write
  <2>4. QED BY <2>1, <2>2, <2>3
<1>4. SetsAreFinite' /\ EntriesOwn' /\ SavesRead'
  BY <1>2, <1>3, OneSaveMoves
<1>5. FileComplete(Saved(s))
  <2> DEFINE f == Saved(s)
  <2>1. /\ f.left = s.left /\ f.queued = s.queued /\ f.pending = s.pending
        /\ f.failed = s.failed /\ f.extra = s.extra /\ f.before = s.before
        /\ f.quiet = s.quiet
    BY DEF Saved
  <2> HIDE DEF f
  <2>2. LeftOrRead(f) /\ IsFiniteSet(f.left) /\ f.before \subseteq seen
    BY <1>2, <2>1 DEF SaveReads, LeftOrRead
  <2>3. f.quiet => PendingRead(f) /\ FailedRead(f)
    <3>1. s.quiet => PendingRead(s) /\ FailedRead(s)
      BY <1>2 DEF SaveReads, ReadSoFar
    <3>2. QED BY <2>1, <3>1 DEF PendingRead, FailedRead, Old, Met
  <2>4. FileComplete(f)
    BY <2>2, <2>3 DEF FileComplete
  <2>5. QED BY <2>4 DEF f
<1>6. FilesComplete'
  <2> SUFFICES ASSUME NEW n \in DOMAIN disk' PROVE FileComplete(disk[n])'
    BY DEF FilesComplete
  <2>1. PICK f : f = disk'[n] /\ FileComplete(f)
    <3>1. CASE n = s.time
      BY <1>2, <1>5, <3>1
    <3>2. CASE n # s.time
      BY <1>2, <3>2 DEF Going, SaveInv, FilesComplete
    <3>3. QED BY <3>1, <3>2
  <2>2. FileComplete(f)'
    BY <1>2, <2>1, Unmoved
  <2>3. QED BY <2>1, <2>2 DEF FileComplete
<1>7. FilesInv'
  BY <1>0, WriteNames
<1>8. QED BY <1>4, <1>6, <1>7 DEF SaveInv, FilesInv

LEMMA UnlinkKeeps ==
  ASSUME Going, NEW w \in Workers, Unlink(w)
  PROVE  SaveInv' /\ FilesKept'
<1>0. TypeOK /\ FilesInv /\ loaded = NoFile
  BY DEF Going, SaveInv, FilesInv
<1>1. /\ UNCHANGED <<stateVars, failedList>> /\ save' = [save EXCEPT ![w] = Idle]
      /\ disk' = [n \in DOMAIN disk \ {save[w].time} |-> disk[n]]
  BY DEF Unlink
<1>2. SaveReads(Idle)
  BY EmptyReads DEF Idle
<1>3. SetsAreFinite' /\ EntriesOwn' /\ SavesRead'
  BY <1>1, <1>2, OneSaveMoves
<1>4. FilesComplete'
  <2> SUFFICES ASSUME NEW n \in DOMAIN disk' PROVE FileComplete(disk[n])'
    BY DEF FilesComplete
  <2>1. PICK f : f = disk'[n] /\ FileComplete(f)
    BY <1>1 DEF Going, SaveInv, FilesComplete
  <2>2. FileComplete(f)'
    BY <1>1, <2>1, Unmoved
  <2>3. QED BY <2>1, <2>2 DEF FileComplete
<1>5. FilesInv'
  BY <1>0, UnlinkNames
<1>6. QED BY <1>3, <1>4, <1>5 DEF SaveInv, FilesInv

\* The clock alone, or nothing, moves.
LEMMA IdleKeeps ==
  ASSUME Going, TypeOK', now <= now',
         UNCHANGED <<stateVars, failedList, lastSaveTime, save, disk, saveStateFiles, loaded>>
  PROVE  SaveInv' /\ FilesKept'
<1>1. SetsAreFinite' /\ EntriesOwn'
  BY DEF Going, SaveInv, stateVars, SetsAreFinite, EntriesOwn, PendingUrls, Pending
<1>2. SavesRead'
  <2> SUFFICES ASSUME NEW w \in Workers PROVE SaveReads(save[w])'
    BY DEF SavesRead
  <2>1. PICK s : s = save[w] /\ SaveReads(s)
    BY DEF Going, SaveInv, SavesRead
  <2>2. SaveReads(s)'
    BY <2>1, Unmoved
  <2>3. QED BY <2>1, <2>2 DEF SaveReads
<1>3. FilesComplete'
  BY FilesUnmoved
<1>4. FilesInv'
  <2>1. now \in Int /\ now' \in Int /\ lastSaveTime \in Int
    BY SaveAssumption DEF Going, TypeOK
  <2>2. FilesInv
    BY DEF Going, SaveInv, FilesInv
  <2>3. QED BY <2>1, <2>2, NamesStay
<1>5. QED BY <1>1, <1>2, <1>3, <1>4 DEF SaveInv, FilesInv

---------------------------------------------------------------------------
(* What a file restores.                                                   *)

LEMMA LoadRestores ==
  ASSUME Going, NEW r \in Restarts, Load(followed, r.fresh, r.inScope)
  PROVE  /\ loaded' # NoFile
         /\ StaysSeen' /\ ResumesAll'
<1>0. /\ TypeOK /\ EntriesOwn /\ FilesComplete
  BY DEF Going, SaveInv
<1>1. PICK f \in File : f = disk[followed] /\ FileComplete(f)
  BY <1>0 DEF Load, TypeOK, FilesComplete
<1> DEFINE entries == ToQueue(f, r.inScope)
           known == IF r.fresh THEN {} ELSE extraSeeds
           live == {u \in f.before : Unfinished(u)}
<1>2. /\ queue' = entries
      /\ seen' = f.left \cup UrlsOf(entries) \cup (f.extra \ known)
      /\ extraSeeds' = known \cup f.extra
      /\ loaded' = [fresh |-> r.fresh, inScope |-> r.inScope, before |-> f.before,
                    live |-> live, quiet |-> f.quiet]
  BY <1>1 DEF Load
<1> HIDE DEF live
<1>3. /\ loaded'.fresh = r.fresh /\ loaded'.inScope = r.inScope /\ loaded'.live = live
      /\ loaded'.before = f.before /\ loaded'.quiet = f.quiet
  BY <1>2
<1>4. loaded' # NoFile
  <2>1. "fresh" \in DOMAIN loaded' /\ "fresh" \notin DOMAIN NoFile
    BY <1>2 DEF NoFile
  <2>2. QED BY <2>1
<1>5. ASSUME NEW e \in f.queued \cup f.pending \cup f.failed, e.url \in r.inScope
      PROVE  e \in entries
  BY <1>5 DEF ToQueue
<1> HIDE DEF entries
<1>6. ASSUME NEW u \in f.before, u \in r.inScope
      PROVE  u \in seen' \/ (~r.fresh /\ u \in extraSeeds')
  <2>1. u \in f.left \/ u \in UrlsOf(f.queued \cup f.failed) \/ u \in f.extra
    BY <1>1 DEF FileComplete, LeftOrRead
  <2>2. CASE u \in f.left
    BY <1>2, <2>2
  <2>3. CASE u \in UrlsOf(f.queued \cup f.failed)
    BY <1>2, <1>5, <1>6, <2>3 DEF UrlsOf
  <2>4. CASE u \in f.extra
    BY <1>2, <2>4
  <2>5. QED BY <2>1, <2>2, <2>3, <2>4
<1>7. StaysSeen'
  BY <1>3, <1>6 DEF StaysSeen
<1>8. ASSUME f.quiet, NEW u \in live, u \in r.inScope
      PROVE  Queued(u)'
  <2>1. u \in Old(f) /\ u \in Urls /\ (Queued(u) \/ Pending(u) \/ failed[u] > 0)
    BY DEF live, Unfinished, Old, File
  <2>2. PendingRead(f) /\ FailedRead(f)
    BY <1>1, <1>8 DEF FileComplete
  <2>3. u \in Met(f)
    <3>1. CASE Queued(u) \/ Pending(u)
      BY <2>1, <2>2, <3>1 DEF PendingRead
    <3>2. CASE failed[u] > 0
      BY <1>0, <2>1, <2>2, <3>2 DEF EntriesOwn, FailedRead
    <3>3. QED BY <2>1, <3>1, <3>2
  <2>4. PICK e \in f.queued \cup f.pending \cup f.failed : e.url = u
    BY <2>3 DEF Met, UrlsOf
  <2>5. e \in queue' /\ e.url = u
    BY <1>2, <1>5, <1>8, <2>4
  <2>6. QED BY <2>5 DEF Queued
<1>9. ResumesAll'
  BY <1>3, <1>8 DEF ResumesAll
<1>10. QED BY <1>4, <1>7, <1>9

---------------------------------------------------------------------------
(* The invariant and what follows.                                         *)

LEMMA InitHolds ==
  ASSUME Init
  PROVE  IInv
<1> USE StateAssumption, SaveAssumption DEF Init
<1>1. StateTypeOK
  BY DEF StateInit, StateTypeOK
<1>2. Idle \in Saves
  BY DEF Idle, Saves
<1>3. TypeOK
  <2>1. DOMAIN disk = {}
    OBVIOUS
  <2>2. QED BY <1>1, <1>2, <2>1 DEF TypeOK
<1>4. /\ SetsAreFinite /\ EntriesOwn /\ loaded = NoFile
  BY FS_EmptySet DEF StateInit, SetsAreFinite, EntriesOwn, PendingUrls, Pending
<1>5. SavesRead
  <2>1. SaveReads(Idle)
    BY EmptyReads DEF Idle
  <2>2. QED BY <2>1 DEF SavesRead
<1>6. FilesComplete
  BY DEF FilesComplete
<1>7. Kept = {} /\ Removed = {}
  BY DEF Kept, Removed, Range, Idle
<1>8. NamesDiffer
  BY <1>7 DEF NamesDiffer, Idle
<1>9. FilesKept
  BY <1>7 DEF FilesKept, IsInjective
<1>10. QED
  BY <1>3, <1>4, <1>5, <1>6, <1>8, <1>9 DEF IInv, SaveInv, StaysSeen, ResumesAll

LEMMA NextKeeps ==
  ASSUME IInv, [Next]_vars
  PROVE  IInv'
<1>1. CASE UNCHANGED vars /\ loaded # NoFile
  <2>1. TypeOK'
    BY <1>1 DEF vars, stateVars, saveVars, IInv, TypeOK, StateTypeOK
  <2>2. StaysSeen' /\ ResumesAll'
    BY <1>1 DEF vars, stateVars, IInv, StaysSeen, ResumesAll, Queued
  <2>3. loaded' # NoFile
    BY <1>1 DEF vars
  <2>4. QED BY <2>1, <2>2, <2>3 DEF IInv, SaveInv, FilesKept
<1>2. CASE loaded = NoFile
  <2>0. Going /\ TypeOK
    BY <1>2 DEF IInv, Going
  <2>1. ASSUME TypeOK', SaveInv', FilesKept', loaded' = NoFile PROVE IInv'
    BY <2>1 DEF IInv, StaysSeen, ResumesAll
  <2>2. CASE CrawlStep
    BY <1>2, <2>0, <2>1, <2>2, CrawlStepTypes, CrawlKeeps DEF CrawlStep
  <2>3. CASE Tick
    <3>1. TypeOK' /\ now <= now'
      BY <2>0, <2>3, SaveAssumption DEF Tick, TypeOK, StateTypeOK, stateVars
    <3>2. QED BY <1>2, <2>0, <2>1, <2>3, <3>1, IdleKeeps DEF Tick
  <2>4. ASSUME NEW w \in Workers,
               \/ Scan(w) \/ CountQueue(w) \/ ReadQueue(w) \/ ReadPending(w)
               \/ CountFailed(w) \/ ReadFailed(w) \/ ReadExtra(w) \/ WriteFails(w)
        PROVE  IInv'
    <3>1. TypeOK'
      BY <2>0, <2>4, ReadTypes DEF Going, SaveInv, SetsAreFinite
    <3>2. SaveInv' /\ FilesKept'
      BY <2>0, <2>4, QueueReads, ListReads
    <3>3. loaded' = loaded
      BY <2>4 DEF Scan, CountQueue, ReadQueue, ReadPending, CountFailed, ReadFailed,
                  ReadExtra, WriteFails, Read
    <3>4. QED BY <1>2, <2>1, <3>1, <3>2, <3>3
  <2>5. ASSUME NEW w \in Workers, Begin(w) \/ Write(w) \/ Unlink(w) PROVE IInv'
    <3>1. TypeOK'
      BY <2>0, <2>5, FileTypes
    <3>2. SaveInv' /\ FilesKept'
      BY <2>0, <2>5, BeginKeeps, WriteKeeps, UnlinkKeeps
    <3>3. loaded' = loaded
      BY <2>5 DEF Begin, Write, Unlink
    <3>4. QED BY <1>2, <2>1, <3>1, <3>2, <3>3
  <2>6. ASSUME NEW r \in Restarts, Load(followed, r.fresh, r.inScope) PROVE IInv'
    <3>1. TypeOK'
      BY <2>0, <2>6, LoadTypes DEF Going, SaveInv
    <3>2. loaded' # NoFile /\ StaysSeen' /\ ResumesAll'
      BY <2>0, <2>6, LoadRestores
    <3>3. QED BY <3>1, <3>2 DEF IInv, SaveInv, FilesKept
  <2>7. CASE UNCHANGED vars
    <3>1. TypeOK' /\ now <= now'
      BY <2>0, <2>7, SaveAssumption DEF vars, stateVars, saveVars, TypeOK, StateTypeOK
    <3>2. UNCHANGED <<stateVars, failedList, lastSaveTime, save, disk, saveStateFiles, loaded>>
      BY <2>7 DEF vars, saveVars
    <3>3. QED BY <1>2, <2>0, <2>1, <3>1, <3>2, IdleKeeps
  <2>8. QED BY <2>2, <2>3, <2>4, <2>5, <2>6, <2>7 DEF Next
<1>3. QED BY <1>1, <1>2 DEF Next

\* All that this module claims of a reachable state.
THEOREM SaveInvariant == Spec => []IInv
<1>1. Init => IInv
  BY InitHolds
<1>2. IInv /\ [Next]_vars => IInv'
  BY NextKeeps
<1>3. QED BY <1>1, <1>2, PTL DEF Spec

\* The types of the crawl state, of saves under way, of files and of what was
\* loaded (serializeConfig, serialize and load).
THEOREM SaveTypeCorrect == Spec => []TypeOK
<1>1. IInv => TypeOK
  BY DEF IInv
<1>2. QED BY <1>1, SaveInvariant, PTL

\* However many workers save at a time, and whatever writes fail, no two saves
\* write to one name, saveStateFiles names files that are there, and no more
\* than saveStateHistory of them stay (serializeConfig).
THEOREM FilesAreKept == Spec => []FilesKept
<1>1. IInv => FilesKept
  BY DEF IInv
<1>2. QED BY <1>1, SaveInvariant, PTL

\* Whatever the crawl did to the lists while serialize read them, a URL that
\* was in s when it began is known again once load has read the file, but for
\* what left the scope and for the extra seeds that the old Redis still holds.
THEOREM SeenStaysSeen == Spec => []StaysSeen
<1>1. IInv => StaysSeen
  BY DEF IInv
<1>2. QED BY <1>1, SaveInvariant, PTL

\* A save that was not upset misses no URL, though the URLs move from q to p
\* to f while it reads: load puts each one that the crawl has not finished,
\* pending and failed ones as well, back to the queue.
THEOREM CrawlResumes == Spec => []ResumesAll
<1>1. IInv => ResumesAll
  BY DEF IInv
<1>2. QED BY <1>1, SaveInvariant, PTL
===========================================================================
