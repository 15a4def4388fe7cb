-------------------------------- MODULE Scope -------------------------------
(***************************************************************************)
(* The scope of a seed, ScopedSeed of src/src/util/seeds.ts, and how depth *)
(* and extra hops pass from a page to its links.                           *)
(*                                                                         *)
(* A link is tested once where it is found (queueInScopeUrls) and again    *)
(* where it is taken from the queue (runLoop).  A page is queued once, by  *)
(* whoever finds it first, and keeps the depth and hops of that way.  The  *)
(* queue is sorted by hops and then depth, so with one worker a page is    *)
(* found first on a way with the fewest hops; several workers race.        *)
(*                                                                         *)
(* Urls are normalised (isIncluded drops a fragment that is not allowed).  *)
(* A page that fails is one without links here.                            *)
(***************************************************************************)
EXTENDS Integers, FiniteSets

CONSTANTS
  Urls,
  Seed,       \* the URL of the seed
  InScope,    \* URLs that scopeFromType or includeStr match
  Configs,    \* crawlConfig of a seed: see Config
  Graphs,     \* what pages link to
  Sitemaps,   \* sets of URLs that a sitemap lists
  Workers,
  Idle,       \* no page
  MAX_DEPTH

Config == [scopeType : {"page", "prefix"}, depth : Int, extraHops : Nat,
           maxExtraHops : Nat, exclude : SUBSET Urls]
Entry == [url : Urls, depth : Int, extraHops : Nat]

ASSUME ScopeAssumption ==
  /\ Seed \in Urls /\ InScope \subseteq Urls
  /\ \A c \in Configs : c \in Config
  /\ \A g \in Graphs : g \in [Urls -> SUBSET Urls]
  /\ \A s \in Sitemaps : s \subseteq Urls
  /\ MAX_DEPTH \in Nat
  /\ Idle \notin Entry

VARIABLES
  config,  \* of the seed
  links,   \* what each page links to
  crew,    \* the workers that run
  queue,   \* entries of q
  seen,    \* s
  at,      \* the page of each worker
  left,    \* its links that were not passed to queueInScopeUrls yet
  listed,  \* URLs of the sitemap that were not emitted yet
  sitemap, \* all of them
  visited  \* history: entries that were crawled

vars == <<config, links, crew, queue, seen, at, left, listed, sitemap, visited>>
-----------------------------------------------------------------------------
(* The seed. *)

\* scopeFromType: the scope "page" includes nothing but the seed itself.
Include == IF config.scopeType = "page" THEN {} ELSE InScope

\* setupConfig: for the scope "page" the depth is set to extraHops.
Depth == IF config.scopeType = "page" THEN config.extraHops ELSE config.depth
MaxDepth == IF Depth < 0 THEN MAX_DEPTH ELSE Depth

Included(u, depth) == depth <= MaxDepth /\ u \in Include
MayHop(hops, noOOS) ==
  ~noOOS /\ config.maxExtraHops > 0 /\ hops <= config.maxExtraHops

\* Mutant: a page that is an extra hop is exempt from exclusions.
IsIncludedHopsExempt(u, depth, hops, noOOS) ==
  \/ u = Seed
  \/ MayHop(hops, noOOS)
  \/ u \notin config.exclude /\ Included(u, depth)

\* isIncluded, the URL it returns.
IsIncluded(u, depth, hops, noOOS) ==
  \/ u = Seed
  \/ u \notin config.exclude /\ (Included(u, depth) \/ MayHop(hops, noOOS))

\* isIncluded, isOOS.
IsOOS(u, depth) == u # Seed /\ ~Included(u, depth)
-----------------------------------------------------------------------------
(* The queue. *)

\* Mutant: the queue is sorted by depth alone.
ScoreByDepth(e) == e.depth

\* _getScore.
Score(e) == e.depth + e.extraHops * MAX_DEPTH

\* Mutant: only what still waits is known.
AddToQueueForgets(u, depth, hops) ==
  IF \E e \in queue : e.url = u THEN UNCHANGED <<queue, seen>>
  ELSE /\ queue' = queue \cup {[url |-> u, depth |-> depth, extraHops |-> hops]}
       /\ seen' = seen \cup {u}
AddToQueue(u, depth, hops) ==
  IF u \in seen THEN UNCHANGED <<queue, seen>>
  ELSE /\ queue' = queue \cup {[url |-> u, depth |-> depth, extraHops |-> hops]}
       /\ seen' = seen \cup {u}

\* Mutant: the test looks at the hops of the page itself.
QueueUntested(u, depth, hops, noOOS) ==
  IF IsIncluded(u, depth + 1, hops, noOOS)
    THEN AddToQueue(u, depth + 1, IF IsOOS(u, depth + 1) THEN hops + 1 ELSE hops)
    ELSE UNCHANGED <<queue, seen>>
\* queueInScopeUrls: a link out of scope is one hop more, any other is none.
QueueInScopeUrl(u, depth, hops, noOOS) ==
  IF IsIncluded(u, depth + 1, hops + 1, noOOS)
    THEN AddToQueue(u, depth + 1, IF IsOOS(u, depth + 1) THEN hops + 1 ELSE hops)
    ELSE UNCHANGED <<queue, seen>>
-----------------------------------------------------------------------------
\* The variables hold values of their types; only a page has links left.
TypeOK ==
  /\ config \in Config
  /\ links \in [Urls -> SUBSET Urls]
  /\ crew \in SUBSET Workers
  /\ queue \in SUBSET Entry
  /\ seen \in SUBSET Urls
  /\ at \in [Workers -> Entry \cup {Idle}]
  /\ left \in [Workers -> SUBSET Urls]
  /\ listed \in SUBSET sitemap /\ sitemap \in SUBSET Urls
  /\ visited \in SUBSET Entry
  /\ \A w \in Workers : at[w] = Idle => left[w] = {}

\* _addInitialSeeds: the seed has the depth and the hops of its options.
Init ==
  /\ config \in Configs
  /\ links \in Graphs
  /\ crew \in SUBSET Workers /\ crew # {}
  /\ queue = {[url |-> Seed, depth |-> Depth, extraHops |-> config.extraHops]}
  /\ seen = {Seed}
  /\ at = [w \in Workers |-> Idle]
  /\ left = [w \in Workers |-> {}]
  /\ sitemap \in Sitemaps
  /\ listed = sitemap
  /\ visited = {}

UnchangedSeed == UNCHANGED <<config, links, crew, sitemap>>

\* runLoop: getnext, then isInScope, then markExcluded or the page.
TakePage(w, e) ==
  /\ w \in crew /\ at[w] = Idle
  /\ e \in queue /\ \A f \in queue : Score(e) <= Score(f)
  /\ queue' = queue \ {e}
  /\ IF IsIncluded(e.url, e.depth, e.extraHops, FALSE)
       THEN /\ at' = [at EXCEPT ![w] = e]
            /\ left' = [left EXCEPT ![w] = links[e.url]]
            /\ visited' = visited \cup {e}
            /\ UNCHANGED seen
       ELSE /\ seen' = seen \ {e.url}
            /\ UNCHANGED <<at, left, visited>>
  /\ UnchangedSeed
  /\ UNCHANGED listed

\* The page passes a link to addLink.
AddLink(w, u) ==
  /\ at[w] # Idle /\ u \in left[w]
  /\ left' = [left EXCEPT ![w] = @ \ {u}]
  /\ QueueInScopeUrl(u, at[w].depth, at[w].extraHops, FALSE)
  /\ UnchangedSeed
  /\ UNCHANGED <<at, listed, visited>>

PageDone(w) ==
  /\ at[w] # Idle /\ left[w] = {}
  /\ at' = [at EXCEPT ![w] = Idle]
  /\ UnchangedSeed
  /\ UNCHANGED <<queue, seen, left, listed, visited>>

\* The sitemap reader emits a URL: depth and hops 0, and never out of scope.
EmitUrl(u) ==
  /\ u \in listed
  /\ listed' = listed \ {u}
  /\ QueueInScopeUrl(u, 0, 0, TRUE)
  /\ UnchangedSeed
  /\ UNCHANGED <<at, left, visited>>

Next ==
  \/ \E w \in Workers : \/ \E e \in queue : TakePage(w, e)
                        \/ \E u \in Urls : AddLink(w, u)
                        \/ PageDone(w)
  \/ \E u \in Urls : EmitUrl(u)

Spec == Init /\ [][Next]_vars
-----------------------------------------------------------------------------
(* Reference: ways through the links, as a user of the crawler thinks of it. *)

Finished == queue = {} /\ listed = {} /\ \A w \in Workers : at[w] = Idle

\* Ways of n links over the given pages, and how many of their pages but the
\* first one are out of scope.
Ways(start, pages, n) ==
  {p \in [0 .. n -> pages] :
     p[0] = start /\ \A i \in 1 .. n : p[i] \in links[p[i - 1]] \ config.exclude}
Hops(p, n) == Cardinality({i \in 1 .. n : p[i] \notin Include})
Allowed(hops, before) == hops = 0 \/ hops + before <= config.maxExtraHops

\* A way from one page to another, over pages that were queued.
Led(start, u, before) ==
  \E n \in 0 .. Cardinality(seen) - 1 :
    \E p \in Ways(start, seen, n) : p[n] = u /\ Allowed(Hops(p, n), before)

Visited(u) == \E e \in visited : e.url = u
InScopeUrls == Include \ config.exclude

\* No limit of depth, and no site that is deeper than MAX_DEPTH, which the
\* order of the queue and the scope of such a seed rely on.
Unlimited ==
  /\ config.scopeType = "page" \/ config.depth < 0
  /\ IsFiniteSet(Urls)
  /\ Cardinality(Urls) + Depth <= MAX_DEPTH /\ Cardinality(Urls) - Depth <= MAX_DEPTH

(* Properties. *)

\* Where a page is queued and where it is taken, isIncluded gives the same
\* answer, although the one is asked with the hops of the next page and the
\* other with those of the page: no page is queued to be dropped again.
AcceptedStaysInScope ==
  \A e \in queue \cup visited :
    /\ IsIncluded(e.url, e.depth, e.extraHops, FALSE)
    /\ e.extraHops > config.extraHops => e.extraHops <= config.maxExtraHops

\* Every page that is crawled can be reached from the seed, or from a page in
\* scope of the sitemap, on a way with no more pages out of scope than allowed;
\* and in the end the seed, what the sitemap lists in scope and all that a
\* crawled page links to in scope is crawled, whatever the order in which pages
\* are found, and by how many workers.
ScopeIsCrawled ==
  /\ \A e \in visited :
       \/ Led(Seed, e.url, config.extraHops)
       \/ \E u \in sitemap \cap InScopeUrls : Led(u, e.url, 0)
  /\ Finished /\ Unlimited =>
       /\ Visited(Seed)
       /\ \A u \in sitemap \cap InScopeUrls : Visited(u)
       /\ \A e \in visited : \A u \in links[e.url] \cap InScopeUrls : Visited(u)

\* With one worker, whatever a sitemap emits meanwhile, each page is found on a
\* way with the fewest hops, so that none is missed for the hops of a longer way.
FewestHops ==
  Finished /\ Unlimited /\ (\E w \in Workers : crew = {w}) =>
    \A n \in 0 .. Cardinality(Urls) - 1 : \A p \in Ways(Seed, Urls, n) :
      Allowed(Hops(p, n), config.extraHops) =>
        \E e \in visited : e.url = p[n] /\ e.extraHops <= config.extraHops + Hops(p, n)

\* The scope makes the crawl a frontier that hands out each page once: what was
\* queued is crawled, by one worker, and what a worker left is not queued again,
\* from whichever page or sitemap it is found, and no page goes back to unseen
\* for having left the scope on its way through the queue.
Queued(u) == \E e \in queue : e.url = u
AtWorker(u) == \E w \in Workers : at[w] # Idle /\ at[w].url = u
placeBar == [u \in Urls |-> IF Queued(u) THEN "queued"
                            ELSE IF AtWorker(u) THEN "taken"
                            ELSE IF u \in seen THEN "gone" ELSE "unseen"]
triesBar == [u \in Urls |-> IF Visited(u) THEN 1 ELSE 0]
Frontier == INSTANCE CrawlFrontier
              WITH place <- placeBar, tries <- triesBar, MaxTries <- 1
CrawledOnce == Frontier!FrontierSpec
=============================================================================
