----------------------------- MODULE ScopeProofs ----------------------------
(***************************************************************************)
(* Theorems about Scope, for every site, scope, depth and hops, and any    *)
(* number of workers: what is queued stays in scope until it is crawled,   *)
(* what is crawled was found on a way that the scope allows, all that is   *)
(* in scope is crawled, and one worker finds pages with the fewest hops.   *)
(***************************************************************************)
EXTENDS Scope, FiniteSetTheorems, WellFoundedInduction, TLAPS

\* The inductive invariant: a worker's page is one that was crawled, so that
\* its links continue its hops.
IInv ==
  /\ TypeOK
  /\ AcceptedStaysInScope
  /\ \A w \in Workers : at[w] # Idle => at[w] \in visited

\* An entry that may stand in the queue.
Accepted(e) ==
  /\ IsIncluded(e.url, e.depth, e.extraHops, FALSE)
  /\ e.extraHops > config.extraHops => e.extraHops <= config.maxExtraHops

LEMMA DepthTyped ==
  ASSUME TypeOK
  PROVE  Depth \in Int
BY DEF TypeOK, Config, Depth

\* Entry, in each way in which a page is queued.
LEMMA AddTyped ==
  ASSUME TypeOK, NEW u \in Urls, NEW depth \in Int, NEW hops \in Nat, AddToQueue(u, depth, hops)
  PROVE  /\ queue' \in SUBSET Entry /\ seen' \in SUBSET Urls
         /\ \A e \in queue' \ queue : e = [url |-> u, depth |-> depth, extraHops |-> hops]
BY DEF AddToQueue, TypeOK, Entry

\* queueInScopeUrls queues only what the worker accepts: the test with the
\* hops of the next page covers the one with the hops that are stored.
LEMMA QueueAccepts ==
  ASSUME TypeOK, NEW u \in Urls, NEW depth \in Int, NEW hops \in Nat, NEW noOOS \in BOOLEAN,
         QueueInScopeUrl(u, depth, hops, noOOS),
         hops > config.extraHops => hops <= config.maxExtraHops
  PROVE  /\ queue' \in SUBSET Entry /\ seen' \in SUBSET Urls
         /\ \A e \in queue' \ queue : Accepted(e)
<1> DEFINE h == IF IsOOS(u, depth + 1) THEN hops + 1 ELSE hops
           new == [url |-> u, depth |-> depth + 1, extraHops |-> h]
<1>1. CASE ~IsIncluded(u, depth + 1, hops + 1, noOOS)
  BY <1>1 DEF QueueInScopeUrl, TypeOK
<1>2. CASE IsIncluded(u, depth + 1, hops + 1, noOOS)
  <2>1. AddToQueue(u, depth + 1, h) /\ h \in Nat /\ depth + 1 \in Int
    BY <1>2 DEF QueueInScopeUrl
  <2>2. \A e \in queue' \ queue : e = new
    BY <2>1, AddTyped
  <2>3. Accepted(new)
    <3>1. CASE IsOOS(u, depth + 1)
      BY <1>2, <3>1 DEF IsOOS, IsIncluded, MayHop, Accepted
    <3>2. CASE ~IsOOS(u, depth + 1)
      BY <1>2, <3>2 DEF IsOOS, IsIncluded, Accepted
    <3>3. QED BY <3>1, <3>2
  <2>4. QED BY <2>1, <2>2, <2>3, AddTyped
<1>3. QED BY <1>1, <1>2

LEMMA ScopeInit ==
  ASSUME Init
  PROVE  IInv
<1>1. Depth \in Int /\ config \in Config
  BY ScopeAssumption DEF Init, Config, Depth
<1>2. TypeOK
  <2>1. queue \in SUBSET Entry
    BY <1>1, ScopeAssumption DEF Init, Entry, Config
  <2>2. at \in [Workers -> Entry \cup {Idle}] /\ left \in [Workers -> SUBSET Urls]
    BY DEF Init
  <2>3. sitemap \in SUBSET Urls /\ links \in [Urls -> SUBSET Urls] /\ seen \in SUBSET Urls
    BY ScopeAssumption DEF Init
  <2>4. QED BY <1>1, <2>1, <2>2, <2>3 DEF Init, TypeOK
<1>3. AcceptedStaysInScope
  <2>1. config.extraHops \in Nat
    BY <1>1 DEF Config
  <2>2. \A e \in queue \cup visited : e.url = Seed /\ e.extraHops = config.extraHops
    BY DEF Init
  <2>3. QED BY <2>1, <2>2 DEF AcceptedStaysInScope, IsIncluded, MayHop
<1>4. QED BY <1>2, <1>3 DEF IInv, Init

LEMMA ScopeStep ==
  ASSUME IInv, [Next]_vars
  PROVE  IInv'
<1> USE DEF IInv
<1>a. \A e \in queue \cup visited : Accepted(e)
  BY DEF AcceptedStaysInScope, Accepted
<1>b. ASSUME config' = config, TypeOK', \A e \in queue' \cup visited' : Accepted(e),
             \A w \in Workers : at'[w] # Idle => at'[w] \in visited'
      PROVE  IInv'
  BY <1>b DEF AcceptedStaysInScope, Accepted, IsIncluded, MayHop, Included, MaxDepth, Depth, Include
<1>1. ASSUME NEW w \in Workers, NEW e \in queue, TakePage(w, e) PROVE IInv'
  <2>1. e \in Entry /\ e.url \in Urls
    BY DEF TypeOK, Entry
  <2>2. TypeOK'
    BY <1>1, <2>1, ScopeAssumption DEF TakePage, UnchangedSeed, TypeOK
  <2>3. QED BY <1>1, <1>a, <1>b, <2>2 DEF TakePage, UnchangedSeed, TypeOK
<1>2. ASSUME NEW w \in Workers, NEW u \in Urls, AddLink(w, u) PROVE IInv'
  <2>1. at[w] \in Entry /\ at[w].depth \in Int /\ at[w].extraHops \in Nat /\ Accepted(at[w])
    BY <1>2, <1>a DEF AddLink, TypeOK, Entry
  <2>2. /\ queue' \in SUBSET Entry /\ seen' \in SUBSET Urls
        /\ \A e \in queue' \ queue : Accepted(e)
    BY <1>2, <2>1, QueueAccepts DEF AddLink, Accepted
  <2>3. TypeOK'
    BY <1>2, <2>2 DEF AddLink, UnchangedSeed, TypeOK
  <2>4. QED BY <1>2, <1>a, <1>b, <2>2, <2>3 DEF AddLink, UnchangedSeed
<1>3. ASSUME NEW w \in Workers, PageDone(w) PROVE IInv'
  <2>1. TypeOK'
    BY <1>3 DEF PageDone, UnchangedSeed, TypeOK
  <2>2. QED BY <1>3, <1>a, <1>b, <2>1 DEF PageDone, UnchangedSeed, TypeOK
<1>4. ASSUME NEW u \in Urls, EmitUrl(u) PROVE IInv'
  <2>1. ~(0 > config.extraHops)
    BY DEF TypeOK, Config
  <2>2. PICK noOOS \in BOOLEAN : QueueInScopeUrl(u, 0, 0, noOOS)
    BY <1>4 DEF EmitUrl
  <2>3. /\ queue' \in SUBSET Entry /\ seen' \in SUBSET Urls
        /\ \A e \in queue' \ queue : Accepted(e)
    BY <2>1, <2>2, QueueAccepts
  <2>4. TypeOK'
    BY <1>4, <2>3 DEF EmitUrl, UnchangedSeed, TypeOK
  <2>5. QED BY <1>4, <1>a, <1>b, <2>3, <2>4 DEF EmitUrl, UnchangedSeed
<1>5. CASE UNCHANGED vars
  <2>1. TypeOK' /\ config' = config
    BY <1>5 DEF vars, TypeOK
  <2>2. QED BY <1>5, <1>a, <1>b, <2>1 DEF vars
<1>6. QED BY <1>1, <1>2, <1>3, <1>4, <1>5 DEF Next

\* A page that was queued is in scope where it is taken, on every way it was
\* found, and its hops are within the allowance, or those of the seed.
THEOREM NoQueuedPageIsDropped == Spec => [](TypeOK /\ AcceptedStaysInScope)
<1>1. Init => IInv
  BY ScopeInit
<1>2. IInv /\ [Next]_vars => IInv'
  BY ScopeStep
<1>3. QED BY <1>1, <1>2, PTL DEF Spec, IInv
-----------------------------------------------------------------------------
(* What is found. *)

Found == queue \cup visited

\* Each page that was seen has one entry, which is queued or was crawled.
Placed ==
  /\ IsFiniteSet(seen) /\ Seed \in seen
  /\ \A e \in Found : e.url \in seen
  /\ \A u \in seen : \E e \in Found : e.url = u
  /\ \A e, f \in Found : e.url = f.url => e = f
  /\ queue \cap visited = {}
  /\ \A e \in Found : e.url = Seed => e.extraHops = config.extraHops
  /\ \A w \in Workers : at[w] # Idle => w \in crew /\ left[w] \subseteq links[at[w].url]

\* No page is deeper than the pages before it are many.
DepthKept ==
  \A e \in Found :
    /\ e.depth >= Depth \/ e.depth >= 1
    /\ e.depth < Cardinality(seen) + Depth \/ e.depth < Cardinality(seen)

\* A way on which an entry was found.
Grounded(e, start, before) ==
  /\ e.extraHops = before \/ e.extraHops <= config.maxExtraHops
  /\ \E n \in 0 .. Cardinality(seen) - 1 :
       \E p \in Ways(start, seen, n) : p[n] = e.url /\ before + Hops(p, n) <= e.extraHops

AllGrounded ==
  \A e \in Found : \/ Grounded(e, Seed, config.extraHops)
                   \/ \E u \in sitemap \cap InScopeUrls : Grounded(e, u, 0)

\* What is in scope was seen, or is still to be passed to queueInScopeUrls.
AllQueued ==
  Unlimited =>
    /\ sitemap \cap InScopeUrls \subseteq listed \cup seen
    /\ \A e \in visited : \A u \in links[e.url] \cap InScopeUrls :
         u \in seen \/ \E w \in Workers : at[w] = e /\ u \in left[w]
-----------------------------------------------------------------------------
(* One worker: pages are found in the order of their hops. *)

Cost(u) == IF u \in Include THEN 0 ELSE 1
Single == Unlimited /\ \E w \in Workers : crew = {w}
HopsTo(p, i) == config.extraHops + Hops(p, i)

\* The i-th page of a way was found with no more hops than on that way.
Near(p, i) == \E e \in Found : e.url = p[i] /\ e.extraHops <= HopsTo(p, i)

\* A link of a way was followed, or is still to be.
Followed(p, i) ==
  Near(p, i - 1) =>
    \/ Near(p, i)
    \/ \E e \in queue : e.url = p[i - 1]
    \/ \E w \in Workers : at[w] # Idle /\ at[w].url = p[i - 1] /\ p[i] \in left[w]

Over(u) == Visited(u) /\ \A w \in Workers : at[w] # Idle => at[w].url # u

\* The crawl has come to pages with more hops.
Beyond(hops) ==
  \/ \E e \in Found : e.extraHops > hops + Cost(e.url)
  \/ \E w \in Workers : at[w] # Idle /\ at[w].extraHops > hops

HopsInOrder ==
  Single => \A n \in Nat : \A p \in Ways(Seed, Urls, n) :
    /\ \A i \in 1 .. n : Allowed(Hops(p, i), config.extraHops) => Followed(p, i)
    /\ \A i \in 0 .. n : Allowed(Hops(p, i), config.extraHops) /\ Beyond(HopsTo(p, i)) => Over(p[i])
-----------------------------------------------------------------------------
(* Ways, their hops, and the seed, which stays as it is. *)

LEMMA LeastNumber ==
  ASSUME NEW T \in SUBSET Nat, T # {}
  PROVE  \E m \in T : \A k \in T : m <= k
<1> DEFINE R == OpToRel(<, Nat)
<1>1. IsWellFoundedOn(R, Nat)
  BY NatLessThanWellFounded
<1>2. \A x, y \in Nat : x < y => <<x, y>> \in R
  BY DEF OpToRel
<1> HIDE DEF R
<1>3. PICK m \in T : \A k \in T : ~ (<<k, m>> \in R)
  BY <1>1, WFMin
<1>4. ASSUME NEW k \in T PROVE m <= k
  <2>1. ~ (<<k, m>> \in R)
    BY <1>3
  <2>2. ~ (k < m)
    BY <1>2, <2>1
  <2>3. QED BY <2>2
<1>5. QED BY <1>4

LEMMA HopsCount ==
  ASSUME NEW p
  PROVE  /\ Hops(p, 0) = 0
         /\ \A n \in Nat : Hops(p, n) \in Nat /\ Hops(p, n + 1) = Hops(p, n) + Cost(p[n + 1])
         /\ \A n \in Nat : \A i \in 0 .. n : Hops(p, i) <= Hops(p, n)
<1> DEFINE Out(n) == {i \in 1 .. n : p[i] \notin Include}
<1>1. \A n \in Nat : IsFiniteSet(Out(n)) /\ Cardinality(Out(n)) \in Nat
  <2> TAKE n \in Nat
  <2>1. IsFiniteSet(1 .. n)
    BY FS_Interval
  <2>2. QED BY <2>1, FS_Subset, FS_CardinalityType
<1>2. Out(0) = {} /\ Cardinality({}) = 0
  BY FS_EmptySet
<1>3. ASSUME NEW n \in Nat PROVE Cardinality(Out(n + 1)) = Cardinality(Out(n)) + Cost(p[n + 1])
  <2>1. CASE p[n + 1] \in Include
    <3>1. Out(n + 1) = Out(n)
      BY <2>1
    <3>2. QED BY <1>1, <2>1, <3>1 DEF Cost
  <2>2. CASE p[n + 1] \notin Include
    <3>1. Out(n + 1) = Out(n) \cup {n + 1} /\ n + 1 \notin Out(n)
      BY <2>2
    <3>2. Cardinality(Out(n) \cup {n + 1}) = Cardinality(Out(n)) + 1
      <4> HIDE DEF Out
      <4>1. QED BY <1>1, <3>1, FS_AddElement
    <3>3. QED BY <2>2, <3>1, <3>2 DEF Cost
  <2>3. QED BY <2>1, <2>2
<1>4. ASSUME NEW n \in Nat, NEW i \in 0 .. n PROVE Cardinality(Out(i)) <= Cardinality(Out(n))
  <2>1. Out(i) \in SUBSET Out(n)
    OBVIOUS
  <2> HIDE DEF Out
  <2>2. QED BY <1>1, <2>1, FS_Subset
<1>5. QED BY <1>1, <1>2, <1>3, <1>4 DEF Hops

LEMMA HopsAlike ==
  ASSUME NEW p, NEW q, NEW n \in Nat, \A i \in 1 .. n : p[i] = q[i]
  PROVE  Hops(p, n) = Hops(q, n)
<1>1. {i \in 1 .. n : p[i] \notin Include} = {i \in 1 .. n : q[i] \notin Include}
  OBVIOUS
<1>2. QED BY <1>1 DEF Hops

LEMMA SameSeed ==
  ASSUME UnchangedSeed
  PROVE  /\ Include' = Include /\ Depth' = Depth /\ InScopeUrls' = InScopeUrls
         /\ Unlimited' = Unlimited
         /\ \A p, n : Hops(p, n)' = Hops(p, n) /\ HopsTo(p, n)' = HopsTo(p, n)
         /\ \A start, pages, n : Ways(start, pages, n)' = Ways(start, pages, n)
         /\ \A hops, before : Allowed(hops, before)' = Allowed(hops, before)
         /\ \A u : Cost(u)' = Cost(u)
<1>1. config' = config /\ links' = links
  BY DEF UnchangedSeed
<1>2. Include' = Include /\ Depth' = Depth
  BY <1>1 DEF Include, Depth
<1>3. InScopeUrls' = InScopeUrls /\ Unlimited' = Unlimited
  BY <1>1, <1>2 DEF InScopeUrls, Unlimited
<1>4. \A p, n : Hops(p, n)' = Hops(p, n) /\ HopsTo(p, n)' = HopsTo(p, n)
  BY <1>1, <1>2 DEF Hops, HopsTo
<1>5. \A start, pages, n : Ways(start, pages, n)' = Ways(start, pages, n)
  BY <1>1 DEF Ways
<1>6. QED BY <1>1, <1>2, <1>3, <1>4, <1>5 DEF Allowed, Cost
-----------------------------------------------------------------------------
(* What each step does to what is found. *)

\* queueInScopeUrls passes over a page that was seen or is out of scope.
LEMMA QueueCases ==
  ASSUME NEW u, NEW depth, NEW hops, NEW noOOS, QueueInScopeUrl(u, depth, hops, noOOS)
  PROVE  \/ /\ UNCHANGED <<queue, seen>>
            /\ u \in seen \/ ~IsIncluded(u, depth + 1, hops + 1, noOOS)
         \/ /\ u \notin seen /\ IsIncluded(u, depth + 1, hops + 1, noOOS)
            /\ seen' = seen \cup {u}
            /\ queue' = queue \cup
                 {[url |-> u, depth |-> depth + 1,
                   extraHops |-> IF IsOOS(u, depth + 1) THEN hops + 1 ELSE hops]}
BY DEF QueueInScopeUrl, AddToQueue

\* The worker takes what was queued, and crawls it.
LEMMA TakeAccepted ==
  ASSUME IInv, NEW w \in Workers, NEW e \in queue, TakePage(w, e)
  PROVE  /\ at[w] = Idle /\ w \in crew /\ \A f \in queue : Score(e) <= Score(f)
         /\ queue' = queue \ {e} /\ visited' = visited \cup {e} /\ Found' = Found
         /\ at' = [at EXCEPT ![w] = e] /\ left' = [left EXCEPT ![w] = links[e.url]]
         /\ UnchangedSeed /\ UNCHANGED <<listed, seen>>
<1>1. IsIncluded(e.url, e.depth, e.extraHops, FALSE)
  BY DEF IInv, AcceptedStaysInScope
<1>2. queue' = queue \ {e} /\ visited' = visited \cup {e}
  BY <1>1 DEF TakePage
<1>3. Found' = Found
  BY <1>2 DEF Found
<1>4. QED BY <1>1, <1>2, <1>3 DEF TakePage

\* A page that is queued, where it was not seen before.
LEMMA AddPlaced ==
  ASSUME IInv, Placed, DepthKept, NEW new \in Entry, UnchangedSeed, UNCHANGED <<at, visited>>,
         \A w \in Workers : left'[w] \subseteq left[w],
         new.url \notin seen, seen' = seen \cup {new.url}, queue' = queue \cup {new},
         \/ new.depth >= Depth \/ new.depth >= 1,
         \/ new.depth < Cardinality(seen) + 1 + Depth \/ new.depth < Cardinality(seen) + 1
  PROVE  Placed' /\ DepthKept'
<1>1. Found' = Found \cup {new} /\ new \notin Found
  BY DEF Found, Placed
<1>2. /\ IsFiniteSet(seen') /\ Cardinality(seen') = Cardinality(seen) + 1
      /\ Cardinality(seen) \in Nat
  BY FS_AddElement, FS_CardinalityType DEF Placed
<1>3. Depth' = Depth /\ config' = config /\ crew' = crew /\ links' = links
  BY SameSeed DEF UnchangedSeed
<1>4. Placed'
  <2>1. \A e, f \in Found' : e.url = f.url => e = f
    BY <1>1 DEF Placed
  <2>2. queue' \cap visited' = {}
    BY <1>1 DEF Placed, Found
  <2>3. /\ \A e \in Found' : e.url \in seen'
        /\ \A u \in seen' : \E e \in Found' : e.url = u
    BY <1>1 DEF Placed
  <2>4. \A e \in Found' : e.url = Seed => e.extraHops = config.extraHops
    BY <1>1 DEF Placed
  <2>5. QED BY <1>2, <1>3, <2>1, <2>2, <2>3, <2>4 DEF Placed
<1>5. DepthKept'
  <2>1. \A e \in Found : e.depth \in Int
    BY DEF IInv, TypeOK, Found, Entry
  <2>2. new.depth \in Int /\ Depth \in Int
    BY DepthTyped DEF Entry, IInv
  <2>3. QED BY <1>1, <1>2, <1>3, <2>1, <2>2 DEF DepthKept
<1>6. QED BY <1>4, <1>5

\* A link of a page, and a URL of the sitemap, that are queued: one entry more,
\* with the depth and the hops that follow from where it was found.
LEMMA QueuedIsPlaced ==
  ASSUME IInv, Placed, DepthKept, NEW u \in Urls, NEW depth \in Int, NEW hops \in Nat, NEW noOOS,
         QueueInScopeUrl(u, depth, hops, noOOS), UnchangedSeed, UNCHANGED <<at, visited>>,
         \A w \in Workers : left'[w] \subseteq left[w],
         depth >= Depth \/ depth >= 0,
         depth < Cardinality(seen) + Depth \/ depth < Cardinality(seen)
  PROVE  Placed' /\ DepthKept'
<1>1. CASE UNCHANGED <<queue, seen>>
  <2>1. Found' = Found /\ Depth' = Depth /\ config' = config /\ crew' = crew /\ links' = links
    BY <1>1, SameSeed DEF Found, UnchangedSeed
  <2>2. QED BY <1>1, <2>1 DEF Placed, DepthKept
<1>2. CASE ~(UNCHANGED <<queue, seen>>)
  <2> DEFINE new == [url |-> u, depth |-> depth + 1,
                     extraHops |-> IF IsOOS(u, depth + 1) THEN hops + 1 ELSE hops]
  <2>1. u \notin seen /\ seen' = seen \cup {u} /\ queue' = queue \cup {new}
    BY <1>2, QueueCases
  <2>2. new \in Entry /\ new.url = u /\ new.depth = depth + 1
    BY DEF Entry
  <2>3. Depth \in Int /\ Cardinality(seen) \in Nat
    BY DepthTyped, FS_CardinalityType DEF IInv, Placed
  <2> HIDE DEF new
  <2>4. /\ new.depth >= Depth \/ new.depth >= 1
        /\ new.depth < Cardinality(seen) + 1 + Depth \/ new.depth < Cardinality(seen) + 1
    BY <2>2, <2>3
  <2>5. QED BY <2>1, <2>2, <2>4, AddPlaced
<1>3. QED BY <1>1, <1>2

LEMMA PlacedStep ==
  ASSUME IInv, Placed, DepthKept, [Next]_vars
  PROVE  Placed' /\ DepthKept'
<1>t. /\ at \in [Workers -> Entry \cup {Idle}] /\ left \in [Workers -> SUBSET Urls] /\ Cardinality(seen) \in Nat
      /\ Depth \in Int /\ \A w \in Workers : at[w] # Idle => at[w] \in Found /\ at[w] \in Entry
  BY DepthTyped, FS_CardinalityType, ScopeAssumption DEF IInv, TypeOK, Placed, Found
<1>1. ASSUME NEW w \in Workers, NEW e \in queue, TakePage(w, e) PROVE Placed' /\ DepthKept'
  <2>1. /\ w \in crew /\ queue' = queue \ {e} /\ visited' = visited \cup {e} /\ Found' = Found
        /\ at' = [at EXCEPT ![w] = e] /\ left' = [left EXCEPT ![w] = links[e.url]]
        /\ seen' = seen /\ UnchangedSeed
    BY <1>1, TakeAccepted
  <2>2. Depth' = Depth /\ config' = config /\ crew' = crew /\ links' = links
    BY <2>1, SameSeed DEF UnchangedSeed
  <2>3. queue' \cap visited' = {}
    BY <2>1 DEF Placed
  <2>4. \A v \in Workers : at'[v] # Idle => v \in crew /\ left'[v] \subseteq links[at'[v].url]
    BY <1>t, <2>1 DEF Placed
  <2>5. QED BY <2>1, <2>2, <2>3, <2>4 DEF Placed, DepthKept
<1>2. ASSUME NEW w \in Workers, NEW u \in Urls, AddLink(w, u) PROVE Placed' /\ DepthKept'
  <2>1. at[w] \in Found /\ at[w].depth \in Int /\ at[w].extraHops \in Nat
    BY <1>2, <1>t DEF AddLink, Entry
  <2>2. /\ QueueInScopeUrl(u, at[w].depth, at[w].extraHops, FALSE)
        /\ UnchangedSeed /\ UNCHANGED <<at, visited>>
        /\ \A v \in Workers : left'[v] \subseteq left[v]
    BY <1>2, <1>t DEF AddLink
  <2>3. /\ at[w].depth >= Depth \/ at[w].depth >= 0
        /\ at[w].depth < Cardinality(seen) + Depth \/ at[w].depth < Cardinality(seen)
    BY <1>t, <2>1 DEF DepthKept
  <2>4. QED BY <2>1, <2>2, <2>3, QueuedIsPlaced
<1>3. ASSUME NEW w \in Workers, PageDone(w) PROVE Placed' /\ DepthKept'
  <2>1. /\ at' = [at EXCEPT ![w] = Idle] /\ UnchangedSeed /\ UNCHANGED <<queue, seen, left, visited>>
    BY <1>3 DEF PageDone
  <2>2. Found' = Found /\ Depth' = Depth /\ config' = config /\ crew' = crew /\ links' = links
    BY <2>1, SameSeed DEF UnchangedSeed, Found
  <2>3. \A v \in Workers : at'[v] # Idle => v \in crew /\ left'[v] \subseteq links[at'[v].url]
    BY <1>t, <2>1 DEF Placed
  <2>4. QED BY <2>1, <2>2, <2>3 DEF Placed, DepthKept
<1>4. ASSUME NEW u \in Urls, EmitUrl(u) PROVE Placed' /\ DepthKept'
  <2>1. QueueInScopeUrl(u, 0, 0, TRUE) /\ UnchangedSeed /\ UNCHANGED <<at, left, visited>>
    BY <1>4 DEF EmitUrl
  <2>2. Cardinality(seen) # 0
    BY FS_EmptySet DEF Placed
  <2>3. 0 \in Int /\ 0 \in Nat /\ 0 >= 0 /\ 0 < Cardinality(seen)
    BY <1>t, <2>2
  <2>4. QED BY <2>1, <2>3, QueuedIsPlaced
<1>5. CASE UNCHANGED vars
  <2>1. /\ UnchangedSeed /\ UNCHANGED <<queue, seen, visited, at, left>>
    BY <1>5 DEF vars, UnchangedSeed
  <2>2. Found' = Found /\ Depth' = Depth /\ config' = config /\ crew' = crew /\ links' = links
    BY <2>1, SameSeed DEF UnchangedSeed, Found
  <2>3. QED BY <2>1, <2>2 DEF Placed, DepthKept
<1>6. QED BY <1>1, <1>2, <1>3, <1>4, <1>5 DEF Next
-----------------------------------------------------------------------------
(* All that is in scope is crawled. *)

\* Without a limit of depth, a page that was not seen is in scope by its URL.
LEMMA NotTooDeep ==
  ASSUME IInv, Placed, Unlimited, NEW u \in Urls, u \notin seen, NEW depth \in Int,
         depth < Cardinality(seen) + Depth \/ depth < Cardinality(seen)
  PROVE  Included(u, depth + 1) <=> u \in Include
<1>1. Cardinality(seen) \in Nat /\ Cardinality(seen) + 1 <= Cardinality(Urls)
  <2>1. IsFiniteSet(seen) /\ IsFiniteSet(Urls) /\ seen \cup {u} \in SUBSET Urls
    BY DEF Placed, Unlimited, IInv, TypeOK
  <2>2. Cardinality(seen \cup {u}) = Cardinality(seen) + 1
    BY <2>1, FS_AddElement
  <2>3. Cardinality(seen \cup {u}) <= Cardinality(Urls)
    BY <2>1, FS_Subset
  <2>4. QED BY <2>1, <2>2, <2>3, FS_CardinalityType
<1>2. ASSUME u \in Include
      PROVE  depth + 1 <= MaxDepth
  <2>1. config.scopeType # "page"
    BY <1>2 DEF Include
  <2>2. Depth < 0 /\ Depth \in Int /\ Cardinality(Urls) - Depth <= MAX_DEPTH
    BY <2>1, DepthTyped DEF Unlimited, Depth, IInv
  <2>3. MaxDepth = MAX_DEPTH /\ MAX_DEPTH \in Nat /\ Cardinality(Urls) \in Nat
    BY <2>2, ScopeAssumption, FS_CardinalityType DEF MaxDepth, Unlimited
  <2>4. depth < Cardinality(seen)
    BY <1>1, <2>2
  <2>5. QED BY <1>1, <2>2, <2>3, <2>4
<1>3. QED BY <1>2 DEF Included

\* queueInScopeUrls leaves no page out that is in scope by its URL.
LEMMA QueuedInScope ==
  ASSUME IInv, Placed, Unlimited, NEW u \in Urls, u \in InScopeUrls, NEW depth \in Int, NEW hops, NEW noOOS,
         depth < Cardinality(seen) + Depth \/ depth < Cardinality(seen),
         QueueInScopeUrl(u, depth, hops, noOOS)
  PROVE  u \in seen' /\ seen \subseteq seen'
<1>1. u \notin seen => IsIncluded(u, depth + 1, hops + 1, noOOS)
  BY NotTooDeep DEF IsIncluded, InScopeUrls
<1>2. QED BY <1>1, QueueCases

LEMMA QueuedStep ==
  ASSUME IInv, Placed, DepthKept, AllQueued, [Next]_vars
  PROVE  AllQueued'
<1>t. /\ at \in [Workers -> Entry \cup {Idle}] /\ left \in [Workers -> SUBSET Urls]
      /\ \A w \in Workers : at[w] # Idle => at[w] \in Found /\ at[w] \in Entry
      /\ links \in [Urls -> SUBSET Urls] /\ visited \subseteq Entry
      /\ \A e \in queue : e # Idle
  BY ScopeAssumption DEF IInv, TypeOK, Found
<1>s. UnchangedSeed
  BY DEF Next, vars, TakePage, AddLink, PageDone, EmitUrl, UnchangedSeed
<1>u. Unlimited' = Unlimited /\ InScopeUrls' = InScopeUrls /\ links' = links /\ sitemap' = sitemap
  BY <1>s, SameSeed DEF UnchangedSeed
<1> SUFFICES ASSUME Unlimited
             PROVE  /\ sitemap \cap InScopeUrls \subseteq listed' \cup seen'
                    /\ \A e \in visited' : \A u \in links[e.url] \cap InScopeUrls :
                         u \in seen' \/ \E w \in Workers : at'[w] = e /\ u \in left'[w]
  BY <1>u DEF AllQueued
<1>a. /\ sitemap \cap InScopeUrls \subseteq listed \cup seen
      /\ \A e \in visited : \A u \in links[e.url] \cap InScopeUrls :
           u \in seen \/ \E w \in Workers : at[w] = e /\ u \in left[w]
  BY DEF AllQueued
<1>1. ASSUME NEW w \in Workers, NEW e \in queue, TakePage(w, e)
      PROVE  /\ sitemap \cap InScopeUrls \subseteq listed' \cup seen'
             /\ \A f \in visited' : \A u \in links[f.url] \cap InScopeUrls :
                  u \in seen' \/ \E v \in Workers : at'[v] = f /\ u \in left'[v]
  <2>1. /\ at[w] = Idle /\ visited' = visited \cup {e}
        /\ at' = [at EXCEPT ![w] = e] /\ left' = [left EXCEPT ![w] = links[e.url]]
        /\ UNCHANGED <<listed, seen>>
    BY <1>1, TakeAccepted
  <2>2. ASSUME NEW f \in visited, NEW u \in links[f.url] \cap InScopeUrls
        PROVE  u \in seen' \/ \E v \in Workers : at'[v] = f /\ u \in left'[v]
    <3>1. f # Idle
      BY <1>t, ScopeAssumption
    <3>2. ASSUME NEW v \in Workers, at[v] = f, u \in left[v]
          PROVE  at'[v] = f /\ u \in left'[v]
      BY <1>t, <2>1, <3>1, <3>2
    <3>3. QED BY <1>a, <2>1, <3>2
  <2>3. at'[w] = e /\ left'[w] = links[e.url]
    BY <1>t, <2>1
  <2>4. QED BY <1>a, <2>1, <2>2, <2>3
<1>2. ASSUME NEW w \in Workers, NEW x \in Urls, AddLink(w, x)
      PROVE  /\ sitemap \cap InScopeUrls \subseteq listed' \cup seen'
             /\ \A f \in visited' : \A u \in links[f.url] \cap InScopeUrls :
                  u \in seen' \/ \E v \in Workers : at'[v] = f /\ u \in left'[v]
  <2>1. /\ at[w] \in Found /\ at[w] \in Entry /\ at[w].depth \in Int
        /\ left' = [left EXCEPT ![w] = @ \ {x}]
        /\ QueueInScopeUrl(x, at[w].depth, at[w].extraHops, FALSE)
        /\ UNCHANGED <<at, listed, visited>>
    BY <1>2, <1>t DEF AddLink, Entry
  <2>2. x \in InScopeUrls => x \in seen'
    BY <2>1, QueuedInScope DEF DepthKept
  <2>3. seen \subseteq seen'
    BY <2>1, QueueCases
  <2>4. ASSUME NEW f \in visited, NEW u \in links[f.url] \cap InScopeUrls, u # x
        PROVE  u \in seen' \/ \E v \in Workers : at'[v] = f /\ u \in left'[v]
    <3>1. \A v \in Workers : u \in left[v] => u \in left'[v]
      BY <1>t, <2>1, <2>4
    <3>2. QED BY <1>a, <2>1, <2>3, <3>1
  <2>5. QED BY <1>a, <2>1, <2>2, <2>3, <2>4
<1>3. ASSUME NEW w \in Workers, PageDone(w)
      PROVE  /\ sitemap \cap InScopeUrls \subseteq listed' \cup seen'
             /\ \A f \in visited' : \A u \in links[f.url] \cap InScopeUrls :
                  u \in seen' \/ \E v \in Workers : at'[v] = f /\ u \in left'[v]
  <2>1. /\ at' = [at EXCEPT ![w] = Idle] /\ left[w] = {}
        /\ UNCHANGED <<queue, seen, left, listed, visited>>
    BY <1>3 DEF PageDone
  <2>2. \A v \in Workers : \A u : u \in left[v] => at'[v] = at[v]
    BY <1>t, <2>1
  <2>3. QED BY <1>a, <2>1, <2>2
<1>4. ASSUME NEW x \in Urls, EmitUrl(x)
      PROVE  /\ sitemap \cap InScopeUrls \subseteq listed' \cup seen'
             /\ \A f \in visited' : \A u \in links[f.url] \cap InScopeUrls :
                  u \in seen' \/ \E v \in Workers : at'[v] = f /\ u \in left'[v]
  <2>1. /\ QueueInScopeUrl(x, 0, 0, TRUE) /\ listed' = listed \ {x}
        /\ UNCHANGED <<at, left, visited>>
    BY <1>4 DEF EmitUrl
  <2>2. 0 \in Int /\ 0 < Cardinality(seen)
    BY FS_EmptySet, FS_CardinalityType DEF Placed
  <2>3. x \in InScopeUrls => x \in seen'
    BY <2>1, <2>2, QueuedInScope
  <2>4. seen \subseteq seen'
    BY <2>1, QueueCases
  <2>5. QED BY <1>a, <2>1, <2>3, <2>4
<1>5. CASE UNCHANGED vars
  BY <1>5, <1>a DEF vars
<1>6. QED BY <1>1, <1>2, <1>3, <1>4, <1>5 DEF Next
-----------------------------------------------------------------------------
(* Every page that is crawled was found on a way. *)

LEMMA GroundedStays ==
  ASSUME NEW e, NEW start, NEW before, Grounded(e, start, before), UnchangedSeed,
         seen \subseteq seen', Cardinality(seen) \in Nat, Cardinality(seen') \in Nat,
         Cardinality(seen) <= Cardinality(seen')
  PROVE  Grounded(e, start, before)'
<1>1. PICK n \in 0 .. Cardinality(seen) - 1 : \E p \in Ways(start, seen, n) :
        p[n] = e.url /\ before + Hops(p, n) <= e.extraHops
  BY DEF Grounded
<1>p. PICK p \in Ways(start, seen, n) : p[n] = e.url /\ before + Hops(p, n) <= e.extraHops
  BY <1>1
<1>2. n \in 0 .. Cardinality(seen') - 1
  OBVIOUS
<1>3. p \in Ways(start, seen', n)
  BY DEF Ways, UnchangedSeed
<1>4. Hops(p, n)' = Hops(p, n) /\ config' = config /\ links' = links
  BY SameSeed DEF UnchangedSeed
<1>5. e.extraHops = before \/ e.extraHops <= config.maxExtraHops
  BY DEF Grounded
<1>6. QED BY <1>p, <1>2, <1>3, <1>4, <1>5 DEF Grounded, Ways

\* A link that is queued leads on the way of its page.
LEMMA GroundedOn ==
  ASSUME Placed, NEW e \in Entry, NEW start, NEW before \in Nat, Grounded(e, start, before), UnchangedSeed,
         NEW v \in Urls, v \in links[e.url], v \notin config.exclude, v \notin seen,
         seen' = seen \cup {v},
         NEW new \in Entry, new.url = v, new.extraHops >= e.extraHops + Cost(v),
         new.extraHops = e.extraHops \/ new.extraHops <= config.maxExtraHops
  PROVE  Grounded(new, start, before)'
<1>1. PICK n \in 0 .. Cardinality(seen) - 1 : \E p \in Ways(start, seen, n) :
        p[n] = e.url /\ before + Hops(p, n) <= e.extraHops
  BY DEF Grounded
<1>p. PICK p \in Ways(start, seen, n) : p[n] = e.url /\ before + Hops(p, n) <= e.extraHops
  BY <1>1
<1> DEFINE q == [j \in 0 .. n + 1 |-> IF j <= n THEN p[j] ELSE v]
<1>2. Cardinality(seen) \in Nat /\ Cardinality(seen') = Cardinality(seen) + 1 /\ n \in Nat
  BY FS_AddElement, FS_CardinalityType DEF Placed
<1>3. n + 1 \in 0 .. Cardinality(seen') - 1
  BY <1>2
<1>4. q \in Ways(start, seen', n + 1)
  <2>1. p \in [0 .. n -> seen] /\ p[0] = start /\ \A i \in 1 .. n : p[i] \in links[p[i - 1]] \ config.exclude
    BY DEF Ways
  <2>2. q \in [0 .. n + 1 -> seen'] /\ q[0] = start /\ q[n + 1] = v
    BY <1>2, <2>1
  <2>3. ASSUME NEW i \in 1 .. n + 1 PROVE q[i] \in links[q[i - 1]] \ config.exclude
    <3>1. CASE i = n + 1
      <4>1. q[i] = v /\ q[i - 1] = p[n]
        BY <1>2, <3>1
      <4>2. QED BY <1>p, <4>1
    <3>2. CASE i # n + 1
      <4>1. i \in 1 .. n /\ q[i] = p[i] /\ q[i - 1] = p[i - 1]
        BY <1>2, <3>2
      <4>2. QED BY <2>1, <4>1
    <3>3. QED BY <3>1, <3>2
  <2>4. QED BY <2>2, <2>3 DEF Ways
<1>5. Hops(q, n + 1) = Hops(p, n) + Cost(v)
  <2>1. \A i \in 1 .. n : q[i] = p[i]
    BY <1>2
  <2>2. q[n + 1] = v
    BY <1>2
  <2> HIDE DEF q
  <2>3. Hops(q, n) = Hops(p, n)
    BY <1>2, <2>1, HopsAlike
  <2>4. QED BY <1>2, <2>2, <2>3, HopsCount
<1>6. q[n + 1] = v
  BY <1>2
<1> HIDE DEF q
<1>7. Hops(p, n) \in Nat /\ Cost(v) \in Nat /\ e.extraHops \in Nat /\ new.extraHops \in Nat
  BY <1>2, HopsCount DEF Cost, Entry
<1>8. before + Hops(q, n + 1) <= new.extraHops
  BY <1>p, <1>5, <1>7
<1>9. new.extraHops = before \/ new.extraHops <= config.maxExtraHops
  BY DEF Grounded
<1>10. Hops(q, n + 1)' = Hops(q, n + 1) /\ config' = config /\ links' = links
  BY SameSeed DEF UnchangedSeed
<1>11. QED BY <1>3, <1>4, <1>6, <1>8, <1>9, <1>10 DEF Grounded, Ways

LEMMA GroundedStep ==
  ASSUME IInv, Placed, Placed', AllGrounded, [Next]_vars
  PROVE  AllGrounded'
<1> DEFINE Root(e) == \/ Grounded(e, Seed, config.extraHops)
                      \/ \E u \in sitemap \cap InScopeUrls : Grounded(e, u, 0)
<1>t. /\ at \in [Workers -> Entry \cup {Idle}] /\ left \in [Workers -> SUBSET Urls]
      /\ \A w \in Workers : at[w] # Idle => at[w] \in Found /\ at[w] \in Entry
      /\ config.extraHops \in Nat /\ Depth \in Int
      /\ Cardinality(seen) \in Nat /\ Cardinality(seen') \in Nat
  BY ScopeAssumption, FS_CardinalityType, DepthTyped DEF IInv, TypeOK, Found, Config, Placed
<1>s. UnchangedSeed
  BY DEF Next, vars, TakePage, AddLink, PageDone, EmitUrl, UnchangedSeed
<1>u. config' = config /\ InScopeUrls' = InScopeUrls /\ sitemap' = sitemap
  BY <1>s, SameSeed DEF UnchangedSeed
<1>m. seen \subseteq seen'
  BY TakeAccepted, QueueCases DEF Next, vars, AddLink, PageDone, EmitUrl
<1>n. Cardinality(seen) <= Cardinality(seen')
  BY <1>m, FS_Subset DEF Placed
<1>a. \A e \in Found : Root(e)'
  <2> SUFFICES ASSUME NEW e \in Found PROVE Root(e)'
    OBVIOUS
  <2>1. CASE Grounded(e, Seed, config.extraHops)
    <3>1. Grounded(e, Seed, config.extraHops)'
      BY <1>t, <1>s, <1>u, <1>m, <1>n, <2>1, GroundedStays DEF Grounded
    <3>2. QED BY <3>1
  <2>2. ASSUME NEW u \in sitemap \cap InScopeUrls, Grounded(e, u, 0) PROVE Root(e)'
    <3>1. Grounded(e, u, 0)'
      BY <1>t, <1>s, <1>m, <1>n, <2>2, GroundedStays
    <3>2. QED BY <1>u, <3>1
  <2>3. QED BY <2>1, <2>2 DEF AllGrounded
<1>b. (\A e \in Found' \ Found : Root(e)') => AllGrounded'
  BY <1>a DEF AllGrounded
<1> HIDE DEF Root
<1>1. ASSUME NEW w \in Workers, NEW e \in queue, TakePage(w, e) PROVE AllGrounded'
  BY <1>1, <1>b, TakeAccepted
<1>2. ASSUME NEW w \in Workers, NEW v \in Urls, AddLink(w, v) PROVE AllGrounded'
  <2>e. PICK e : e = at[w]
    OBVIOUS
  <2>n. PICK new : new = [url |-> v, depth |-> e.depth + 1,
                          extraHops |-> IF IsOOS(v, e.depth + 1) THEN e.extraHops + 1 ELSE e.extraHops]
    OBVIOUS
  <2>1. /\ e \in Entry /\ e \in Found /\ e.depth \in Int /\ e.extraHops \in Nat
        /\ v \in links[e.url] /\ visited' = visited
        /\ QueueInScopeUrl(v, e.depth, e.extraHops, FALSE)
    BY <1>2, <1>t, <2>e DEF AddLink, Entry, Placed
  <2>2. CASE UNCHANGED queue
    BY <2>1, <2>2, <1>b DEF Found
  <2>3. CASE ~(UNCHANGED queue)
    <3>1. /\ v \notin seen /\ IsIncluded(v, e.depth + 1, e.extraHops + 1, FALSE)
          /\ seen' = seen \cup {v} /\ queue' = queue \cup {new}
      BY <2>1, <2>n, <2>3, QueueCases
    <3>2. v # Seed /\ v \notin config.exclude
      BY <3>1 DEF Placed, IsIncluded
    <3>3. new \in Entry /\ new.url = v
      BY <2>1, <2>n DEF Entry
    <3>4. /\ new.extraHops >= e.extraHops + Cost(v)
          /\ new.extraHops = e.extraHops \/ new.extraHops <= config.maxExtraHops
      <4>1. CASE IsOOS(v, e.depth + 1)
        <5>1. e.extraHops + 1 <= config.maxExtraHops
          BY <3>1, <3>2, <4>1 DEF IsOOS, IsIncluded, MayHop
        <5>2. QED BY <2>1, <2>n, <4>1, <5>1 DEF Cost
      <4>2. CASE ~IsOOS(v, e.depth + 1)
        <5>1. v \in Include
          BY <3>2, <4>2 DEF IsOOS, Included
        <5>2. QED BY <2>1, <2>n, <4>2, <5>1 DEF Cost
      <4>3. QED BY <4>1, <4>2
    <3>5. \A start : \A before \in Nat : Grounded(e, start, before) => Grounded(new, start, before)'
      <4> TAKE start
      <4> TAKE before \in Nat
      <4> HAVE Grounded(e, start, before)
      <4>1. QED BY <1>s, <2>1, <3>1, <3>2, <3>3, <3>4, GroundedOn
    <3>6. Root(new)'
      <4>1. CASE Grounded(e, Seed, config.extraHops)
        <5>1. Grounded(new, Seed, config.extraHops)'
          BY <1>t, <1>u, <3>5, <4>1 DEF Grounded
        <5>2. QED BY <5>1 DEF Root
      <4>2. ASSUME NEW u \in sitemap \cap InScopeUrls, Grounded(e, u, 0) PROVE Root(new)'
        <5>1. Grounded(new, u, 0)'
          BY <3>5, <4>2
        <5>2. QED BY <1>u, <5>1 DEF Root
      <4>3. QED BY <2>1, <4>1, <4>2 DEF AllGrounded
    <3>7. Found' = Found \cup {new}
      BY <2>1, <3>1 DEF Found
    <3>8. QED BY <1>b, <3>6, <3>7
  <2>4. QED BY <2>2, <2>3
<1>3. ASSUME NEW w \in Workers, PageDone(w) PROVE AllGrounded'
  BY <1>3, <1>b DEF PageDone, Found
<1>4. ASSUME NEW v \in Urls, EmitUrl(v) PROVE AllGrounded'
  <2> DEFINE new == [url |-> v, depth |-> 1, extraHops |-> 0]
  <2>1. QueueInScopeUrl(v, 0, 0, TRUE) /\ v \in sitemap /\ visited' = visited
    BY <1>4 DEF EmitUrl, IInv, TypeOK
  <2>2. CASE UNCHANGED queue
    BY <2>1, <2>2, <1>b DEF Found
  <2>3. CASE ~(UNCHANGED queue)
    <3>1. /\ v \notin seen /\ IsIncluded(v, 0 + 1, 0 + 1, TRUE) /\ seen' = seen \cup {v}
          /\ queue' = queue \cup {[url |-> v, depth |-> 0 + 1,
                                   extraHops |-> IF IsOOS(v, 0 + 1) THEN 0 + 1 ELSE 0]}
      BY <2>1, <2>3, QueueCases
    <3>2. v # Seed /\ v \in InScopeUrls /\ ~IsOOS(v, 0 + 1)
      BY <3>1 DEF Placed, IsIncluded, MayHop, IsOOS, InScopeUrls, Included
    <3>3. Found' = Found \cup {new}
      BY <2>1, <3>1, <3>2 DEF Found
    <3>4. Grounded(new, v, 0)'
      <4> DEFINE p == [i \in 0 .. 0 |-> v]
      <4>1. p \in [0 .. 0 -> seen'] /\ p[0] = v
        BY <3>1
      <4>2. Hops(p, 0)' = 0
        BY <1>s, SameSeed, HopsCount
      <4>3. 0 \in 0 .. Cardinality(seen') - 1
        <5>1. Cardinality(seen') # 0
          BY <3>1, FS_EmptySet DEF Placed
        <5>2. QED BY <1>t, <5>1
      <4> HIDE DEF p
      <4>4. new.url = v /\ new.extraHops = 0
        OBVIOUS
      <4> HIDE DEF new
      <4>5. p \in [0 .. 0 -> seen'] /\ p[0] = v /\ \A i \in 1 .. 0 : p[i] \in links'[p[i - 1]] \ config'.exclude
        BY <4>1
      <4>6. p \in Ways(v, seen, 0)'
        BY <4>5 DEF Ways
      <4>7. \E q \in Ways(v, seen, 0)' : q[0] = new.url /\ 0 + Hops(q, 0)' <= new.extraHops
        BY <4>1, <4>2, <4>4, <4>6
      <4>8. QED BY <4>3, <4>4, <4>7 DEF Grounded
    <3>5. Root(new)'
      BY <1>u, <2>1, <3>2, <3>4 DEF Root
    <3>6. QED BY <1>b, <3>3, <3>5
  <2>4. QED BY <2>2, <2>3
<1>5. CASE UNCHANGED vars
  BY <1>5, <1>b DEF vars, Found
<1>6. QED BY <1>1, <1>2, <1>3, <1>4, <1>5 DEF Next

LEMMA GroundedIsLed ==
  ASSUME NEW e \in Entry, NEW start, NEW before \in Nat, Grounded(e, start, before),
         config.maxExtraHops \in Nat, Cardinality(seen) \in Nat
  PROVE  Led(start, e.url, before)
<1>1. PICK n \in 0 .. Cardinality(seen) - 1 : \E p \in Ways(start, seen, n) :
        p[n] = e.url /\ before + Hops(p, n) <= e.extraHops
  BY DEF Grounded
<1>2. PICK p \in Ways(start, seen, n) : p[n] = e.url /\ before + Hops(p, n) <= e.extraHops
  BY <1>1
<1>3. Hops(p, n) \in Nat /\ e.extraHops \in Nat
  <2>1. n \in Nat
    OBVIOUS
  <2>2. Hops(p, n) \in Nat
    BY <2>1, HopsCount
  <2>3. QED BY <2>2 DEF Entry
<1>4. e.extraHops = before \/ e.extraHops <= config.maxExtraHops
  BY DEF Grounded
<1>5. Allowed(Hops(p, n), before)
  BY <1>2, <1>3, <1>4 DEF Allowed
<1>6. QED BY <1>2, <1>5 DEF Led
-----------------------------------------------------------------------------
(* The scope of the seed. *)

ScopeInv == IInv /\ Placed /\ DepthKept /\ AllQueued /\ AllGrounded

LEMMA ScopeInvInit ==
  ASSUME Init
  PROVE  ScopeInv
<1>i. IInv
  BY ScopeInit
<1> DEFINE e == [url |-> Seed, depth |-> Depth, extraHops |-> config.extraHops]
<1>1. queue = {e} /\ visited = {} /\ seen = {Seed} /\ Found = {e} /\ listed = sitemap
  BY DEF Init, Found
<1>2. \A w \in Workers : at[w] = Idle
  BY DEF Init
<1>3. IsFiniteSet(seen) /\ Cardinality(seen) = 1
  BY <1>1, FS_Singleton
<1>4. Depth \in Int /\ config.extraHops \in Nat
  BY <1>i, DepthTyped DEF IInv, TypeOK, Config
<1>5. Placed
  BY <1>1, <1>2, <1>3 DEF Placed
<1>6. DepthKept
  BY <1>1, <1>3, <1>4 DEF DepthKept
<1>7. AllQueued
  BY <1>1 DEF AllQueued
<1>8. AllGrounded
  <2> DEFINE p == [i \in 0 .. 0 |-> Seed]
  <2>1. p \in [0 .. 0 -> seen] /\ p[0] = Seed /\ \A i \in 1 .. 0 : p[i] \in links[p[i - 1]] \ config.exclude
    BY <1>1
  <2>2. Hops(p, 0) = 0
    BY HopsCount
  <2> HIDE DEF p
  <2>3. p \in Ways(Seed, seen, 0)
    BY <2>1 DEF Ways
  <2>4. 0 \in 0 .. Cardinality(seen) - 1
    BY <1>3
  <2>5. \E q \in Ways(Seed, seen, 0) : q[0] = e.url /\ config.extraHops + Hops(q, 0) <= e.extraHops
    BY <1>4, <2>1, <2>2, <2>3
  <2>6. Grounded(e, Seed, config.extraHops)
    BY <2>4, <2>5 DEF Grounded
  <2>7. QED BY <1>1, <2>6 DEF AllGrounded
<1>9. QED BY <1>i, <1>5, <1>6, <1>7, <1>8 DEF ScopeInv

LEMMA ScopeInvStep ==
  ASSUME ScopeInv, [Next]_vars
  PROVE  ScopeInv'
<1>1. IInv' /\ Placed' /\ DepthKept'
  BY ScopeStep, PlacedStep DEF ScopeInv
<1>2. QED BY <1>1, QueuedStep, GroundedStep DEF ScopeInv

LEMMA ScopeInvHolds == Spec => []ScopeInv
BY ScopeInvInit, ScopeInvStep, PTL DEF Spec

LEMMA ScopeInvMeans ==
  ASSUME ScopeInv
  PROVE  ScopeIsCrawled
<1>t. /\ visited \subseteq Found /\ visited \subseteq Entry /\ config.extraHops \in Nat
      /\ config.maxExtraHops \in Nat /\ Cardinality(seen) \in Nat
  BY FS_CardinalityType DEF ScopeInv, IInv, TypeOK, Config, Placed, Found
<1>1. ASSUME NEW e \in visited
      PROVE  \/ Led(Seed, e.url, config.extraHops)
             \/ \E u \in sitemap \cap InScopeUrls : Led(u, e.url, 0)
  <2>1. e \in Found /\ e \in Entry
    BY <1>t
  <2>2. CASE Grounded(e, Seed, config.extraHops)
    BY <1>t, <2>1, <2>2, GroundedIsLed
  <2>3. ASSUME NEW u \in sitemap \cap InScopeUrls, Grounded(e, u, 0)
        PROVE  Led(u, e.url, 0)
    BY <1>t, <2>1, <2>3, GroundedIsLed
  <2>4. QED BY <2>1, <2>2, <2>3 DEF ScopeInv, AllGrounded
<1>2. ASSUME Finished, Unlimited
      PROVE  /\ Visited(Seed)
             /\ \A u \in sitemap \cap InScopeUrls : Visited(u)
             /\ \A e \in visited : \A u \in links[e.url] \cap InScopeUrls : Visited(u)
  <2>1. listed = {} /\ Found = visited /\ \A w \in Workers : at[w] = Idle
    BY <1>2 DEF Finished, Found
  <2>2. \A u \in seen : Visited(u)
    BY <2>1 DEF ScopeInv, Placed, Visited
  <2>3. sitemap \cap InScopeUrls \subseteq seen
    BY <1>2, <2>1 DEF ScopeInv, AllQueued
  <2>4. \A e \in visited : e # Idle
    BY <1>t, ScopeAssumption
  <2>5. \A e \in visited : \A u \in links[e.url] \cap InScopeUrls : u \in seen
    BY <1>2, <2>1, <2>4 DEF ScopeInv, AllQueued
  <2>6. QED BY <2>2, <2>3, <2>5 DEF ScopeInv, Placed
<1>3. QED BY <1>1, <1>2 DEF ScopeIsCrawled

\* Every page that is crawled was found on a way from the seed, or from a page
\* in scope of the sitemap, with no more pages out of scope than allowed
\* (isIncluded); and in the end all that is in scope, on the seed's site as far
\* as crawled pages link to it, is crawled, for any site and number of workers.
THEOREM ScopeIsCrawledExactly == Spec => []ScopeIsCrawled
BY ScopeInvHolds, ScopeInvMeans, PTL
-----------------------------------------------------------------------------
(* One worker finds each page with the fewest hops. *)

\* The queue's order: no page of fewer hops waits while one is taken.
LEMMA TakesFewestHops ==
  ASSUME ScopeInv, Unlimited, NEW e \in queue, NEW f \in queue, Score(e) <= Score(f)
  PROVE  e.extraHops <= f.extraHops
<1>1. /\ e.depth \in Int /\ f.depth \in Int /\ e.extraHops \in Nat /\ f.extraHops \in Nat
      /\ Depth \in Int /\ MAX_DEPTH \in Nat
  BY DepthTyped, ScopeAssumption DEF ScopeInv, IInv, TypeOK, Entry
<1>2. Cardinality(seen) \in Nat /\ Cardinality(Urls) \in Nat /\ Cardinality(seen) <= Cardinality(Urls)
  BY FS_CardinalityType, FS_Subset DEF ScopeInv, Placed, Unlimited, IInv, TypeOK
<1>3. /\ e.depth >= Depth \/ e.depth >= 1
      /\ f.depth < Cardinality(seen) + Depth \/ f.depth < Cardinality(seen)
  BY DEF ScopeInv, DepthKept, Found
<1>4. f.depth - e.depth < MAX_DEPTH
  BY <1>1, <1>2, <1>3 DEF Unlimited
<1>5. ASSUME e.extraHops > f.extraHops PROVE FALSE
  <2>1. PICK k \in Nat : e.extraHops = f.extraHops + 1 + k
    <3>1. e.extraHops - f.extraHops - 1 \in Nat /\ e.extraHops = f.extraHops + 1 + (e.extraHops - f.extraHops - 1)
      BY <1>1, <1>5
    <3>2. QED BY <3>1
  <2>2. k * MAX_DEPTH >= 0
    BY <1>1
  <2>3. e.extraHops * MAX_DEPTH = f.extraHops * MAX_DEPTH + MAX_DEPTH + k * MAX_DEPTH
    BY <1>1, <2>1
  <2>4. f.extraHops * MAX_DEPTH \in Int /\ k * MAX_DEPTH \in Int
    BY <1>1
  <2>5. Score(e) > Score(f)
    BY <1>1, <1>4, <2>2, <2>3, <2>4 DEF Score
  <2>6. Score(e) \in Int /\ Score(f) \in Int
    BY <1>1, <2>2, <2>3, <2>4 DEF Score
  <2>7. QED BY <2>5, <2>6
<1>6. QED BY <1>1, <1>5

LEMMA WayFacts ==
  ASSUME ScopeInv, NEW n \in Nat, NEW p \in Ways(Seed, Urls, n)
  PROVE  /\ p[0] = Seed /\ \A i \in 0 .. n : p[i] \in Urls
         /\ \A i \in 1 .. n : p[i] \in links[p[i - 1]] /\ p[i] \notin config.exclude
         /\ \A i \in 0 .. n : Hops(p, i) \in Nat /\ HopsTo(p, i) \in Nat
         /\ \A i \in 1 .. n : /\ Hops(p, i) = Hops(p, i - 1) + Cost(p[i])
                              /\ HopsTo(p, i) = HopsTo(p, i - 1) + Cost(p[i])
         /\ \A i \in 0 .. n : \A j \in 0 .. i :
              /\ HopsTo(p, j) <= HopsTo(p, i)
              /\ Allowed(Hops(p, i), config.extraHops) => Allowed(Hops(p, j), config.extraHops)
<1>1. config.extraHops \in Nat /\ config.maxExtraHops \in Nat
  BY DEF ScopeInv, IInv, TypeOK, Config
<1>2. ASSUME NEW i \in Nat PROVE Hops(p, i) \in Nat /\ HopsTo(p, i) \in Nat
  <2>1. Hops(p, i) \in Nat
    BY HopsCount
  <2>2. QED BY <1>1, <2>1 DEF HopsTo
<1>3. ASSUME NEW i \in 1 .. n
      PROVE  /\ Hops(p, i) = Hops(p, i - 1) + Cost(p[i])
             /\ HopsTo(p, i) = HopsTo(p, i - 1) + Cost(p[i])
  <2>1. i - 1 \in Nat /\ (i - 1) + 1 = i
    OBVIOUS
  <2>2. Hops(p, i) = Hops(p, i - 1) + Cost(p[i])
    BY <2>1, HopsCount
  <2>3. Hops(p, i - 1) \in Nat /\ Cost(p[i]) \in Nat
    BY <1>2, <2>1 DEF Cost
  <2>4. QED BY <1>1, <2>2, <2>3 DEF HopsTo
<1>4. ASSUME NEW i \in 0 .. n, NEW j \in 0 .. i
      PROVE  /\ HopsTo(p, j) <= HopsTo(p, i)
             /\ Allowed(Hops(p, i), config.extraHops) => Allowed(Hops(p, j), config.extraHops)
  <2>1. i \in Nat /\ j \in Nat
    OBVIOUS
  <2>2. Hops(p, j) <= Hops(p, i) /\ Hops(p, j) \in Nat /\ Hops(p, i) \in Nat
    BY <1>2, <2>1, HopsCount
  <2>3. QED BY <1>1, <2>2 DEF HopsTo, Allowed
<1>5. /\ p[0] = Seed /\ \A i \in 0 .. n : p[i] \in Urls
      /\ \A i \in 1 .. n : p[i] \in links[p[i - 1]] /\ p[i] \notin config.exclude
  BY DEF Ways
<1>6. QED BY <1>2, <1>3, <1>4, <1>5

\* Before the end of a way was crawled with its hops, a page with no more hops
\* is in the queue: the first one of the way that was not crawled so.
LEMMA WayIsQueued ==
  ASSUME ScopeInv, HopsInOrder, Single, \A w \in Workers : at[w] = Idle,
         NEW n \in Nat, NEW p \in Ways(Seed, Urls, n), NEW i \in 0 .. n,
         Allowed(Hops(p, i), config.extraHops),
         ~ \E e \in visited : e.url = p[i] /\ e.extraHops <= HopsTo(p, i)
  PROVE  \E e \in queue : e.extraHops <= HopsTo(p, i)
<1> DEFINE T == {j \in 0 .. i : ~ \E e \in visited : e.url = p[j] /\ e.extraHops <= HopsTo(p, j)}
<1>1. PICK m \in T : \A k \in T : m <= k
  <2>1. i \in T /\ T \in SUBSET Nat
    OBVIOUS
  <2> HIDE DEF T
  <2>2. QED BY <2>1, LeastNumber
<1>2. m \in 0 .. i /\ m \in 0 .. n /\ HopsTo(p, m) <= HopsTo(p, i) /\ HopsTo(p, m) \in Nat /\ HopsTo(p, i) \in Nat
  BY WayFacts
<1>3. ASSUME Near(p, m)
      PROVE  \E e \in queue : e.extraHops <= HopsTo(p, i)
  <2>1. PICK e \in queue : e.extraHops <= HopsTo(p, m)
    BY <1>1, <1>3 DEF Near, Found
  <2>2. e.extraHops \in Nat
    BY DEF ScopeInv, IInv, TypeOK, Entry
  <2>3. e.extraHops <= HopsTo(p, i)
    BY <1>2, <2>1, <2>2
  <2>4. QED BY <2>3
<1>4. CASE m = 0
  <2>1. PICK e \in Found : e.url = Seed /\ e.extraHops = config.extraHops
    BY DEF ScopeInv, Placed
  <2>2. p[m] = Seed /\ HopsTo(p, m) = config.extraHops
    <3>1. p[0] = Seed /\ Hops(p, 0) = 0
      BY WayFacts, HopsCount
    <3>2. config.extraHops \in Nat
      BY DEF ScopeInv, IInv, TypeOK, Config
    <3>3. QED BY <1>4, <3>1, <3>2 DEF HopsTo
  <2>3. e.extraHops <= HopsTo(p, m)
    BY <1>2, <2>1, <2>2
  <2>4. QED BY <1>3, <2>1, <2>2, <2>3 DEF Near
<1>5. CASE m # 0
  <2>1. m \in 1 .. n /\ m - 1 \in 0 .. i /\ m - 1 \notin T
    BY <1>1, <1>2, <1>5
  <2>2. PICK e \in visited : e.url = p[m - 1] /\ e.extraHops <= HopsTo(p, m - 1)
    BY <2>1
  <2>3. Followed(p, m)
    BY <1>2, <2>1, WayFacts DEF HopsInOrder
  <2>4. Near(p, m - 1)
    BY <2>2 DEF Near, Found
  <2>5. ~ \E f \in queue : f.url = p[m - 1]
    BY <2>2 DEF ScopeInv, Placed, Found
  <2>6. Near(p, m)
    BY <2>3, <2>4, <2>5 DEF Followed
  <2>7. QED BY <1>3, <2>6
<1>6. QED BY <1>4, <1>5

\* What a page or the sitemap reader queues: its hops follow its URL.
LEMMA QueuedHops ==
  ASSUME ScopeInv, Unlimited, NEW u \in Urls, NEW depth \in Int, NEW hops \in Nat, NEW noOOS \in BOOLEAN,
         depth < Cardinality(seen) + Depth \/ depth < Cardinality(seen),
         QueueInScopeUrl(u, depth, hops, noOOS), UNCHANGED visited
  PROVE  /\ Found \subseteq Found' /\ queue \subseteq queue'
         /\ \A f \in Found' \ Found :
              /\ f \in queue' /\ f.url = u /\ f.url \notin seen /\ f.extraHops = hops + Cost(u)
              /\ noOOS => f.extraHops = hops
         /\ u \notin seen /\ u \notin config.exclude
            /\ (u \in Include \/ MayHop(hops + 1, noOOS)) => \E f \in queue' : f.url = u
<1>1. CASE UNCHANGED <<queue, seen>>
  <2>1. u \in seen \/ ~IsIncluded(u, depth + 1, hops + 1, noOOS)
    BY <1>1, QueueCases
  <2>2. u \notin seen => (Included(u, depth + 1) <=> u \in Include)
    BY NotTooDeep DEF ScopeInv
  <2>3. QED BY <1>1, <2>1, <2>2 DEF Found, IsIncluded
<1>2. CASE ~(UNCHANGED <<queue, seen>>)
  <2> DEFINE new == [url |-> u, depth |-> depth + 1,
                     extraHops |-> IF IsOOS(u, depth + 1) THEN hops + 1 ELSE hops]
  <2>1. /\ u \notin seen /\ queue' = queue \cup {new}
        /\ IsIncluded(u, depth + 1, hops + 1, noOOS)
    BY <1>2, QueueCases
  <2>2. u # Seed
    BY <2>1 DEF ScopeInv, Placed
  <2>3. IsOOS(u, depth + 1) <=> u \notin Include
    BY <2>1, <2>2, NotTooDeep DEF ScopeInv, IsOOS
  <2>4. noOOS => ~IsOOS(u, depth + 1)
    BY <2>1, <2>2 DEF IsIncluded, IsOOS, MayHop
  <2>5. new.url = u /\ new.extraHops = hops + Cost(u) /\ (noOOS => new.extraHops = hops)
    BY <2>3, <2>4 DEF Cost
  <2> HIDE DEF new
  <2>6. QED BY <2>1, <2>5 DEF Found
<1>3. QED BY <1>1, <1>2

\* A page of more hops is found or crawled only when those of fewer are over.
LEMMA OverStep ==
  ASSUME ScopeInv, HopsInOrder, Single, [Next]_vars,
         NEW n \in Nat, NEW p \in Ways(Seed, Urls, n), NEW i \in 0 .. n,
         Allowed(Hops(p, i), config.extraHops), Beyond(HopsTo(p, i))'
  PROVE  Over(p[i])'
<1>s. UnchangedSeed
  BY DEF Next, vars, TakePage, AddLink, PageDone, EmitUrl, UnchangedSeed
<1>u. /\ Unlimited /\ HopsTo(p, i)' = HopsTo(p, i) /\ HopsTo(p, i) \in Nat /\ p[i] \in Urls
      /\ \A u : Cost(u)' = Cost(u)
  BY <1>s, SameSeed, WayFacts DEF Single
<1>t. /\ at \in [Workers -> Entry \cup {Idle}] /\ Found \subseteq Entry
      /\ \A w \in Workers : at[w] # Idle => at[w] \in Found /\ at[w] \in Entry
  BY ScopeAssumption DEF ScopeInv, IInv, TypeOK, Found
<1>h. Beyond(HopsTo(p, i)) => Over(p[i])
  BY DEF HopsInOrder
<1>1. ASSUME NEW w \in Workers, NEW e \in queue, TakePage(w, e) PROVE Over(p[i])'
  <2>1. /\ at[w] = Idle /\ w \in crew /\ \A f \in queue : Score(e) <= Score(f)
        /\ visited' = visited \cup {e} /\ Found' = Found /\ at' = [at EXCEPT ![w] = e]
    BY <1>1, TakeAccepted DEF ScopeInv
  <2>2. \A v \in Workers : at[v] = Idle
    BY <2>1 DEF Single, ScopeInv, Placed
  <2>3. Visited(p[i])
    <3>1. CASE Beyond(HopsTo(p, i))
      BY <1>h, <3>1 DEF Over
    <3>2. CASE ~Beyond(HopsTo(p, i))
      <4>1. e.extraHops > HopsTo(p, i)
        BY <1>u, <1>t, <2>1, <2>2, <3>2 DEF Beyond
      <4>2. ASSUME ~Visited(p[i]) PROVE FALSE
        <5>1. PICK f \in queue : f.extraHops <= HopsTo(p, i)
          BY <2>2, <4>2, WayIsQueued DEF Visited
        <5>2. e.extraHops <= f.extraHops
          BY <1>u, <2>1, TakesFewestHops
        <5>3. e.extraHops \in Nat /\ f.extraHops \in Nat
          BY DEF ScopeInv, IInv, TypeOK, Entry
        <5>4. QED BY <1>u, <4>1, <5>1, <5>2, <5>3
      <4>3. QED BY <4>2
    <3>3. QED BY <3>1, <3>2
  <2>4. e.url # p[i]
    BY <2>3 DEF Visited, ScopeInv, Placed, Found
  <2>5. \A v \in Workers : at'[v] # Idle => at'[v].url # p[i]
    BY <1>t, <2>1, <2>2, <2>4
  <2>6. Visited(p[i])'
    BY <2>1, <2>3 DEF Visited
  <2>7. QED BY <2>5, <2>6 DEF Over
<1>2. ASSUME NEW w \in Workers, NEW u \in Urls, AddLink(w, u) PROVE Over(p[i])'
  <2>1. /\ at[w] \in Found /\ at[w].depth \in Int /\ at[w].extraHops \in Nat /\ at[w] # Idle
        /\ QueueInScopeUrl(u, at[w].depth, at[w].extraHops, FALSE)
        /\ UNCHANGED <<at, visited>>
    BY <1>2, <1>t DEF AddLink, Entry
  <2>2. \A f \in Found' \ Found : f.url = u /\ f.extraHops = at[w].extraHops + Cost(u)
    BY <1>u, <2>1, QueuedHops DEF ScopeInv, DepthKept
  <2>3. Cost(u) \in Nat
    BY DEF Cost
  <2>4. \A f \in Found' \ Found :
          f.extraHops > HopsTo(p, i) + Cost(f.url) => at[w].extraHops > HopsTo(p, i)
    BY <1>u, <2>1, <2>2, <2>3
  <2>5. Beyond(HopsTo(p, i))
    BY <1>u, <2>1, <2>4 DEF Beyond
  <2>6. QED BY <1>h, <2>1, <2>5 DEF Over, Visited
<1>3. ASSUME NEW w \in Workers, PageDone(w) PROVE Over(p[i])'
  <2>1. at' = [at EXCEPT ![w] = Idle] /\ UNCHANGED <<queue, visited>>
    BY <1>3 DEF PageDone
  <2>2. \A v \in Workers : at'[v] # Idle => at'[v] = at[v]
    BY <1>t, <2>1
  <2>3. Beyond(HopsTo(p, i))
    BY <1>u, <2>1, <2>2 DEF Beyond, Found
  <2>4. QED BY <1>h, <2>1, <2>2, <2>3 DEF Over, Visited
<1>4. ASSUME NEW u \in Urls, EmitUrl(u) PROVE Over(p[i])'
  <2>1. QueueInScopeUrl(u, 0, 0, TRUE) /\ UNCHANGED <<at, visited>>
    BY <1>4 DEF EmitUrl
  <2>2. 0 \in Int /\ 0 < Cardinality(seen)
    BY FS_EmptySet, FS_CardinalityType DEF ScopeInv, Placed
  <2>3. \A f \in Found' \ Found : f.extraHops = 0
    BY <1>u, <2>1, <2>2, QueuedHops
  <2>4. \A v : Cost(v) \in Nat
    BY DEF Cost
  <2>5. Beyond(HopsTo(p, i))
    BY <1>u, <2>1, <2>3, <2>4 DEF Beyond
  <2>6. QED BY <1>h, <2>1, <2>5 DEF Over, Visited
<1>5. CASE UNCHANGED vars
  <2>1. UNCHANGED <<at, visited, queue>>
    BY <1>5 DEF vars
  <2>2. Beyond(HopsTo(p, i))
    BY <1>u, <2>1 DEF Beyond, Found
  <2>3. QED BY <1>h, <2>1, <2>2 DEF Over, Visited
<1>6. QED BY <1>1, <1>2, <1>3, <1>4, <1>5 DEF Next

\* A link of a way is followed with the hops of that way.
LEMMA FollowedStep ==
  ASSUME ScopeInv, HopsInOrder, Single, [Next]_vars,
         NEW n \in Nat, NEW p \in Ways(Seed, Urls, n), NEW i \in 1 .. n,
         Allowed(Hops(p, i), config.extraHops)
  PROVE  Followed(p, i)'
<1>s. UnchangedSeed
  BY DEF Next, vars, TakePage, AddLink, PageDone, EmitUrl, UnchangedSeed
<1>u. /\ Unlimited /\ \A j : HopsTo(p, j)' = HopsTo(p, j)
  BY <1>s, SameSeed DEF Single
<1>w. /\ i \in 0 .. n /\ i - 1 \in 0 .. n /\ i - 1 \in 0 .. i
      /\ p[i - 1] \in Urls /\ p[i] \in links[p[i - 1]] /\ p[i] \notin config.exclude
      /\ HopsTo(p, i - 1) \in Nat /\ HopsTo(p, i) = HopsTo(p, i - 1) + Cost(p[i])
      /\ Hops(p, i - 1) \in Nat /\ Hops(p, i) = Hops(p, i - 1) + Cost(p[i])
      /\ Allowed(Hops(p, i - 1), config.extraHops)
  <2>1. i \in 0 .. n /\ i - 1 \in 0 .. n /\ i - 1 \in 0 .. i
    OBVIOUS
  <2>2. QED BY <2>1, WayFacts
<1>t. /\ at \in [Workers -> Entry \cup {Idle}] /\ left \in [Workers -> SUBSET Urls]
      /\ Found \subseteq Entry
      /\ \A w \in Workers : at[w] # Idle => at[w] \in Found /\ at[w] \in Entry
      /\ config.extraHops \in Nat /\ config.maxExtraHops \in Nat
  BY ScopeAssumption DEF ScopeInv, IInv, TypeOK, Found, Config
<1>f. Followed(p, i)
  BY DEF HopsInOrder
<1>n. Found \subseteq Found' => /\ \A j : Near(p, j) => Near(p, j)'
  BY <1>u DEF Near
<1> SUFFICES ASSUME Near(p, i - 1)'
             PROVE  \/ Near(p, i)'
                    \/ \E e \in queue' : e.url = p[i - 1]
                    \/ \E w \in Workers : at'[w] # Idle /\ at'[w].url = p[i - 1] /\ p[i] \in left'[w]
  BY DEF Followed
<1> DEFINE Goal == \/ Near(p, i)'
                   \/ \E e \in queue' : e.url = p[i - 1]
                   \/ \E w \in Workers : at'[w] # Idle /\ at'[w].url = p[i - 1] /\ p[i] \in left'[w]
<1>q. ASSUME Found \subseteq Found', queue \subseteq queue', \A f \in Found' \ Found : f \in queue',
             \A w \in Workers : at[w] # Idle /\ at[w].url = p[i - 1] /\ p[i] \in left[w]
                                /\ Near(p, i - 1) => Goal
      PROVE  Goal
  <2>1. CASE Near(p, i - 1)
    BY <1>f, <1>n, <1>q, <2>1 DEF Followed
  <2>2. CASE ~Near(p, i - 1)
    <3>1. PICK f \in Found' : f.url = p[i - 1] /\ f.extraHops <= HopsTo(p, i - 1)
      BY <1>u DEF Near
    <3>2. f \in queue'
      BY <1>q, <2>2, <3>1 DEF Near
    <3>3. QED BY <3>1, <3>2
  <2>3. QED BY <2>1, <2>2
<1>1. ASSUME NEW w \in Workers, NEW e \in queue, TakePage(w, e) PROVE Goal
  <2>1. /\ at[w] = Idle /\ queue' = queue \ {e} /\ visited' = visited \cup {e} /\ Found' = Found
        /\ at' = [at EXCEPT ![w] = e] /\ left' = [left EXCEPT ![w] = links[e.url]]
    BY <1>1, TakeAccepted DEF ScopeInv
  <2>2. Near(p, i - 1)
    BY <1>u, <2>1 DEF Near
  <2>3. CASE Near(p, i)
    BY <1>n, <2>1, <2>3
  <2>4. ASSUME NEW f \in queue, f.url = p[i - 1] PROVE Goal
    <3>1. CASE f = e
      <4>1. at'[w] = e /\ left'[w] = links[e.url] /\ e # Idle
        BY <1>t, <2>1, ScopeAssumption DEF Found
      <4>2. QED BY <1>w, <2>4, <3>1, <4>1
    <3>2. CASE f # e
      BY <2>1, <2>4, <3>2
    <3>3. QED BY <3>1, <3>2
  <2>5. ASSUME NEW v \in Workers, at[v] # Idle, at[v].url = p[i - 1], p[i] \in left[v] PROVE Goal
    <3>1. at'[v] = at[v] /\ left'[v] = left[v]
      BY <1>t, <2>1, <2>5
    <3>2. QED BY <2>5, <3>1
  <2>6. QED BY <1>f, <2>2, <2>3, <2>4, <2>5 DEF Followed
<1>2. ASSUME NEW w \in Workers, NEW u \in Urls, AddLink(w, u) PROVE Goal
  <2>1. /\ at[w] \in Found /\ at[w] \in Entry /\ at[w].depth \in Int /\ at[w].extraHops \in Nat
        /\ at[w] # Idle /\ left' = [left EXCEPT ![w] = @ \ {u}]
        /\ QueueInScopeUrl(u, at[w].depth, at[w].extraHops, FALSE)
        /\ UNCHANGED <<at, visited>>
    BY <1>2, <1>t DEF AddLink, Entry
  <2>2. /\ Found \subseteq Found' /\ queue \subseteq queue'
        /\ \A f \in Found' \ Found : f \in queue' /\ f.url = u /\ f.extraHops = at[w].extraHops + Cost(u)
        /\ u \notin seen /\ u \notin config.exclude
           /\ (u \in Include \/ MayHop(at[w].extraHops + 1, FALSE)) => \E f \in queue' : f.url = u
    BY <1>u, <2>1, QueuedHops DEF ScopeInv, DepthKept
  <2>3. ASSUME at[w].url = p[i - 1], u = p[i], Near(p, i - 1)
        PROVE  Near(p, i)'
    <3>1. at[w].extraHops <= HopsTo(p, i - 1)
      BY <2>1, <2>3 DEF Near, ScopeInv, Placed
    <3>2. CASE u \in seen
      <4>1. PICK f \in Found : f.url = u
        BY <3>2 DEF ScopeInv, Placed
      <4>2. f.extraHops \in Nat /\ Cost(u) \in Nat
        BY <1>t DEF Cost, Entry
      <4>3. ~Over(p[i - 1])
        BY <2>1, <2>3 DEF Over
      <4>4. ~Beyond(HopsTo(p, i - 1))
        BY <1>w, <4>3 DEF HopsInOrder
      <4>5. f.extraHops <= HopsTo(p, i)
        BY <1>w, <2>3, <4>1, <4>2, <4>4 DEF Beyond
      <4>6. Near(p, i)
        BY <2>3, <4>1, <4>5 DEF Near
      <4>7. QED BY <1>n, <2>2, <4>6
    <3>3. CASE u \notin seen
      <4>1. u \in Include \/ MayHop(at[w].extraHops + 1, FALSE)
        <5>1. CASE u \notin Include
          <6>1. Cost(p[i]) = 1
            BY <2>3, <5>1 DEF Cost
          <6>2. HopsTo(p, i - 1) + 1 <= config.maxExtraHops
            BY <1>w, <1>t, <6>1 DEF Allowed, HopsTo
          <6>3. QED BY <1>w, <1>t, <2>1, <3>1, <6>2 DEF MayHop
        <5>2. QED BY <5>1
      <4>2. PICK f \in queue' : f.url = u
        BY <1>w, <2>2, <2>3, <3>3, <4>1
      <4>3. f \in Found' \ Found
        BY <3>3, <4>2 DEF Found, ScopeInv, Placed
      <4>4. f.extraHops = at[w].extraHops + Cost(u)
        BY <2>2, <4>3
      <4>5. Cost(u) \in Nat
        BY DEF Cost
      <4>6. f.extraHops <= HopsTo(p, i)
        BY <1>w, <2>1, <2>3, <3>1, <4>4, <4>5
      <4>7. QED BY <1>u, <2>3, <4>2, <4>3, <4>6 DEF Near
    <3>4. QED BY <3>2, <3>3
  <2>4. ASSUME NEW v \in Workers, at[v] # Idle, at[v].url = p[i - 1], p[i] \in left[v], Near(p, i - 1)
        PROVE  Goal
    <3>1. v = w
      BY <2>1, <2>4 DEF Single, ScopeInv, Placed
    <3>2. CASE u = p[i]
      BY <2>3, <2>4, <3>1, <3>2
    <3>3. CASE u # p[i]
      <4>1. p[i] \in left'[w]
        BY <1>t, <2>1, <2>4, <3>1, <3>3
      <4>2. QED BY <2>1, <2>4, <3>1, <4>1
    <3>4. QED BY <3>2, <3>3
  <2>5. QED BY <1>q, <2>2, <2>4
<1>3. ASSUME NEW w \in Workers, PageDone(w) PROVE Goal
  <2>1. /\ at' = [at EXCEPT ![w] = Idle] /\ left[w] = {} /\ UNCHANGED <<queue, visited, left>>
    BY <1>3 DEF PageDone
  <2>2. Found' = Found
    BY <2>1 DEF Found
  <2>3. ASSUME NEW v \in Workers, at[v] # Idle, at[v].url = p[i - 1], p[i] \in left[v]
        PROVE  Goal
    <3>1. at'[v] = at[v] /\ left'[v] = left[v]
      BY <1>t, <2>1, <2>3
    <3>2. QED BY <2>3, <3>1
  <2>4. QED BY <1>q, <2>1, <2>2, <2>3
<1>4. ASSUME NEW u \in Urls, EmitUrl(u) PROVE Goal
  <2>1. QueueInScopeUrl(u, 0, 0, TRUE) /\ UNCHANGED <<at, left, visited>>
    BY <1>4 DEF EmitUrl
  <2>2. 0 \in Int /\ 0 < Cardinality(seen)
    BY FS_EmptySet, FS_CardinalityType DEF ScopeInv, Placed
  <2>3. Found \subseteq Found' /\ queue \subseteq queue' /\ \A f \in Found' \ Found : f \in queue'
    BY <1>u, <2>1, <2>2, QueuedHops
  <2>4. QED BY <1>q, <2>1, <2>3
<1>5. CASE UNCHANGED vars
  <2>1. UNCHANGED <<queue, visited, at, left>>
    BY <1>5 DEF vars
  <2>2. Found' = Found
    BY <2>1 DEF Found
  <2>3. QED BY <1>q, <2>1, <2>2
<1>6. QED BY <1>1, <1>2, <1>3, <1>4, <1>5 DEF Next

LEMMA HopsInOrderInit ==
  ASSUME Init, ScopeInv
  PROVE  HopsInOrder
<1> DEFINE e == [url |-> Seed, depth |-> Depth, extraHops |-> config.extraHops]
<1>1. queue = {e} /\ Found = {e} /\ e.url = Seed /\ e.extraHops = config.extraHops
  BY DEF Init, Found
<1>2. \A w \in Workers : at[w] = Idle
  BY DEF Init
<1> HIDE DEF e
<1>3. config.extraHops \in Nat
  BY DEF ScopeInv, IInv, TypeOK, Config
<1> SUFFICES ASSUME NEW n \in Nat, NEW p \in Ways(Seed, Urls, n)
             PROVE  /\ \A i \in 1 .. n : Followed(p, i)
                    /\ \A i \in 0 .. n : ~Beyond(HopsTo(p, i))
  BY DEF HopsInOrder
<1>4. \A i : Followed(p, i)
  BY <1>1 DEF Followed, Near
<1>5. ASSUME NEW i \in 0 .. n PROVE ~Beyond(HopsTo(p, i))
  <2>1. Hops(p, i) \in Nat /\ Cost(Seed) \in Nat
    BY WayFacts DEF Cost
  <2>2. QED BY <1>1, <1>2, <1>3, <2>1 DEF Beyond, HopsTo
<1>6. QED BY <1>4, <1>5

LEMMA HopsInOrderStep ==
  ASSUME ScopeInv, HopsInOrder, [Next]_vars
  PROVE  HopsInOrder'
<1>s. UnchangedSeed
  BY DEF Next, vars, TakePage, AddLink, PageDone, EmitUrl, UnchangedSeed
<1>u. /\ Single' = Single /\ config' = config
      /\ \A n, p : p \in Ways(Seed, Urls, n)' <=> p \in Ways(Seed, Urls, n)
      /\ \A p, i : Allowed(Hops(p, i), config.extraHops)' <=> Allowed(Hops(p, i), config.extraHops)
  BY <1>s, SameSeed DEF Single, UnchangedSeed, Allowed
<1> SUFFICES ASSUME Single, NEW n \in Nat, NEW p \in Ways(Seed, Urls, n)
             PROVE  /\ \A i \in 1 .. n :
                         Allowed(Hops(p, i), config.extraHops) => Followed(p, i)'
                    /\ \A i \in 0 .. n :
                         Allowed(Hops(p, i), config.extraHops) /\ Beyond(HopsTo(p, i))' => Over(p[i])'
  BY <1>u DEF HopsInOrder
<1>1. QED BY FollowedStep, OverStep

\* With one worker, and no limit of depth, every page is crawled with the
\* fewest hops of all ways to it from the seed, since the queue is sorted by
\* hops (_getScore); whatever the sitemap reader queues meanwhile.
THEOREM OneWorkerFindsFewestHops == Spec => []FewestHops
<1>1. ScopeInv /\ HopsInOrder => FewestHops
  <2> SUFFICES ASSUME ScopeInv, HopsInOrder, Finished, Single,
                      NEW n \in 0 .. Cardinality(Urls) - 1, NEW p \in Ways(Seed, Urls, n),
                      Allowed(Hops(p, n), config.extraHops)
               PROVE  \E e \in visited : e.url = p[n] /\ e.extraHops <= config.extraHops + Hops(p, n)
    BY DEF FewestHops, Single
  <2>1. n \in Nat /\ n \in 0 .. n
    BY FS_CardinalityType DEF Single, Unlimited
  <2>2. queue = {} /\ \A w \in Workers : at[w] = Idle
    BY DEF Finished
  <2>3. QED BY <2>1, <2>2, WayIsQueued DEF HopsTo
<1>2. Init /\ ScopeInv => HopsInOrder
  BY HopsInOrderInit
<1>3. ScopeInv /\ HopsInOrder /\ [Next]_vars => HopsInOrder'
  BY HopsInOrderStep
<1>4. QED BY <1>1, <1>2, <1>3, ScopeInvHolds, PTL DEF Spec
-----------------------------------------------------------------------------
(* Each page is handed out once. *)

\* A page is at one worker.
Apart == \A v, w \in Workers : at[v] # Idle /\ at[v] = at[w] => v = w

\* With the entries that were crawled, no page is queued that is or was at a
\* worker.
LEMMA TakenIsNotQueued ==
  ASSUME ScopeInv, NEW w \in Workers, at[w] # Idle
  PROVE  ~Queued(at[w].url) /\ Visited(at[w].url) /\ at[w].url \in seen
BY DEF ScopeInv, IInv, Placed, Found, Queued, Visited

LEMMA ApartStep ==
  ASSUME ScopeInv, Apart, [Next]_vars
  PROVE  Apart'
<1>t. at \in [Workers -> Entry \cup {Idle}]
  BY DEF ScopeInv, IInv, TypeOK
<1>1. ASSUME NEW w \in Workers, NEW e \in queue, TakePage(w, e) PROVE Apart'
  <2>1. at' = [at EXCEPT ![w] = e]
    BY <1>1, TakeAccepted DEF ScopeInv
  <2>2. \A v \in Workers : at[v] # Idle => at[v] # e
    BY DEF ScopeInv, IInv, Placed
  <2>3. QED BY <1>t, <2>1, <2>2 DEF Apart
<1>2. ASSUME NEW w \in Workers, PageDone(w) PROVE Apart'
  BY <1>t, <1>2 DEF PageDone, Apart
<1>3. CASE \/ \E w \in Workers, u \in Urls : AddLink(w, u)
           \/ \E u \in Urls : EmitUrl(u)
           \/ UNCHANGED vars
  BY <1>3 DEF AddLink, EmitUrl, vars, Apart
<1>4. QED BY <1>1, <1>2, <1>3 DEF Next

\* A step that changes the place of one URL.
LEMMA OneMoves ==
  ASSUME NEW u \in Urls, NEW from, NEW to, placeBar[u] = from, placeBar'[u] = to,
         \A v \in Urls \ {u} : /\ Queued(v)' <=> Queued(v)
                               /\ AtWorker(v)' <=> AtWorker(v)
                               /\ v \in seen' <=> v \in seen
  PROVE  Frontier!Move(u, from, to)
<1>1. \A v \in Urls \ {u} : placeBar'[v] = placeBar[v]
  BY DEF placeBar
<1>2. placeBar' = [placeBar EXCEPT ![u] = to]
  <2>1. \A v \in Urls : placeBar'[v] = [placeBar EXCEPT ![u] = to][v]
    BY <1>1 DEF placeBar
  <2>2. QED BY <2>1 DEF placeBar
<1>3. QED BY <1>2 DEF Frontier!Move

\* And one that changes none.
LEMMA NoneMoves ==
  ASSUME \A v \in Urls : /\ Queued(v)' <=> Queued(v)
                         /\ AtWorker(v)' <=> AtWorker(v)
                         /\ v \in seen' <=> v \in seen,
         visited' = visited
  PROVE  UNCHANGED <<placeBar, triesBar>>
BY DEF placeBar, triesBar, Visited

\* What is queued was not seen, whoever passes it to queueInScopeUrls.
LEMMA QueueMoves ==
  ASSUME ScopeInv, NEW u \in Urls, NEW depth, NEW hops, NEW noOOS,
         QueueInScopeUrl(u, depth, hops, noOOS), UNCHANGED <<at, visited>>
  PROVE  Frontier!Discover(u) \/ UNCHANGED <<placeBar, triesBar>>
<1>1. CASE UNCHANGED <<queue, seen>>
  BY <1>1, NoneMoves DEF Queued, AtWorker
<1>2. ASSUME NEW new, new.url = u, u \notin seen, seen' = seen \cup {u},
             queue' = queue \cup {new}
      PROVE  Frontier!Discover(u)
  <2>1. ~Queued(u) /\ ~AtWorker(u)
    BY <1>2, TakenIsNotQueued DEF Queued, AtWorker, ScopeInv, Placed, Found
  <2>2. placeBar[u] = "unseen"
    BY <1>2, <2>1 DEF placeBar
  <2>3. Queued(u)'
    BY <1>2 DEF Queued
  <2>4. placeBar'[u] = "queued"
    BY <2>3 DEF placeBar
  <2>5. \A v \in Urls \ {u} : /\ Queued(v)' <=> Queued(v)
                              /\ AtWorker(v)' <=> AtWorker(v)
                              /\ v \in seen' <=> v \in seen
    BY <1>2 DEF Queued, AtWorker
  <2>6. triesBar' = triesBar
    BY DEF triesBar, Visited
  <2>7. QED BY <2>2, <2>4, <2>5, <2>6, OneMoves DEF Frontier!Discover
<1>3. QED BY <1>1, <1>2, QueueCases

LEMMA TakeMoves ==
  ASSUME ScopeInv, NEW w \in Workers, NEW e \in queue, TakePage(w, e)
  PROVE  e.url \in Urls /\ Frontier!HandOut(e.url)
<1>1. /\ at[w] = Idle /\ queue' = queue \ {e} /\ visited' = visited \cup {e}
      /\ at' = [at EXCEPT ![w] = e] /\ seen' = seen
  BY TakeAccepted DEF ScopeInv
<1>2. e \in Entry /\ e.url \in Urls /\ e # Idle /\ at \in [Workers -> Entry \cup {Idle}]
  BY ScopeAssumption DEF ScopeInv, IInv, TypeOK, Entry
<1> DEFINE u == e.url
<1>3. placeBar[u] = "queued"
  BY <1>2 DEF placeBar, Queued
<1>4. ~Queued(u)' /\ AtWorker(u)'
  <2>1. \A f \in queue' : f.url # u
    BY <1>1 DEF ScopeInv, Placed, Found
  <2>2. at'[w] = e
    BY <1>1, <1>2
  <2>3. QED BY <1>2, <2>1, <2>2 DEF Queued, AtWorker
<1>5. placeBar'[u] = "taken"
  BY <1>2, <1>4 DEF placeBar
<1>6. \A v \in Urls \ {u} : /\ Queued(v)' <=> Queued(v)
                            /\ AtWorker(v)' <=> AtWorker(v)
                            /\ v \in seen' <=> v \in seen
  BY <1>1, <1>2 DEF Queued, AtWorker
<1>7. triesBar' = [triesBar EXCEPT ![u] = @ + 1]
  <2>1. ~Visited(u)
    BY DEF Visited, ScopeInv, Placed, Found
  <2>2. \A v \in Urls : Visited(v)' <=> (v = u \/ Visited(v))
    BY <1>1 DEF Visited
  <2>3. \A v \in Urls : triesBar'[v] = [triesBar EXCEPT ![u] = @ + 1][v]
    BY <1>2, <2>1, <2>2 DEF triesBar
  <2>4. QED BY <2>3 DEF triesBar
<1>8. QED BY <1>2, <1>3, <1>5, <1>6, <1>7, OneMoves DEF Frontier!HandOut

LEMMA DoneMoves ==
  ASSUME ScopeInv, Apart, NEW w \in Workers, PageDone(w)
  PROVE  at[w].url \in Urls /\ Frontier!Retire(at[w].url)
<1>1. /\ at[w] # Idle /\ at' = [at EXCEPT ![w] = Idle] /\ UNCHANGED <<queue, seen, visited>>
  BY DEF PageDone
<1>2. /\ at \in [Workers -> Entry \cup {Idle}] /\ at[w].url \in Urls
      /\ ~Queued(at[w].url) /\ at[w].url \in seen
  BY <1>1, TakenIsNotQueued DEF ScopeInv, IInv, TypeOK, Entry
<1>3. PICK u \in Urls : u = at[w].url
  BY <1>2
<1>4. placeBar[u] = "taken"
  BY <1>1, <1>2, <1>3 DEF placeBar, AtWorker
<1>5. ~AtWorker(u)'
  <2>1. \A v \in Workers : at[v] # Idle /\ at[v].url = u => v = w
    BY <1>1, <1>3 DEF ScopeInv, IInv, Placed, Found, Apart
  <2>2. QED BY <1>1, <1>2, <2>1 DEF AtWorker
<1>6. placeBar'[u] = "gone"
  BY <1>1, <1>2, <1>3, <1>5 DEF placeBar, Queued
<1>7. \A v \in Urls \ {u} : /\ Queued(v)' <=> Queued(v)
                            /\ AtWorker(v)' <=> AtWorker(v)
                            /\ v \in seen' <=> v \in seen
  BY <1>1, <1>2, <1>3 DEF Queued, AtWorker
<1>8. triesBar' = triesBar
  BY <1>1 DEF triesBar, Visited
<1>9. QED BY <1>3, <1>4, <1>6, <1>7, <1>8, OneMoves DEF Frontier!Retire

\* For any site, scope and number of workers: each page is queued once, handed
\* to one worker once, and is gone when the worker leaves it; no page returns to
\* unseen because the scope lost it between addLink and the worker.
THEOREM EachPageIsCrawledOnce == Spec => CrawledOnce
<1>1. Init => Frontier!FrontierInit /\ Apart
  BY DEF Init, Frontier!FrontierInit, placeBar, triesBar, Queued, AtWorker, Visited, Apart
<1>2. ScopeInv /\ Apart /\ [Next]_vars => [Frontier!FrontierNext]_(Frontier!frontierVars)
  <2> SUFFICES ASSUME ScopeInv, Apart, [Next]_vars
               PROVE  Frontier!FrontierNext \/ UNCHANGED <<placeBar, triesBar>>
    BY DEF Frontier!frontierVars
  <2>1. ASSUME NEW u \in Urls, EmitUrl(u) \/ \E w \in Workers : AddLink(w, u)
        PROVE  Frontier!FrontierNext \/ UNCHANGED <<placeBar, triesBar>>
    <3>1. PICK depth, hops, noOOS : QueueInScopeUrl(u, depth, hops, noOOS)
      BY <2>1 DEF EmitUrl, AddLink
    <3>2. UNCHANGED <<at, visited>>
      BY <2>1 DEF EmitUrl, AddLink
    <3>3. QED BY <3>1, <3>2, QueueMoves DEF Frontier!FrontierNext
  <2>2. ASSUME NEW w \in Workers, NEW e \in queue, TakePage(w, e) PROVE Frontier!FrontierNext
    BY <2>2, TakeMoves DEF Frontier!FrontierNext
  <2>3. ASSUME NEW w \in Workers, PageDone(w) PROVE Frontier!FrontierNext
    BY <2>3, DoneMoves DEF Frontier!FrontierNext
  <2>4. CASE UNCHANGED vars
    BY <2>4, NoneMoves DEF vars, Queued, AtWorker
  <2>5. QED BY <2>1, <2>2, <2>3, <2>4 DEF Next
<1>3. ScopeInv /\ Apart /\ [Next]_vars => Apart'
  BY ApartStep
<1>4. QED
  BY <1>1, <1>2, <1>3, ScopeInvHolds, PTL DEF Spec, CrawledOnce, Frontier!FrontierSpec
=============================================================================
