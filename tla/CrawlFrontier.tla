---------------------------- MODULE CrawlFrontier -------------------------
(***************************************************************************)
(* What the shared crawl state promises for every URL, whoever calls it    *)
(* and in whatever order: a URL is discovered once, handed out a bounded   *)
(* number of times, and never comes back once it is gone.                  *)
(***************************************************************************)
EXTENDS Naturals

CONSTANTS Urls,
          MaxTries   \* a positive number

VARIABLES
  place,   \* of each URL: "unseen", "queued", "taken" or "gone"
  tries    \* how often each URL was handed out

frontierVars == <<place, tries>>

\* A crawl begins with some URLs queued, or with none.
FrontierInit ==
  /\ place \in [Urls -> {"unseen", "queued"}]
  /\ tries = [u \in Urls |-> 0]

Move(u, from, to) == place[u] = from /\ place' = [place EXCEPT ![u] = to]

Discover(u) == Move(u, "unseen", "queued") /\ UNCHANGED tries

\* A URL that is only recorded, and never crawled.
Record(u) == Move(u, "unseen", "gone") /\ UNCHANGED tries

HandOut(u) ==
  /\ Move(u, "queued", "taken")
  /\ tries' = [tries EXCEPT ![u] = @ + 1]

GiveBack(u) ==
  /\ tries[u] < MaxTries
  /\ Move(u, "taken", "queued")
  /\ UNCHANGED tries

Retire(u) == Move(u, "taken", "gone") /\ UNCHANGED tries

FrontierNext ==
  \E u \in Urls : \/ Discover(u) \/ Record(u)
                  \/ HandOut(u) \/ GiveBack(u) \/ Retire(u)

FrontierSpec == FrontierInit /\ [][FrontierNext]_frontierVars
===========================================================================
