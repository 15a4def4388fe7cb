--------------------------- MODULE CrawlRefinement ------------------------
(***************************************************************************)
(* CrawlWorkers implements CrawlFrontier.  The place of a URL is read off  *)
(* the keys of the crawl state, never off what a worker remembers.         *)
(***************************************************************************)
EXTENDS CrawlWorkers

placeBar == [u \in Urls |-> PlaceOf(u)]

Frontier == INSTANCE CrawlFrontier
              WITH place <- placeBar, tries <- handed,
                   MaxTries <- MaxRetryPending + 1

\* Every step of every worker and process, late calls and crashes included,
\* moves each URL as the frontier promises or leaves it where it is.
ImplementsFrontier == Frontier!FrontierSpec
===========================================================================
