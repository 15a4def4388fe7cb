--------------------------- MODULE MCCrawlWorkers -------------------------
(***************************************************************************)
(* Values of the constants of CrawlWorkers for TLC.                        *)
(***************************************************************************)
EXTENDS CrawlRefinement

CONSTANTS u1, u2, u3, w1, w2, p1, p2

OneUrl == {u1}
TwoUrls == {u1, u2}
ThreeUrls == {u1, u2, u3}

\* Each worker in a process of its own.
OwnProcess == [w \in Workers |-> IF w = w1 THEN p1 ELSE p2]

\* u1 links to every page and every page back to u1.
StarLinks == [u \in Urls |-> IF u = u1 THEN Urls ELSE {u1}]
\* u1 links to the others, one of which links back.
ForkLinks == [u \in Urls |-> IF u = u1 THEN Urls \ {u1}
                             ELSE IF u = u2 THEN {u1} ELSE {}]

NoRedirects == [u \in Urls |-> u]
\* The second page redirects to the first.
RedirectsBack == [u \in Urls |-> IF u = u2 THEN u1 ELSE u]

MinusOne == -1
===========================================================================
