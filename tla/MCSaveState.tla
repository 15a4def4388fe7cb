---------------------------- MODULE MCSaveState ---------------------------
(***************************************************************************)
(* Values of the constants of SaveState for TLC: a seed and a deeper URL.  *)
(***************************************************************************)
EXTENDS SaveState, TLC

CONSTANTS u1, u2, w1, w2

ScoreOf == [u \in Urls |-> IF u = u1 THEN 0 ELSE 1]
RankOf == [u \in Urls |-> IF u = u1 THEN 1 ELSE 2]

\* On a Redis of its own, and on the old one with a URL gone out of scope.
HowLoaded == {[fresh |-> TRUE, inScope |-> Urls],
              [fresh |-> FALSE, inScope |-> {u2}]}

\* The workers differ in nothing but their names.
Symmetry == Permutations(Workers)
===========================================================================
