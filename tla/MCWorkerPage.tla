---------------------------- MODULE MCWorkerPage --------------------------
(***************************************************************************)
(* WorkerPage for TLC: the origins are interchangeable.                    *)
(***************************************************************************)
EXTENDS WorkerPage, TLC

CONSTANTS o1, o2

Symmetry == Permutations(Origins)
===========================================================================
