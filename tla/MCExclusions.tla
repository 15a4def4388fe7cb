---------------------------- MODULE MCExclusions --------------------------
(***************************************************************************)
(* Values of the constants of Exclusions for TLC.                          *)
(***************************************************************************)
EXTENDS Exclusions

CONSTANTS u1, u2, w1, w2, p1, p2

TwoUrls == {u1, u2}
OwnProcess == [w \in Workers |-> IF w = w1 THEN p1 ELSE p2]
BothWays == [u \in Urls |-> Urls \ {u}]
MinusOne == -1
===========================================================================
