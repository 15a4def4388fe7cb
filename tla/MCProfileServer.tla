-------------------------- MODULE MCProfileServer -------------------------
(***************************************************************************)
(* Values of the constants of ProfileServer for TLC: two origins, and      *)
(* cookies that are named after the origin they belong to.                 *)
(***************************************************************************)
EXTENDS ProfileServer

CONSTANTS a, b, r1, r2, l1

Owner == [c \in Cookies |-> c]

Line(automated, user, wait, days) ==
  [user |-> user, password |-> FALSE, automated |-> automated,
   shutdownWait |-> wait, cookieDays |-> days]

CommandLines == {Line(FALSE, FALSE, 0, 0), Line(FALSE, FALSE, 1, 7),
                 Line(FALSE, TRUE, 0, 0)}
===========================================================================
