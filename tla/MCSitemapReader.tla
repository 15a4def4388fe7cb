-------------------------- MODULE MCSitemapReader -------------------------
(***************************************************************************)
(* Values of the constants of SitemapReader for TLC: an index s0 and a     *)
(* file s1 that list each other, and a file of pages that three files      *)
(* list.                                                                   *)
(***************************************************************************)
EXTENDS SitemapReader

CONSTANTS s0, s1, s2, s3, g1, g2, g3

Tree == [s \in Sitemaps |->
           CASE s = s0 -> {s1, s2, s3}
             [] s = s1 -> {s0, s2, g3}
             [] s = s2 -> {g1, g2}
             [] s = s3 -> {s2}]
===========================================================================
