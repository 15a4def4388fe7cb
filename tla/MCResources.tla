---------------------------- MODULE MCResources ---------------------------
(***************************************************************************)
(* Two pages of one site, in one window or two; the URL of the second      *)
(* redirects to a name below it.  The first uses a stylesheet that imports *)
(* one from a host of advertisements, which names the second page, and     *)
(* which that page uses as well; both have names below that of the first.  *)
(***************************************************************************)
EXTENDS Resources, TLC

CONSTANTS home, docs, docsIndex, css, ad

PageHome == (1 :> home) @@ (2 :> docs)
RedirectOf == [u \in Urls |-> IF u = docs THEN docsIndex ELSE Nothing]
LinksOf == [u \in Urls |-> CASE u = home -> {css}
                             [] u = docsIndex -> {ad}
                             [] u = css -> {ad}
                             [] u = ad -> {docs}
                             [] OTHER -> {}]
TypeOfUrl == [u \in Urls |-> IF u \in {css, ad} THEN "stylesheet" ELSE "document"]
PathOfUrl == [u \in Urls |-> u]
DirOfPath == (docsIndex :> docs) @@ (css :> home) @@ (ad :> home) @@ [f \in Paths |-> Nothing]
HowStarted == {<<TRUE, (1 :> 1) @@ (2 :> 2)>>, <<FALSE, (1 :> 1) @@ (2 :> 1)>>}
=============================================================================
