-------------------------------- MODULE MCScope -----------------------------
(***************************************************************************)
(* Scope for TLC: a seed, two pages in its scope and two out of it, one of *)
(* which may be excluded; every graph of them in which pages out of scope  *)
(* are linked from the seed or from each other.                            *)
(***************************************************************************)
EXTENDS Scope, TLC

CONSTANTS s, a, b, x, y, w1, w2

MCUrls == {s, a, b, x, y}
MCInScope == {a, b}

Targets == (s :> {a, x}) @@ (a :> {b}) @@ (b :> {y}) @@ (x :> {b, y}) @@ (y :> {a})
MCGraphs ==
  {[u \in MCUrls |-> {v \in Targets[u] : <<u, v>> \in e}] :
     e \in SUBSET {p \in MCUrls \X MCUrls : p[2] \in Targets[p[1]]}}

MCConfigs ==
  {c \in [scopeType : {"page", "prefix"}, depth : {-1, 1}, extraHops : 0 .. 1,
          maxExtraHops : 0 .. 2, exclude : {{}, {a}}] :
     c.scopeType = "page" => c.depth = -1 /\ c.exclude = {}}
MCSitemaps == {{}, {b, y}}

Symmetry == Permutations(Workers)
=============================================================================
