--------------------------- MODULE MCGetOrSetMany ---------------------------
(***************************************************************************)
(* Instances of GetOrSetMany for TLC.                                      *)
(***************************************************************************)
EXTENDS GetOrSetMany, TLC

CONSTANTS k1, k2

(* A list with a duplicate, and one that overlaps it.                      *)
MCKeyLists == {<<k1, k2, k1>>, <<k2>>}

Symmetry == Permutations(Callers)
=============================================================================
