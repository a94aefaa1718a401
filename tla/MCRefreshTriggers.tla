------------------------- MODULE MCRefreshTriggers -------------------------
(***************************************************************************)
(* Instances of RefreshTriggers for TLC, with the callers and cache        *)
(* objects of MCGetOrSet.                                                  *)
(***************************************************************************)
EXTENDS RefreshTriggers, MCGetOrSet
=============================================================================
