---------------------------- MODULE MCLoadGroup ----------------------------
(***************************************************************************)
(* LoadGroup for TLC.  Three flights are enough for one key to have a      *)
(* running flight while two forgotten ones are still delivering.           *)
(***************************************************************************)
EXTENDS LoadGroup

CONSTANTS k1, k2, c1, c2, f1, f2, f3, v, w
=============================================================================
