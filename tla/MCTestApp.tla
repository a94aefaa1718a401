----------------------------- MODULE MCTestApp -----------------------------
(***************************************************************************)
(* An instance of TestApp for TLC.                                         *)
(***************************************************************************)
EXTENDS TestApp, TLC

CONSTANTS k1, k2

MCDemoKeys == <<k1, k2>>

Symmetry == Permutations(Handlers) \cup Permutations(Flights)
=============================================================================
