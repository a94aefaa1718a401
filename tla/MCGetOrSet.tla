----------------------------- MODULE MCGetOrSet -----------------------------
(***************************************************************************)
(* Instances of GetOrSet for TLC.                                          *)
(***************************************************************************)
EXTENDS GetOrSet, TLC

CONSTANTS p, q   \* cache objects
CONSTANTS a, b   \* callers

(* Both callers on one cache object, or one each.                          *)
SharedHome == [c \in Callers |-> p]
SplitHome  == [c \in Callers |-> IF c = a THEN p ELSE q]

(* Past the last tick only deadlines are reached.                          *)
MCInstants == 0 .. MaxTime + 4

Symmetry == Permutations(Flights)

CallerSymmetry == Permutations(Flights) \cup Permutations(Callers)
=============================================================================
