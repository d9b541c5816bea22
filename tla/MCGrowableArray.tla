-------------------------- MODULE MCGrowableArray --------------------------
(* Model checking of GrowableArray on small sizes: see MCGrowableArray*.cfg. *)
EXTENDS GrowableArray, TLC

Symmetry == Permutations(Arrays) \cup Permutations(Blocks) \cup Permutations(Values)
=============================================================================
