--------------------------- MODULE MCResourceArea ---------------------------
(* Model checking of ResourceArea on small sizes: see MCResourceArea*.cfg. *)
EXTENDS ResourceArea, TLC

Symmetry == Permutations(Chunks) \cup Permutations(Handles)
=============================================================================
