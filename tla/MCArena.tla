------------------------------ MODULE MCArena ------------------------------
(* Model checking of Arena on small sizes: see MCArena.cfg. *)
EXTENDS Arena, TLC

(* Chunks and handles are interchangeable: malloc may return any free      *)
(* chunk, and no action tells one handle from another.                     *)
Symmetry == Permutations(Chunks) \cup Permutations(Handles)
=============================================================================
