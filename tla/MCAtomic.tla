------------------------------ MODULE MCAtomic ------------------------------
(* Model checking of Atomic on small words: see MCAtomic*.cfg. *)
EXTENDS Atomic, TLC

Symmetry == Permutations(Threads)
=============================================================================
