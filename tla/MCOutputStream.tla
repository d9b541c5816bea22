--------------------------- MODULE MCOutputStream ---------------------------
(* Model checking of OutputStream on small sizes: see MCOutputStream*.cfg. *)
EXTENDS OutputStream

CONSTANTS a, b

(* Nothing, letters only, a tab after a letter, a line break in the middle. *)
Printed == {<<>>, <<a, b>>, <<a, b, a>>, <<b, Tab>>, <<a, Newline, b>>}
=============================================================================
