------------------------------- MODULE MCOops -------------------------------
(* Model checking of Oops with two threads and two classes: see MCOops.cfg. *)
EXTENDS Oops

CONSTANTS t1, t2, k1, k2, n1, n2, n3

Records == [u \in Threads |-> IF u = t1 THEN {7} ELSE {8}]
Addresses_k == [i \in Classes |-> IF i = k1 THEN <<0, 1>> ELSE <<1, 1>>]

(* k1 has a method of the name of one of Root, public or private, k2 one of a new name. *)
Vtable == <<n2, n1, n1, n2>>
Names == [i \in Classes |-> IF i = k1 THEN n1 ELSE n3]
Flags == [i \in Classes |-> IF i = k1 THEN {{0}, {1}} ELSE {{0}}]
(* One code fills its last word, the other does not. *)
Codes == [i \in Classes |-> IF i = k1 THEN <<7, 8, 9>> ELSE <<5, 6>>]
Pools == [i \in Classes |->
    IF i = k1 THEN <<"Class", "Utf8", "MethodHandle", "Long", "Methodref">>
    ELSE <<"String", "MethodType", "Dynamic", "NameAndType", "Integer">>]
=============================================================================
