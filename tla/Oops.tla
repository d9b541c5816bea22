-------------------------------- MODULE Oops --------------------------------
(***************************************************************************)
(* oops/oop.hpp: an object whose header threads share (SharedHeader) and   *)
(* whose class they have loaded, linked and initialized (ClassMetadata),   *)
(* all under one spin lock (SpinLock).                                     *)
(*                                                                         *)
(* An address is a pair of halves, the high one first, as the union of     *)
(* oopDesc overlays them: _compressed_klass is the low half of _klass.     *)
(* Clients store a compressed class only if its address has no high half.  *)
(***************************************************************************)
EXTENDS SharedHeader, ClassMetadata

CONSTANTS
    AddressOf,  \* of each class
    Garbage     \* a half that memory holds before an object is made there

Null == <<0, 0>>

ASSUME AddressAssumption ==
    /\ AddressOf \in [Classes -> Nat \X Nat]
    /\ \A k \in Classes : AddressOf[k] # Null /\ Garbage \notin {0, AddressOf[k][1]}
    /\ \A j, k \in Classes : AddressOf[j] = AddressOf[k] => j = k

VARIABLES
    metadata,  \* the union of the object
    of,        \* history: the class last stored, the object's class
    over       \* history: whether since set_klass of a class with a high half
               \* only compressed classes were stored, over its low half

objectVars == <<metadata, of, over>>
oopsVars == <<lockVars, headerVars, classVars, objectVars>>

-----------------------------------------------------------------------------
(* oopDesc *)

(* The constructor, whatever memory held before. *)
oopDesc(halves) == Null

compressed_klass == metadata[2]

(* Mutant: set_klass stores through the compressed member. *)
set_klass_LowHalf(k) == metadata' = <<metadata[1], AddressOf[k][2]>>
set_klass(k) == metadata' = AddressOf[k]
set_compressed_klass(nk) == metadata' = <<metadata[1], nk>>

(* The class at the address klass() gives, and the virtual predicates that *)
(* are true of it: every class of the repository is an InstanceKlass. At   *)
(* any other address they are undefined, and nothing is claimed of them.   *)
Pointed == {k \in Classes : metadata = AddressOf[k]}
Table(k) == InstanceKlass_table
is_instance == metadata # Null /\ \E k \in Pointed : "is_instance_klass" \in Table(k)
is_array == metadata # Null /\ \E k \in Pointed : "is_array_klass" \in Table(k)
is_objArray == metadata # Null /\ \E k \in Pointed : "is_objArray_klass" \in Table(k)
is_typeArray == metadata # Null /\ \E k \in Pointed : "is_typeArray_klass" \in Table(k)

-----------------------------------------------------------------------------
(* A bound: the classes are initialized before there is an object. *)
Settled == \A k \in Classes : is_initialized(k)

NewObject ==
    /\ stage = "none" /\ Quiet /\ Settled
    /\ stage' = "fresh"
    /\ metadata' = oopDesc(<<Garbage, Garbage>>)
    /\ of' = NoClass /\ over' = FALSE
    /\ UNCHANGED <<mark, meant, seen, told, displaced>>

(* The creator gives the object its class, as often as it likes. *)
SetKlass(k) ==
    /\ stage = "fresh" /\ Quiet
    /\ set_klass(k)
    /\ of' = k /\ over' = FALSE
    /\ UNCHANGED headerVars

SetCompressedKlass(k) ==
    /\ stage = "fresh" /\ Quiet
    /\ AddressOf[k][1] = 0
    /\ set_compressed_klass(AddressOf[k][2])
    /\ of' = k
    /\ over' = (over \/ (of # NoClass /\ AddressOf[of][1] # 0))
    /\ UNCHANGED headerVars

-----------------------------------------------------------------------------
OopsInit ==
    /\ LockInit /\ HeaderInit /\ ClassInit
    /\ metadata = <<Garbage, Garbage>>
    /\ of = NoClass /\ over = FALSE

(* What a thread does once it is in an operation. *)
Operate(t) ==
    \/ Acquire(t) /\ UNCHANGED <<headerVars, classVars, objectVars>>
    \/ Release(t) /\ UNCHANGED <<headerVars, classVars, objectVars>>
    \/ HeaderStep(t) /\ UNCHANGED <<classVars, objectVars>>
    \/ stage = "none" /\ ClassStep(t) /\ UNCHANGED <<headerVars, objectVars>>
    \/ /\ Working(t) /\ seen[t] = NoWord /\ busy[t] = <<>>
       /\ Finish(t)
       /\ UNCHANGED <<headerVars, classVars, objectVars>>

OopsNext ==
    \/ \E t \in Threads :
          \/ (Start(t) \/ Spin(t)) /\ UNCHANGED <<headerVars, classVars, objectVars>>
          \/ Operate(t)
    \/ NewObject /\ UNCHANGED <<lockVars, classVars>>
    \/ \E k \in Classes :
          (SetKlass(k) \/ SetCompressedKlass(k)) /\ UNCHANGED <<lockVars, classVars>>
    \/ of # NoClass /\ (Prepare \/ Share) /\ UNCHANGED <<lockVars, classVars, objectVars>>

(* The operating system lets a thread that is in an operation run on; it   *)
(* need not begin another one.                                             *)
OopsSpec ==
    /\ OopsInit /\ [][OopsNext]_oopsVars
    /\ \A t \in Threads : WF_oopsVars(Operate(t))

-----------------------------------------------------------------------------
(* Properties *)

(* Type invariant. *)
OopsTypeOK ==
    /\ LockTypeOK /\ HeaderTypeOK /\ ClassTypeOK
    /\ metadata \in ({0, Garbage} \cup {AddressOf[k][1] : k \in Classes})
                      \X ({0, Garbage} \cup {AddressOf[k][2] : k \in Classes})
    /\ of \in Classes \cup {NoClass}
    /\ over \in BOOLEAN

(* However often its class is stored and through which half, the low half  *)
(* is that of the last one. klass() leads to it, initialized and not an    *)
(* array, exactly if no compressed class was stored over one whose high    *)
(* half set_klass left in the union. Before the first it leads nowhere.    *)
KlassReachable ==
    /\ stage # "none" /\ of = NoClass => metadata = Null
    /\ of # NoClass =>
          /\ compressed_klass = AddressOf[of][2]
          /\ Pointed = {of} <=> ~over
          /\ ~over => is_instance /\ ~(is_array \/ is_objArray \/ is_typeArray)
          /\ is_initialized(of) /\ code_size(method[of].constMethod) = Len(CodeOf[of])
=============================================================================
