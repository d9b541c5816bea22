----------------------------- MODULE Oops_proofs -----------------------------
(***************************************************************************)
(* What is true of an object, its header and its classes in every state,   *)
(* for any threads, classes, addresses and layout of the mark word. The    *)
(* invariant is the conjunction of those of the parts with what relates    *)
(* them: an object is made when nobody is in an operation and the classes  *)
(* are initialized, so that no step on the classes overlaps its life.      *)
(***************************************************************************)
EXTENDS Oops, SharedHeader_proofs, ClassMetadata_proofs

Halves(i) == {0, Garbage} \cup {AddressOf[k][i] : k \in Classes}

(* The low half is of's, and so is the high one unless of was stored over  *)
(* one that is not 0, as its own is.                                       *)
HalvesStored ==
    /\ metadata[2] = AddressOf[of][2]
    /\ ~over => metadata[1] = AddressOf[of][1]
    /\ over => metadata[1] # 0 /\ AddressOf[of][1] = 0

ObjectInv ==
    /\ metadata \in Halves(1) \X Halves(2)
    /\ of \in Classes \cup {NoClass}
    /\ stage = "none" => of = NoClass
    /\ stage # "none" => Settled /\ \A t \in Threads : busy[t] = <<>>
    /\ stage # "none" /\ of = NoClass => metadata = Null
    /\ over \in BOOLEAN
    /\ over => of # NoClass
    /\ of # NoClass => HalvesStored

OopsInv == LockInv /\ HeaderInv /\ ClassInv /\ ObjectInv

-----------------------------------------------------------------------------
(* At first *)

(* The address of a class is one of the values an object's union may have. *)
LEMMA ClassAddress ==
    ASSUME NEW k \in Classes
    PROVE  /\ AddressOf[k] \in Nat \X Nat /\ AddressOf[k] = <<AddressOf[k][1], AddressOf[k][2]>>
           /\ AddressOf[k] \in Halves(1) \X Halves(2)
<1>1. AddressOf[k] \in Nat \X Nat
  BY AddressAssumption
<1>2. AddressOf[k] = <<AddressOf[k][1], AddressOf[k][2]>>
  BY <1>1
<1>3. AddressOf[k][1] \in Halves(1) /\ AddressOf[k][2] \in Halves(2)
  BY DEF Halves
<1> QED BY <1>1, <1>2, <1>3

(* There is no object, and no class is loaded. *)
LEMMA OopsInitially == OopsInit => OopsInv
<1> SUFFICES ASSUME OopsInit PROVE OopsInv
  OBVIOUS
<1>1. LockInv /\ HeaderInv /\ ClassInv
  BY LockInitially, HeaderInitially, ClassInitially DEF OopsInit
<1>2. stage = "none" /\ of = NoClass /\ over = FALSE
  BY DEF OopsInit, HeaderInit
<1>3. metadata \in Halves(1) \X Halves(2)
  BY DEF OopsInit, Halves
<1> QED BY <1>1, <1>2, <1>3 DEF OopsInv, ObjectInv

-----------------------------------------------------------------------------
(* What a step leaves alone *)

(* Nothing of a part changes if neither it nor the lock does. *)
LEMMA PartsStay ==
    ASSUME OopsInv, UNCHANGED lockVars
    PROVE  /\ LockInv'
           /\ UNCHANGED headerVars => HeaderInv'
           /\ UNCHANGED classVars => ClassInv'
<1>1. \A u \in Threads : Working(u)' <=> Working(u)
  BY DEF lockVars, Working
<1>2. LockInv'
  BY DEF OopsInv, LockInv, lockVars, LockTypeOK, L!MutualExclusion, L!Holds
<1>3. ASSUME UNCHANGED headerVars PROVE HeaderInv'
  BY <1>1, <1>3 DEF OopsInv, HeaderInv, headerVars, HashAgreed, DisplacedKept
<1>4. ASSUME UNCHANGED classVars PROVE ClassInv'
  BY <1>1, <1>4, LockKeepsClasses DEF OopsInv, ClassInv, Loading
<1> QED BY <1>2, <1>3, <1>4

(* The object stays as it is while its stage and its classes do.           *)
LEMMA ObjectStays ==
    ASSUME ObjectInv, UNCHANGED objectVars, stage' = stage \/ of # NoClass,
           stage' # "none" <=> stage # "none",
           stage # "none" => UNCHANGED classVars
    PROVE  ObjectInv'
<1>1. metadata' = metadata /\ of' = of /\ over' = over
  BY DEF objectVars
<1>2. stage # "none" => Settled' /\ \A t \in Threads : busy'[t] = <<>>
  BY DEF ObjectInv, classVars, Settled, is_initialized
<1> QED BY <1>1, <1>2 DEF ObjectInv, Halves, HalvesStored

-----------------------------------------------------------------------------
(* One step of a thread *)

(* A step of the lock alone: the thread is not in an operation, or in one  *)
(* that does nothing but end.                                              *)
LEMMA LockStepKeeps ==
    ASSUME OopsInv, NEW t \in Threads, LockStep(t),
           UNCHANGED <<headerVars, classVars, objectVars>>,
           Working(t) => seen[t] = NoWord /\ busy[t] = <<>>
    PROVE  OopsInv'
<1>1. LockInv' /\ HeaderInv'
  BY LockKept, LockKeepsHeader DEF OopsInv
<1>2. \A u \in Threads : busy[u] # <<>> => Working(u) /\ u # t
  BY DEF OopsInv, ClassInv, Loading
<1>3. \A u \in Threads : busy[u] # <<>> => Working(u)'
  BY <1>2, OthersStay DEF OopsInv, Working
<1>4. ClassInv'
  BY <1>3, LockKeepsClasses DEF OopsInv
<1>5. ObjectInv'
  BY ObjectStays DEF OopsInv, headerVars
<1> QED BY <1>1, <1>4, <1>5 DEF OopsInv

(* An operation on the header. *)
LEMMA HeaderOperationKeeps ==
    ASSUME OopsInv, NEW t \in Threads, HeaderStep(t), UNCHANGED <<classVars, objectVars>>
    PROVE  OopsInv'
<1>1. LockInv' /\ HeaderInv'
  BY HeaderStepKeeps DEF OopsInv
<1>2. stage = "shared" /\ stage' = stage
  <2>1. CASE ReadMark(t)
    BY <2>1 DEF ReadMark
  <2>2. CASE Decide(t)
    BY <2>2, Deciding DEF OopsInv
  <2> QED BY <2>1, <2>2 DEF HeaderStep, GetHash, Displace, Restore, SetBias, RevokeBias, LeaveAsIs
<1>3. \A u \in Threads : busy[u] = <<>>
  BY <1>2 DEF OopsInv, ObjectInv
<1>4. ClassInv'
  BY <1>3, LockKeepsClasses DEF OopsInv
<1>5. ObjectInv'
  BY <1>2, ObjectStays DEF OopsInv
<1> QED BY <1>1, <1>4, <1>5 DEF OopsInv

(* An operation on a class. *)
LEMMA ClassOperationKeeps ==
    ASSUME OopsInv, NEW t \in Threads, stage = "none", ClassStep(t), UNCHANGED <<headerVars, objectVars>>
    PROVE  OopsInv'
<1>1. Working(t) /\ (UNCHANGED lockVars \/ Finish(t))
  BY DEF ClassStep, BeginLoad, Resolve, Link, BeginInit, EndInit, Retry, EndLoad, Continue
<1>2. Alone(t)
  BY <1>1, OneWorks DEF OopsInv, Alone, Working
<1>3. ClassInv'
  BY <1>2, ClassStepKeeps DEF OopsInv
<1>4. LockInv' /\ HeaderInv'
  <2>1. CASE UNCHANGED lockVars
    BY <2>1, PartsStay
  <2>2. CASE Finish(t)
    <3>1. LockStep(t)
      BY <1>1, <2>2 DEF LockStep
    <3>2. seen[t] = NoWord
      BY DEF OopsInv, HeaderInv
    <3> QED BY <3>1, <3>2, LockKept, LockKeepsHeader DEF OopsInv
  <2> QED BY <1>1, <2>1, <2>2
<1>5. ObjectInv'
  BY ObjectStays DEF OopsInv, headerVars
<1> QED BY <1>3, <1>4, <1>5 DEF OopsInv

-----------------------------------------------------------------------------
(* Before the object is shared *)

(* An object is made: there was none, and nobody works on a class. *)
LEMMA NewObjectKeeps ==
    ASSUME OopsInv, NewObject, UNCHANGED <<lockVars, classVars>>
    PROVE  OopsInv'
<1>1. LockInv' /\ ClassInv'
  BY PartsStay
<1>2. HeaderInv'
  BY DEF OopsInv, HeaderInv, NewObject, HashAgreed, DisplacedKept, Working, lockVars
<1>3. \A t \in Threads : busy[t] = <<>>
  BY DEF OopsInv, ClassInv, Loading, NewObject, Quiet, Working
<1>4. Settled' /\ \A t \in Threads : busy'[t] = <<>>
  BY <1>3 DEF NewObject, Settled, is_initialized, classVars
<1>5. stage' = "fresh" /\ metadata' = Null /\ of' = NoClass /\ over' = FALSE /\ Null \in Halves(1) \X Halves(2)
  BY DEF NewObject, oopDesc, Halves, Null
<1>6. Halves(1)' = Halves(1) /\ Halves(2)' = Halves(2)
  BY DEF Halves
<1> QED BY <1>1, <1>2, <1>4, <1>5, <1>6 DEF OopsInv, ObjectInv

(* A new class: both halves of the union are those of the invariant.       *)
LEMMA ClassStored ==
    ASSUME OopsInv, stage = "fresh", UNCHANGED <<lockVars, classVars, headerVars>>,
           NEW k \in Classes, of' = k, over' \in BOOLEAN,
           metadata' \in Halves(1) \X Halves(2), HalvesStored'
    PROVE  OopsInv'
<1>1. LockInv' /\ ClassInv' /\ HeaderInv'
  BY PartsStay
<1>2. stage' = "fresh"
  BY DEF headerVars
<1>3. Settled' /\ \A t \in Threads : busy'[t] = <<>>
  BY DEF OopsInv, ObjectInv, Settled, is_initialized, classVars
<1>4. k # NoClass
  BY Constants
<1>5. Halves(1)' = Halves(1) /\ Halves(2)' = Halves(2)
  BY DEF Halves
<1> QED BY <1>1, <1>2, <1>3, <1>4, <1>5 DEF OopsInv, ObjectInv

(* It is given its class by a whole address. *)
LEMMA SetKlassKeeps ==
    ASSUME OopsInv, NEW k \in Classes, SetKlass(k), UNCHANGED <<lockVars, classVars>>
    PROVE  OopsInv'
<1>1. stage = "fresh" /\ UNCHANGED headerVars /\ metadata' = AddressOf[k] /\ of' = k /\ over' = FALSE
  BY DEF SetKlass, set_klass
<1>2. metadata' \in Halves(1) \X Halves(2)
  BY <1>1, ClassAddress
<1>3. HalvesStored'
  BY <1>1 DEF HalvesStored
<1> QED BY <1>1, <1>2, <1>3, ClassStored

(* It is given its class by the low half of an address that has no other:  *)
(* what the high half holds stays, 0 or that of the class before.          *)
LEMMA SetCompressedKlassKeeps ==
    ASSUME OopsInv, NEW k \in Classes, SetCompressedKlass(k), UNCHANGED <<lockVars, classVars>>
    PROVE  OopsInv'
<1>1. /\ stage = "fresh" /\ UNCHANGED headerVars /\ AddressOf[k][1] = 0
      /\ metadata' = <<metadata[1], AddressOf[k][2]>> /\ of' = k
      /\ over' = (over \/ (of # NoClass /\ AddressOf[of][1] # 0))
  BY DEF SetCompressedKlass, set_compressed_klass
<1>2. metadata[1] \in Halves(1) /\ AddressOf[k][2] \in Halves(2)
  BY DEF OopsInv, ObjectInv, Halves
<1>3. metadata' \in Halves(1) \X Halves(2)
  BY <1>1, <1>2
<1>4. over' \in BOOLEAN
  BY <1>1 DEF OopsInv, ObjectInv
<1>5. over' <=> metadata[1] # 0
  <2>1. CASE of = NoClass
    BY <1>1, <2>1 DEF OopsInv, ObjectInv, Null
  <2>2. CASE of # NoClass
    BY <1>1, <2>2 DEF OopsInv, ObjectInv, HalvesStored
  <2> QED BY <2>1, <2>2
<1>6. HalvesStored'
  BY <1>1, <1>5 DEF HalvesStored
<1> QED BY <1>1, <1>3, <1>4, <1>6, ClassStored

(* Its creator sets its mark, and shares it. *)
LEMMA CreatorKeeps ==
    ASSUME OopsInv, of # NoClass, Prepare \/ Share, UNCHANGED <<lockVars, classVars, objectVars>>
    PROVE  OopsInv'
<1>1. LockInv' /\ ClassInv'
  BY PartsStay
<1>2. HeaderInv'
  BY PrepareKeeps, ShareKeeps DEF OopsInv
<1>3. stage # "none" /\ stage' # "none"
  BY DEF Prepare, Share
<1>4. ObjectInv'
  BY <1>3, ObjectStays DEF OopsInv
<1> QED BY <1>1, <1>2, <1>4 DEF OopsInv

-----------------------------------------------------------------------------
(* Every step *)

(* Every step of the creator, of the threads and of the class loader keeps *)
(* the invariant.                                                          *)
LEMMA OopsStepKeeps == OopsInv /\ [OopsNext]_oopsVars => OopsInv'
<1> SUFFICES ASSUME OopsInv, [OopsNext]_oopsVars PROVE OopsInv'
  OBVIOUS
<1>1. ASSUME NEW t \in Threads, Start(t) \/ Spin(t) \/ Acquire(t) \/ Release(t),
             UNCHANGED <<headerVars, classVars, objectVars>>
      PROVE  OopsInv'
  <2>1. ~Working(t)
    BY <1>1 DEF Start, Spin, Acquire, Release, Working, L!Look, L!TryLock, L!ReturnCas, L!Unlock
  <2> QED BY <1>1, <2>1, LockStepKeeps DEF LockStep
<1>2. ASSUME NEW t \in Threads, Working(t), seen[t] = NoWord, busy[t] = <<>>, Finish(t),
             UNCHANGED <<headerVars, classVars, objectVars>>
      PROVE  OopsInv'
  BY <1>2, LockStepKeeps DEF LockStep
<1>3. ASSUME NEW t \in Threads, Operate(t) PROVE OopsInv'
  BY <1>1, <1>2, <1>3, HeaderOperationKeeps, ClassOperationKeeps DEF Operate
<1>4. ASSUME UNCHANGED oopsVars PROVE OopsInv'
  <2>1. LockInv' /\ HeaderInv' /\ ClassInv'
    BY <1>4, PartsStay DEF oopsVars
  <2>2. ObjectInv'
    BY <1>4, ObjectStays DEF OopsInv, oopsVars, headerVars
  <2> QED BY <2>1, <2>2 DEF OopsInv
<1> QED BY <1>1, <1>3, <1>4, NewObjectKeeps, SetKlassKeeps, SetCompressedKlassKeeps,
       CreatorKeeps DEF OopsNext

(* The invariant holds in every state of every behavior. *)
THEOREM OopsInvariant == OopsSpec => []OopsInv
BY OopsInitially, OopsStepKeeps, PTL DEF OopsSpec

-----------------------------------------------------------------------------
(* What the invariant says *)

(* Both halves are the class's own, and no other class has that address,   *)
(* or the high half is not.                                                *)
LEMMA Reachable == OopsInv => KlassReachable
<1> SUFFICES ASSUME OopsInv PROVE KlassReachable
  OBVIOUS
<1>1. stage # "none" /\ of = NoClass => metadata = Null
  BY DEF OopsInv, ObjectInv
<1>2. ASSUME of # NoClass
      PROVE  /\ compressed_klass = AddressOf[of][2]
             /\ Pointed = {of} <=> ~over
             /\ ~over => is_instance /\ ~(is_array \/ is_objArray \/ is_typeArray)
             /\ is_initialized(of) /\ code_size(method[of].constMethod) = Len(CodeOf[of])
  <2>1. of \in Classes /\ HalvesStored /\ stage # "none" /\ metadata \in Halves(1) \X Halves(2)
    BY <1>2 DEF OopsInv, ObjectInv
  <2>2. ASSUME ~over PROVE Pointed = {of} /\ metadata # Null
    <3>1. metadata = AddressOf[of]
      BY <2>1, <2>2, ClassAddress DEF HalvesStored
    <3> QED BY <2>1, <3>1, AddressAssumption DEF Pointed
  <2>3. ASSUME over PROVE Pointed # {of}
    <3>1. metadata # AddressOf[of]
      BY <2>1, <2>3 DEF HalvesStored
    <3> QED BY <3>1 DEF Pointed
  <2>4. /\ "is_instance_klass" \in InstanceKlass_table
        /\ {"is_array_klass", "is_objArray_klass", "is_typeArray_klass"} \cap InstanceKlass_table = {}
    BY DEF InstanceKlass_table, Klass_table, Metadata_table, MetaspaceObj_table
  <2>5. ~over => is_instance /\ ~(is_array \/ is_objArray \/ is_typeArray)
    BY <2>2, <2>4 DEF is_instance, is_array, is_objArray, is_typeArray, Table
  <2>6. is_initialized(of)
    BY <2>1 DEF OopsInv, ObjectInv, Settled
  <2>7. is_loaded(of)
    BY <2>6, States DEF is_initialized, is_loaded
  <2>8. code_size(method[of].constMethod) = Len(CodeOf[of])
    BY <2>1, <2>7 DEF OopsInv, ClassInv, CodePlaced, code_size
  <2> QED BY <2>1, <2>2, <2>3, <2>5, <2>6, <2>8 DEF compressed_klass, HalvesStored
<1> QED BY <1>1, <1>2 DEF KlassReachable

(* The lock's, the header's, the classes' and the object's state is what   *)
(* it can be: among others, no ConstMethod ends behind the memory there is *)
(* for them, and only who has the lock is at the end of an operation.      *)
THEOREM OopsTyped == OopsSpec => []OopsTypeOK
<1>1. OopsInv => OopsTypeOK
  BY HeaderInvMeans, ClassInvMeans DEF OopsInv, LockInv, ObjectInv, Halves, OopsTypeOK
<1> QED BY <1>1, OopsInvariant, PTL

(* What the predicates of oopDesc say of its mark is what was last done to *)
(* the object, whichever threads did it.                                   *)
THEOREM HeaderStates == OopsSpec => []StatesTold
<1>1. OopsInv => StatesTold
  BY HeaderInvMeans DEF OopsInv
<1> QED BY <1>1, OopsInvariant, PTL

(* The fields of the mark are those last put there, as long as a biased    *)
(* word has room for its owner, its epoch and its age.                     *)
THEOREM HeaderFields == OopsSpec => [](BiasFits => FieldsKept)
<1>1. OopsInv => (BiasFits => FieldsKept)
  BY HeaderInvMeans DEF OopsInv
<1> QED BY <1>1, OopsInvariant, PTL

(* Threads agree on an object's hash through locks, biases and collections. *)
THEOREM OneHash == OopsSpec => []HashAgreed
<1>1. OopsInv => HashAgreed
  BY DEF OopsInv, HeaderInv
<1> QED BY <1>1, OopsInvariant, PTL

(* The word a lock or the collector took the place of is with one thread.  *)
THEOREM OneDisplacedWord == OopsSpec => []DisplacedKept
<1>1. OopsInv => DisplacedKept
  BY DEF OopsInv, HeaderInv
<1> QED BY <1>1, OopsInvariant, PTL

(* A class's state agrees with what happened to it, and one thread at most *)
(* runs its <clinit>.                                                      *)
THEOREM ClassesLive == OopsSpec => []LifeCycle
<1>1. OopsInv => LifeCycle
  BY ClassInvMeans DEF OopsInv
<1> QED BY <1>1, OopsInvariant, PTL

(* The list of subclasses has every loaded class once, and ends.           *)
THEOREM NoSubclassLost == OopsSpec => []SubclassesListed
<1>1. OopsInv => SubclassesListed
  BY ClassInvMeans DEF OopsInv
<1> QED BY <1>1, OopsInvariant, PTL

(* The bytecodes behind a ConstMethod are its method's.                    *)
THEOREM CodeBehindMethod == OopsSpec => []CodeInline
<1>1. OopsInv => CodeInline
  BY ClassInvMeans DEF OopsInv
<1> QED BY <1>1, OopsInvariant, PTL

(* A linked method has the vtable slot it overrides, or a new one.         *)
THEOREM MethodsInVtable == OopsSpec => []MethodsFound
<1>1. OopsInv => MethodsFound
  BY ClassInvMeans DEF OopsInv
<1> QED BY <1>1, OopsInvariant, PTL

(* The predicates on tags tell what a constant is, and what became of it.  *)
THEOREM ConstantsTold == OopsSpec => []TagsTold
<1>1. OopsInv => TagsTold
  BY ClassInvMeans DEF OopsInv
<1> QED BY <1>1, OopsInvariant, PTL

(* The low half of an object's union is that of the class last stored, and *)
(* klass() leads to it exactly if no high half was left over before.       *)
THEOREM ObjectsKlass == OopsSpec => []KlassReachable
BY Reachable, OopsInvariant, PTL

=============================================================================
