----------------------- MODULE ClassMetadata_proofs -----------------------
(***************************************************************************)
(* Lemmas about the classes that threads load, link and initialize, for    *)
(* any threads, classes and sizes: what one step keeps.                    *)
(***************************************************************************)
EXTENDS ClassMetadata, FiniteSetTheorems, SequenceTheorems, WellFoundedInduction, TLAPS

-----------------------------------------------------------------------------
(* Searching an array *)

(* Every set of natural numbers that is not empty has a least element. *)
LEMMA LeastNumber ==
    ASSUME NEW T \in SUBSET Nat, T # {}
    PROVE  \E n \in T : \A m \in T : n <= m
<1> DEFINE R == {ss \in Nat \X Nat : ss[1] < ss[2]}
<1>1. IsWellFoundedOn(R, Nat)
  BY NatLessThanWellFounded DEF OpToRel
<1>2. \A m, n \in Nat : <<m, n>> \in R <=> m < n
  OBVIOUS
<1> HIDE DEF R
<1>3. PICK n \in T : \A m \in T : <<m, n>> \notin R
  BY <1>1, WFMin
<1>4. \A m \in T : ~(m < n)
  BY <1>2, <1>3
<1> QED BY <1>4

(* Where a search from the end of an array ends: at the last element that  *)
(* is x, or before the first one. The search is a recursive function: that *)
(* there is one, and what its values are, both follow from the least       *)
(* number for which they would be wrong.                                   *)
Found(a, x, i, v) ==
    \/ v = -1 /\ \A j \in 1..i : a[j] # x
    \/ v \in 0 .. i - 1 /\ a[v + 1] = x /\ \A j \in v + 2 .. i : a[j] # x

(* index_of finds the last x of a, or -1 if a has none. *)
LEMMA IndexOf ==
    ASSUME NEW S, NEW a \in Seq(S), NEW x
    PROVE  Found(a, x, Len(a), index_of(a, x))
<1> DEFINE Step(f, i) == IF i > 0 /\ at(a, i - 1) # x THEN f[i - 1] ELSE i - 1
           down == CHOOSE f : f = [i \in Nat |-> Step(f, i)]
<1>1. \A i \in Nat : at(a, i - 1) = a[i]
  BY DEF at
<1>2. ASSUME NEW i \in Nat, NEW v \in Int, i > 0, a[i] # x, Found(a, x, i - 1, v)
      PROVE  Found(a, x, i, v)
  BY <1>2 DEF Found
<1>3. ASSUME NEW i \in Nat, i = 0 \/ a[i] = x
      PROVE  Found(a, x, i, i - 1)
  BY <1>3 DEF Found
<1>4. ASSUME NEW i \in Nat, NEW v, NEW w, Found(a, x, i, v), Found(a, x, i, w)
      PROVE  v = w
  BY <1>4 DEF Found
<1>5. \A i \in Nat : \E v \in Int : Found(a, x, i, v)
  <2> DEFINE T == {i \in Nat : ~ \E v \in Int : Found(a, x, i, v)}
  <2>1. SUFFICES ASSUME T # {} PROVE FALSE
    OBVIOUS
  <2>2. PICK n \in T : \A m \in T : n <= m
    BY <2>1, LeastNumber
  <2>3. n \in Nat /\ ~ \E v \in Int : Found(a, x, n, v)
    OBVIOUS
  <2>4. n > 0 /\ a[n] # x
    BY <1>3, <2>3
  <2>5. n - 1 \in Nat /\ n - 1 \notin T
    BY <2>2, <2>4
  <2>6. PICK v \in Int : Found(a, x, n - 1, v)
    BY <2>5
  <2> QED BY <1>2, <2>3, <2>4, <2>6
<1>6. down = [i \in Nat |-> Step(down, i)]
  <2> DEFINE g == [i \in Nat |-> CHOOSE v \in Int : Found(a, x, i, v)]
  <2>1. \A i \in Nat : g[i] \in Int /\ Found(a, x, i, g[i])
    BY <1>5
  <2> HIDE DEF g
  <2>2. ASSUME NEW i \in Nat PROVE g[i] = Step(g, i)
    <3>1. CASE i > 0 /\ a[i] # x
      <4>1. i - 1 \in Nat
        BY <3>1
      <4> QED BY <1>1, <1>2, <1>4, <2>1, <3>1, <4>1
    <3>2. CASE ~(i > 0 /\ a[i] # x)
      BY <1>1, <1>3, <1>4, <2>1, <3>2
    <3> QED BY <3>1, <3>2
  <2>3. g = [i \in Nat |-> Step(g, i)]
    <3>1. g = [i \in Nat |-> g[i]]
      BY DEF g
    <3> QED BY <2>2, <3>1, Zenon
  <2> QED BY <2>3, Zenon
<1>7. \A i \in Nat : down[i] = Step(down, i)
  BY <1>6, Zenon
<1> HIDE DEF down
<1>8. \A i \in Nat : down[i] \in Int /\ Found(a, x, i, down[i])
  <2> DEFINE T == {i \in Nat : ~ (down[i] \in Int /\ Found(a, x, i, down[i]))}
  <2>1. SUFFICES ASSUME T # {} PROVE FALSE
    OBVIOUS
  <2>2. PICK n \in T : \A m \in T : n <= m
    BY <2>1, LeastNumber
  <2>3. n \in Nat /\ ~(down[n] \in Int /\ Found(a, x, n, down[n]))
    OBVIOUS
  <2>4. n > 0 /\ a[n] # x
    BY <1>1, <1>3, <1>7, <2>3
  <2>5. n - 1 \in Nat /\ n - 1 \notin T
    BY <2>2, <2>4
  <2>6. down[n] = down[n - 1]
    BY <1>1, <1>7, <2>3, <2>4
  <2> QED BY <1>2, <2>3, <2>4, <2>5, <2>6
<1>9. index_of(a, x) = down[Len(a)]
  BY DEF index_of, length, down
<1> QED BY <1>8, <1>9

-----------------------------------------------------------------------------
(* Alignment *)

(* The sizes are numbers, a word has bytes, and a u2 and a word together   *)
(* do not overflow.                                                        *)
LEMMA Sizes ==
    /\ WordSize \in Int /\ WordSize > 0
    /\ HeaderSize \in Int /\ HeaderSize >= 2
    /\ SpaceSize \in Int /\ SpaceSize > 0
    /\ AddressMod \in Int /\ AddressMod > 0
    /\ SizeMod \in Int /\ SizeMod > 0
    /\ SizeMod + WordSize <= AddressMod
<1>1. {WordSize, HeaderSize, SpaceSize, AddressMod, SizeMod} \subseteq Nat \ {0}
  BY SizeAssumption
<1>2. \A x \in Nat \ {0} : x \in Int /\ x > 0
  OBVIOUS
<1> QED BY <1>1, <1>2, SizeAssumption

(* Division with a remainder. *)
LEMMA Division ==
    ASSUME NEW w \in Int, w > 0, NEW y \in Int
    PROVE  /\ y \div w \in Int /\ y % w \in 0 .. w - 1
           /\ y = (y \div w) * w + (y % w)
<1>1. y \div w \in Int /\ y % w \in 0 .. w - 1
  OBVIOUS
<1>2. y = (y \div w) * w + (y % w)
  BY SMTT(30)
<1> QED BY <1>1, <1>2

(* The remainder of a multiple is 0. *)
LEMMA Multiple ==
    ASSUME NEW w \in Int, w > 0, NEW q \in Int
    PROVE  (q * w) % w = 0
BY SMTT(30)

(* The same for words. *)
LEMMA Words ==
    ASSUME NEW y \in Int
    PROVE  /\ y \div WordSize \in Int /\ y % WordSize \in 0 .. WordSize - 1
           /\ y = (y \div WordSize) * WordSize + (y % WordSize)
BY Division, Sizes

(* A number of whole words is a multiple of the word's size. *)
LEMMA WholeWords ==
    ASSUME NEW q \in Int
    PROVE  (q * WordSize) % WordSize = 0
BY Multiple, Sizes

(* Rounding a size of at most 16 bits up to whole words does not overflow: *)
(* the code fits, and what follows is aligned.                             *)
LEMMA AlignUpCovers ==
    ASSUME NEW x \in Nat, x < SizeMod
    PROVE  /\ align_up(x, WordSize) \in Nat /\ x <= align_up(x, WordSize)
           /\ is_aligned(align_up(x, WordSize), WordSize)
<1> DEFINE y == x + WordSize - 1
<1>1. y \in Nat /\ y < AddressMod /\ y = x + WordSize - 1
  BY Sizes
<1>2. y % AddressMod = y
  BY <1>1, Sizes
<1> DEFINE q == y \div WordSize
           r == y % WordSize
<1>3. align_up(x, WordSize) = y - r
  BY <1>2 DEF align_up, align_down
<1> HIDE DEF y
<1>4. q \in Int /\ r \in 0 .. WordSize - 1 /\ y = q * WordSize + r
  BY <1>1, Words
<1> HIDE DEF q, r
<1>5. y - r \in Nat /\ x <= y - r
  BY <1>1, <1>4, Sizes
<1>6. q * WordSize \in Int
  BY <1>4, Sizes
<1>7. y - r = q * WordSize
  BY <1>1, <1>4, <1>6
<1> QED BY <1>3, <1>4, <1>5, <1>7, WholeWords DEF is_aligned

(* What begins on a word's boundary and takes whole words ends on one. *)
LEMMA AlignedSum ==
    ASSUME NEW x \in Int, NEW y \in Int, is_aligned(x, WordSize), is_aligned(y, WordSize)
    PROVE  is_aligned(x + y, WordSize)
<1> DEFINE p == x \div WordSize
           q == y \div WordSize
<1>1. x % WordSize = 0 /\ y % WordSize = 0
  BY DEF is_aligned
<1>2. p \in Int /\ q \in Int /\ x = p * WordSize + 0 /\ y = q * WordSize + 0
  BY <1>1, Words
<1> HIDE DEF p, q
<1>3. p + q \in Int /\ x + y = (p + q) * WordSize
  BY <1>2, Sizes
<1> QED BY <1>3, WholeWords DEF is_aligned

(* A ConstMethod with its code takes whole words, enough for both. *)
LEMMA Blocks ==
    ASSUME NEW k \in Classes
    PROVE  /\ CodeOf[k] \in Seq(Nat) /\ Len(CodeOf[k]) \in Nat /\ Len(CodeOf[k]) < SizeMod
           /\ BlockSize(k) \in Nat /\ HeaderSize + Len(CodeOf[k]) <= BlockSize(k)
           /\ is_aligned(BlockSize(k), WordSize)
<1>1. CodeOf[k] \in Seq(Nat) /\ Len(CodeOf[k]) \in Nat /\ Len(CodeOf[k]) < SizeMod
  BY SizeAssumption
<1>2. /\ HeaderSize \in Nat /\ is_aligned(HeaderSize, WordSize)
  BY Sizes, WordAssumption
<1> DEFINE rounded == align_up(Len(CodeOf[k]), WordSize)
<1>3. rounded \in Nat /\ Len(CodeOf[k]) <= rounded /\ is_aligned(rounded, WordSize)
  BY <1>1, AlignUpCovers
<1>4. BlockSize(k) = HeaderSize + rounded
  BY DEF BlockSize
<1> HIDE DEF rounded
<1>5. is_aligned(BlockSize(k), WordSize)
  BY <1>2, <1>3, <1>4, AlignedSum
<1> QED BY <1>1, <1>2, <1>3, <1>4, <1>5

-----------------------------------------------------------------------------
(* Tags *)

Stages == {"index", "symbolic", "resolved", "error"}

(* TagsTold, of one tag. *)
TagRight(tag, kind, stage) ==
    /\ tag \in Nat
    /\ is_klass(tag) <=> kind = "Class" /\ stage = "resolved"
    /\ is_klass_or_reference(tag) <=> kind = "Class"
    /\ is_klass_index(tag) <=> kind = "Class" /\ stage = "index"
    /\ is_klass_reference(tag) <=> kind = "Class" /\ stage # "resolved"
    /\ is_string(tag) <=> kind = "String" /\ stage # "index"
    /\ is_string_index(tag) <=> kind = "String" /\ stage = "index"
    /\ is_symbol(tag) <=> kind = "Utf8"
    /\ in_error(tag) <=> stage = "error"
    /\ is_field_or_method(tag) <=> kind \in {"Fieldref", "Methodref", "InterfaceMethodref"}
    /\ is_loadable_constant(tag) <=>
          \/ kind \in {"Integer", "Float", "Long", "Double"}
          \/ kind \in {"String", "Class"} /\ stage # "index"
          \/ kind \in {"MethodHandle", "MethodType", "Dynamic"} /\ stage # "error"

(* Every tag a constant gets in its life is told apart from the others.    *)
LEMMA TagOf ==
    ASSUME NEW kind \in Kinds, NEW stage \in Stages, stage = "error" => kind \in Resolvable
    PROVE  TagRight(Tag(kind, stage), kind, stage)
<1>1. Kinds = {"Utf8", "Integer", "Float", "Long", "Double", "Class", "String", "Fieldref", "Methodref",
               "InterfaceMethodref", "NameAndType", "MethodHandle", "MethodType", "Dynamic", "InvokeDynamic"}
  BY DEF JVM_CONSTANT, Kinds
<1> USE DEF JVM_CONSTANT, Tag, Indexed, InError, Resolvable, TagRight, is_klass, is_string, is_symbol,
            is_method_type, is_method_handle, is_dynamic_constant, is_unresolved_klass, in_error,
            is_klass_index, is_string_index, is_klass_reference, is_klass_or_reference,
            is_field_or_method, is_loadable_constant
<1>2. CASE stage = "index"
  BY <1>1, <1>2
<1>3. CASE stage = "symbolic"
  BY <1>1, <1>3
<1>4. CASE stage = "resolved"
  BY <1>1, <1>4
<1>5. CASE stage = "error"
  BY <1>1, <1>5
<1> QED BY <1>2, <1>3, <1>4, <1>5 DEF Stages

-----------------------------------------------------------------------------
(* The classes *)

KlassFields ==
    [super : Classes \cup {Root, NoClass}, subklass : Classes \cup {NoClass},
     next_sibling : Classes \cup {NoClass}, vtable_len : Nat,
     init_state : allocated..initialization_error, methods : Seq(MethodNames), constants : Seq(Nat)]
ClassTable == [Classes \cup {Root} -> KlassFields]
MethodFields == [constMethod : -1 .. SpaceSize - 1, access_flags : SUBSET Nat, vtable_index : Int]

ClassTyped ==
    /\ klass \in ClassTable
    /\ method \in [Classes -> MethodFields]
    /\ space \in [0 .. SpaceSize - 1 -> Int]
    /\ top \in 0..SpaceSize /\ is_aligned(top, WordSize)
    /\ busy \in [Threads -> {<<>>} \cup (Classes \X (Classes \cup {NoClass}))]
    /\ running \in [Classes -> SUBSET Threads]
    /\ reached \in [Classes -> SUBSET (allocated..initialization_error)]
    /\ entries \in [Classes -> Seq(Stages)]

(* The super class is only ever given another first subclass. *)
RootKept ==
    /\ klass[Root].init_state = fully_initialized
    /\ klass[Root].methods = RootVtable /\ klass[Root].vtable_len = Len(RootVtable)

(* A class's history is that of its state; one thread at most runs its     *)
(* <clinit>, none unless it is being initialized.                          *)
StateReached(k) ==
    LET state == klass[k].init_state
    IN  /\ reached[k] = IF state = initialization_error THEN (0..3) \cup {5} ELSE 0..state
        /\ IF state = being_initialized THEN \E t \in Threads : running[k] = {t} ELSE running[k] = {}
        /\ is_loaded(k) <=> klass[k].super = Root

(* A loaded class has its ConstMethod and its code below top. *)
CodePlaced(k) ==
    is_loaded(k) =>
        LET c == method[k].constMethod
        IN  /\ c \in Nat /\ is_aligned(c, WordSize) /\ c + BlockSize(k) <= top
            /\ space[c] = Len(CodeOf[k]) /\ space[c + 1] = c % SizeMod
            /\ \A i \in 1 .. Len(CodeOf[k]) : space[c + HeaderSize + i - 1] = CodeOf[k][i]

(* The vtable index the code gives a method with these flags. *)
TheIndex(k, flags) ==
    IF is_static(flags) \/ is_private(flags) THEN nonvirtual_vtable_index
    ELSE IF contains(RootVtable, NameOf[k]) THEN index_of(RootVtable, NameOf[k])
    ELSE Len(RootVtable)

VtableSet(k) ==
    is_linked(k) =>
        /\ method[k].vtable_index = TheIndex(k, method[k].access_flags)
        /\ klass[k].vtable_len = Max({Len(RootVtable), method[k].vtable_index + 1})

(* Every constant that is known has the tag of its kind and its stage. *)
ConstantsTagged(k) ==
    /\ DOMAIN entries[k] \subseteq DOMAIN PoolOf[k]
    /\ is_loaded(k) => DOMAIN entries[k] = DOMAIN PoolOf[k]
    /\ DOMAIN klass[k].constants = DOMAIN entries[k]
    /\ \A i \in DOMAIN entries[k] :
          /\ klass[k].constants[i] = Tag(PoolOf[k][i], entries[k][i])
          /\ entries[k][i] = "error" => PoolOf[k][i] \in Resolvable

(* Who is loading a class is in its operation, and the head of the list    *)
(* of subclasses is still the one it read.                                 *)
Loading ==
    \A t \in Threads : busy[t] # <<>> =>
        /\ Working(t)
        /\ ~is_loaded(busy[t][1])
        /\ busy[t][2] = klass[Root].subklass

Loaded == {k \in Classes : is_loaded(k)}

(* The classes, in the order of the list of subclasses. *)
Listed(list, n) ==
    LET after(i) == IF i < n THEN list[i + 1] ELSE NoClass
    IN  /\ klass[Root].subklass = after(0)
        /\ \A i \in 1..n : klass[list[i]].next_sibling = after(i)
AllListed == \E list \in Bijection(1 .. Cardinality(Loaded), Loaded) : Listed(list, Cardinality(Loaded))

ClassInv ==
    /\ ClassTyped /\ RootKept /\ Loading /\ AllListed
    /\ \A k \in Classes : StateReached(k) /\ CodePlaced(k) /\ VtableSet(k) /\ ConstantsTagged(k)

-----------------------------------------------------------------------------
(* The setters *)

(* A setter changes one field of one class, to a value of its type, and    *)
(* leaves the other classes alone.                                         *)
Changed(kl, kl2, k) ==
    /\ kl2 \in ClassTable
    /\ \A j \in Classes \cup {Root} : j # k => kl2[j] = kl[j]

(* Each setter changes one field of one class, and leaves a class:         *)
(* _init_state,                                                            *)
LEMMA SetInitState ==
    ASSUME NEW kl \in ClassTable, NEW k \in Classes \cup {Root}, NEW v \in allocated..initialization_error
    PROVE  Changed(kl, set_init_state(kl, k, v), k) /\ set_init_state(kl, k, v)[k] = [kl[k] EXCEPT !.init_state = v]
BY DEF ClassTable, KlassFields, Changed, set_init_state

(* ... _super, *)
LEMMA SetSuper ==
    ASSUME NEW kl \in ClassTable, NEW k \in Classes \cup {Root}, NEW v \in Classes \cup {Root, NoClass}
    PROVE  Changed(kl, set_super(kl, k, v), k) /\ set_super(kl, k, v)[k] = [kl[k] EXCEPT !.super = v]
BY DEF ClassTable, KlassFields, Changed, set_super

(* ... _subklass, *)
LEMMA SetSubklass ==
    ASSUME NEW kl \in ClassTable, NEW k \in Classes \cup {Root}, NEW v \in Classes \cup {NoClass}
    PROVE  Changed(kl, set_subklass(kl, k, v), k) /\ set_subklass(kl, k, v)[k] = [kl[k] EXCEPT !.subklass = v]
BY DEF ClassTable, KlassFields, Changed, set_subklass

(* ... _next_sibling, *)
LEMMA SetNextSibling ==
    ASSUME NEW kl \in ClassTable, NEW k \in Classes \cup {Root}, NEW v \in Classes \cup {NoClass}
    PROVE  Changed(kl, set_next_sibling(kl, k, v), k) /\ set_next_sibling(kl, k, v)[k] = [kl[k] EXCEPT !.next_sibling = v]
BY DEF ClassTable, KlassFields, Changed, set_next_sibling

(* ... _vtable_len, *)
LEMMA SetVtableLength ==
    ASSUME NEW kl \in ClassTable, NEW k \in Classes \cup {Root}, NEW v \in Nat
    PROVE  Changed(kl, set_vtable_length(kl, k, v), k) /\ set_vtable_length(kl, k, v)[k] = [kl[k] EXCEPT !.vtable_len = v]
BY DEF ClassTable, KlassFields, Changed, set_vtable_length

(* ... _methods, *)
LEMMA SetMethods ==
    ASSUME NEW kl \in ClassTable, NEW k \in Classes \cup {Root}, NEW v \in Seq(MethodNames)
    PROVE  Changed(kl, set_methods(kl, k, v), k) /\ set_methods(kl, k, v)[k] = [kl[k] EXCEPT !.methods = v]
BY DEF ClassTable, KlassFields, Changed, set_methods

(* ... and _constants. *)
LEMMA SetConstants ==
    ASSUME NEW kl \in ClassTable, NEW k \in Classes \cup {Root}, NEW v \in Seq(Nat)
    PROVE  Changed(kl, set_constants(kl, k, v), k) /\ set_constants(kl, k, v)[k] = [kl[k] EXCEPT !.constants = v]
BY DEF ClassTable, KlassFields, Changed, set_constants

-----------------------------------------------------------------------------
(* At first *)

(* What the constants are assumed to be. *)
LEMMA Constants ==
    /\ Root \notin Classes /\ NoClass \notin Classes /\ Root # NoClass
    /\ RootVtable \in Seq(MethodNames) /\ Len(RootVtable) \in Nat
  BY ClassAssumption

(* The states are numbers, in this order. *)
LEMMA States ==
    /\ allocated = 0 /\ loaded = 1 /\ linked = 2 /\ being_initialized = 3
    /\ fully_initialized = 4 /\ initialization_error = 5
    /\ \A state \in 0..5 : state \in allocated..initialization_error
    /\ {allocated, loaded, linked, being_initialized, fully_initialized, initialization_error}
          \subseteq allocated..initialization_error
  BY DEF allocated, loaded, linked, being_initialized, fully_initialized, initialization_error

(* No class is loaded, and no memory is taken. *)
LEMMA ClassInitially == ClassInit => ClassInv
<1> SUFFICES ASSUME ClassInit PROVE ClassInv
  OBVIOUS
<1>1. /\ InstanceKlass \in KlassFields /\ InstanceKlass.super = NoClass
      /\ InstanceKlass.subklass = NoClass /\ InstanceKlass.init_state = allocated
      /\ InstanceKlass.constants = <<>>
  BY States DEF InstanceKlass, Klass, KlassFields
<1>2. /\ klass \in ClassTable
      /\ \A k \in Classes : klass[k] = InstanceKlass
      /\ RootKept /\ klass[Root].subklass = NoClass
  <2> DEFINE new == [k \in Classes \cup {Root} |-> InstanceKlass]
             kl1 == set_init_state(new, Root, fully_initialized)
             kl2 == set_methods(kl1, Root, RootVtable)
             kl3 == set_vtable_length(kl2, Root, Len(RootVtable))
  <2>1. klass = kl3
    BY DEF ClassInit
  <2>2. new \in ClassTable /\ \A k \in Classes \cup {Root} : new[k] = InstanceKlass
    BY <1>1 DEF ClassTable
  <2> HIDE DEF new
  <2>3. Changed(new, kl1, Root) /\ kl1[Root] = [new[Root] EXCEPT !.init_state = fully_initialized]
    <3>1. fully_initialized \in allocated..initialization_error
      BY States
    <3> QED BY <2>2, <3>1, SetInitState
  <2> HIDE DEF kl1
  <2>4. kl1 \in ClassTable
    BY <2>3 DEF Changed
  <2>5. Changed(kl1, kl2, Root) /\ kl2[Root] = [kl1[Root] EXCEPT !.methods = RootVtable]
    BY <2>4, SetMethods, Constants
  <2> HIDE DEF kl2
  <2>6. kl2 \in ClassTable
    BY <2>5 DEF Changed
  <2>7. Changed(kl2, kl3, Root) /\ kl3[Root] = [kl2[Root] EXCEPT !.vtable_len = Len(RootVtable)]
    BY <2>6, SetVtableLength, Constants
  <2> HIDE DEF kl3
  <2>8. kl1[Root] \in KlassFields /\ kl2[Root] \in KlassFields /\ new[Root] \in KlassFields
    BY <2>2, <2>4, <2>6 DEF ClassTable
  <2>9. RootKept /\ klass[Root].subklass = NoClass
    BY <1>1, <2>1, <2>2, <2>3, <2>5, <2>7, <2>8 DEF RootKept, KlassFields
  <2>10. \A k \in Classes : klass[k] = InstanceKlass
    BY <2>1, <2>2, <2>3, <2>5, <2>7, Constants DEF Changed
  <2> QED BY <2>1, <2>7, <2>9, <2>10 DEF Changed
<1>3. ClassTyped
  <2>1. method \in [Classes -> MethodFields]
    BY Sizes DEF ClassInit, Method, MethodFields
  <2>2. top \in 0..SpaceSize /\ is_aligned(top, WordSize)
    BY Sizes DEF ClassInit, is_aligned
  <2> QED BY <1>2, <2>1, <2>2, Sizes, States DEF ClassInit, ClassTyped
<1>4. \A k \in Classes : ~is_loaded(k) /\ ~is_linked(k)
  BY <1>1, <1>2, States DEF is_loaded, is_linked
<1>5. AllListed
  <2>1. Loaded = {} /\ Cardinality(Loaded) = 0
    BY <1>4, FS_EmptySet DEF Loaded
  <2>2. <<>> \in Bijection(1..0, {})
    BY DEF Bijection, Injection, Surjection, IsInjective
  <2>3. Listed(<<>>, 0)
    BY <1>2 DEF Listed
  <2> QED BY <2>1, <2>2, <2>3 DEF AllListed
<1>6. \A k \in Classes : StateReached(k) /\ ConstantsTagged(k)
  BY <1>1, <1>2, <1>4, Constants, States DEF ClassInit, StateReached, ConstantsTagged
<1> QED BY <1>2, <1>3, <1>4, <1>5, <1>6 DEF ClassInv, ClassInit, Loading, CodePlaced, VtableSet

-----------------------------------------------------------------------------
(* What a step leaves alone *)

(* A class whose fields, method, memory and histories a step keeps.        *)
LEMMA ClassUntouched ==
    ASSUME ClassTyped, NEW k \in Classes,
           StateReached(k), CodePlaced(k), VtableSet(k), ConstantsTagged(k),
           klass'[k] = klass[k], method'[k] = method[k], running'[k] = running[k],
           reached'[k] = reached[k], entries'[k] = entries[k], top' \in Nat, top <= top',
           \A i \in Nat : i < top => space'[i] = space[i]
    PROVE  StateReached(k)' /\ CodePlaced(k)' /\ VtableSet(k)' /\ ConstantsTagged(k)'
<1>1. (is_loaded(k)' <=> is_loaded(k)) /\ (is_linked(k)' <=> is_linked(k))
  BY DEF is_loaded, is_linked
<1>2. StateReached(k)' /\ VtableSet(k)' /\ ConstantsTagged(k)'
  BY <1>1 DEF StateReached, VtableSet, ConstantsTagged
<1>3. ASSUME is_loaded(k) PROVE CodePlaced(k)'
  <2> DEFINE c == method[k].constMethod
             size == Len(CodeOf[k])
  <2>1. /\ c \in Nat /\ is_aligned(c, WordSize) /\ c + BlockSize(k) <= top
        /\ space[c] = size /\ space[c + 1] = c % SizeMod
        /\ \A i \in 1..size : space[c + HeaderSize + i - 1] = CodeOf[k][i]
    BY <1>3 DEF CodePlaced
  <2>2. /\ size \in Nat /\ BlockSize(k) \in Nat /\ HeaderSize + size <= BlockSize(k)
        /\ top \in Nat /\ HeaderSize \in Nat /\ HeaderSize >= 2
    BY Blocks, Sizes DEF ClassTyped
  <2>3. c' = c
    OBVIOUS
  <2> HIDE DEF c, size
  <2>4. c < top /\ c + 1 < top /\ \A i \in 1..size : c + HeaderSize + i - 1 \in Nat /\ c + HeaderSize + i - 1 < top
    BY <2>1, <2>2
  <2>5. /\ c + BlockSize(k) <= top'
        /\ space'[c] = size /\ space'[c + 1] = c % SizeMod
        /\ \A i \in 1..size : space'[c + HeaderSize + i - 1] = CodeOf[k][i]
    <3>1. c + BlockSize(k) <= top'
      BY <2>1, <2>2
    <3>2. space'[c] = size /\ space'[c + 1] = c % SizeMod
      BY <2>1, <2>4
    <3>3. \A i \in 1..size : space'[c + HeaderSize + i - 1] = CodeOf[k][i]
      BY <2>1, <2>4
    <3> QED BY <3>1, <3>2, <3>3
  <2> QED BY <2>1, <2>3, <2>5 DEF CodePlaced, c, size
<1> QED BY <1>1, <1>2, <1>3 DEF CodePlaced

(* The list of subclasses stays complete if nothing is loaded or unloaded. *)
LEMMA ListUntouched ==
    ASSUME ClassTyped, AllListed, klass'[Root].subklass = klass[Root].subklass,
           \A k \in Classes : (is_loaded(k)' <=> is_loaded(k)) /\ klass'[k].next_sibling = klass[k].next_sibling
    PROVE  AllListed'
<1>1. Loaded' = Loaded
  BY DEF Loaded
<1>2. PICK n : n = Cardinality(Loaded)
  OBVIOUS
<1>3. PICK list \in Bijection(1..n, Loaded) : Listed(list, n)
  BY <1>2 DEF AllListed
<1>4. \A i \in 1..n : list[i] \in Classes
  BY <1>3 DEF Bijection, Injection, Loaded
<1>5. Listed(list, n)'
  BY <1>3, <1>4 DEF Listed
<1> QED BY <1>1, <1>2, <1>3, <1>5 DEF AllListed

-----------------------------------------------------------------------------
(* One step of a thread that has the lock for itself *)

Alone(t) == Working(t) /\ \A u \in Threads : pc[u] = "locked" => u = t

(* A thread that is not loading a class and has the lock for itself can    *)
(* rely on nobody else loading one.                                        *)
LEMMA NoneLoading ==
    ASSUME ClassInv, NEW t \in Threads, Alone(t), busy[t] = <<>>
    PROVE  \A u \in Threads : busy[u] = <<>>
BY DEF ClassInv, Loading, Alone, Working

(* A step on one class that does not complete its loading. *)
LEMMA OneClass ==
    ASSUME ClassInv, NEW k \in Classes,
           ClassTyped', Loading', klass'[Root] = klass[Root], top' = top, space' = space,
           \A j \in Classes : j # k =>
              /\ klass'[j] = klass[j] /\ method'[j] = method[j] /\ running'[j] = running[j]
              /\ reached'[j] = reached[j] /\ entries'[j] = entries[j],
           is_loaded(k)' <=> is_loaded(k), klass'[k].next_sibling = klass[k].next_sibling,
           StateReached(k)', CodePlaced(k)', VtableSet(k)', ConstantsTagged(k)'
    PROVE  ClassInv'
<1>1. RootKept'
  BY DEF RootKept, ClassInv
<1>2. AllListed'
  <2>1. \A j \in Classes : (is_loaded(j)' <=> is_loaded(j)) /\ klass'[j].next_sibling = klass[j].next_sibling
    BY DEF is_loaded
  <2> QED BY <2>1, ListUntouched DEF ClassInv
<1>3. ASSUME NEW j \in Classes, j # k
      PROVE  StateReached(j)' /\ CodePlaced(j)' /\ VtableSet(j)' /\ ConstantsTagged(j)'
  <2>1. top' \in Nat /\ top <= top' /\ top \in Nat
    BY Sizes DEF ClassInv, ClassTyped
  <2> QED BY <1>3, <2>1, ClassUntouched DEF ClassInv
<1> QED BY <1>1, <1>2, <1>3 DEF ClassInv

(* The tags of all constants at a stage that is not an error. *)
LEMMA TagsOf ==
    ASSUME NEW k \in Classes, NEW stage \in {"index", "symbolic"}
    PROVE  /\ Tags(k, stage) \in Seq(Nat) /\ DOMAIN Tags(k, stage) = DOMAIN PoolOf[k]
           /\ \A i \in DOMAIN PoolOf[k] : Tags(k, stage)[i] = Tag(PoolOf[k][i], stage)
           /\ [i \in DOMAIN PoolOf[k] |-> stage] \in Seq(Stages)
<1>1. PoolOf[k] \in Seq(Kinds) /\ DOMAIN PoolOf[k] = 1 .. Len(PoolOf[k]) /\ Len(PoolOf[k]) \in Nat
  BY PoolAssumption
<1>2. \A i \in DOMAIN PoolOf[k] : PoolOf[k][i] \in Kinds
  BY <1>1
<1>3. stage \in Stages /\ stage # "error"
  BY DEF Stages
<1>4. \A i \in DOMAIN PoolOf[k] : Tag(PoolOf[k][i], stage) \in Nat
  BY <1>2, <1>3, TagOf DEF TagRight
<1>5. Tags(k, stage) \in Seq(Nat)
  <2>1. Tags(k, stage) \in [1 .. Len(PoolOf[k]) -> Nat]
    BY <1>1, <1>4 DEF Tags
  <2> QED BY <1>1, <2>1
<1>6. [i \in DOMAIN PoolOf[k] |-> stage] \in Seq(Stages)
  <2>1. [i \in DOMAIN PoolOf[k] |-> stage] \in [1 .. Len(PoolOf[k]) -> Stages]
    BY <1>1, <1>3
  <2> QED BY <1>1, <2>1
<1> QED BY <1>5, <1>6 DEF Tags

(* The parsed constants get their tags; the class is not listed anywhere   *)
(* yet, and the head of the list that the thread read stays the head while *)
(* it has the lock.                                                        *)
LEMMA BeginLoadKeeps ==
    ASSUME ClassInv, NEW t \in Threads, Alone(t), NEW k \in Classes, BeginLoad(t, k)
    PROVE  ClassInv'
<1>1. /\ klass' = set_constants(klass, k, Tags(k, "index"))
      /\ entries' = [entries EXCEPT ![k] = [i \in DOMAIN PoolOf[k] |-> "index"]]
      /\ busy' = [busy EXCEPT ![t] = <<k, klass[Root].subklass>>]
      /\ ~is_loaded(k) /\ UNCHANGED lockVars
      /\ UNCHANGED <<method, space, top, running, reached>>
      /\ \A u \in Threads : busy[u] = <<>>
  BY NoneLoading DEF BeginLoad, Known, Continue
<1>2. /\ Tags(k, "index") \in Seq(Nat) /\ DOMAIN Tags(k, "index") = DOMAIN PoolOf[k]
      /\ \A i \in DOMAIN PoolOf[k] : Tags(k, "index")[i] = Tag(PoolOf[k][i], "index")
      /\ [i \in DOMAIN PoolOf[k] |-> "index"] \in Seq(Stages)
  BY TagsOf
<1>3. klass \in ClassTable /\ k \in Classes \cup {Root} /\ Root \in Classes \cup {Root} /\ Root # k
  BY Constants DEF ClassInv, ClassTyped
<1>4. Changed(klass, klass', k) /\ klass'[k] = [klass[k] EXCEPT !.constants = Tags(k, "index")]
  BY <1>1, <1>2, <1>3, SetConstants
<1>5. klass[k] \in KlassFields /\ klass[Root] \in KlassFields
  BY <1>3 DEF ClassTable
<1>6. /\ klass'[k].constants = Tags(k, "index") /\ klass'[k].init_state = klass[k].init_state
      /\ klass'[k].super = klass[k].super /\ klass'[k].next_sibling = klass[k].next_sibling
  BY <1>4, <1>5 DEF KlassFields
<1>7. ~is_loaded(k)' /\ ~is_linked(k) /\ ~is_linked(k)'
  BY <1>1, <1>5, <1>6, States DEF is_loaded, is_linked, KlassFields
<1>8. klass'[Root] = klass[Root] /\ \A j \in Classes : j # k => klass'[j] = klass[j]
  BY <1>3, <1>4 DEF Changed
<1>9. entries' \in [Classes -> Seq(Stages)] /\ \A j \in Classes : j # k => entries'[j] = entries[j]
  BY <1>1, <1>2 DEF ClassInv, ClassTyped
<1>10. entries'[k] = [i \in DOMAIN PoolOf[k] |-> "index"]
  BY <1>1 DEF ClassInv, ClassTyped
<1>11. ConstantsTagged(k)'
  BY <1>2, <1>6, <1>10 DEF ConstantsTagged
<1>12. klass[Root].subklass \in Classes \cup {NoClass}
  BY <1>5 DEF KlassFields
<1>13. busy' \in [Threads -> {<<>>} \cup (Classes \X (Classes \cup {NoClass}))]
  BY <1>1, <1>12 DEF ClassInv, ClassTyped
<1>14. ClassTyped'
  BY <1>1, <1>4, <1>9, <1>13 DEF ClassInv, ClassTyped, Changed
<1>15. Loading'
  <2>1. /\ busy'[t][1] = k /\ busy'[t][2] = klass[Root].subklass
        /\ \A u \in Threads : u # t => busy'[u] = <<>>
    BY <1>1 DEF ClassInv, ClassTyped
  <2>2. Working(t)'
    BY <1>1 DEF Alone, Working, lockVars
  <2> QED BY <1>7, <1>8, <2>1, <2>2 DEF Loading
<1>16. StateReached(k)' /\ CodePlaced(k)' /\ VtableSet(k)'
  BY <1>1, <1>6, <1>7 DEF ClassInv, StateReached, CodePlaced, VtableSet
<1> QED BY <1>1, <1>6, <1>7, <1>8, <1>9, <1>11, <1>14, <1>15, <1>16, OneClass

(* A constant is resolved, or fails: its tag becomes that of its new       *)
(* state, the others keep theirs.                                          *)
LEMMA ResolveKeeps ==
    ASSUME ClassInv, NEW t \in Threads, Alone(t), NEW k \in Classes, Resolve(t, k)
    PROVE  ClassInv'
<1>1. /\ is_loaded(k) /\ ~is_linked(k)
      /\ UNCHANGED <<method, space, top, busy, running, reached>>
      /\ \A u \in Threads : busy[u] = <<>>
  BY NoneLoading DEF Resolve
<1>2. PICK i \in Pending(k), stage \in {"resolved", "error"} :
         /\ klass' = set_constants(klass, k, [klass[k].constants EXCEPT ![i] = Tag(PoolOf[k][i], stage)])
         /\ entries' = [entries EXCEPT ![k][i] = stage]
  BY DEF Resolve
<1>3. klass \in ClassTable /\ k \in Classes \cup {Root} /\ Root \in Classes \cup {Root} /\ Root # k
  BY Constants DEF ClassInv, ClassTyped
<1>4. klass[k] \in KlassFields /\ entries[k] \in Seq(Stages) /\ PoolOf[k] \in Seq(Kinds)
  BY <1>3, PoolAssumption DEF ClassTable, ClassInv, ClassTyped
<1>5. i \in DOMAIN PoolOf[k] /\ PoolOf[k][i] \in Resolvable /\ PoolOf[k][i] \in Kinds
  BY <1>4 DEF Pending
<1> DEFINE tag == Tag(PoolOf[k][i], stage)
           tags == [klass[k].constants EXCEPT ![i] = tag]
           stages == [entries[k] EXCEPT ![i] = stage]
<1>6. tag \in Nat
  BY <1>5, TagOf DEF TagRight, Stages
<1>7. /\ DOMAIN klass[k].constants = DOMAIN PoolOf[k] /\ DOMAIN entries[k] = DOMAIN PoolOf[k]
      /\ klass[k].constants \in Seq(Nat)
  BY <1>1, <1>4 DEF ClassInv, ConstantsTagged, KlassFields
<1>8. /\ tags \in Seq(Nat) /\ DOMAIN tags = DOMAIN PoolOf[k]
      /\ \A j \in DOMAIN PoolOf[k] : tags[j] = IF j = i THEN tag ELSE klass[k].constants[j]
  <2> HIDE DEF tag
  <2> QED BY <1>5, <1>6, <1>7
<1>9. /\ stages \in Seq(Stages) /\ DOMAIN stages = DOMAIN PoolOf[k]
      /\ \A j \in DOMAIN PoolOf[k] : stages[j] = IF j = i THEN stage ELSE entries[k][j]
  BY <1>4, <1>5, <1>7 DEF Stages
<1>10. klass' = set_constants(klass, k, tags) /\ entries' = [entries EXCEPT ![k] = stages]
  BY <1>2
<1> HIDE DEF tags, stages
<1>11. Changed(klass, klass', k) /\ klass'[k] = [klass[k] EXCEPT !.constants = tags]
  BY <1>3, <1>8, <1>10, SetConstants
<1>12. /\ klass'[k].constants = tags /\ klass'[k].init_state = klass[k].init_state
       /\ klass'[k].super = klass[k].super /\ klass'[k].next_sibling = klass[k].next_sibling
       /\ klass'[k].vtable_len = klass[k].vtable_len
  BY <1>4, <1>11 DEF KlassFields
<1>13. (is_loaded(k)' <=> is_loaded(k)) /\ (is_linked(k)' <=> is_linked(k))
  BY <1>12 DEF is_loaded, is_linked
<1>14. klass'[Root] = klass[Root] /\ \A j \in Classes : j # k => klass'[j] = klass[j]
  BY <1>3, <1>11 DEF Changed
<1>15. /\ entries' \in [Classes -> Seq(Stages)] /\ entries'[k] = stages
       /\ \A j \in Classes : j # k => entries'[j] = entries[j]
  BY <1>9, <1>10 DEF ClassInv, ClassTyped
<1>16. ConstantsTagged(k)'
  BY <1>5, <1>7, <1>8, <1>9, <1>12, <1>15 DEF ClassInv, ConstantsTagged
<1>17. ClassTyped' /\ Loading'
  BY <1>1, <1>11, <1>15 DEF ClassInv, ClassTyped, Changed, Loading
<1>18. StateReached(k)' /\ CodePlaced(k)' /\ VtableSet(k)'
  BY <1>1, <1>12, <1>13 DEF ClassInv, StateReached, CodePlaced, VtableSet
<1> QED BY <1>1, <1>12, <1>13, <1>14, <1>15, <1>16, <1>17, <1>18, OneClass

(* The index that is found for a method lies in the vtable that is made.   *)
LEMMA Indices ==
    ASSUME NEW k \in Classes, NEW flags
    PROVE  /\ TheIndex(k, flags) \in Int /\ TheIndex(k, flags) >= -2
           /\ Max({Len(RootVtable), TheIndex(k, flags) + 1}) \in Nat
           /\ Max({Len(RootVtable), TheIndex(k, flags) + 1}) >= Len(RootVtable)
           /\ Max({Len(RootVtable), TheIndex(k, flags) + 1}) > TheIndex(k, flags)
<1> DEFINE i == index_of(RootVtable, NameOf[k])
           index == TheIndex(k, flags)
           n == Len(RootVtable)
<1>1. n \in Nat /\ Found(RootVtable, NameOf[k], n, i)
  BY Constants, IndexOf
<1>2. i \in Int /\ i >= -1
  BY <1>1 DEF Found
<1>3. index \in Int /\ index >= -2
  BY <1>1, <1>2 DEF TheIndex, nonvirtual_vtable_index
<1> HIDE DEF index, n
<1>4. \E m \in {n, index + 1} : \A y \in {n, index + 1} : m >= y
  BY <1>1, <1>3
<1>5. Max({n, index + 1}) \in {n, index + 1} /\ \A y \in {n, index + 1} : Max({n, index + 1}) >= y
  BY <1>4, Zenon DEF Max
<1> QED BY <1>1, <1>3, <1>5 DEF index, n

(* Linking: the method gets the slot of the one it overrides, a new one    *)
(* behind the super's, or none, and the vtable is long enough for it.      *)
LEMMA LinkKeeps ==
    ASSUME ClassInv, NEW t \in Threads, Alone(t), NEW k \in Classes, Link(t, k)
    PROVE  ClassInv'
<1> DEFINE flags == method[k].access_flags
           index == TheIndex(k, flags)
           len == Max({Len(RootVtable), index + 1})
           kl1 == set_methods(klass, k, <<NameOf[k]>>)
           kl2 == set_vtable_length(kl1, k, len)
<1>1. VtableIndex(k) = index
  BY DEF VtableIndex, TheIndex, ClassInv, RootKept
<1>2. /\ is_loaded(k) /\ ~is_linked(k)
      /\ klass' = set_init_state(kl2, k, linked)
      /\ reached' = [reached EXCEPT ![k] = reached[k] \cup {linked}]
      /\ method' = [method EXCEPT ![k] = [method[k] EXCEPT !.vtable_index = index]]
      /\ UNCHANGED <<space, top, busy, running, entries>>
      /\ \A u \in Threads : busy[u] = <<>>
  <2>1. klass[Root].vtable_len = Len(RootVtable)
    BY DEF ClassInv, RootKept
  <2> QED BY <1>1, <2>1, NoneLoading DEF Link, Enter, set_vtable_index
<1>3. klass \in ClassTable /\ k \in Classes \cup {Root} /\ Root \in Classes \cup {Root} /\ Root # k
  BY Constants DEF ClassInv, ClassTyped
<1>4. klass[k] \in KlassFields /\ method[k] \in MethodFields
  BY <1>3 DEF ClassTable, ClassInv, ClassTyped
<1>5. len \in Nat /\ index \in Int
  BY Indices
<1> HIDE DEF index, len
<1>6. <<NameOf[k]>> \in Seq(MethodNames)
  BY ClassAssumption
<1>7. Changed(klass, kl1, k) /\ kl1[k] = [klass[k] EXCEPT !.methods = <<NameOf[k]>>]
  BY <1>3, <1>6, SetMethods
<1> HIDE DEF kl1
<1>8. kl1 \in ClassTable /\ kl1[k] \in KlassFields
  BY <1>3, <1>7 DEF Changed, ClassTable
<1>9. Changed(kl1, kl2, k) /\ kl2[k] = [kl1[k] EXCEPT !.vtable_len = len]
  BY <1>3, <1>5, <1>8, SetVtableLength
<1> HIDE DEF kl2
<1>10. kl2 \in ClassTable /\ kl2[k] \in KlassFields
  BY <1>3, <1>9 DEF Changed, ClassTable
<1>11. Changed(kl2, klass', k) /\ klass'[k] = [kl2[k] EXCEPT !.init_state = linked]
  <2>1. linked \in allocated..initialization_error
    BY States
  <2> QED BY <1>2, <1>3, <1>10, <2>1, SetInitState
<1>12. /\ klass'[k].init_state = linked /\ klass'[k].vtable_len = len
       /\ klass'[k].constants = klass[k].constants /\ klass'[k].super = klass[k].super
       /\ klass'[k].next_sibling = klass[k].next_sibling
  BY <1>4, <1>7, <1>8, <1>9, <1>10, <1>11 DEF KlassFields
<1>13. klass' \in ClassTable /\ klass'[Root] = klass[Root] /\ \A j \in Classes : j # k => klass'[j] = klass[j]
  BY <1>3, <1>7, <1>9, <1>11 DEF Changed
<1>14. is_loaded(k)' /\ klass[k].init_state = loaded
  BY <1>2, <1>4, <1>12, States DEF is_loaded, is_linked, KlassFields
<1>15. /\ method' \in [Classes -> MethodFields]
       /\ method'[k].vtable_index = index /\ method'[k].access_flags = flags
       /\ method'[k].constMethod = method[k].constMethod
       /\ \A j \in Classes : j # k => method'[j] = method[j]
  <2>1. [method[k] EXCEPT !.vtable_index = index] \in MethodFields
    BY <1>4, <1>5 DEF MethodFields
  <2> QED BY <1>2, <1>4, <2>1 DEF ClassInv, ClassTyped, MethodFields
<1>16. VtableSet(k)'
  BY <1>12, <1>15 DEF VtableSet, index, len
<1>17. /\ reached' \in [Classes -> SUBSET (allocated..initialization_error)]
       /\ reached'[k] = reached[k] \cup {linked} /\ \A j \in Classes : j # k => reached'[j] = reached[j]
  BY <1>2, States DEF ClassInv, ClassTyped
<1>18. StateReached(k)'
  <2>1. StateReached(k)
    BY DEF ClassInv
  <2>2. reached[k] = 0..1 /\ running[k] = {} /\ klass[k].super = Root
    BY <1>2, <1>14, <2>1, States DEF StateReached
  <2>3. reached'[k] = 0..2
    BY <1>17, <2>2, States
  <2> QED BY <1>2, <1>12, <1>14, <2>2, <2>3, States DEF StateReached
<1>19. ClassTyped' /\ Loading'
  BY <1>2, <1>13, <1>15, <1>17 DEF ClassInv, ClassTyped, Loading
<1>20. CodePlaced(k)' /\ ConstantsTagged(k)'
  BY <1>2, <1>12, <1>14, <1>15 DEF ClassInv, CodePlaced, ConstantsTagged
<1> QED BY <1>2, <1>12, <1>13, <1>14, <1>15, <1>16, <1>17, <1>18, <1>19, <1>20, OneClass

(* A step of a linked class to another state, as BeginInit, EndInit and    *)
(* Retry take it.                                                          *)
LEMMA StateChanges ==
    ASSUME ClassInv, NEW k \in Classes, is_linked(k), NEW state \in linked..initialization_error,
           klass' = set_init_state(klass, k, state),
           \A u \in Threads : busy[u] = <<>>,
           UNCHANGED <<method, space, top, busy, entries>>,
           NEW states \in SUBSET (allocated..initialization_error), NEW threads \in SUBSET Threads,
           reached' = [reached EXCEPT ![k] = states], running' = [running EXCEPT ![k] = threads],
           states = IF state = initialization_error THEN (0..3) \cup {5} ELSE 0..state,
           IF state = being_initialized THEN \E t \in Threads : threads = {t} ELSE threads = {}
    PROVE  ClassInv'
<1>1. klass \in ClassTable /\ k \in Classes \cup {Root} /\ Root \in Classes \cup {Root} /\ Root # k
  BY Constants DEF ClassInv, ClassTyped
<1>2. klass[k] \in KlassFields
  BY <1>1 DEF ClassTable
<1>3. state \in allocated..initialization_error /\ state >= linked /\ state >= loaded
  BY States
<1>4. Changed(klass, klass', k) /\ klass'[k] = [klass[k] EXCEPT !.init_state = state]
  BY <1>1, <1>3, SetInitState
<1>5. /\ klass'[k].init_state = state /\ klass'[k].vtable_len = klass[k].vtable_len
      /\ klass'[k].constants = klass[k].constants /\ klass'[k].super = klass[k].super
      /\ klass'[k].next_sibling = klass[k].next_sibling
  BY <1>2, <1>4 DEF KlassFields
<1>6. klass' \in ClassTable /\ klass'[Root] = klass[Root] /\ \A j \in Classes : j # k => klass'[j] = klass[j]
  BY <1>1, <1>4 DEF Changed
<1>7. is_loaded(k) /\ is_loaded(k)' /\ is_linked(k)'
  BY <1>2, <1>3, <1>5, States DEF is_loaded, is_linked, KlassFields
<1>8. /\ reached' \in [Classes -> SUBSET (allocated..initialization_error)]
      /\ running' \in [Classes -> SUBSET Threads]
      /\ reached'[k] = states /\ running'[k] = threads
      /\ \A j \in Classes : j # k => reached'[j] = reached[j] /\ running'[j] = running[j]
  BY DEF ClassInv, ClassTyped
<1>9. StateReached(k)'
  BY <1>5, <1>7, <1>8 DEF ClassInv, StateReached
<1>10. ClassTyped' /\ Loading'
  BY <1>6, <1>8 DEF ClassInv, ClassTyped, Loading
<1>11. CodePlaced(k)' /\ ConstantsTagged(k)' /\ VtableSet(k)'
  BY <1>5, <1>7 DEF ClassInv, CodePlaced, ConstantsTagged, VtableSet
<1> QED BY <1>5, <1>6, <1>7, <1>8, <1>9, <1>10, <1>11, OneClass

(* A linked class that nobody has tried to initialize gets its first       *)
(* initializer.                                                            *)
LEMMA BeginInitKeeps ==
    ASSUME ClassInv, NEW t \in Threads, Alone(t), NEW k \in Classes, BeginInit(t, k)
    PROVE  ClassInv'
<1>1. /\ \A u \in Threads : busy[u] = <<>>
      /\ is_linked(k) /\ ~is_in_error_state(k) /\ ~is_initialized(k) /\ ~is_being_initialized(k)
      /\ klass' = set_init_state(klass, k, being_initialized)
      /\ reached' = [reached EXCEPT ![k] = reached[k] \cup {being_initialized}]
      /\ running' = [running EXCEPT ![k] = running[k] \cup {t}]
      /\ UNCHANGED <<method, space, top, busy, entries>>
  BY NoneLoading DEF BeginInit, Enter
<1>2. klass[k].init_state = linked
  <2>1. klass[k].init_state \in allocated..initialization_error
    BY DEF ClassInv, ClassTyped, ClassTable, KlassFields
  <2> QED BY <1>1, <2>1, States DEF is_linked, is_in_error_state, is_initialized, is_being_initialized
<1>3. reached[k] = 0..2 /\ running[k] = {}
  BY <1>2, States DEF ClassInv, StateReached
<1>4. reached[k] \cup {being_initialized} = 0..being_initialized /\ running[k] \cup {t} = {t}
  BY <1>3, States
<1>5. being_initialized \in linked..initialization_error /\ 0..being_initialized \in SUBSET (allocated..initialization_error)
  BY States
<1>6. \E u \in Threads : {t} = {u}
  OBVIOUS
<1>7. being_initialized # initialization_error
  BY States
<1>8. /\ reached' = [reached EXCEPT ![k] = 0..being_initialized]
      /\ running' = [running EXCEPT ![k] = {t}]
      /\ 0..being_initialized
            = IF being_initialized = initialization_error THEN (0..3) \cup {5} ELSE 0..being_initialized
  BY <1>1, <1>4, <1>7
<1>9. /\ {t} \in SUBSET Threads
      /\ IF being_initialized = being_initialized THEN \E u \in Threads : {t} = {u} ELSE {t} = {}
  BY <1>6
<1> QED BY <1>1, <1>5, <1>8, <1>9, StateChanges

(* The initializer records its success or failure, and is done. *)
LEMMA EndInitKeeps ==
    ASSUME ClassInv, NEW t \in Threads, Alone(t), NEW k \in Classes, EndInit(t, k)
    PROVE  ClassInv'
<1>1. PICK state \in {fully_initialized, initialization_error} : Enter(klass, k, state)
  BY DEF EndInit
<1>2. /\ \A u \in Threads : busy[u] = <<>>
      /\ t \in running[k]
      /\ klass' = set_init_state(klass, k, state)
      /\ reached' = [reached EXCEPT ![k] = reached[k] \cup {state}]
      /\ running' = [running EXCEPT ![k] = running[k] \ {t}]
      /\ UNCHANGED <<method, space, top, busy, entries>>
  BY <1>1, NoneLoading DEF EndInit, Enter
<1>3. klass[k].init_state = being_initialized /\ reached[k] = 0..3 /\ running[k] = {t}
  BY <1>2, States DEF ClassInv, StateReached
<1>4. is_linked(k)
  BY <1>3, States DEF is_linked
<1>5. /\ reached[k] \cup {state} = IF state = initialization_error THEN (0..3) \cup {5} ELSE 0..state
      /\ running[k] \ {t} = {}
  BY <1>3, States
<1>6. /\ state \in linked..initialization_error /\ state # being_initialized
      /\ reached[k] \cup {state} \in SUBSET (allocated..initialization_error)
  BY <1>3, States
<1>7. running[k] \ {t} \in SUBSET Threads
  BY <1>5
<1> QED BY <1>2, <1>4, <1>5, <1>6, <1>7, StateChanges

(* A class in error is linked again: it was linked before it failed. *)
LEMMA RetryKeeps ==
    ASSUME ClassInv, NEW t \in Threads, Alone(t), NEW k \in Classes, Retry(t, k)
    PROVE  ClassInv'
<1>1. /\ \A u \in Threads : busy[u] = <<>>
      /\ klass[k].init_state = initialization_error
      /\ klass' = set_init_state(klass, k, linked)
      /\ reached' = [reached EXCEPT ![k] = {allocated, loaded, linked}]
      /\ UNCHANGED <<method, space, top, busy, running, entries>>
  BY NoneLoading DEF Retry, is_in_error_state
<1>2. running[k] = {}
  BY <1>1, States DEF ClassInv, StateReached
<1>3. running' = [running EXCEPT ![k] = {}]
  BY <1>1, <1>2 DEF ClassInv, ClassTyped
<1>4. is_linked(k) /\ linked \in linked..initialization_error
  BY <1>1, States DEF is_linked
<1>5. /\ {allocated, loaded, linked} = 0..linked
      /\ {allocated, loaded, linked} \in SUBSET (allocated..initialization_error)
      /\ linked # initialization_error /\ linked # being_initialized
  BY States
<1>6. /\ reached' = [reached EXCEPT ![k] = 0..linked]
      /\ 0..linked = IF linked = initialization_error THEN (0..3) \cup {5} ELSE 0..linked
      /\ IF linked = being_initialized THEN \E u \in Threads : {} = {u} ELSE {} = {}
      /\ 0..linked \in SUBSET (allocated..initialization_error)
  BY <1>1, <1>5
<1> QED BY <1>1, <1>3, <1>4, <1>6, StateChanges

-----------------------------------------------------------------------------
(* The end of loading *)

(* The memory after a ConstMethod was made at top: its size, its id and    *)
(* its code are where they are looked for, and nothing below changed.      *)
LEMMA CodeCompiled ==
    ASSUME NEW k \in Classes, space \in [0 .. SpaceSize - 1 -> Int], top \in Nat,
           top + BlockSize(k) <= SpaceSize
    PROVE  /\ Compiled(k) \in [0 .. SpaceSize - 1 -> Int]
           /\ Compiled(k)[top] = Len(CodeOf[k]) /\ Compiled(k)[top + 1] = top % SizeMod
           /\ \A i \in 1 .. Len(CodeOf[k]) : Compiled(k)[top + HeaderSize + i - 1] = CodeOf[k][i]
           /\ \A i \in Nat : i < top => Compiled(k)[i] = space[i]
<1> DEFINE D == 0 .. SpaceSize - 1
           n == Len(CodeOf[k])
           base == top + HeaderSize
           mem1 == ConstMethod(space, top)
           mem2 == set_method_idnum(mem1, top, top)
           mem3 == set_code_size(mem2, top, n)
           id == top % SizeMod
<1>1. /\ CodeOf[k] \in Seq(Nat) /\ n \in Nat /\ n < SizeMod /\ HeaderSize + n <= BlockSize(k)
      /\ BlockSize(k) \in Nat /\ HeaderSize \in Nat /\ HeaderSize >= 2 /\ SpaceSize \in Nat
      /\ SizeMod \in Nat /\ SizeMod > 0 /\ DOMAIN space = D
  BY Blocks, Sizes
<1> DEFINE block == BlockSize(k)
<1> HIDE DEF n, block
<1>2. n % SizeMod = n /\ id \in Int
  <2>1. n \in Nat /\ n < SizeMod /\ SizeMod \in Int /\ SizeMod > 0
    BY <1>1
  <2>2. n % SizeMod = n
    BY <2>1
  <2>3. id \in Int
    BY <2>1
  <2> QED BY <2>2, <2>3
<1>3. \A i \in 1..n : CodeOf[k][i] \in Nat
  <2>1. CodeOf[k] \in Seq(Nat)
    BY <1>1
  <2> QED BY <2>1 DEF n
<1>4. base + n <= SpaceSize /\ top \in D /\ top + 1 \in D /\ base \in Nat /\ base >= top + 2
  BY <1>1
<1>5. mem1 = [i \in D |-> IF i \in top .. base - 1 THEN 0 ELSE space[i]]
  BY <1>1 DEF ConstMethod
<1>6. mem2 = [mem1 EXCEPT ![top + 1] = id]
  BY DEF set_method_idnum
<1>7. mem3 = [mem2 EXCEPT ![top] = n]
  BY <1>2 DEF set_code_size
<1> HIDE DEF id, mem1
<1>8. mem1 \in [D -> Int] /\ \A i \in D : i < top => mem1[i] = space[i]
  BY <1>4, <1>5
<1> HIDE DEF mem2
<1>9. mem2 \in [D -> Int] /\ mem2[top + 1] = id /\ \A i \in D : i < top => mem2[i] = space[i]
  BY <1>2, <1>4, <1>6, <1>8
<1> HIDE DEF mem3
<1>10. /\ mem3 \in [D -> Int] /\ mem3[top] = n /\ mem3[top + 1] = id
       /\ \A i \in D : i < top => mem3[i] = space[i]
  <2>1. n \in Int /\ top # top + 1
    BY <1>1
  <2> QED BY <1>4, <1>7, <1>9, <2>1
<1>11. Compiled(k) = [i \in D |-> IF i \in base .. base + n - 1 THEN CodeOf[k][i - base + 1] ELSE mem3[i]]
  <2>1. Compiled(k) = set_code(mem3, top, CodeOf[k])
    BY DEF Compiled, mem1, mem2, mem3, n
  <2>2. mem3[top] = n /\ DOMAIN mem3 = D
    BY <1>10
  <2> QED BY <2>1, <2>2 DEF set_code, code_base
<1> HIDE DEF base, n
<1>12. Compiled(k) \in [D -> Int]
  <2>1. \A i \in D : i \in base .. base + n - 1 => CodeOf[k][i - base + 1] \in Int
    BY <1>1, <1>3, <1>4
  <2> QED BY <1>10, <1>11, <2>1
<1>13. Compiled(k)[top] = n /\ Compiled(k)[top + 1] = id
  BY <1>1, <1>4, <1>10, <1>11
<1>14. \A i \in 1..n : Compiled(k)[base + i - 1] = CodeOf[k][i]
  BY <1>1, <1>4, <1>11
<1>15. \A i \in Nat : i < top => Compiled(k)[i] = space[i]
  BY <1>1, <1>4, <1>10, <1>11
<1> QED BY <1>12, <1>13, <1>14, <1>15 DEF D, n, base, id

(* A class put before a list of others is the first of a longer list.      *)
LEMMA Prepend ==
    ASSUME NEW S, IsFiniteSet(S), NEW k, k \notin S,
           NEW list \in Bijection(1 .. Cardinality(S), S)
    PROVE  /\ Cardinality(S) \in Nat /\ Cardinality(S \cup {k}) = Cardinality(S) + 1
           /\ [i \in 1 .. Cardinality(S) + 1 |-> IF i = 1 THEN k ELSE list[i - 1]]
                 \in Bijection(1 .. Cardinality(S) + 1, S \cup {k})
<1> DEFINE n == Cardinality(S)
           longer == [i \in 1 .. n + 1 |-> IF i = 1 THEN k ELSE list[i - 1]]
<1>1. n \in Nat /\ Cardinality(S \cup {k}) = n + 1
  BY FS_CardinalityType, FS_AddElement
<1>2. list \in Bijection(1..n, S)
  OBVIOUS
<1> HIDE DEF n
<1>3. /\ list \in [1..n -> S]
      /\ \A i, j \in 1..n : list[i] = list[j] => i = j
      /\ \A s \in S : \E i \in 1..n : list[i] = s
  BY <1>2 DEF Bijection, Injection, Surjection, IsInjective
<1>4. longer \in [1 .. n + 1 -> S \cup {k}] /\ \A i \in 2 .. n + 1 : longer[i] = list[i - 1] /\ longer[i] \in S
  BY <1>1, <1>3
<1>5. longer[1] = k
  BY <1>1
<1> HIDE DEF longer
<1>6. \A i, j \in 1 .. n + 1 : longer[i] = longer[j] => i = j
  BY <1>1, <1>3, <1>4, <1>5
<1>7. ASSUME NEW s \in S \cup {k} PROVE \E i \in 1 .. n + 1 : longer[i] = s
  <2>1. CASE s = k
    BY <1>1, <1>5, <2>1
  <2>2. CASE s \in S
    <3>1. PICK i \in 1..n : list[i] = s
      BY <1>3, <2>2
    <3>2. i + 1 \in 2 .. n + 1 /\ longer[i + 1] = s
      BY <1>1, <1>4, <3>1
    <3> QED BY <1>1, <3>2
  <2> QED BY <2>1, <2>2
<1>8. longer \in Bijection(1 .. n + 1, S \cup {k})
  BY <1>4, <1>6, <1>7 DEF Bijection, Injection, Surjection, IsInjective
<1> QED BY <1>1, <1>8 DEF n, longer

(* The fields of the classes after k was put at the head of the list.      *)
LEMMA Chained ==
    ASSUME klass \in ClassTable, NEW k \in Classes, NEW head \in Classes \cup {NoClass},
           NEW tags \in Seq(Nat),
           klass' = set_init_state(
                        set_constants(
                            set_subklass(set_next_sibling(set_super(klass, k, Root), k, head), Root, k),
                            k, tags),
                        k, loaded)
    PROVE  /\ klass' \in ClassTable
           /\ klass'[k].init_state = loaded /\ klass'[k].super = Root
           /\ klass'[k].next_sibling = head /\ klass'[k].constants = tags
           /\ klass'[Root] = [klass[Root] EXCEPT !.subklass = k]
           /\ \A j \in Classes : j # k => klass'[j] = klass[j]
<1> DEFINE kl1 == set_super(klass, k, Root)
           kl2 == set_next_sibling(kl1, k, head)
           kl3 == set_subklass(kl2, Root, k)
           kl4 == set_constants(kl3, k, tags)
           kl5 == set_init_state(kl4, k, loaded)
<1>1. k \in Classes \cup {Root} /\ Root \in Classes \cup {Root} /\ Root # k
  BY Constants
<1>2. klass' = kl5
  OBVIOUS
<1>3. Changed(klass, kl1, k) /\ kl1[k] = [klass[k] EXCEPT !.super = Root]
  BY <1>1, SetSuper
<1> HIDE DEF kl1
<1>4. kl1 \in ClassTable
  BY <1>3 DEF Changed
<1>5. Changed(kl1, kl2, k) /\ kl2[k] = [kl1[k] EXCEPT !.next_sibling = head]
  BY <1>1, <1>4, SetNextSibling
<1> HIDE DEF kl2
<1>6. kl2 \in ClassTable
  BY <1>5 DEF Changed
<1>7. Changed(kl2, kl3, Root) /\ kl3[Root] = [kl2[Root] EXCEPT !.subklass = k]
  BY <1>1, <1>6, SetSubklass
<1> HIDE DEF kl3
<1>8. kl3 \in ClassTable
  BY <1>7 DEF Changed
<1>9. Changed(kl3, kl4, k) /\ kl4[k] = [kl3[k] EXCEPT !.constants = tags]
  BY <1>1, <1>8, SetConstants
<1> HIDE DEF kl4
<1>10. kl4 \in ClassTable
  BY <1>9 DEF Changed
<1>11. Changed(kl4, kl5, k) /\ kl5[k] = [kl4[k] EXCEPT !.init_state = loaded]
  <2>1. loaded \in allocated..initialization_error
    BY States
  <2> QED BY <1>1, <1>10, <2>1, SetInitState
<1> HIDE DEF kl5
<1>12. kl5 \in ClassTable /\ kl5[Root] = [klass[Root] EXCEPT !.subklass = k]
  <2>1. kl2[Root] = kl1[Root] /\ kl1[Root] = klass[Root]
    BY <1>1, <1>3, <1>5 DEF Changed
  <2>2. kl5[Root] = kl4[Root] /\ kl4[Root] = kl3[Root]
    BY <1>1, <1>9, <1>11 DEF Changed
  <2>3. kl5 \in ClassTable
    BY <1>11 DEF Changed
  <2> QED BY <1>7, <2>1, <2>2, <2>3
<1>13. \A j \in Classes : j # k => kl5[j] = klass[j]
  <2>1. \A j \in Classes : j # k /\ j # Root =>
           /\ kl1[j] = klass[j] /\ kl2[j] = kl1[j] /\ kl3[j] = kl2[j] /\ kl4[j] = kl3[j] /\ kl5[j] = kl4[j]
    BY <1>3, <1>5, <1>7, <1>9, <1>11 DEF Changed
  <2> QED BY <2>1, Constants
<1>14. kl3[k] = kl2[k]
  BY <1>1, <1>7 DEF Changed
<1>15. klass[k] \in KlassFields /\ kl1[k] \in KlassFields /\ kl2[k] \in KlassFields /\ kl4[k] \in KlassFields
  BY <1>1, <1>4, <1>6, <1>10 DEF ClassTable
<1>16. /\ kl5[k].init_state = loaded /\ kl5[k].super = Root
       /\ kl5[k].next_sibling = head /\ kl5[k].constants = tags
  BY <1>3, <1>5, <1>9, <1>11, <1>14, <1>15 DEF KlassFields
<1> QED BY <1>2, <1>12, <1>13, <1>16

(* The class is put at the head of the list of subclasses, before the head *)
(* that was read, which still is the head; its bytecodes get memory behind *)
(* all earlier ones.                                                       *)
LEMMA EndLoadKeeps ==
    ASSUME ClassInv, NEW t \in Threads, Alone(t), EndLoad(t)
    PROVE  ClassInv'
<1>1. /\ busy[t][1] \in Classes /\ busy[t][2] \in Classes \cup {NoClass}
      /\ ~is_loaded(busy[t][1]) /\ busy[t][2] = klass[Root].subklass
  BY DEF EndLoad, ClassInv, ClassTyped, Loading
<1>2. PICK k \in Classes, head \in Classes \cup {NoClass} :
         /\ k = busy[t][1] /\ head = busy[t][2]
         /\ ~is_loaded(k) /\ head = klass[Root].subklass
  BY <1>1
<1>3. PICK flags \in FlagsOf[k] :
         method' = [method EXCEPT ![k] = set_access_flags(set_constMethod(method[k], top), flags)]
  BY <1>2 DEF EndLoad
<1>4. /\ top + BlockSize(k) <= SpaceSize
      /\ reached' = [reached EXCEPT ![k] = reached[k] \cup {loaded}]
      /\ entries' = [entries EXCEPT ![k] = [i \in DOMAIN PoolOf[k] |-> "symbolic"]]
      /\ space' = Compiled(k) /\ top' = top + BlockSize(k)
      /\ busy' = [busy EXCEPT ![t] = <<>>] /\ UNCHANGED running
  BY <1>2 DEF EndLoad, Enter, Known
<1>5. klass' = set_init_state(
                   set_constants(
                       set_subklass(set_next_sibling(set_super(klass, k, Root), k, head), Root, k),
                       k, Tags(k, "symbolic")),
                   k, loaded)
  BY <1>2 DEF EndLoad, Enter
<1>6. /\ klass \in ClassTable /\ klass[k] \in KlassFields /\ klass[Root] \in KlassFields
      /\ method[k] \in MethodFields /\ space \in [0 .. SpaceSize - 1 -> Int]
      /\ top \in Nat /\ is_aligned(top, WordSize)
  BY <1>2, Sizes DEF ClassInv, ClassTyped, ClassTable
<1>7. /\ Tags(k, "symbolic") \in Seq(Nat) /\ DOMAIN Tags(k, "symbolic") = DOMAIN PoolOf[k]
      /\ \A i \in DOMAIN PoolOf[k] : Tags(k, "symbolic")[i] = Tag(PoolOf[k][i], "symbolic")
      /\ [i \in DOMAIN PoolOf[k] |-> "symbolic"] \in Seq(Stages)
  BY <1>2, TagsOf
<1>8. /\ klass' \in ClassTable
      /\ klass'[k].init_state = loaded /\ klass'[k].super = Root
      /\ klass'[k].next_sibling = head /\ klass'[k].constants = Tags(k, "symbolic")
      /\ klass'[Root] = [klass[Root] EXCEPT !.subklass = k]
      /\ \A j \in Classes : j # k => klass'[j] = klass[j]
  BY <1>2, <1>5, <1>6, <1>7, Chained
<1>9. is_loaded(k)' /\ ~is_linked(k)' /\ klass[k].init_state = allocated
  <2>1. klass[k].init_state \in allocated..initialization_error
    BY <1>6 DEF KlassFields
  <2>2. is_loaded(k)' /\ ~is_linked(k)'
    BY <1>8, States DEF is_loaded, is_linked
  <2>3. klass[k].init_state = allocated
    BY <1>2, <2>1, States DEF is_loaded
  <2> QED BY <2>2, <2>3
<1>10. /\ Compiled(k) \in [0 .. SpaceSize - 1 -> Int]
       /\ Compiled(k)[top] = Len(CodeOf[k]) /\ Compiled(k)[top + 1] = top % SizeMod
       /\ \A i \in 1 .. Len(CodeOf[k]) : Compiled(k)[top + HeaderSize + i - 1] = CodeOf[k][i]
       /\ \A i \in Nat : i < top => Compiled(k)[i] = space[i]
  BY <1>2, <1>4, <1>6, CodeCompiled
<1>11. /\ BlockSize(k) \in Nat /\ top' \in Nat /\ top <= top' /\ top' \in 0..SpaceSize
       /\ is_aligned(top', WordSize)
  <2>1. BlockSize(k) \in Nat /\ is_aligned(BlockSize(k), WordSize) /\ SpaceSize \in Int
    BY <1>2, Blocks, Sizes
  <2>2. is_aligned(top + BlockSize(k), WordSize)
    <3>1. top \in Int /\ BlockSize(k) \in Int
      BY <1>6, <2>1
    <3> QED BY <1>6, <2>1, <3>1, AlignedSum
  <2> QED BY <1>4, <1>6, <2>1, <2>2
<1>12. /\ method' \in [Classes -> MethodFields] /\ method'[k].constMethod = top
       /\ \A j \in Classes : j # k => method'[j] = method[j]
  <2> DEFINE m == set_access_flags(set_constMethod(method[k], top), flags)
  <2>1. flags \in SUBSET Nat
    BY <1>2, <1>3, ClassAssumption
  <2>2. m \in MethodFields /\ m.constMethod = top
    <3> DEFINE m1 == set_constMethod(method[k], top)
    <3>0. top \in -1 .. SpaceSize - 1
      BY <1>2, <1>4, <1>6, Blocks, Sizes
    <3>1. m1 \in MethodFields /\ m1.constMethod = top
      BY <1>6, <3>0 DEF MethodFields, set_constMethod
    <3> HIDE DEF m1
    <3>2. m = [m1 EXCEPT !.access_flags = flags]
      BY DEF m1, set_access_flags
    <3> QED BY <2>1, <3>1, <3>2 DEF MethodFields
  <2>3. method' = [method EXCEPT ![k] = m]
    BY <1>3
  <2> HIDE DEF m
  <2> QED BY <1>2, <2>2, <2>3 DEF ClassInv, ClassTyped
<1>13. /\ reached' \in [Classes -> SUBSET (allocated..initialization_error)]
       /\ reached'[k] = reached[k] \cup {loaded}
       /\ \A j \in Classes : j # k => reached'[j] = reached[j]
  BY <1>2, <1>4, States DEF ClassInv, ClassTyped
<1>14. /\ entries' \in [Classes -> Seq(Stages)]
       /\ entries'[k] = [i \in DOMAIN PoolOf[k] |-> "symbolic"]
       /\ \A j \in Classes : j # k => entries'[j] = entries[j]
  BY <1>2, <1>4, <1>7 DEF ClassInv, ClassTyped
<1>15. busy' \in [Threads -> {<<>>}] /\ \A u \in Threads : busy'[u] = <<>>
  BY <1>4 DEF ClassInv, ClassTyped, Loading, Alone, Working
<1>16. ClassTyped'
  <2>1. busy' \in [Threads -> {<<>>} \cup (Classes \X (Classes \cup {NoClass}))]
    BY <1>15
  <2> QED BY <1>4, <1>8, <1>10, <1>11, <1>12, <1>13, <1>14, <2>1 DEF ClassInv, ClassTyped
<1>17. RootKept' /\ Loading'
  <2>1. Loading'
    BY <1>15 DEF Loading
  <2>2. RootKept'
    BY <1>6, <1>8 DEF ClassInv, RootKept, KlassFields
  <2> QED BY <2>1, <2>2
<1>18. StateReached(k)'
  <2>1. reached[k] = {0} /\ running[k] = {}
    BY <1>2, <1>9, States DEF ClassInv, StateReached
  <2>2. reached'[k] = 0..1
    BY <1>13, <2>1, States
  <2>3. running'[k] = {}
    BY <1>4, <2>1
  <2>4. /\ loaded = 1 /\ loaded # initialization_error /\ loaded # being_initialized
    BY States
  <2> QED BY <1>8, <1>9, <2>2, <2>3, <2>4 DEF StateReached
<1>19. CodePlaced(k)' /\ VtableSet(k)'
  <2>1. method'[k].constMethod + BlockSize(k) <= top' /\ method'[k].constMethod \in Nat
    BY <1>4, <1>6, <1>11, <1>12
  <2>2. /\ space'[top] = Len(CodeOf[k]) /\ space'[top + 1] = top % SizeMod
        /\ \A i \in 1 .. Len(CodeOf[k]) : space'[top + HeaderSize + i - 1] = CodeOf[k][i]
    BY <1>4, <1>10
  <2>3. CodePlaced(k)'
    BY <1>6, <1>12, <2>1, <2>2 DEF CodePlaced
  <2> QED BY <1>9, <2>3 DEF VtableSet
<1>20. ConstantsTagged(k)'
  <2>1. DOMAIN entries'[k] = DOMAIN PoolOf[k] /\ \A i \in DOMAIN PoolOf[k] : entries'[k][i] = "symbolic"
    BY <1>14
  <2>2. klass'[k].constants = Tags(k, "symbolic")
    BY <1>8
  <2> QED BY <1>7, <2>1, <2>2 DEF ConstantsTagged
<1>21. ASSUME NEW j \in Classes, j # k
       PROVE  StateReached(j)' /\ CodePlaced(j)' /\ VtableSet(j)' /\ ConstantsTagged(j)'
  <2>1. \A i \in Nat : i < top => space'[i] = space[i]
    BY <1>4, <1>10
  <2>2. /\ klass'[j] = klass[j] /\ method'[j] = method[j] /\ running'[j] = running[j]
        /\ reached'[j] = reached[j] /\ entries'[j] = entries[j]
    BY <1>4, <1>8, <1>12, <1>13, <1>14, <1>21
  <2> QED BY <1>11, <2>1, <2>2, ClassUntouched DEF ClassInv
<1>22. AllListed'
  <2>1. Loaded' = Loaded \cup {k} /\ k \notin Loaded
    <3>1. \A j \in Classes : j # k => (is_loaded(j)' <=> is_loaded(j))
      BY <1>8 DEF is_loaded
    <3>2. \A j \in Classes : is_loaded(j)' <=> is_loaded(j) \/ j = k
      BY <1>9, <3>1
    <3>3. Loaded' = {j \in Classes : is_loaded(j)'}
      BY DEF Loaded
    <3> QED BY <1>2, <3>2, <3>3 DEF Loaded
  <2>2. IsFiniteSet(Loaded)
    BY ClassAssumption, FS_Subset DEF Loaded
  <2>3. PICK list \in Bijection(1 .. Cardinality(Loaded), Loaded) : Listed(list, Cardinality(Loaded))
    BY DEF ClassInv, AllListed
  <2>4. PICK size \in Nat : size = Cardinality(Loaded)
    BY <2>2, FS_CardinalityType
  <2>5. PICK longer : longer = [i \in 1 .. size + 1 |-> IF i = 1 THEN k ELSE list[i - 1]]
    OBVIOUS
  <2>6. Cardinality(Loaded') = size + 1 /\ longer \in Bijection(1 .. size + 1, Loaded')
    BY <2>1, <2>2, <2>3, <2>4, <2>5, Prepend
  <2>7. \A i \in 1..size : list[i] \in Classes /\ list[i] # k
    BY <2>1, <2>3, <2>4 DEF Bijection, Injection, Loaded
  <2>8. Listed(longer, size + 1)'
    <3>1. /\ klass[Root].subklass = IF 0 < size THEN list[1] ELSE NoClass
          /\ \A i \in 1..size : klass[list[i]].next_sibling = IF i < size THEN list[i + 1] ELSE NoClass
      BY <2>3, <2>4 DEF Listed
    <3>2. klass'[Root].subklass = k
      BY <1>6, <1>8 DEF KlassFields
    <3>3. /\ longer[1] = k /\ \A i \in 2 .. size + 1 : longer[i] = list[i - 1]
      BY <2>4, <2>5
    <3>4. klass'[longer[1]].next_sibling = IF 1 < size + 1 THEN longer[2] ELSE NoClass
      <4>1. klass'[longer[1]].next_sibling = klass[Root].subklass
        BY <1>2, <1>8, <3>3
      <4>2. CASE size = 0
        BY <3>1, <4>1, <4>2
      <4>3. CASE size > 0
        <5>1. longer[2] = list[1]
          BY <2>4, <3>3, <4>3
        <5> QED BY <2>4, <3>1, <4>1, <4>3, <5>1
      <4> QED BY <2>4, <4>2, <4>3
    <3>5. ASSUME NEW i \in 2 .. size + 1
          PROVE  klass'[longer[i]].next_sibling = IF i < size + 1 THEN longer[i + 1] ELSE NoClass
      <4>1. i - 1 \in 1..size /\ longer[i] = list[i - 1]
        BY <2>4, <3>3
      <4>2. klass'[longer[i]] = klass[list[i - 1]]
        BY <1>8, <2>7, <4>1
      <4>3. klass[list[i - 1]].next_sibling = IF i - 1 < size THEN list[i - 1 + 1] ELSE NoClass
        BY <3>1, <4>1
      <4>4. i < size + 1 => longer[i + 1] = list[i]
        BY <2>4, <3>3
      <4> QED BY <2>4, <4>2, <4>3, <4>4
    <3>6. \A i \in 1 .. size + 1 : i = 1 \/ i \in 2 .. size + 1
      BY <2>4
    <3> QED BY <2>4, <3>2, <3>3, <3>4, <3>5, <3>6 DEF Listed
  <2> QED BY <2>6, <2>8 DEF AllListed
<1>23. \A j \in Classes : StateReached(j)' /\ CodePlaced(j)' /\ VtableSet(j)' /\ ConstantsTagged(j)'
  BY <1>18, <1>19, <1>20, <1>21
<1> QED BY <1>16, <1>17, <1>22, <1>23 DEF ClassInv

-----------------------------------------------------------------------------
(* Every step, and what the invariant says *)

(* What a thread does to the classes while it has the lock. *)
LEMMA ClassStepKeeps ==
    ASSUME ClassInv, NEW t \in Threads, Alone(t), ClassStep(t)
    PROVE  ClassInv'
<1>1. ASSUME NEW k \in Classes,
             BeginLoad(t, k) \/ Resolve(t, k) \/ Link(t, k)
             \/ BeginInit(t, k) \/ EndInit(t, k) \/ Retry(t, k)
      PROVE  ClassInv'
  BY <1>1, BeginLoadKeeps, ResolveKeeps, LinkKeeps, BeginInitKeeps, EndInitKeeps, RetryKeeps
<1> QED BY <1>1, EndLoadKeeps DEF ClassStep

(* A step that is none of the classes, of a thread that loads none, or     *)
(* that goes on with its operation.                                        *)
LEMMA LockKeepsClasses ==
    ASSUME ClassInv, UNCHANGED classVars, \A u \in Threads : busy[u] # <<>> => Working(u)'
    PROVE  ClassInv'
<1>1. /\ klass' = klass /\ method' = method /\ space' = space /\ top' = top
      /\ busy' = busy /\ running' = running /\ reached' = reached /\ entries' = entries
  BY DEF classVars
<1>2. \A k \in Classes : (is_loaded(k)' <=> is_loaded(k)) /\ (is_linked(k)' <=> is_linked(k))
  BY <1>1 DEF is_loaded, is_linked
<1>3. ClassTyped' /\ RootKept'
  BY <1>1 DEF ClassInv, ClassTyped, RootKept
<1>4. Loading'
  <2>1. \A u \in Threads : busy[u] # <<>> => busy[u][1] \in Classes
    BY DEF ClassInv, ClassTyped
  <2> QED BY <1>1, <1>2, <2>1 DEF ClassInv, Loading
<1>5. AllListed'
  BY <1>1, <1>2, ListUntouched DEF ClassInv
<1>6. \A k \in Classes : StateReached(k)' /\ CodePlaced(k)' /\ VtableSet(k)' /\ ConstantsTagged(k)'
  <2>1. top \in Nat
    BY Sizes DEF ClassInv, ClassTyped
  <2> QED BY <1>1, <2>1, ClassUntouched DEF ClassInv
<1> QED BY <1>3, <1>4, <1>5, <1>6 DEF ClassInv

(* A loaded class is a subclass of Root, and its history that of its state. *)
LEMMA StatesMean ==
    ASSUME ClassInv
    PROVE  ClassTypeOK /\ LifeCycle /\ SubclassesListed
<1>1. \A k \in Classes \cup {Root} : klass[k] \in KlassFields
  BY DEF ClassInv, ClassTyped, ClassTable
<1>2. ClassTypeOK
  BY <1>1, Sizes DEF ClassInv, ClassTyped, ClassTypeOK, KlassFields, MethodFields
<1>3. ASSUME NEW k \in Classes
      PROVE  /\ is_loaded(k) <=> loaded \in reached[k]
             /\ is_linked(k) <=> linked \in reached[k]
             /\ is_initialized(k) <=> fully_initialized \in reached[k]
             /\ is_being_initialized(k) <=> running[k] # {}
             /\ \A t, u \in running[k] : t = u
             /\ is_in_error_state(k) => being_initialized \in reached[k]
  <2>1. klass[k].init_state \in 0..5
    BY <1>1, States DEF KlassFields
  <2>2. StateReached(k)
    BY DEF ClassInv
  <2> QED BY <2>1, <2>2, States DEF StateReached, is_loaded, is_linked, is_initialized,
                                    is_being_initialized, is_in_error_state
<1>4. SubclassesListed
  <2>1. \A k \in Classes : is_loaded(k) <=> klass[k].super = Root
    BY DEF ClassInv, StateReached
  <2> QED BY <2>1 DEF ClassInv, AllListed, Listed, Loaded, SubclassesListed
<1> QED BY <1>2, <1>3, <1>4 DEF LifeCycle

(* The n elements behind the first base of a function's values. *)
LEMMA Slice ==
    ASSUME NEW S, NEW f, NEW base \in Int, NEW n \in Nat,
           \A i \in base + 1 .. base + n : f[i] \in S
    PROVE  /\ SubSeq(f, base + 1, base + n) \in Seq(S)
           /\ Len(SubSeq(f, base + 1, base + n)) = n
           /\ \A i \in 1..n : SubSeq(f, base + 1, base + n)[i] = f[base + i]
<1>1. PICK lo \in Int, hi \in Int : lo = base + 1 /\ hi = base + n
  OBVIOUS
<1>2. \A i \in lo..hi : f[i] \in S
  BY <1>1
<1>3. /\ SubSeq(f, lo, hi) \in Seq(S)
      /\ Len(SubSeq(f, lo, hi)) = IF lo <= hi THEN hi - lo + 1 ELSE 0
      /\ \A i \in 1 .. hi - lo + 1 : SubSeq(f, lo, hi)[i] = f[lo + i - 1]
  BY <1>2, SubSeqProperties
<1>4. \A i \in 1..n : lo + i - 1 = base + i /\ i \in 1 .. hi - lo + 1
  BY <1>1
<1>5. Len(SubSeq(f, lo, hi)) = n
  BY <1>1, <1>3
<1> QED BY <1>1, <1>3, <1>4, <1>5

(* The code of a loaded class is where code_base says. *)
LEMMA CodeMeans ==
    ASSUME ClassInv
    PROVE  CodeInline
<1> SUFFICES ASSUME NEW k \in Classes, is_loaded(k)
             PROVE  LET c == method[k].constMethod
                        n == Len(CodeOf[k])
                    IN  /\ is_aligned(c, WordSize)
                        /\ code_size(c) = n /\ method_idnum(c) = c % SizeMod
                        /\ code_end(c) <= SpaceSize
                        /\ SubSeq([i \in 1..SpaceSize |-> space[i - 1]], code_base(c) + 1, code_end(c))
                              = CodeOf[k]
                        /\ \A i \in 0..SpaceSize : code_contains(c, i) <=> i - code_base(c) \in 0 .. n - 1
  BY DEF CodeInline
<1> DEFINE c == method[k].constMethod
           n == Len(CodeOf[k])
           mem == [i \in 1..SpaceSize |-> space[i - 1]]
           base == c + HeaderSize
<1>1. /\ c \in Nat /\ is_aligned(c, WordSize) /\ c + BlockSize(k) <= top
      /\ space[c] = n /\ space[c + 1] = c % SizeMod
      /\ \A i \in 1..n : space[c + HeaderSize + i - 1] = CodeOf[k][i]
  BY DEF ClassInv, CodePlaced
<1>2. /\ n \in Nat /\ BlockSize(k) \in Nat /\ HeaderSize + n <= BlockSize(k)
      /\ CodeOf[k] \in Seq(Nat)
  BY Blocks
<1>3. top \in 0..SpaceSize
  BY DEF ClassInv, ClassTyped
<1>4. code_size(c) = n /\ method_idnum(c) = c % SizeMod /\ code_base(c) = base
  BY <1>1 DEF code_size, method_idnum, code_base
<1>5. code_end(c) = base + n
  BY <1>4 DEF code_end
<1> HIDE DEF c, n, mem
<1>6. base \in Nat /\ base + n \in Nat /\ base + n <= SpaceSize /\ SpaceSize \in Nat
  BY <1>1, <1>2, <1>3, Sizes
<1>7. \A i \in 1..n : mem[base + i] = CodeOf[k][i]
  <2>1. ASSUME NEW i \in 1..n, NEW j, j = base + i
        PROVE  mem[j] = CodeOf[k][i]
    <3>1. j \in 1..SpaceSize /\ j - 1 = c + HeaderSize + i - 1
      BY <1>1, <1>2, <1>6, <2>1, Sizes
    <3>2. mem[j] = space[j - 1]
      BY <3>1 DEF mem
    <3>3. space[c + HeaderSize + i - 1] = CodeOf[k][i]
      BY <1>1
    <3> QED BY <3>1, <3>2, <3>3
  <2> QED BY <2>1
<1> HIDE DEF base
<1>8. SubSeq(mem, base + 1, base + n) = CodeOf[k]
  <2> DEFINE s == SubSeq(mem, base + 1, base + n)
  <2>1. \A i \in 1..n : CodeOf[k][i] \in Nat
    BY <1>2 DEF n
  <2>2. \A j \in base + 1 .. base + n : mem[j] \in Nat
    <3> SUFFICES ASSUME NEW j \in base + 1 .. base + n PROVE mem[j] \in Nat
      OBVIOUS
    <3>1. j - base \in 1..n /\ base + (j - base) = j
      BY <1>2, <1>6
    <3>2. mem[base + (j - base)] = CodeOf[k][j - base]
      BY <1>7, <3>1
    <3> QED BY <2>1, <3>1, <3>2
  <2>3. s \in Seq(Nat) /\ Len(s) = n /\ \A i \in 1..n : s[i] = mem[base + i]
    <3>1. base \in Int /\ n \in Nat
      BY <1>2, <1>6
    <3> QED BY <2>2, <3>1, Slice DEF s
  <2> HIDE DEF s
  <2>6. \A i \in 1..n : s[i] = CodeOf[k][i]
    BY <1>7, <2>3
  <2>7. s = CodeOf[k]
    BY <1>2, <2>3, <2>6, SeqEqual DEF n
  <2> QED BY <2>7 DEF s
<1>9. \A i \in 0..SpaceSize : code_contains(c, i) <=> i - base \in 0 .. n - 1
  BY <1>2, <1>4, <1>5, <1>6 DEF code_contains
<1> QED BY <1>1, <1>4, <1>5, <1>6, <1>8, <1>9 DEF c, n, mem

(* A linked method has the last slot of its name, or the one behind all.   *)
LEMMA VtableMeans ==
    ASSUME ClassInv
    PROVE  MethodsFound
<1> SUFFICES ASSUME NEW k \in Classes, is_linked(k)
             PROVE  LET slots == {i - 1 : i \in {j \in DOMAIN RootVtable : RootVtable[j] = NameOf[k]}}
                        m == method[k]
                    IN  /\ ~has_itable_index(m)
                        /\ m.vtable_index < klass[k].vtable_len
                        /\ klass[k].vtable_len >= Len(RootVtable)
                        /\ has_vtable_index(m) <=> {1, 3} \cap m.access_flags = {}
                        /\ has_vtable_index(m) /\ slots # {} =>
                              m.vtable_index \in slots /\ \A i \in slots : i <= m.vtable_index
                        /\ has_vtable_index(m) /\ slots = {} => m.vtable_index = Len(RootVtable)
  BY DEF MethodsFound
<1> DEFINE m == method[k]
           x == NameOf[k]
           n == Len(RootVtable)
           found == index_of(RootVtable, x)
           slots == {i - 1 : i \in {j \in DOMAIN RootVtable : RootVtable[j] = x}}
           index == TheIndex(k, m.access_flags)
           none == is_static(m.access_flags) \/ is_private(m.access_flags)
<1>1. m.vtable_index = index /\ klass[k].vtable_len = Max({n, index + 1})
  BY DEF ClassInv, VtableSet
<1>2. index \in Int /\ index >= -2 /\ Max({n, index + 1}) >= n /\ Max({n, index + 1}) > index
  BY Indices
<1>3. n \in Nat /\ DOMAIN RootVtable = 1..n /\ Found(RootVtable, x, n, found)
  BY Constants, IndexOf
<1>4. found \in Int /\ (contains(RootVtable, x) <=> found >= 0)
  BY <1>3 DEF Found, contains
<1>5. index = IF none THEN -2 ELSE IF found >= 0 THEN found ELSE n
  BY <1>4 DEF TheIndex, nonvirtual_vtable_index
<1>6. none <=> {1, 3} \cap m.access_flags # {}
  BY DEF is_static, is_private
<1>7. \A i : i \in slots <=> i \in 0 .. n - 1 /\ RootVtable[i + 1] = x
  <2>1. \A i : i \in slots <=> \E j \in 1..n : RootVtable[j] = x /\ i = j - 1
    BY <1>3
  <2> HIDE DEF slots
  <2>2. ASSUME NEW i, i \in slots PROVE i \in 0 .. n - 1 /\ RootVtable[i + 1] = x
    BY <1>3, <2>1, <2>2
  <2>3. ASSUME NEW i \in 0 .. n - 1, RootVtable[i + 1] = x PROVE i \in slots
    <3>1. i + 1 \in 1..n /\ i = (i + 1) - 1
      BY <1>3
    <3> QED BY <2>1, <2>3, <3>1
  <2> QED BY <2>2, <2>3
<1> HIDE DEF m, x, n, found, slots, index, none
<1>8. has_vtable_index(m) <=> index >= 0
  BY <1>1 DEF has_vtable_index
<1>9. ~has_itable_index(m)
  BY <1>1, <1>2 DEF has_itable_index, itable_index_max
<1>10. has_vtable_index(m) <=> ~none
  BY <1>3, <1>4, <1>5, <1>8
<1>11. CASE found = -1
  <2>1. slots = {}
    <3> SUFFICES ASSUME NEW i \in slots PROVE FALSE
      OBVIOUS
    <3>1. i \in 0 .. n - 1 /\ RootVtable[i + 1] = x
      BY <1>7
    <3>2. i + 1 \in 1..n
      BY <1>3, <3>1
    <3> QED BY <1>3, <1>11, <3>1, <3>2 DEF Found
  <2>2. has_vtable_index(m) => m.vtable_index = n
    BY <1>1, <1>5, <1>10, <1>11
  <2> QED BY <1>1, <1>2, <1>6, <1>9, <1>10, <2>1, <2>2 DEF m, n, slots, x
<1>12. CASE found # -1
  <2>1. found \in 0 .. n - 1 /\ RootVtable[found + 1] = x /\ \A j \in found + 2 .. n : RootVtable[j] # x
    BY <1>3, <1>12 DEF Found
  <2>2. found \in slots
    BY <1>7, <2>1
  <2>3. ASSUME NEW i \in slots PROVE i <= found
    <3>1. i \in 0 .. n - 1 /\ RootVtable[i + 1] = x
      BY <1>7
    <3>2. i > found => i + 1 \in found + 2 .. n
      BY <1>3, <1>4, <3>1
    <3> QED BY <1>4, <2>1, <3>1, <3>2
  <2>4. has_vtable_index(m) => m.vtable_index = found
    BY <1>1, <1>5, <1>10, <2>1
  <2>5. slots # {} /\ (has_vtable_index(m) => m.vtable_index \in slots /\ \A i \in slots : i <= m.vtable_index)
    BY <2>2, <2>3, <2>4
  <2> QED BY <1>1, <1>2, <1>6, <1>9, <1>10, <2>5 DEF m, n, slots, x
<1> QED BY <1>11, <1>12

(* The tag of a constant answers as its kind and its stage say.            *)
LEMMA TagsMean ==
    ASSUME ClassInv
    PROVE  TagsTold
<1>1. ASSUME NEW k \in Classes, NEW i \in DOMAIN entries[k]
      PROVE  TagRight(klass[k].constants[i], PoolOf[k][i], entries[k][i])
  <2>1. ConstantsTagged(k) /\ entries[k] \in Seq(Stages)
    BY DEF ClassInv, ClassTyped
  <2>2. PoolOf[k] \in Seq(Kinds)
    BY PoolAssumption
  <2>3. entries[k][i] \in Stages /\ PoolOf[k][i] \in Kinds
    BY <2>1, <2>2 DEF ConstantsTagged
  <2> QED BY <2>1, <2>3, TagOf DEF ConstantsTagged
<1> QED BY <1>1 DEF TagsTold, TagRight

(* All that is checked of the classes. *)
LEMMA ClassInvMeans ==
    ASSUME ClassInv
    PROVE  ClassTypeOK /\ LifeCycle /\ SubclassesListed /\ CodeInline /\ MethodsFound /\ TagsTold
BY StatesMean, CodeMeans, VtableMeans, TagsMean

=============================================================================
