--------------------------- MODULE ClassMetadata ---------------------------
(***************************************************************************)
(* oops/klass.hpp, instanceKlass.hpp, method.hpp, constMethod.hpp and      *)
(* array.hpp, with utilities/constantTag.hpp and the alignment functions   *)
(* of globalDefinitions.hpp: the metadata of classes, as threads load,     *)
(* link and initialize them under the spin lock.                           *)
(*                                                                         *)
(* The fields are behind plain getters and setters. Their clients follow   *)
(* the life cycle of ClassState, and what the fields mean:                 *)
(*   load        allocate the method, chain the class to its super's other *)
(*               subclasses                                                *)
(*   link        resolve the constants, give the method its vtable index   *)
(*   initialize  one thread runs <clinit>, without the lock                *)
(***************************************************************************)
EXTENDS SpinLock, Sequences, FiniteSetsExt, Functions

CONSTANTS
    Classes,     \* the InstanceKlasses that are loaded, below one super class
    Root,        \* their super class
    NoClass,     \* nullptr
    MethodNames, \* the names of methods
    RootVtable,  \* the methods in the vtable of Root, an Array<Method*>
    NameOf,      \* of each class, its method's name
    FlagsOf,     \* the access flags its method may have, sets of bits
    CodeOf,      \* the method's bytecodes
    PoolOf,      \* the kinds of its constants
    WordSize,    \* the bytes of a word (8)
    HeaderSize,  \* sizeof(ConstMethod), a multiple of WordSize
    SpaceSize,   \* the bytes there are for ConstMethods
    AddressMod,  \* the number of values of a size_t
    SizeMod      \* the number of values of a u2

ASSUME ClassAssumption ==
    /\ IsFiniteSet(Classes) /\ {Root, NoClass} \cap Classes = {} /\ Root # NoClass
    /\ RootVtable \in Seq(MethodNames) /\ NameOf \in [Classes -> MethodNames]
    /\ FlagsOf \in [Classes -> SUBSET SUBSET Nat]
ASSUME SizeAssumption ==
    /\ {WordSize, HeaderSize, SpaceSize, AddressMod, SizeMod} \subseteq Nat \ {0}
    /\ AddressMod % WordSize = 0
    /\ SizeMod + WordSize <= AddressMod /\ 2 <= HeaderSize
    /\ CodeOf \in [Classes -> Seq(Nat)]
    /\ \A k \in Classes : Len(CodeOf[k]) < SizeMod

VARIABLES
    klass,    \* the fields of the classes
    method,   \* the fields of their methods
    space,    \* the memory of the ConstMethods
    top,      \* the first byte of it that is free
    busy,     \* the class a thread loads, and the subclass it read
    running,  \* the threads that run a class's <clinit>
    reached,  \* history: the states a class was in
    entries   \* history: what is known of each constant

classVars == <<klass, method, space, top, busy, running, reached, entries>>

-----------------------------------------------------------------------------
(* globalDefinitions.hpp. Mutant: rounds down.                             *)

align_down(size, alignment) == size - (size % alignment)
align_up_Down(size, alignment) == align_down(size % AddressMod, alignment)
align_up(size, alignment) == align_down((size + alignment - 1) % AddressMod, alignment)
is_aligned(size, alignment) == size % alignment = 0

(* The alignments the bit masks of these functions are right for. *)
is_power_of_2(x) == \E i \in 0..x : x = 2^i
ASSUME WordAssumption == is_power_of_2(WordSize) /\ is_aligned(HeaderSize, WordSize)

-----------------------------------------------------------------------------
(* array.hpp: an Array<T> is a sequence, its index 0 the first element.    *)

length(a) == Len(a)
at(a, i) == a[i + 1]

(* while (i-- > 0 && _data[i] != x): the i it ends with.                   *)
(* Mutant: i is decremented before it is compared.                         *)
index_of_PreDecrement(a, x) ==
    LET down[i \in Nat] == IF i > 1 /\ at(a, i - 1) # x THEN down[i - 1] ELSE i - 1
    IN  down[length(a)]
index_of(a, x) ==
    LET down[i \in Nat] == IF i > 0 /\ at(a, i - 1) # x THEN down[i - 1] ELSE i - 1
    IN  down[length(a)]
contains(a, x) == index_of(a, x) >= 0

-----------------------------------------------------------------------------
(* constantTag.hpp *)

JVM_CONSTANT ==
    [Invalid |-> 0, Utf8 |-> 1, Integer |-> 3, Float |-> 4, Long |-> 5, Double |-> 6,
     Class |-> 7, String |-> 8, Fieldref |-> 9, Methodref |-> 10, InterfaceMethodref |-> 11,
     NameAndType |-> 12, MethodHandle |-> 15, MethodType |-> 16, Dynamic |-> 17,
     InvokeDynamic |-> 18, UnresolvedClass |-> 100, ClassIndex |-> 101, StringIndex |-> 102,
     UnresolvedClassInError |-> 103, MethodHandleInError |-> 104, MethodTypeInError |-> 105,
     DynamicInError |-> 106]

(* The kinds there are in the constant pool of a class file. *)
Kinds == {kind \in DOMAIN JVM_CONSTANT : JVM_CONSTANT[kind] \in 1..18}
ASSUME PoolAssumption == PoolOf \in [Classes -> Seq(Kinds)]

is_klass(tag) == tag = JVM_CONSTANT.Class
is_string(tag) == tag = JVM_CONSTANT.String
is_symbol(tag) == tag = JVM_CONSTANT.Utf8
is_method_type(tag) == tag = JVM_CONSTANT.MethodType
is_method_handle(tag) == tag = JVM_CONSTANT.MethodHandle
is_dynamic_constant(tag) == tag = JVM_CONSTANT.Dynamic

(* Mutant: a class that could not be resolved is forgotten.                *)
is_unresolved_klass_NoError(tag) == tag = JVM_CONSTANT.UnresolvedClass
is_unresolved_klass(tag) ==
    tag \in {JVM_CONSTANT.UnresolvedClass, JVM_CONSTANT.UnresolvedClassInError}
in_error(tag) ==
    tag \in {JVM_CONSTANT.UnresolvedClassInError, JVM_CONSTANT.MethodHandleInError,
             JVM_CONSTANT.MethodTypeInError, JVM_CONSTANT.DynamicInError}
is_klass_index(tag) == tag = JVM_CONSTANT.ClassIndex
is_string_index(tag) == tag = JVM_CONSTANT.StringIndex

is_klass_reference(tag) == is_klass_index(tag) \/ is_unresolved_klass(tag)
is_klass_or_reference(tag) == is_klass(tag) \/ is_klass_reference(tag)
is_field_or_method(tag) ==
    tag \in {JVM_CONSTANT.Fieldref, JVM_CONSTANT.Methodref, JVM_CONSTANT.InterfaceMethodref}
is_loadable_constant(tag) ==
    \/ tag >= JVM_CONSTANT.Integer /\ tag <= JVM_CONSTANT.String
    \/ is_method_type(tag) \/ is_method_handle(tag) \/ is_dynamic_constant(tag)
    \/ is_unresolved_klass(tag)

-----------------------------------------------------------------------------
(* method.hpp: flags are sets of bits. *)

is_private(flags) == 1 \in flags
is_static(flags) == 3 \in flags

itable_index_max == -10
nonvirtual_vtable_index == -2

Method == [constMethod |-> -1, access_flags |-> {}, vtable_index |-> 0]

has_vtable_index(m) == m.vtable_index >= 0
has_itable_index(m) == m.vtable_index <= itable_index_max

(* The setters, as what they make of a method. *)
set_constMethod(m, c) == [m EXCEPT !.constMethod = c]
set_access_flags(m, flags) == [m EXCEPT !.access_flags = flags]
set_vtable_index(m, index) == [m EXCEPT !.vtable_index = index]

-----------------------------------------------------------------------------
(* constMethod.hpp: a ConstMethod is the place in space where it begins.   *)
(* Of its fields, the model has the first two bytes, _code_size and        *)
(* _method_idnum; the bytecodes follow the last.                           *)

code_size(c) == space[c]
method_idnum(c) == space[c + 1]
code_base(c) == c + HeaderSize
code_end(c) == code_base(c) + code_size(c)
code_contains(c, bcp) == code_base(c) <= bcp /\ bcp < code_end(c)

ConstMethod(mem, c) == [i \in DOMAIN mem |-> IF i \in c .. c + HeaderSize - 1 THEN 0 ELSE mem[i]]
set_code_size(mem, c, size) == [mem EXCEPT ![c] = size % SizeMod]
set_method_idnum(mem, c, idnum) == [mem EXCEPT ![c + 1] = idnum % SizeMod]

(* memcpy of _code_size bytes behind the header. *)
set_code(mem, c, code) ==
    LET base == code_base(c)
    IN  [i \in DOMAIN mem |-> IF i \in base .. base + mem[c] - 1 THEN code[i - base + 1] ELSE mem[i]]

-----------------------------------------------------------------------------
(* metadata.hpp: the virtual predicates, as the set of those that an       *)
(* object of each class answers with true: what its base does, but for the *)
(* overrides.                                                              *)

MetaspaceObj_table == {}
Metadata_table == (MetaspaceObj_table \cup {"is_metadata"}) \ {"is_klass", "is_method"}
Klass_table ==
    (Metadata_table \cup {"is_klass"})
    \ {"is_instance_klass", "is_array_klass", "is_objArray_klass", "is_typeArray_klass"}
InstanceKlass_table == Klass_table \cup {"is_instance_klass"}

-----------------------------------------------------------------------------
(* klass.hpp and instanceKlass.hpp *)

(* ClassState *)
allocated == 0
loaded == 1
linked == 2
being_initialized == 3
fully_initialized == 4
initialization_error == 5

(* The constructors. *)
Klass == [super |-> NoClass, subklass |-> NoClass, next_sibling |-> NoClass, vtable_len |-> 0]
InstanceKlass == [super |-> Klass.super, subklass |-> Klass.subklass,
                  next_sibling |-> Klass.next_sibling, vtable_len |-> Klass.vtable_len,
                  init_state |-> allocated, methods |-> <<>>, constants |-> <<>>]

is_loaded(k) == klass[k].init_state >= loaded
(* Mutant: only the state itself counts.                                   *)
is_linked_Exactly(k) == klass[k].init_state = linked
is_linked(k) == klass[k].init_state >= linked
is_initialized(k) == klass[k].init_state = fully_initialized
is_being_initialized(k) == klass[k].init_state = being_initialized
is_in_error_state(k) == klass[k].init_state = initialization_error

(* The setters, as what they make of the classes. *)
set_init_state(kl, k, state) == [kl EXCEPT ![k].init_state = state]
set_super(kl, k, super) == [kl EXCEPT ![k].super = super]
set_subklass(kl, k, sub) == [kl EXCEPT ![k].subklass = sub]
set_next_sibling(kl, k, next) == [kl EXCEPT ![k].next_sibling = next]
set_vtable_length(kl, k, len) == [kl EXCEPT ![k].vtable_len = len]
set_methods(kl, k, methods) == [kl EXCEPT ![k].methods = methods]
set_constants(kl, k, constants) == [kl EXCEPT ![k].constants = constants]

(* A class gets into a state. *)
Enter(kl, k, state) ==
    /\ klass' = set_init_state(kl, k, state)
    /\ reached' = [reached EXCEPT ![k] = @ \cup {state}]

-----------------------------------------------------------------------------
(* Loading: read the head of the super's list of subclasses; then allocate *)
(* the method and put the class at the head of the list.                   *)

(* The tag of a constant of a kind, as far as it is known. The parser      *)
(* replaces the index of a class by the class's name, of a string by the   *)
(* string; resolution of a class can fail for good, as that of a method    *)
(* handle, a method type and a dynamic constant.                           *)
Resolvable == {"Class", "MethodHandle", "MethodType", "Dynamic"}
Indexed == [Class |-> JVM_CONSTANT.ClassIndex, String |-> JVM_CONSTANT.StringIndex]
InError == [Class |-> JVM_CONSTANT.UnresolvedClassInError,
            MethodHandle |-> JVM_CONSTANT.MethodHandleInError,
            MethodType |-> JVM_CONSTANT.MethodTypeInError,
            Dynamic |-> JVM_CONSTANT.DynamicInError]
Tag(kind, stage) ==
    CASE stage = "index" /\ kind \in DOMAIN Indexed -> Indexed[kind]
      [] stage = "symbolic" /\ kind = "Class"       -> JVM_CONSTANT.UnresolvedClass
      [] stage = "error"                            -> InError[kind]
      [] OTHER                                      -> JVM_CONSTANT[kind]

(* All constants of a class get to a stage. *)
Known(k, stage) ==
    entries' = [entries EXCEPT ![k] = [i \in DOMAIN PoolOf[k] |-> stage]]
Tags(k, stage) == [i \in DOMAIN PoolOf[k] |-> Tag(PoolOf[k][i], stage)]

BeginLoad(t, k) ==
    /\ Working(t) /\ busy[t] = <<>>
    /\ ~is_loaded(k)
    /\ klass' = set_constants(klass, k, Tags(k, "index"))
    /\ Known(k, "index")
    /\ busy' = [busy EXCEPT ![t] = <<k, klass[Root].subklass>>]
    /\ Continue
    /\ UNCHANGED <<method, space, top, running, reached>>

(* Memory for a ConstMethod and its code, in whole words. *)
BlockSize(k) == HeaderSize + align_up(Len(CodeOf[k]), WordSize)

Compiled(k) ==
    set_code(set_code_size(set_method_idnum(ConstMethod(space, top), top, top),
                           top, Len(CodeOf[k])),
             top, CodeOf[k])

EndLoad(t) ==
    /\ Working(t) /\ busy[t] # <<>>
    /\ LET k == busy[t][1]
           chained == set_subklass(set_next_sibling(set_super(klass, k, Root), k, busy[t][2]),
                                   Root, k)
       IN  /\ top + BlockSize(k) <= SpaceSize
           /\ Enter(set_constants(chained, k, Tags(k, "symbolic")), k, loaded)
           /\ Known(k, "symbolic")
           /\ \E flags \in FlagsOf[k] :
                 method' = [method EXCEPT ![k] = set_access_flags(set_constMethod(@, top), flags)]
           /\ space' = Compiled(k)
           /\ top' = top + BlockSize(k)
    /\ busy' = [busy EXCEPT ![t] = <<>>]
    /\ Finish(t)
    /\ UNCHANGED running

-----------------------------------------------------------------------------
(* Linking: the constants one after the other, then the vtable index: that *)
(* of the method it overrides, or a new one.                               *)

Pending(k) ==
    {i \in DOMAIN PoolOf[k] : PoolOf[k][i] \in Resolvable /\ entries[k][i] # "resolved"}

Resolve(t, k) ==
    /\ Working(t) /\ busy[t] = <<>>
    /\ is_loaded(k) /\ ~is_linked(k)
    /\ \E i \in Pending(k), stage \in {"resolved", "error"} :
          /\ \A j \in Pending(k) : i <= j
          /\ entries[k][i] = "symbolic"
          /\ klass' = set_constants(klass, k,
                          [klass[k].constants EXCEPT ![i] = Tag(PoolOf[k][i], stage)])
          /\ entries' = [entries EXCEPT ![k][i] = stage]
    /\ Finish(t)
    /\ UNCHANGED <<method, space, top, busy, running, reached>>

VtableIndex(k) ==
    LET flags == method[k].access_flags
        slot == index_of(klass[Root].methods, NameOf[k])
    IN  IF is_static(flags) \/ is_private(flags) THEN nonvirtual_vtable_index
        ELSE IF contains(klass[Root].methods, NameOf[k]) THEN slot
        ELSE klass[Root].vtable_len

Link(t, k) ==
    /\ Working(t) /\ busy[t] = <<>>
    /\ is_loaded(k) /\ ~is_linked(k)
    /\ Pending(k) = {}
    /\ Enter(set_vtable_length(set_methods(klass, k, <<NameOf[k]>>), k,
                               Max({klass[Root].vtable_len, VtableIndex(k) + 1})),
             k, linked)
    /\ method' = [method EXCEPT ![k] = set_vtable_index(@, VtableIndex(k))]
    /\ Finish(t)
    /\ UNCHANGED <<space, top, busy, running, entries>>

-----------------------------------------------------------------------------
(* Initialization: whoever finds the class linked, not in error, and not   *)
(* being or fully initialized runs <clinit> and says how it ended.         *)

BeginInit(t, k) ==
    /\ Working(t) /\ busy[t] = <<>>
    /\ ~is_in_error_state(k) /\ ~is_initialized(k) /\ ~is_being_initialized(k)
    /\ is_linked(k)
    /\ Enter(klass, k, being_initialized)
    /\ running' = [running EXCEPT ![k] = @ \cup {t}]
    /\ Finish(t)
    /\ UNCHANGED <<method, space, top, busy, entries>>

EndInit(t, k) ==
    /\ Working(t) /\ busy[t] = <<>>
    /\ t \in running[k]
    /\ \E state \in {fully_initialized, initialization_error} : Enter(klass, k, state)
    /\ running' = [running EXCEPT ![k] = @ \ {t}]
    /\ Finish(t)
    /\ UNCHANGED <<method, space, top, busy, entries>>

(* A class in error may be tried again; its history begins anew. *)
Retry(t, k) ==
    /\ Working(t) /\ busy[t] = <<>>
    /\ is_in_error_state(k)
    /\ klass' = set_init_state(klass, k, linked)
    /\ reached' = [reached EXCEPT ![k] = {allocated, loaded, linked}]
    /\ Finish(t)
    /\ UNCHANGED <<method, space, top, busy, running, entries>>

-----------------------------------------------------------------------------
ClassInit ==
    /\ LET new == [k \in Classes \cup {Root} |-> InstanceKlass]
       IN  klass = set_vtable_length(
                       set_methods(set_init_state(new, Root, fully_initialized), Root, RootVtable),
                       Root, Len(RootVtable))
    /\ method = [k \in Classes |-> Method]
    /\ space = [i \in 0 .. SpaceSize - 1 |-> -1]
    /\ top = 0
    /\ busy = [t \in Threads |-> <<>>]
    /\ running = [k \in Classes |-> {}]
    /\ reached = [k \in Classes |-> {allocated}]
    /\ entries = [k \in Classes |-> <<>>]

ClassStep(t) ==
    \/ \E k \in Classes :
          \/ BeginLoad(t, k)
          \/ Resolve(t, k) \/ Link(t, k)
          \/ BeginInit(t, k) \/ EndInit(t, k) \/ Retry(t, k)
    \/ EndLoad(t)

-----------------------------------------------------------------------------
(* Properties *)

ClassTypeOK ==
    /\ \A k \in Classes \cup {Root} :
          /\ klass[k].init_state \in allocated..initialization_error
          /\ {klass[k].super, klass[k].subklass, klass[k].next_sibling}
                \subseteq Classes \cup {Root, NoClass}
    /\ \A k \in Classes : method[k].constMethod \in -1 .. SpaceSize - 1
    /\ top \in 0..SpaceSize
    /\ running \in [Classes -> SUBSET Threads]
    /\ reached \in [Classes -> SUBSET (allocated..initialization_error)]

(* What the predicates on _init_state say of a class agrees with what      *)
(* happened to it: it stays loaded and linked through every later state,   *)
(* an error and a retry included; being initialized means that exactly one *)
(* thread runs <clinit>; and nothing follows a success.                    *)
LifeCycle ==
    \A k \in Classes :
        /\ is_loaded(k) <=> loaded \in reached[k]
        /\ is_linked(k) <=> linked \in reached[k]
        /\ is_initialized(k) <=> fully_initialized \in reached[k]
        /\ is_being_initialized(k) <=> running[k] # {}
        /\ \A t, u \in running[k] : t = u
        /\ is_in_error_state(k) => being_initialized \in reached[k]

(* From the super class's _subklass, _next_sibling leads to every loaded   *)
(* class, once, and to no other, although several threads put classes at   *)
(* the head of the list by a read and two writes.                          *)
SubclassesListed ==
    LET Loaded == {k \in Classes : is_loaded(k)}
        n == Cardinality(Loaded)
    IN  /\ \E list \in Bijection(1..n, Loaded) :
              LET after(i) == IF i < n THEN list[i + 1] ELSE NoClass
              IN  /\ klass[Root].subklass = after(0)
                  /\ \A i \in 1..n : klass[list[i]].next_sibling = after(i)
        /\ \A k \in Classes : is_loaded(k) <=> klass[k].super = Root

(* The bytecodes behind every ConstMethod are those of its method, with    *)
(* code_base, code_end and contains around them, and its own fields are    *)
(* still there, whatever was allocated behind it or before it.             *)
CodeInline ==
    \A k \in Classes : is_loaded(k) =>
        LET c == method[k].constMethod
            n == Len(CodeOf[k])
        IN  /\ is_aligned(c, WordSize)
            /\ code_size(c) = n /\ method_idnum(c) = c % SizeMod
            /\ code_end(c) <= SpaceSize
            /\ SubSeq([i \in 1..SpaceSize |-> space[i - 1]], code_base(c) + 1, code_end(c)) = CodeOf[k]
            /\ \A i \in 0..SpaceSize : code_contains(c, i) <=> i - code_base(c) \in 0 .. n - 1

(* A linked method that is neither static nor private has the vtable slot  *)
(* of the last method of its name in the super's vtable, and a slot behind *)
(* them all if there is none; any other has no index. The class's vtable   *)
(* has room for it and for those of the super.                             *)
MethodsFound ==
    \A k \in Classes : is_linked(k) =>
          LET slots == {i - 1 : i \in {j \in DOMAIN RootVtable : RootVtable[j] = NameOf[k]}}
              m == method[k]
          IN  /\ ~has_itable_index(m)
              /\ m.vtable_index < klass[k].vtable_len
              /\ klass[k].vtable_len >= Len(RootVtable)
              /\ has_vtable_index(m) <=> {1, 3} \cap m.access_flags = {}
              /\ has_vtable_index(m) /\ slots # {} =>
                    m.vtable_index \in slots /\ \A i \in slots : i <= m.vtable_index
              /\ has_vtable_index(m) /\ slots = {} => m.vtable_index = Len(RootVtable)

(* What a tag answers about a constant agrees with its kind and with what  *)
(* became of it: parsed, named, resolved, or failed for good.              *)
TagsTold ==
    \A k \in Classes : \A i \in DOMAIN entries[k] :
        LET tag == klass[k].constants[i]
            kind == PoolOf[k][i]
            stage == entries[k][i]
        IN  /\ is_klass(tag) <=> kind = "Class" /\ stage = "resolved"
            /\ is_klass_or_reference(tag) <=> kind = "Class"
            /\ is_klass_index(tag) <=> kind = "Class" /\ stage = "index"
            /\ is_klass_reference(tag) <=> kind = "Class" /\ stage # "resolved"
            /\ is_string(tag) <=> kind = "String" /\ stage # "index"
            /\ is_string_index(tag) <=> kind = "String" /\ stage = "index"
            /\ is_symbol(tag) <=> kind = "Utf8"
            /\ in_error(tag) <=> stage = "error"
            /\ is_field_or_method(tag) <=> kind \in {"Fieldref", "Methodref", "InterfaceMethodref"}
            /\ is_loadable_constant(tag) <=>
                  \/ kind \in {"Integer", "Float", "Long", "Double"}
                  \/ kind \in {"String", "Class"} /\ stage # "index"
                  \/ kind \in {"MethodHandle", "MethodType", "Dynamic"} /\ stage # "error"
=============================================================================
