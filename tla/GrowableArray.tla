--------------------------- MODULE GrowableArray ---------------------------
(***************************************************************************)
(* utilities/growableArray.hpp: arrays that keep their elements in memory  *)
(* of the C heap, of an arena the caller names, or of the resource area,   *)
(* and move them to a larger block when they are full.                     *)
(*                                                                         *)
(* Memory is what ScopedAllocator promises: a new block is nobody else's,  *)
(* and the end of a scope frees what the resource area gave out in it. A   *)
(* block with no elements counts as a block of its own.                    *)
(* Clients keep two rules the code relies on and does not check: an array  *)
(* on the resource area grows, and dies, in the scope it was made in       *)
(* (InScope), and a call that makes an array on the C heap grow is not     *)
(* handed a reference to one of its own elements (StillValid).             *)
(***************************************************************************)
EXTENDS Integers, Sequences, SequencesExt

CONSTANTS
    Arrays,     \* a bound on arrays that exist at a time
    Blocks,     \* addresses of element blocks: a bound on blocks in use
    NULL,       \* nullptr, and an array that does not exist
    Values,     \* values of type E
    Fresh,      \* the value of E()
    Garbage,    \* what reading memory that was given back yields
    InitSizes,  \* initial_size of the constructors
    MaxSize,    \* a bound on _max
    MaxMarks    \* a bound on nested ResourceMarks

(* on_C_heap(), on_arena(), on_stack(): what _arena says. *)
Storage == {"C_heap", "arena", "stack"}

(* The fields of an array, and the scope it was made in. *)
ArrayFields ==
    [len : 0..MaxSize, max : 0..MaxSize, data : Blocks \cup {NULL},
     where : Storage, scope : 0..MaxMarks]

ASSUME NullAssumption == NULL \notin Blocks \cup ArrayFields
ASSUME ValuesAssumption == Garbage \notin Values \cup {Fresh}
ASSUME BoundsAssumption == InitSizes \subseteq Nat /\ MaxSize \in Nat /\ MaxMarks \in Nat

VARIABLES
    arr,      \* _len, _max, _data and storage of each array, or NULL
    mem,      \* where each block was allocated, and its elements
    depth,    \* the ResourceMarks that are live
    expected  \* history: the values an array should hold

vars == <<arr, mem, depth, expected>>

-----------------------------------------------------------------------------
(* Memory *)

Free == [in |-> "free", scope |-> 0, cells |-> <<>>]
FreeBlocks == {b \in Blocks : mem[b] = Free}
(* Mutant: every array but those on the C heap uses the resource area.     *)
Holding_NoArena(where, cells) ==
    [in    |-> IF where = "arena" THEN "stack" ELSE where,
     scope |-> IF where = "C_heap" THEN 0 ELSE depth,
     cells |-> cells]
Holding(where, cells) ==
    [in |-> where, scope |-> IF where = "stack" THEN depth ELSE 0, cells |-> cells]

Read(m, b, i) == IF b \in Blocks /\ i \in DOMAIN m[b].cells THEN m[b].cells[i] ELSE Garbage

(* What a reader finds: at(i), and all elements from begin() to end().     *)
at(r, i) == Read(mem, r.data, i + 1)
elements(r) == [i \in 1..r.len |-> at(r, i - 1)]
is_empty(r) == r.len = 0

(* What FreeHeap leaves of memory m, for an array that owns its block.     *)
(* Mutant: nothing is ever freed.                                          *)
Freed_Never(m, r) == m
Freed(m, r) == IF r.where = "C_heap" /\ r.data # NULL THEN [m EXCEPT ![r.data] = Free] ELSE m

(* The resource area gave the array its block in the current scope. *)
InScope(r) == r.where = "stack" => r.scope = depth

-----------------------------------------------------------------------------
(* grow *)

(* Doubling _max (or 2, when there is no room at all) until it exceeds j   *)
(* ends at n. Mutant: the loop stops at j.                                 *)
Doubled_StopsAtIndex(max, j, n) ==
    LET start == IF max = 0 THEN 2 ELSE max
    IN  \E k \in 0..n : n = start * 2^k /\ n >= j /\ (k = 0 \/ n \div 2 < j)
Doubled(max, j, n) ==
    LET start == IF max = 0 THEN 2 ELSE max
    IN  \E k \in 0..n : n = start * 2^k /\ n > j /\ (k = 0 \/ n \div 2 <= j)

(* The elements of the new block. Mutant: the last one is not copied.      *)
Moved_NotLast(r, n) == [i \in 1..n |-> IF i < r.len THEN Read(mem, r.data, i) ELSE Fresh]
Moved(r, n) == [i \in 1..n |-> IF i <= r.len THEN Read(mem, r.data, i) ELSE Fresh]

(* Array r0 gets room for index j: it has it, or moves to a new block b of *)
(* n elements. What becomes of the array and of memory follows.            *)
Ensure(r0, j, b, n) ==
    IF j < r0.max
    THEN b = r0.data /\ n = r0.max
    ELSE b \in FreeBlocks /\ n <= MaxSize /\ InScope(r0) /\ Doubled(r0.max, j, n)
Grown(r0, j, b, n) == [r0 EXCEPT !.data = b, !.max = n]
Memory(r0, j, b, n) ==
    IF j < r0.max THEN mem ELSE Freed([mem EXCEPT ![b] = Holding(r0.where, Moved(r0, n))], r0)

-----------------------------------------------------------------------------
(* Arguments of type const E&: a value, or a reference to an own element.  *)

Args(r) == ({"value"} \X Values) \cup ({"own"} \X (1..r.len))

(* The reference outlives the growing that comes before it is read. *)
StillValid(r, j, e) == e[1] = "own" /\ r.where = "C_heap" => j < r.max

(* What the code reads through e, from r's block as it was at the call.    *)
Deref(m, r, e) == IF e[1] = "value" THEN e[2] ELSE Read(m, r.data, e[2])

(* What the caller means by it. *)
Meant(a, e) == IF e[1] = "value" THEN e[2] ELSE expected[a][e[2]]

-----------------------------------------------------------------------------
(* Constructors and destructors *)

Construct(a, where, size, len, filler) ==
    /\ arr[a] = NULL
    /\ len <= size /\ size <= MaxSize
    /\ \E b \in FreeBlocks :
          /\ mem' = [mem EXCEPT ![b] =
                       Holding(where, [i \in 1..size |-> IF i <= len THEN filler ELSE Fresh])]
          /\ arr' = [arr EXCEPT ![a] = [len |-> len, max |-> size, data |-> b,
                                        where |-> where, scope |-> mem'[b].scope]]
    /\ expected' = [expected EXCEPT ![a] = [i \in 1..len |-> filler]]
    /\ UNCHANGED depth

(* The constructor with c_heap fills nothing; the one with an arena may be *)
(* given no arena, which selects the resource area.                        *)
New(a) ==
    \/ \E size \in InitSizes, where \in {"C_heap", "stack"} : Construct(a, where, size, 0, Fresh)
    \/ \E size \in InitSizes, where \in {"arena", "stack"}, len \in 0..MaxSize, v \in Values :
          Construct(a, where, size, len, v)

clear_and_deallocate(a) ==
    /\ arr[a] # NULL
    /\ mem' = Freed(mem, arr[a])
    /\ arr' = [arr EXCEPT ![a] = [@ EXCEPT !.len = 0, !.max = 0, !.data = NULL]]
    /\ expected' = [expected EXCEPT ![a] = <<>>]
    /\ UNCHANGED depth

(* The destructor: only on the C heap does it deallocate. *)
Destroy(a) ==
    /\ arr[a] # NULL
    /\ mem' = Freed(mem, arr[a])
    /\ arr' = [arr EXCEPT ![a] = NULL]
    /\ expected' = [expected EXCEPT ![a] = <<>>]
    /\ UNCHANGED depth

-----------------------------------------------------------------------------
(* Element operations *)

append(a, e) ==
    \E b \in Blocks \cup {NULL}, n \in 1..MaxSize :
       LET r == arr[a]
           m == Memory(r, r.len, b, n)
       IN /\ StillValid(r, r.len, e)
          /\ Ensure(r, r.len, b, n)
          /\ mem' = [m EXCEPT ![b].cells[r.len + 1] = Deref(m, r, e)]
          /\ arr' = [arr EXCEPT ![a] = [Grown(r, r.len, b, n) EXCEPT !.len = @ + 1]]
          /\ expected' = [expected EXCEPT ![a] = Append(@, Meant(a, e))]
          /\ UNCHANGED depth

pop(a) ==
    /\ ~is_empty(arr[a])
    /\ arr' = [arr EXCEPT ![a].len = @ - 1]
    /\ expected' = [expected EXCEPT ![a] = Front(@)]
    /\ UNCHANGED <<mem, depth>>

at_put(a, i, e) ==
    /\ i < arr[a].len
    /\ mem' = [mem EXCEPT ![arr[a].data].cells[i + 1] = Deref(mem, arr[a], e)]
    /\ expected' = [expected EXCEPT ![a][i + 1] = Meant(a, e)]
    /\ UNCHANGED <<arr, depth>>

(* The gap between the last element and index i. *)
Filled(r, i, cells, fill) ==
    [k \in DOMAIN cells |-> IF r.len < k /\ k <= i THEN fill ELSE cells[k]]

(* Beyond the last element; otherwise it is at_put. *)
at_put_grow(a, i, e, fill) ==
    \/ at_put(a, i, e)
    \/ \E b \in Blocks \cup {NULL}, n \in 1..MaxSize :
          LET r == arr[a]
              m == Memory(r, i, b, n)
          IN /\ i >= r.len
             /\ StillValid(r, i, e) /\ StillValid(r, i, fill)
             /\ Ensure(r, i, b, n)
             /\ mem' = [m EXCEPT ![b].cells =
                          [Filled(r, i, @, Deref(m, r, fill)) EXCEPT ![i + 1] = Deref(m, r, e)]]
             /\ arr' = [arr EXCEPT ![a] = [Grown(r, i, b, n) EXCEPT !.len = i + 1]]
             /\ expected' = [expected EXCEPT ![a] =
                   [k \in 1..i + 1 |-> IF k <= r.len THEN @[k]
                                       ELSE IF k <= i THEN Meant(a, fill) ELSE Meant(a, e)]]
             /\ UNCHANGED depth

(* clear() is trunc_to(0). *)
trunc_to(a, n) ==
    /\ n <= arr[a].len
    /\ arr' = [arr EXCEPT ![a].len = n]
    /\ expected' = [expected EXCEPT ![a] = SubSeq(@, 1, n)]
    /\ UNCHANGED <<mem, depth>>

(* The elements from i on move up by one; what was last stays behind.      *)
remove_at(a, i) ==
    LET r == arr[a]
    IN /\ i < r.len
       /\ mem' = [mem EXCEPT ![r.data].cells =
                    [k \in DOMAIN @ |-> IF i < k /\ k < r.len THEN @[k + 1] ELSE @[k]]]
       /\ arr' = [arr EXCEPT ![a].len = @ - 1]
       /\ expected' = [expected EXCEPT ![a] = RemoveAt(@, i + 1)]
       /\ UNCHANGED depth

(* find_from(idx, e): an index, or -1. *)
find_from(r, idx, e) ==
    LET hits == {i \in idx .. r.len - 1 : at(r, i) = e}
    IN  IF hits = {} THEN -1 ELSE Min(hits)
find(r, e) == find_from(r, 0, e)
contains(r, e) == find(r, e) >= 0

top(r) == at(r, r.len - 1)

remove(a, e) ==
    /\ contains(arr[a], Deref(mem, arr[a], e))
    /\ remove_at(a, find(arr[a], Deref(mem, arr[a], e)))

-----------------------------------------------------------------------------
(* Scopes *)

Mark ==
    /\ depth < MaxMarks
    /\ depth' = depth + 1
    /\ UNCHANGED <<arr, mem, expected>>

(* The end of a scope takes along the arrays made in it.                   *)
EndsWithScope(a) == arr[a] # NULL /\ arr[a].where = "stack" /\ arr[a].scope = depth
Unmark ==
    /\ depth > 0
    /\ depth' = depth - 1
    /\ mem' = [b \in Blocks |->
                 IF mem[b].in = "stack" /\ mem[b].scope = depth THEN Free ELSE mem[b]]
    /\ arr' = [a \in Arrays |-> IF EndsWithScope(a) THEN NULL ELSE arr[a]]
    /\ expected' = [a \in Arrays |-> IF EndsWithScope(a) THEN <<>> ELSE expected[a]]

(* The arena is destroyed after the arrays on it. *)
EndArena ==
    /\ \A a \in Arrays : arr[a] # NULL => arr[a].where # "arena"
    /\ mem' = [b \in Blocks |-> IF mem[b].in = "arena" THEN Free ELSE mem[b]]
    /\ UNCHANGED <<arr, depth, expected>>

-----------------------------------------------------------------------------
Init ==
    /\ arr = [a \in Arrays |-> NULL]
    /\ mem = [b \in Blocks |-> Free]
    /\ depth = 0
    /\ expected = [a \in Arrays |-> <<>>]

Live == {a \in Arrays : arr[a] # NULL}

Next ==
    \/ \E a \in Arrays : New(a) \/ clear_and_deallocate(a) \/ Destroy(a)
    \/ \E a \in Live : \E e \in Args(arr[a]) : append(a, e) \/ remove(a, e)
    \/ \E a \in Live : pop(a)
    \/ \E a \in Live, i \in 0 .. MaxSize - 1 : \E e, fill \in Args(arr[a]) :
          at_put_grow(a, i, e, fill)
    \/ \E a \in Live, n \in 0..MaxSize : trunc_to(a, n) \/ remove_at(a, n)
    \/ Mark
    \/ Unmark
    \/ EndArena

Spec == Init /\ [][Next]_vars

-----------------------------------------------------------------------------
(* Properties *)

(* Type invariant. *)
TypeOK ==
    /\ arr \in [Arrays -> {NULL} \cup ArrayFields]
    /\ \A b \in Blocks :
          /\ mem[b].in \in Storage \cup {"free"}
          /\ mem[b].scope \in 0..MaxMarks
          /\ mem[b].cells \in Seq(Values \cup {Fresh})
    /\ depth \in 0..MaxMarks
    /\ expected \in [Arrays -> Seq(Values)]

(* An array always has its elements in memory that is still allocated,     *)
(* where its constructor was told to put them, in a block of exactly _max  *)
(* constructed elements that no other array uses and that is released no   *)
(* earlier than the array; an array with no block has no room.             *)
ElementsOwned ==
    \A a \in Live : LET r == arr[a] IN
        /\ r.len <= r.max
        /\ r.data = NULL => r.max = 0
        /\ r.data # NULL =>
              /\ mem[r.data].in = r.where
              /\ mem[r.data].scope = r.scope
              /\ Len(mem[r.data].cells) = r.max
              /\ \A b \in Live \ {a} : arr[b].data # r.data

(* Every block malloc'ed for elements belongs to an array that will free   *)
(* it, whatever grew, was cleared or reused: nothing leaks.                *)
HeapExact ==
    \A b \in Blocks : mem[b].in = "C_heap" =>
        \E a \in Live : arr[a].where = "C_heap" /\ arr[a].data = b

(* An array holds the values a sequence would hold after the same calls,   *)
(* also when it moved, when a call was given one of its own elements, and  *)
(* when other arrays reused memory it gave back; and what can be asked of  *)
(* it answers for that sequence.                                           *)
ActsAsSequence ==
    \A a \in Live :
        /\ elements(arr[a]) = expected[a]
        /\ ~is_empty(arr[a]) => top(arr[a]) = Last(expected[a])
        /\ \A v \in Values : contains(arr[a], v) <=> v \in ToSet(expected[a])
=============================================================================
