---------------------------- MODULE ResourceArea ----------------------------
(***************************************************************************)
(* memory/resourceArea.hpp: a ResourceArea is an Arena whose ResourceMarks *)
(* save _chunk, _hwm, _max and _size_in_bytes and put them back.           *)
(*                                                                         *)
(* The client keeps the discipline the code relies on and does not check:  *)
(* marks are stack objects and end in LIFO order, a block is resized only  *)
(* in the scope that allocated it, and no pointer outlives its scope.      *)
(***************************************************************************)
EXTENDS Arena

CONSTANTS
    MaxMarks,     \* a bound on nested scopes
    MarkOnEmpty   \* whether the client puts marks on an area with no chunk
ASSUME MarksAssumption == MaxMarks \in Nat /\ MarkOnEmpty \in BOOLEAN

VARIABLES
    marks,  \* the live ResourceMarks, innermost last
    scope,  \* client: how many marks were live when a handle got its block
    seen    \* history: for each mark, the area as the constructor found it

Snapshot == <<area, hwm>>
Snapshots == (Seq(Chunks) \X (Chunks \cup {NULL}) \X Nat \X Nat \X [Chunks -> Nat]) \X Nat
rvars == <<vars, marks, scope, seen>>

(* Blocks belong to the scope they were allocated in. *)
Scoping ==
    scope' = [h \in Handles |-> IF own'[h] = Nil THEN 0
                                ELSE IF own[h] = Nil THEN Len(marks) ELSE scope[h]]

(* The innermost mark: stack objects are destroyed in LIFO order. *)
Top == marks[Len(marks)]

-----------------------------------------------------------------------------
(* Arena operations *)

allocate_bytes(h, x) ==
    /\ Amalloc(h, x)
    /\ Scoping
    /\ UNCHANGED <<marks, seen>>

Resize(h, y) ==
    /\ own[h] = Nil \/ scope[h] = Len(marks)
    /\ Arealloc(h, y)
    /\ Scoping
    /\ UNCHANGED <<marks, seen>>

(* A block of an outer scope may be given back too. *)
Free(h) ==
    /\ Afree(h)
    /\ Scoping
    /\ UNCHANGED <<marks, seen>>

(* ~ResourceArea: the marks on it are gone by then. *)
Destruct ==
    /\ marks = <<>>
    /\ destruct_contents
    /\ Scoping
    /\ UNCHANGED <<marks, seen>>

-----------------------------------------------------------------------------
(* ResourceMark *)

(* Mutants: the saved position lacks one of the fields. *)
Saved_NoHwm == [chunk |-> chunk, hwm |-> 0, max |-> max, size_in_bytes |-> size_in_bytes]
Saved_NoSize == [chunk |-> chunk, hwm |-> hwm, max |-> max, size_in_bytes |-> 0]
Saved_NoChunk == [chunk |-> NULL, hwm |-> 0, max |-> 0, size_in_bytes |-> size_in_bytes]

Saved == [chunk |-> chunk, hwm |-> hwm, max |-> max, size_in_bytes |-> size_in_bytes]

Mark ==
    /\ status = "ok"
    /\ Len(marks) < MaxMarks
    /\ MarkOnEmpty \/ chunk # NULL
    /\ marks' = Append(marks, Saved)
    /\ seen' = Append(seen, Snapshot)
    /\ UNCHANGED <<vars, scope>>

(* Mutants: only the next chunk is deleted; the saved one is deleted too. *)
Later_OnlyNext(m) == {chain[j] : j \in {j \in 2..Len(chain) : chain[j-1] = m.chunk}}
Later_Inclusive(m) == {chain[j] : j \in {j \in 1..Len(chain) : \E i \in 1..j : chain[i] = m.chunk}}

(* The chunks linked behind the saved one: none when the area had none.    *)
Later(m) == IF m.chunk = NULL THEN {}
            ELSE {chain[j] : j \in {j \in 1..Len(chain) : \E i \in 1..j-1 : chain[i] = m.chunk}}

(* reset_to_mark on the innermost mark. Its client drops what the scope    *)
(* allocated; set_next(nullptr) leaves the saved chunk the last one.       *)
ResetToMark(m) ==
    /\ status = "ok"
    /\ heap' = [c \in Chunks |-> IF c \in Later(m) THEN 0 ELSE heap[c]]
    /\ chain' = IF Later(m) = {} THEN chain ELSE Upto(m.chunk)
    /\ chunk' = m.chunk
    /\ hwm' = m.hwm
    /\ max' = m.max
    /\ size_in_bytes' = m.size_in_bytes
    /\ own' = [h \in Handles |-> IF scope[h] = Len(marks) THEN Nil ELSE own[h]]
    /\ Scoping
    /\ UNCHANGED <<lost, status>>

(* The destructor, and reset_to_mark called by hand: the mark stays.       *)
Unmark ==
    /\ marks # <<>>
    /\ ResetToMark(Top)
    /\ marks' = SubSeq(marks, 1, Len(marks) - 1)
    /\ seen' = SubSeq(seen, 1, Len(seen) - 1)

reset_to_mark ==
    /\ marks # <<>>
    /\ ResetToMark(Top)
    /\ UNCHANGED <<marks, seen>>

-----------------------------------------------------------------------------
RInit == Init /\ marks = <<>> /\ scope = [h \in Handles |-> 0] /\ seen = <<>>

RNext ==
    \/ \E h \in Handles, x \in Sizes : allocate_bytes(h, x) \/ Resize(h, x)
    \/ \E h \in Handles : Free(h)
    \/ Mark
    \/ Unmark
    \/ reset_to_mark
    \/ Destruct
    \/ Halted /\ UNCHANGED <<marks, scope, seen>>

RSpec == RInit /\ [][RNext]_rvars

-----------------------------------------------------------------------------
(* Properties *)

(* Type invariant. *)
RTypeOK ==
    /\ TypeOK
    /\ marks \in Seq([chunk : Chunks \cup {NULL}, hwm : Nat, max : Nat, size_in_bytes : Nat])
    /\ Len(marks) <= MaxMarks
    /\ scope \in [Handles -> 0..Len(marks)]
    /\ seen \in Seq(Snapshots) /\ Len(seen) = Len(marks)

(* Chunk c is linked at some place before d, or (for AtOrBefore) is d.     *)
Before(c, d) == \E i, j \in 1..Len(chain) : i < j /\ chain[i] = c /\ chain[j] = d
AtOrBefore(c, d) == \E i, j \in 1..Len(chain) : i <= j /\ chain[i] = c /\ chain[j] = d

(* A mark never dangles: the chunk it saved is still malloc'ed and linked, *)
(* with the length it saved, and inner marks saved chunks no earlier in    *)
(* the list. No block allocated before the mark reaches past the saved     *)
(* position, so that resetting to it gives away no one's bytes; before a   *)
(* mark that found no chunk there was no block at all.                     *)
MarkLinked(i) ==
    /\ marks[i].chunk \in Linked
    /\ marks[i].hwm <= marks[i].max
    /\ marks[i].max = heap[marks[i].chunk]
    /\ chunk # NULL
    /\ \A j \in i..Len(marks) : AtOrBefore(marks[i].chunk, marks[j].chunk)

OlderBlocksBelow(i) ==
    \A h \in Handles : own[h].size > 0 /\ scope[h] < i =>
        \/ own[h].chunk = marks[i].chunk /\ End(own[h]) <= marks[i].hwm
        \/ Before(own[h].chunk, marks[i].chunk)

MarksValid ==
    \A i \in 1..Len(marks) :
        /\ OlderBlocksBelow(i)
        /\ IF marks[i].chunk = NULL THEN marks[i].hwm = 0 /\ marks[i].max = 0 ELSE MarkLinked(i)

(* When a scope ends, whatever happened in it, the area is again as it was *)
(* when the scope began: the same chunks, linked in the same order, with   *)
(* the same allocation position and the same size_in_bytes().              *)
ScopeExitRestores ==
    [][Len(marks') < Len(marks) => Snapshot' = seen[Len(seen)]]_rvars

(* An area that lost its current chunk to a mark taken before its first    *)
(* allocation owns no bytes any client still uses.                         *)
StrandedHoldsNothing == chunk = NULL => \A h \in Handles : own[h].size = 0

(* The area implements the abstract allocator, marks being its scopes.     *)
AbsScoped == INSTANCE ScopedAllocator WITH
          bytes  <- [h \in Handles |-> Bytes(own[h])],
          birth  <- [h \in Handles |-> IF own[h].size = 0 THEN 0 ELSE scope[h]],
          depth  <- Len(marks),
          intact <- lost = {},
          alive  <- status = "ok"
ImplementsScopedAllocator == AbsScoped!AbsSpec
=============================================================================
