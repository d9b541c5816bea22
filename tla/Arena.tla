------------------------------- MODULE Arena -------------------------------
(***************************************************************************)
(* The bump-pointer allocator of memory/arena.hpp and memory/arena.cpp,    *)
(* together with a client that keeps the pointers it was given.            *)
(*                                                                         *)
(* An address is a chunk and an offset from that chunk's bottom(): two     *)
(* chunks never share an address, since each payload lies behind a header. *)
(* nullptr is the chunk NULL at offset 0, so that the code's comparisons   *)
(* against a null _hwm read the same here.                                 *)
(***************************************************************************)
EXTENDS Integers, Sequences, FiniteSets, FiniteSetsExt

CONSTANTS
    Chunks,       \* addresses malloc may return: a bound on the chunks in use
    NULL,         \* nullptr
    Handles,      \* the client's pointer variables: a bound on live blocks
    Align,        \* ARENA_AMALLOC_ALIGNMENT
    Overhead,     \* Chunk::aligned_overhead_size()
    DefaultSize,  \* Chunk::size, which is not a multiple of Align (32728)
    Sizes,        \* sizes the client asks for: a bound on requests
    InitSizes     \* init_size of the constructor, 0 for the one without it

ASSUME ChunksAssumption == NULL \notin Chunks
ASSUME AlignAssumption == Align \in Nat \ {0}
ASSUME SizesAssumption ==
    /\ Overhead \in Nat
    /\ DefaultSize \in Nat \ {0}
    /\ Sizes \subseteq Nat
    /\ InitSizes \subseteq Nat

(* AllocFailStrategy: what the caller wants when malloc fails. *)
AllocFailType == {"EXIT_OOM", "RETURN_NULL"}

(* How the process stands: running, aborted by AllocateHeap in a call made *)
(* with that AllocFailType, or killed by a store through a null pointer.   *)
Status == {"ok", "null_deref"} \cup AllocFailType

VARIABLES
    chain,          \* the chunks reachable from _first by next(), in order
    chunk,          \* _chunk
    hwm,            \* _hwm, as an offset in chunk
    max,            \* _max, as an offset in chunk
    size_in_bytes,  \* _size_in_bytes
    heap,           \* payload length of each malloc'ed chunk, 0 when free
    own,            \* the block each handle points to
    lost,           \* history: handles whose bytes someone else overwrote
    status

area == <<chain, chunk, max, size_in_bytes, heap>>
vars == <<chain, chunk, hwm, max, size_in_bytes, heap, own, lost, status>>

-----------------------------------------------------------------------------
(* Blocks *)

Block(c, o, n) == [chunk |-> c, off |-> o, size |-> n]
Nil == Block(NULL, 0, 0)

AlignUp(x) == ((x + Align - 1) \div Align) * Align

(* The offset just past the bytes the arena reserved for block b. *)
End(b) == b.off + AlignUp(b.size)

Linked == {chain[i] : i \in 1..Len(chain)}
Allocated == {c \in Chunks : heap[c] > 0}

(* The other handles whose bytes meet [lo, hi) of chunk c. *)
Hit(h, c, lo, hi) ==
    {g \in Handles \ {h} :
        /\ own[g].chunk = c
        /\ \E i \in lo .. hi - 1 : own[g].off <= i /\ i < own[g].off + own[g].size}

(* Handle h now points to b, and the client fills the block. *)
Hand(h, b) ==
    /\ own' = [own EXCEPT ![h] = b]
    /\ lost' = lost \cup Hit(h, b.chunk, b.off, b.off + b.size)

-----------------------------------------------------------------------------
(* Amalloc and grow *)

(* Mutant: one byte past _max still counts as room. *)
Fits_OffByOne(n) == hwm + n <= max + 1
Fits(n) == hwm + n <= max

NewLength(n) == IF 2 * n < DefaultSize THEN DefaultSize ELSE 2 * n

(* The chain as far as chunk c, which is on it. *)
Upto(c) == SubSeq(chain, 1, CHOOSE i \in 1..Len(chain) : chain[i] = c)

(* malloc returned chunk k of length len, which becomes the current chunk: *)
(* the first one, or else what _chunk->set_next() now leads to.            *)
Link(k, len) ==
    /\ heap[k] = 0
    /\ heap' = [heap EXCEPT ![k] = len]
    /\ chain' = Append(IF chain = <<>> THEN <<>> ELSE Upto(chunk), k)
    /\ chunk' = k
    /\ max' = len
    /\ size_in_bytes' = size_in_bytes + len + Overhead

(* Amalloc(n) of an aligned n returns offset o of chunk c. Where it leaves *)
(* _hwm, at o + n, is for the caller to say.                               *)
Allocate(n, c, o) ==
    \/ /\ Fits(n)
       /\ c = chunk
       /\ o = hwm
       /\ UNCHANGED area
    \/ /\ ~Fits(n)
       /\ chain = <<>> \/ chunk # NULL
       /\ c # NULL
       /\ Link(c, NewLength(n))
       /\ o = 0

(* grow() does not return: AllocateHeap aborts whatever failure mode was   *)
(* asked for, as Chunk::operator new does not pass it on.                  *)
OutOfMemory(n, mode) == ~Fits(n) /\ status' = mode

(* grow() with chunks linked but no current chunk: _chunk->set_next(k).    *)
NoCurrentChunk(n) == ~Fits(n) /\ chain # <<>> /\ chunk = NULL /\ status' = "null_deref"

Dies(n) ==
    /\ (\E mode \in AllocFailType : OutOfMemory(n, mode)) \/ NoCurrentChunk(n)
    /\ UNCHANGED <<area, hwm, own, lost>>

Amalloc(h, x) ==
    /\ status = "ok"
    /\ own[h] = Nil
    /\ \/ \E c \in Chunks \cup {NULL}, o \in {0, hwm} :
            /\ Allocate(AlignUp(x), c, o)
            /\ hwm' = o + AlignUp(x)
            /\ Hand(h, Block(c, o, x))
            /\ UNCHANGED status
       \/ Dies(AlignUp(x))

-----------------------------------------------------------------------------
(* Afree *)

(* Mutants: _hwm moves back for any block, by its size or to its start. *)
Lowered_BySize(c, top, b) == top - AlignUp(b.size)
Lowered_AnyBlock(c, top, b) == IF b.chunk = c THEN b.off ELSE top

(* Where Afree(b) leaves an _hwm that is at offset top of chunk c: only    *)
(* the last block is given back.                                           *)
Lowered(c, top, b) == IF b.chunk = c /\ End(b) = top THEN b.off ELSE top

Afree(h) ==
    /\ status = "ok"
    /\ own[h] # Nil
    /\ hwm' = Lowered(chunk, hwm, own[h])
    /\ own' = [own EXCEPT ![h] = Nil]
    /\ UNCHANGED <<area, lost, status>>

-----------------------------------------------------------------------------
(* Arealloc, by which of its returns is taken *)

ReallocInPlace(h, y) ==
    /\ AlignUp(y) <= AlignUp(own[h].size)
    /\ Hand(h, [own[h] EXCEPT !.size = y])
    /\ UNCHANGED <<area, hwm>>

(* Mutant: any block of the current chunk is extended in place. *)
AtTop_SameChunk(b) == b.chunk = chunk
AtTop(b) == b.chunk = chunk /\ End(b) = hwm
Room(b, y) == hwm + (AlignUp(y) - AlignUp(b.size)) <= max

ReallocExtend(h, y) ==
    /\ AlignUp(y) > AlignUp(own[h].size)
    /\ AtTop(own[h]) /\ Room(own[h], y)
    /\ hwm' = hwm + (AlignUp(y) - AlignUp(own[h].size))
    /\ Hand(h, [own[h] EXCEPT !.size = y])
    /\ UNCHANGED area

(* Mutant: the copied size is rounded down. *)
Copied_RoundedDown(b) == (b.size \div Align) * Align

(* The number of bytes memcpy copies to the new block. *)
Copied(b) == AlignUp(b.size)

ReallocMove(h, y, c, o) ==
    /\ AlignUp(y) > AlignUp(own[h].size)
    /\ ~(AtTop(own[h]) /\ Room(own[h], y))
    /\ Allocate(AlignUp(AlignUp(y)), c, o)
    /\ hwm' = Lowered(c, o + AlignUp(AlignUp(y)), [own[h] EXCEPT !.size = AlignUp(@)])
    /\ own' = [own EXCEPT ![h] = Block(c, o, y)]
    /\ lost' = lost \cup Hit(h, c, o, o + y)
                    \cup (IF Copied(own[h]) < own[h].size THEN {h} ELSE {})

ReallocDies(h, y) ==
    /\ AlignUp(y) > AlignUp(own[h].size)
    /\ ~(AtTop(own[h]) /\ Room(own[h], y))
    /\ Dies(AlignUp(AlignUp(y)))

Arealloc(h, y) ==
    \/ own[h] = Nil /\ Amalloc(h, y)
    \/ /\ status = "ok"
       /\ own[h] # Nil
       /\ \/ ReallocInPlace(h, y) /\ UNCHANGED status
          \/ ReallocExtend(h, y) /\ UNCHANGED status
          \/ \E c \in Chunks \cup {NULL}, o \in {0, hwm} :
                ReallocMove(h, y, c, o) /\ UNCHANGED status
          \/ ReallocDies(h, y)

-----------------------------------------------------------------------------
(* Construction and destruction *)

Init ==
    /\ \E s \in InitSizes :
         IF s = 0
         THEN /\ chain = <<>>
              /\ chunk = NULL
              /\ max = 0
              /\ size_in_bytes = 0
              /\ heap = [c \in Chunks |-> 0]
         ELSE \E k \in Chunks :
                /\ chain = <<k>>
                /\ chunk = k
                /\ max = s
                /\ size_in_bytes = s + Overhead
                /\ heap = [c \in Chunks |-> IF c = k THEN s ELSE 0]
    /\ hwm = 0
    /\ own = [h \in Handles |-> Nil]
    /\ lost = {}
    /\ status = "ok"

(* Mutant: the loop stops at the last chunk. *)
Deleted_NotLast == {chain[i] : i \in 1 .. Len(chain) - 1}

(* The chunks that walking the list from _first deletes. *)
Deleted == Linked

(* Also ~Arena. The client forgets the pointers it held. *)
destruct_contents ==
    /\ status = "ok"
    /\ heap' = [c \in Chunks |-> IF c \in Deleted THEN 0 ELSE heap[c]]
    /\ chain' = <<>>
    /\ chunk' = NULL
    /\ hwm' = 0
    /\ max' = 0
    /\ size_in_bytes' = 0
    /\ own' = [h \in Handles |-> Nil]
    /\ UNCHANGED <<lost, status>>

(* A process that has died takes no further step. *)
Halted == status # "ok" /\ UNCHANGED vars

Next ==
    \/ \E h \in Handles, x \in Sizes : Amalloc(h, x) \/ Arealloc(h, x)
    \/ \E h \in Handles : Afree(h)
    \/ destruct_contents
    \/ Halted

Spec == Init /\ [][Next]_vars

-----------------------------------------------------------------------------
(* Queries *)

(* used(): the whole length of every chunk but the current one. *)
used == LET Count(c) == IF c = chunk THEN hwm ELSE heap[c]
        IN  MapThenSumSet(Count, Linked)

(* contains(p): a chunk's top() counts as inside it. *)
contains(c, o) == c \in Linked /\ o \in 0..heap[c]

-----------------------------------------------------------------------------
(* Properties *)

(* Type invariant. *)
TypeOK ==
    /\ chain \in Seq(Chunks)
    /\ chunk \in Chunks \cup {NULL}
    /\ hwm \in Nat /\ max \in Nat /\ size_in_bytes \in Nat
    /\ heap \in [Chunks -> Nat]
    /\ own \in [Handles -> [chunk : Chunks \cup {NULL}, off : Nat, size : Nat]]
    /\ lost \subseteq Handles
    /\ status \in Status

Apart(b, d) ==
    \/ b.size = 0 \/ d.size = 0 \/ b.chunk # d.chunk
    \/ End(b) <= d.off \/ End(d) <= b.off

(* No two live blocks share a reserved byte, whatever the client allocated, *)
(* freed and resized before, in whatever order (Amalloc, Afree, Arealloc).  *)
Disjoint == \A g, h \in Handles : g # h => Apart(own[g], own[h])

(* Every live block lies in the payload of a chunk that is still malloc'ed *)
(* and that contains() finds, and none in the current chunk reaches past   *)
(* _hwm, where the next block starts.                                      *)
InBounds ==
    /\ hwm <= max
    /\ \A h \in Handles : own[h].size > 0 =>
          /\ contains(own[h].chunk, own[h].off)
          /\ End(own[h]) <= heap[own[h].chunk]
          /\ own[h].chunk = chunk => End(own[h]) <= hwm

(* No call on one handle ever overwrote the bytes of another, and a moved  *)
(* block took its bytes along (the memcpy of Arealloc).                    *)
ContentsKept == lost = {}

(* The list from _first holds exactly the malloc'ed chunks, once each: no  *)
(* chunk is out of reach of destruct_contents, none dangles, and the list  *)
(* has no cycle. The current chunk is its last, and _max is its top(); an  *)
(* area without one has no room.                                           *)
Ownership ==
    /\ Linked = Allocated
    /\ \A i, j \in 1..Len(chain) : chain[i] = chain[j] => i = j
    /\ chunk # NULL => chain # <<>> /\ chain[Len(chain)] = chunk /\ max = heap[chunk]
    /\ chunk = NULL => max = 0

(* _size_in_bytes, which grow and the constructors keep by increments, is  *)
(* what the malloc'ed chunks take, and used() never exceeds their payload. *)
Accounting ==
    LET Footprint(c) == heap[c] + Overhead
    IN  /\ size_in_bytes = MapThenSumSet(Footprint, Allocated)
        /\ used + Overhead * Len(chain) <= size_in_bytes

(* A call made with RETURN_NULL does not take the process down. *)
ReturnNullReturns == status # "RETURN_NULL"

(* The arena implements the abstract allocator, with no scope open. *)
Bytes(b) == {b.chunk} \X (b.off .. b.off + b.size - 1)
Abs == INSTANCE ScopedAllocator WITH
          bytes  <- [h \in Handles |-> Bytes(own[h])],
          birth  <- [h \in Handles |-> 0],
          depth  <- 0,
          intact <- lost = {},
          alive  <- status = "ok"
ImplementsAllocator == Abs!AbsSpec
=============================================================================
