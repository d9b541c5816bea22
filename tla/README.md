# TLA+ model of my-jvm-11's base layer

my-jvm-11 rebuilds the base of OpenJDK 11's HotSpot in C++: memory areas,
growable arrays, output streams, atomic operations and the headers of objects
and classes. This directory holds a formal model of its behaviour: TLA+
modules, the TLC runs that check them on small instances, and proofs that
TLAPS checks for every value of the constants. `PROJECT.json` lists components,
runs, theorems and hazards and maps each definition to the lines it models.

Paths below are relative to the repository's `src/` directory.

## 1. Inventory

| Component | State | Operations | Status |
|---|---|---|---|
| **Arena, Chunk** (`memory/arena.*`) | `_first`, `_chunk`, `_hwm`, `_max`, `_size_in_bytes`; per chunk `_next`, `_len` | constructors, `Amalloc`, `Amalloc_4`, `grow`, `Afree`, `Arealloc`, `destruct_contents`, `used`, `contains` | modelled, proved |
| **ResourceArea, ResourceMark** (`memory/resourceArea.*`) | an Arena; per mark a saved `_chunk`, `_hwm`, `_max`, `_size_in_bytes`; one shared area | `allocate_bytes`, mark, destructor of a mark, `reset_to_mark` | modelled, proved |
| **C heap** (`memory/allocation.*`) | none of its own | `AllocateHeap`, `FreeHeap`, class-level `new`/`delete` | as the arena uses it |
| **GrowableArray** (`utilities/growableArray.hpp`) | `_len`, `_max`, `_data`, `_arena` | constructors, `grow`, `append`, `pop`, `at_put`, `at_put_grow`, `trunc_to`, `clear`, `remove_at`, searches | modelled, proved |
| **Output streams** (`utilities/ostream.*`) | `_indentation`, `_position`; `stringStream`: `_buffer`, `_buffer_size`, `_buffer_pos`, `_owns_buffer`; `fileStream`: `_file`, `_need_close`; `fdStream`: `_fd` | `write`, `print`, `cr`, `fill_to`, `indent`, `reset`, `as_string`, `flush`, `set_fd`, destructors | modelled, proved |
| **Mark word** (`oops/markOop.hpp`) | one word: lock bits, age, hash or owner | encoders, predicates, `markWord_with_hash` | modelled, proved |
| **Object header** (`oops/oop.hpp`) | `_mark` (volatile, shared by threads), class pointer | `mark`, `set_mark`, `set_klass`, `set_compressed_klass`, queries | modelled, proved |
| **Atomic** (`runtime/atomic.hpp`) | the addressed word | load, store, compare-and-swap, add, exchange | modelled, proved |
| **Metadata, Klass, InstanceKlass** (`oops/`) | `_init_state`, `_layout_helper`, links | setters, state and kind queries | state, subclass list, methods, constants, vtable length modelled, proved |
| **Method, ConstMethod, Array** (`oops/`) | code trailing the object; `_length`, `_data` | `set_code`, `contains`, `index_of`, `vtable_index` | modelled but for plain fields, proved |
| **constantTag** (`utilities/constantTag.hpp`) | one byte | predicates | modelled, proved |
| **Base definitions** (`utilities/`) | none | alignment, copy, assertions, macros | alignment modelled |

### How the components interact

- `ResourceArea` *is* an `Arena`; a `ResourceMark` reads and writes the arena's
  protected fields directly. Marks live on the C++ stack and share one area, so
  their order is the nesting of scopes.
- `Arena` gets chunks from `AllocateHeap`, which aborts when `malloc` fails
  unless it is told `RETURN_NULL`.
- `GrowableArray` has its elements in one of three places: the C heap, an arena
  the caller names, or the shared resource area. In the last case the elements'
  lifetime is that of the innermost mark *when it grows*, not that of the array.
- `stringStream` owns a C-heap buffer or borrows one of fixed size; `fileStream`
  writes through the C library, which holds text back; `fdStream` calls the system.
- Object headers hold mark words; several threads may change one, by plain
  volatile accesses, so something must order them. An object leads to its class
  through a union of a whole pointer and a half one.
- A class has a method array, a list of subclasses threaded through its
  subclasses, and constants described by tags; a method has its bytecodes behind
  its `ConstMethod`. All are plain fields that several threads set.

### What is hard in this code, and what makes each component correct

*Memory.* A pointer is just an integer compared with `_hwm`, and neither
`Afree`, `Arealloc` nor a mark verifies anything about the caller. Correct means:
live blocks are disjoint and inside memory that is still malloc'ed, whatever
calls came before; bytes survive a move; the chunk list is exactly what
`destruct_contents` must delete; a mark never dangles, and the end of a scope
releases exactly what the scope took. The hazards are long sequences of legal
calls, chunk boundaries that are not multiples of the alignment, and failure of
`malloc` halfway. There is no lock and no thread in this layer.

*Containers and streams.* References into memory that growing replaces, text that
stays in the buffer after `reset`, truncation at the last byte, counters that
double.

A file that is closed too rarely or too often, text that is lost or sent twice.

*Headers, classes and atomics.* What a compare-and-swap stores and returns to
threads that interleave; accesses of fields that only make sense together (a code
size and the code, the halves of a class pointer, a displaced word and its lock); a
field that spills into its neighbour; the order of class states, in which an error
counts as linked. That tickets wrap around, that exchanged words are neither lost
nor doubled, and that a list of subclasses loses no element are questions of the
model's clients, for the repository has none: the runs answer them, but they are
no hazards of this code.

*What must eventually happen.* The components are a passive library: no background
thread, no queue, no timeout, no lock of its own, and nothing persists across a
crash. What a client may expect is that a lock built on `atomic_cas` comes free
again, which depends on the value `atomic_cas` returns: `LockComesFree` (section 4
gives the fairness it needs).

Every hazard is listed in `PROJECT.json` at the line where it bites, with the
properties that cover it or the reason none does yet.

## 2. Plan

Order of work; items 1 to 8 are done.

1. `ScopedAllocator`, `Arena`, `Arena_proofs`: the allocator, its abstract
   specification and the invariants proved.
2. `ResourceArea`, `ResourceArea_proofs`: the arena composed with marks.
3. `GrowableArray` over memory as `ScopedAllocator` promises it; abstract
   specification: a sequence of values.
4. `OutputStream`: buffer, terminator and column of all three streams, and what
   their devices get; abstract specification: the text written, or its beginning.
5. `Atomic`, `Atomic_proofs`: threads on shared words.
6. `ObjectHeader`: the encoders and predicates of mark words.
7. `SpinLock`, `SharedHeader`: several threads that read, decide on and set a mark
   word under a lock.
8. `ClassMetadata`: class states, subclass lists, bytecodes, vtable indices, constant
   tags; `Oops`: objects and their classes, composed with 7.
9. `ArenaWords`: `grow` and `ARENA_ALIGN` modulo a word width.

Each component's properties were proved after its runs had passed: first the
arena and its marks, then the atomics, headers and classes, arrays, streams, and
last the two refinements of `ScopedAllocator` and the sums of `Accounting`. What
is left to prove: the arrays over a sequence as an abstract specification of its
own, that `SharedHeader`'s lock implements that of `Atomic`, and `ArenaWords`.

## 3. The modules

### ScopedAllocator

What a client is promised, without chunks or pointers: each handle owns a set of
addresses (`bytes`), newly owned addresses are nobody else's, no call changes
what another handle owns, and closing a scope takes away exactly what was taken
since it was opened. `intact` says no owned byte was overwritten; the process may
die. (`Arena` changes nothing else when it does, because the code aborts before it
assigns a field: that is read off the code, not shown by the refinement.)

### Arena

| Model | Code |
|---|---|
| `chain` | the chunks reachable from `_first` through `next()`, in order |
| `chunk`, `hwm`, `max`, `size_in_bytes` | `_chunk`, `_hwm`, `_max` (offsets in `chunk`), `_size_in_bytes` |
| `heap[c]` | `_len` of a malloc'ed chunk, 0 for memory that is free |
| `own[h]` | the pointer and size a client keeps |
| `lost` | history: handles whose bytes another call overwrote, or a move did not copy |
| `status` | `"ok"`, aborted in a call made with that failure mode, or null dereference |

An address is a chunk and an offset. A block that ends at one chunk's `top()` is
never at another's `bottom()`, because each payload lies behind a header; so the
pointer comparisons of the code are comparisons of pairs here. `contains` keeps
the code's `p <= top()`.

Actions are whole calls. `Amalloc` covers the bump, `grow` with its choice of
length and linking, `malloc` failing, and the store through a null `_chunk`.
`Arealloc` has one operator per `return`: in place, extended at the top, moved
(allocate, copy, free), or dying inside the allocation. `Amalloc` and `Arealloc`
align the request as often as the code does. `Init` covers both constructors,
and `destruct_contents` also stands for the destructor.

### ResourceArea

Extends `Arena` with `marks`, a stack of the four saved fields, and the history
variables `scope` (which scope a handle's block belongs to) and `seen` (the whole
area as a mark's constructor found it). `Mark`, `Unmark` (the destructor) and
`reset_to_mark` (called by hand, the mark stays) are composed with every arena
operation.

The client keeps three rules that the code relies on and does not check; the
first is C++'s, the others are guards of the model:

- marks end in LIFO order, and only the innermost is reset by hand;
- a block is resized only in the scope that allocated it (`Resize`). Freeing a
  block of an outer scope is allowed, as `Afree` then never does harm;
- no pointer outlives the scope that took it.

`MarkOnEmpty` says whether clients also put marks on an area without a chunk.
That is legal in the code but breaks it (section 5), so what the runs and
theorems claim is stated separately for both cases.

### GrowableArray

| Model | Code |
|---|---|
| `arr[a].len`, `.max`, `.data` | `_len`, `_max`, `_data` |
| `arr[a].where`, `.scope` | what `_arena` says, and the mark the array lives in |
| `mem[b]` | a block of elements: who gave it out, in which scope, and its elements |
| `expected[a]` | history: the sequence of values the calls should have made |

`depth` counts live marks. The arrays are not composed with `Arena`'s chunks but
with what `ScopedAllocator`, which the arena implements, promises: a new block is
nobody else's, and the end of a scope takes its blocks along. Constructed but
unused elements are `Fresh`; reading memory that was given back yields `Garbage`,
which no client ever stored.

A parameter `const E& e` is a value or a reference to one of the array's own
elements, read when the code reads it: after `grow`. `Ensure` is the guard of
growing and chooses the new block and size, `Memory` what becomes of the old
one. Two rules are the clients':

- `StillValid`: no reference into an array on the C heap is passed to a call that
  makes the array grow, as `grow` frees what it refers to. In an arena or the
  resource area such references are fine, and the model passes them;
- `InScope`: an array on the resource area grows in the scope it was made in.

### OutputStream

One module for `outputStream` and its three subclasses; `kind` says which, `owns` is
`_owns_buffer` or `_need_close`, `open` whether there is a target. `stream` holds
`_buffer`, `_buffer_pos` and `_position`, the text the C library holds back
(`pending`), what the device got (`device`), whether any of it was `lost`, and the
buffers and files to give back (`held`). `write` gives the streams a call may
leave: one for a string, with the three ends of the code (there is room; there
is none and the buffer doubles; there is none and what still fits is taken);
one for a file; for a descriptor one for each number of characters the system
may take. The formatting calls (`cr`, `sp`, `fill_to`, `indent`, `bol`,
`print_raw_cr`) are compositions of `write`, as in the code.

`Transfer` and `Lose` are steps of the C library: it writes what it holds back when
it likes, or fails and drops it. The destructor frees or closes what the stream
owns. A caller's buffer of size 0 makes `write` double 0 for ever: such a call
sets `hung`. `print` has the client's rule that the result fits into `vprint`'s
local array (`PrintSize`). `wrote` and `origin` are history: the text since the last
reset or `set_fd`, and the column it began in.

### Atomic

Each operation of `atomic.hpp` is an operator for the word it leaves, and two
steps of a thread: the instruction, and the return of what it left in a local.
The threads use them as clients classically do, since the repository has none: a
test-and-test-and-set lock (`Look`, `TryLock`, `ReturnCas`, `Unlock`), a ticket
dispenser (`Draw`, `ReturnAdd`) and a token that is handed on (`Swap`,
`ReturnXchg`). `atomic_cas` stores `frame`, the address of its parameter, as the
code does (section 5). The one thing assumed of it is that it is not 0 when cut
off to the word's width. Words wrap around at `Modulus`. The builtins are sequentially
consistent, so interleaving is all there is.

### ObjectHeader

A word is the set of its bits that are 1, so that the code's `|`, `&`, `~` are union,
intersection and difference; shifts drop what leaves the word. The layout is the
code's with narrower fields. `meant` is what the last call of
`set_mark` was to record. The module specifies one creator that calls `set_mark` as
it likes. Clients keep three rules: only an unlocked word gets a
hash, ages and epochs fit their fields, and pointers are aligned (`ThreadAlign` for
threads, 4 bytes for lock records and monitors).

### SpinLock

`Atomic` instantiated without its counter and its token: the lock, one operation of
a thread while it has it (`Working`, `Finish`), and its release. It adds no
steps of `atomic.hpp`; it is what makes the plain accesses of the next modules
legal. A thread begins to wait when it sees the lock free (`Start`), and looks
again when it does not (`Spin`).

### SharedHeader

Extends `ObjectHeader`. Until an object is shared its creator does `Next` of
`ObjectHeader`; from then on an operation of a thread is `mark()`, a decision on the
word `seen`, and `set_mark()`, with steps of other threads in between. The
repository has no client of shared headers, so the model has those that the
layout is made for: an identity hash computed on demand (`GetHash`), a
lightweight lock, a monitor or the collector's mark that displaces an unlocked
word and puts it back (`Displace`, `Restore`), a bias (`SetBias`, `RevokeBias`).

### ClassMetadata

| Model | Code |
|---|---|
| `klass[k]` | `_init_state`, `_super`, `_subklass`, `_next_sibling`, `_vtable_len`, `_methods`, `_constants` |
| `method[k]` | `_constMethod`, `_access_flags`, `_vtable_index` of the class's method |
| `space`, `top` | the memory of the `ConstMethod`s, byte by byte, and how much is used |
| `busy[t]` | the class a thread is loading, and the `subklass()` it read |
| `running`, `reached`, `entries` | history: who runs `<clinit>`, the states a class was in, what is known of each constant |

Setters are operators that give the changed classes or method, predicates take
a class, a method or a tag. Virtual predicates are tables (`InstanceKlass_table`),
a class having that of its base but for what it overrides. The setters have no client in the repository; their
callers follow the life cycle that `ClassState` names: a thread reads the head of
the list of subclasses and sets the tags of what it parsed (`BeginLoad`), then
allocates the method and chains the class (`EndLoad`); constants are resolved
or fail for good, may be tried again (`Resolve`); the method gets the vtable slot
it overrides or a new one (`Link`); one thread runs `<clinit>` without the lock
(`BeginInit`, `EndInit`), and an error may be tried again (`Retry`).
`align_up` adds modulo the range of `size_t`, `_code_size` is cut off to a `u2`.

### Oops

Composes `SharedHeader` and `ClassMetadata` under one lock, and adds the union of
`oopDesc`: an address is a pair of halves, and `_compressed_klass` is the low one, as
on a little-endian machine. `SetKlass` stores the whole address of a class,
`SetCompressedKlass` the low half; a creator does either as often as it likes. `of`
and `over` are history: the class last stored, and whether by its low half over one
with a high half, which is then still there. Where `klass()` is no class's address
the virtual predicates are undefined, and no property asks them.

The client keeps two rules: a compressed class is stored only if its address has
no high half, and an object has its class before its creator uses the header,
and keeps it once it is shared. The union first holds `Garbage`, as memory
does before the constructor runs.

### Proof modules

Each extends the module it is about: `Arena_proofs`, `ResourceArea_proofs`
(which extends `Arena_proofs` too), `Atomic_proofs`, `GrowableArray_proofs`,
`OutputStream_proofs`, `SharedHeader_proofs` (also for `SpinLock` and
`ObjectHeader`), `ClassMetadata_proofs`, and `Oops_proofs`, which composes the last
two. See section 6.

## 4. Runs and bounds

The runs of the memory layer take the sizes down to a few units but keep their proportions:
`Align` 2, `Overhead` 2, `DefaultSize` 7. The last is not a multiple of the
alignment, as 32728 is not of 16, so a fresh chunk's `top()` is not aligned. The
constructor's own size 5 stands for any other first chunk. Every bound is a
constant: `Chunks` bounds the chunks malloc'ed at a time, `Handles` the live
blocks, `Sizes` the requests, `MaxMarks` the nesting. Chunks and handles are
interchangeable, so the runs use both as symmetry sets.

| Run | Instance | Shows |
|---|---|---|
| `arena` | 3 chunks, 3 handles, sizes 0, 1, 3 | `Disjoint`, `InBounds`, `ContentsKept`: no client loses a byte. `Ownership`: the list from `_first` is exactly what is malloc'ed. `ImplementsAllocator`: the refinement of `ScopedAllocator` without scopes |
| `resource_area` | 3 chunks, 2 handles, sizes 1, 3, 2 marks, marks only on an area with a chunk | `MarksValid`: no mark dangles or lies below an older block. `ScopeExitRestores`: a scope leaves the area as it found it. `Accounting`: `_size_in_bytes` is what the chunks take. `ImplementsScopedAllocator`: the refinement with scopes |
| `resource_area_empty` | sizes 0, 3, no first chunk, marks anywhere | `Ownership`, `StrandedHoldsNothing`: even then, nothing leaks and no live block is in an area that lost its chunk |
| `growable_array` | 2 arrays, 2 blocks, 2 values, sizes to 4, 1 mark | `ElementsOwned`: elements lie in live memory of the right kind that no other array uses. `HeapExact`: every C-heap block has an array that will free it. `ActsAsSequence`: the values are those of a sequence after the same calls |
| `string_stream` | owned buffer of 2, callers' of 0, 1 and 3, text to 5 characters; files and descriptors to 3 | `TextKept`: the text, or its beginning in a full buffer. `Terminated`: once there is text, the string ends where it does (a stream without text is excluded: its first byte is that of an older text or of new memory). `PositionFollows`: the column, whatever the device took. `Delivered`: a device that never fails gets the text once and in order, and all of it when the stream that opened it is gone. `Released`: what was allocated or opened is given back once |
| `atomic` | 3 threads, words of 2 bits, 4 tickets | `MutualExclusion`, `TicketsDistinct` through a wrap-around, `TokenKept` |
| `object_header` | 2 threads, 2 classes below one super class, of which one has a method of a name the super has, public or private, the other a new name; words of 9 bits: hash 3, age 1, epoch 2, every content of every field while the creator alone uses the object | `StatesTold`, `FieldsKept`: each predicate answers for its own state, each field can be read back. `HashAgreed`: all threads are told one hash. `DisplacedKept`: a header is locked exactly while one thread keeps its word. `LifeCycle`: the predicates agree with a class's history. `SubclassesListed`: the list of subclasses loses none. `CodeInline`, `MethodsFound`, `TagsTold`: bytecodes, vtable indices and tags are those of the class. `KlassReachable`: an object leads to its class through both halves of the union, exactly if no high half of another class was left over. `LockComesFree`: whoever takes the lock gives it back |
| `mark_on_empty_area`, `return_null`, `position_after_reset`, `cas_stores_address`, `bias_overlap` | as the run of their module | the findings of section 5 |

With these numbers a chunk fills up after two or three requests, so growing,
moving a block to the next chunk, extending the last block up to `_max`, freeing
the last or another block, a request of more than half the default size, a
failing `malloc` and the reuse of a freed chunk all occur, in every order. Two
marks are enough for an outer mark that saved an earlier chunk than the inner
one, or the same chunk at another position. Every action fires in the passing
runs. A process that died stutters (`Halted`), so deadlock checking stays on.

Two blocks make `growable_array` reuse memory as soon as an array moved; size 4
lets an array double twice and leaves a gap for `at_put_grow` to fill. The texts of
`string_stream` have tabs and line breaks in the middle, and an owned buffer of 2
doubles once or twice, in one call or in several. Three threads are enough for two to
disturb a third, and four tickets take a word of two bits exactly once around from
any start. The fields of `object_header` are as wide as needed to tell neighbours
apart, and hashes are tried with one bit more than the field has.

A descriptor that takes 0 to 3 of 3 characters and a file that is written in up to
three parts show every order of writing, transfer, failure and closing
(`MaxDevice`). In `object_header`, two threads are what an interleaved
read-modify-write or a lost list element takes. One class's bytecodes fill their
last word and the other's do not; one overrides a method that the super's vtable
has twice, the other none; one has an address without a high half, and the other
the same low half, so that a high half left over turns one into the other. The constants
include every kind that changes its tag. Two bounds keep the product of header
and classes small, and neither hides an interleaving inside a component:
an object is made when its classes are initialized (`Settled`), and its creator's
calls happen while nobody is in an operation (`Quiet`), which no other thread can
notice before it is shared.

**Fairness.** `OopsSpec` states weak fairness of `Operate(t)` for each thread: a thread
that is inside an operation (it waits for the lock, works under it or releases
it) keeps running, as any operating system's scheduler grants. Nothing is
assumed of `Start`, so no thread has to begin an operation, nor of `Spin`, nor
that a thread that tries wins: a spin lock may starve a thread, and the code
promises nothing else. The other specifications are safety only.

Each property has a mutant in `PROJECT.json`: a plausible slip in one operator
(a missing test in `Afree`, a field the mark does not save) that makes TLC report
the property violated.

## 5. Findings

All concern statements of the repository that the code does not keep.

- **A mark put on an area before its first allocation releases nothing**
  (`src/memory/resourceArea.hpp:53`). `reset_to_mark` deletes later chunks only if
  the saved `_chunk` is not null. A mark taken on an empty area saved null, so
  every chunk allocated in its scope stays linked from `_first`, while `_chunk` is
  null and `_size_in_bytes` 0 again. Run `mark_on_empty_area`. The chunks are not
  lost for good: `destruct_contents` still finds them (`Ownership`). But the next
  allocation writes through a null pointer: `grow` takes `_first != nullptr` to
  mean that `_chunk` may be dereferenced (`src/memory/arena.cpp:76`).
- **`RETURN_NULL` does not return null** (`src/memory/arena.hpp:47`).
  `Chunk::operator new` does not pass the failure mode on to `AllocateHeap`, which
  therefore aborts. Run `return_null`.
- **A successful `atomic_cas` stores an address** (`src/runtime/atomic.hpp:61`): the
  builtin takes the desired value, and is given `&exchange_val`. A lock that
  tests for 0 only still works (`MutualExclusion`); a counter or a list head
  would not. Run `cas_stores_address`.
- **`reset()` keeps the column of the text it throws away**
  (`src/utilities/ostream.hpp:127`), so that `bol` and `fill_to` act on a line that
  is gone. Run `position_after_reset`.
- **The epoch of a biased header overlaps its owner's address**
  (`src/oops/markOop.hpp:105`). The comment has threads aligned to 256 bytes, but the
  epoch is at bits 8 and 9; nothing is lost with 1024-byte alignment
  (`object_header`). Run `bias_overlap`.

Not a finding with a run of its own, but what `KlassReachable` of `object_header`
shows: `klass()` and the predicates of kind always read the whole union, so that after
`set_klass` of a class with a high half and `set_compressed_klass` of another
(`src/oops/oop.hpp:52-56`) they have the first one's high half, and may lead to the
wrong class.

## 6. What is proved

Of every invariant, action property and refinement that a passing run checks, but
not of liveness, a theorem says the same for every value of the constants. No
theorem has a bound that the model does not have. The assumptions are those
the modules name, and TLC evaluates each of them in a run:

| Assumption | Says |
|---|---|
| `ChunksAssumption`, `AlignAssumption`, `SizesAssumption`, `MarksAssumption` | null is no chunk; the alignment is positive; sizes are naturals, the default size positive |
| `ModulusAssumption`, `FramesAssumption`, `DrawsAssumption`, `LockAssumption` | 0 and 1 are words; an address is not 0; no more tickets than a word has values |
| `LayoutAssumption` | lock bits, age and hash fit a word; threads are aligned to 8 bytes at least, as lock and bias bits need |
| `RecordAssumption` | lock records are aligned to 4 bytes |
| `ClassAssumption`, `SizeAssumption`, `WordAssumption`, `PoolAssumption` | finitely many classes; a word's size is a power of 2 and divides the address space; a `u2` and a word are smaller than that; a constant pool has the kinds of a class file |
| `AddressAssumption` | classes have different addresses, none of them null |
| `NullAssumption`, `ValuesAssumption`, `BoundsAssumption` | null is no block; what is read from freed memory is no value |
| `CharsAssumption`, `SizesAssumption` of `OutputStream` | texts have no terminator in them; a buffer that a stream allocates and a tab stop are not 0 |

Three theorems say more about the client, because without it the code breaks
(section 5): `ScopesRestore` and `ScopedBytesAccounted` have `MarkOnEmpty = FALSE`,
and `HeaderFields` (like the last part of `HeaderTold`) has `BiasFits`, by which the
address of a biased thread leaves the epoch's bits free. All three conditions hold
in the run that checks the property.

**`Arena_proofs`.** `Ownership` alone is inductive given the types. The others are
not: whether the next block is disjoint from the live ones depends on where the
current chunk's blocks end, on the current chunk being the list's last, and on a
chunk that `malloc` returns holding no block yet. The inductive invariant is

    IndInv == TypeOK /\ Ownership /\ InBounds /\ Disjoint /\ ContentsKept

Along the proof: an aligned bump keeps blocks of the chunk below `_hwm`; `Afree`
lowers `_hwm` only over its own block, and disjointness keeps the others below;
the `Afree` that ends a move in `Arealloc` never gives anything back, since the
old block was not at the top or the move went to a new chunk. `TypeCorrect`,
`ChunksOwned`, `BlocksInBounds`, `BlocksDisjoint` and `ContentsSurvive` follow.

`ArenaImplements` is the refinement. A call changes at most the block of its own
handle, or the process dies in it and nothing changes (`CallsTouchOne`); blocks
that share no reserved byte share no address (`ApartShareNoByte`), so by the
invariant the step is `Place` or `Die` of `ScopedAllocator`.

`BytesAccounted` needs `Balance`, that `_size_in_bytes` is the sum over the
malloc'ed chunks; a chunk that `grow` links adds its summand and disturbs no
other. That `used()` fits in follows by comparing two sums chunk by chunk. The
community modules define a sum by a recursive function on subsets that takes
elements in an arbitrary order. The section "Sums over finite sets" shows that
there is such a function, that its values are numbers, that the order does not
matter (`SumsAnyOrder`) and that sums are compared by summands (`SumsCompared`).
Each is shown on a smallest subset for which it would fail (`LeastSubset`).

**`ResourceArea_proofs`.** Resetting to a mark keeps all that only if the mark's
position still lies on the list and above all older blocks, so

    RIndInv == IndInv /\ RTypeOK /\ MarksValid /\ StrandedHoldsNothing /\ Restorable

`Restorable` says, of clients that put no mark on an empty area and of every live
mark, that cutting the list after the saved chunk,
now, gives back the area its constructor saw. It is stable because allocation
only appends behind the saved chunk, and resetting an inner mark cuts no earlier
than an outer mark's chunk. From it follow `MarksTypeCorrect`,
`ScopedBlocksDisjoint`, `MarksStayValid`, `ScopedChunksOwned` and
`StrandedIsEmpty` for any client, and `ScopesRestore` for a client that puts marks
only on an area with a chunk. `ScopedBytesAccounted` adds that the counter was
right where each live mark was put, which a reset brings back (`ResetRestores`).
`AreaImplements` maps a mark to `Open`, its end or reset to `Close`, and a call to
`Place` in the innermost scope; it holds for any client.

**`Atomic_proofs`.** For any threads, words, frames and number of tickets up to
`Modulus`. `MutualExclusion` and `TokenKept`
are inductive given the types, because they count a thread whose call is still
returning (`LockExcludes`, `TokenStays`). `TicketsDistinct` is not: another thread might
be about to draw a number that is still in use. `TicketsRecent` says how far behind the
counter a ticket can be, at most as many as were drawn; with fewer than
`Modulus` drawn, the next number is therefore nobody's (`TicketsDiffer`).

**`SharedHeader_proofs`, `ClassMetadata_proofs`, `Oops_proofs`.** The first two say
what one step keeps, of the lock and a header and of the classes; the third
composes them into the invariant of `OopsSpec`

    OopsInv == LockInv /\ HeaderInv /\ ClassInv /\ ObjectInv

`LockInv` is mutual exclusion of the lock. `HeaderInv` is needed because
`HashAgreed` and `DisplacedKept` are about words a thread decided on earlier: the
word a thread saw is still the header while it works under the lock, every
displaced word is as faithful to what it recorded as the header itself
(`Faithful`), and only a shared object is locked by anyone. `Faithful` rests on
which bits each encoder leaves set, for any widths of the fields. `HeaderTold` says
the same of a header alone, as `ObjectHeader` specifies it. `ClassInv` adds to
the properties of the classes what a thread in the middle of loading one relies
on (`Loading`): that the head of the subclass list it read is still the head, and the
class it loads not on the list yet. `CodeInline` needs that every
`ConstMethod` lies with its code, in whole words, below `top`, where the next one
is put (`CodePlaced`), and `MethodsFound`
what `index_of` returns (`IndexOf`, by induction along its search). `ObjectInv` says
that an object is only there when no class is being loaded. It also says what each
half of the union holds (`HalvesStored`): the low one is the class's, the high
one too, unless it is left over from a class whose high half is not 0. The eleven theorems from
`OopsTyped` to `ObjectsKlass` are consequences.

**`GrowableArray_proofs`.** Two parts of the invariant are properties of the runs
put differently (`Holds` is what memory holds for one array, `HeapExact`); the third
is `Unshared`, without which a store into one array could change another.

    ArrayInv == Typed /\ (\A a \in Live : Holds(mem, arr[a], expected[a])) /\ Unshared /\ HeapExact

Nearly every call is `grow` followed by stores into the array's own block; the
proof shows once what `grow` leaves (a block of the new size, the old elements
copied, the old block given back or not), and then what each call stores, also
when its argument is a reference into the old or the new block.

**`OutputStream_proofs`.** A call makes several writes, and between two of them a
stream is in no state that any variable shows. `StreamInv` therefore says `Told(st,
w)` of a stream `st` and the text `w` written so far, and each write is shown to keep
it: `Told(st, w)` becomes `Told(st2, w \o s)`. It adds to the properties of the run how
far the text is from the buffer's end (as long as what was written, or one
character short of full) and that a descriptor holds nothing back. `sp`, `update_position` and the doubling of the buffer are
recursive functions; that such a function exists, and that it obeys its
definition, is proved by `Iterated` from the least number for which it would
not. `StreamsTyped`, `TextIsKept`, `TextsTerminated`, `ColumnFollowsText`,
`DeviceGetsText` and `BuffersGivenBack` follow. `TextsTerminated` is about streams
that hold text. Of one without, it cannot be proved, since it is false: `reset()`
leaves the buffer as it is, so `base()` shows the old text and `as_string()` copies its
first character without an end, and a buffer nobody has written is uninitialized.
Nothing in the repository says what the two should give then.

Where an argument goes by induction, it does so from a least counterexample: a set
of numbers that is not empty has a least element (`LeastNumber`), by the library's
well-foundedness of `<`.

## 7. What is only model-checked

- `LockComesFree`: liveness under fairness is beyond the provers.
- Findings are counterexamples of TLC.
- The constants' assumptions are evaluated by TLC for the runs' values; for the
  program's own values they are read off its declarations.

## 8. What is not modelled, and why

- `size_t` arithmetic: offsets are unbounded integers here. Requests near the
  largest `size_t` are left to `ArenaWords` of the plan.
- Alignment of addresses inside a chunk beyond the rounding of sizes: a payload
  starts aligned, as `malloc` and the header's size give.
- Clients that break the rules of section 3. The code checks none of them and
  promises nothing then.
- `int` overflow of `GrowableArray`'s doubled size, and element types whose copies
  or destructors have effects of their own.
- Threads that change a mark word between another's `mark()` and `set_mark()` without
  a lock: `set_mark` overwrites, so an update is lost, and nothing in the repository
  says otherwise. The model shows what a lock around both guarantees.
- A `markOop` whose word is 0 is a null pointer, and C++ does not define a member call
  on it. The predicates of `ObjectHeader` are taken as every compiler reads them here,
  as operations on the value.
- Identity of `Method`s: `index_of` compares pointers, and `MethodsFound` the names
  that stand for them, so two methods of one name are one element.
- A second lock on a biased header, bulk revocation, `_prototype_header`.
- Class-level `operator new` and `delete`: they choose between `AllocateHeap` and the
  resource area. (A `ResourceObj` made by `new` and not deleted before its mark ends
  never runs its destructor, so a `GrowableArray` on the C heap made so leaks.)
- In the class metadata: `_layout_helper`, which no code encodes (`Klass::is_array` and
  the virtual `is_array_klass` would have to agree), default methods, interfaces,
  secondary supers, itables, `next_link`, versions and names: getters and setters that
  nothing in the repository relates to each other. A `Method` begins with
  `_vtable_index` 0, which `has_vtable_index` takes for a slot: `MethodsFound` claims
  nothing before linking.
- `Copy`, assertions, macros and typedefs: wrappers without state.
