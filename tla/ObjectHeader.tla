---------------------------- MODULE ObjectHeader ----------------------------
(***************************************************************************)
(* The mark word of an object's header: the encoders and predicates of     *)
(* oops/markOop.hpp, applied to the _mark of an oopDesc (oops/oop.hpp).    *)
(*                                                                         *)
(* A word is the set of its bits that are 1, so that |, & and ~ are union, *)
(* intersection and complement. The layout, from the highest bit:          *)
(*   unlocked  hash | unused:1 | age | biased:1 | lock:2                   *)
(*   biased    thread | epoch:2 | unused:1 | age | biased:1 | lock:2       *)
(*                                                                         *)
(* Clients keep three rules the code does not check: only an unlocked word *)
(* gets a hash, ages and epochs fit their fields, and pointers are aligned *)
(* as the layout needs.                                                    *)
(***************************************************************************)
EXTENDS Integers, FiniteSets

CONSTANTS
    Width,       \* bits of a word (64)
    AgeBits,     \* 4
    HashBits,    \* 31
    EpochBits,   \* 2
    ThreadAlign  \* the low bits of a JavaThread's address that are 0

ASSUME LayoutAssumption ==
    /\ {Width, AgeBits, HashBits, EpochBits, ThreadAlign} \subseteq Nat
    /\ 4 + AgeBits + HashBits <= Width
    /\ 3 <= ThreadAlign

Word == SUBSET (0 .. Width - 1)
Mask(n) == 0 .. n - 1
Left(w, k) == {i + k : i \in {j \in w : j + k < Width}}
Right(w, k) == {i - k : i \in {j \in w : j >= k}}

AgeShift == 3
HashShift == AgeShift + AgeBits + 1
EpochShift == HashShift

VARIABLES
    mark,  \* _mark
    meant  \* history: what the last call on the header was to record

vars == <<mark, meant>>

-----------------------------------------------------------------------------
(* markOopDesc *)

locked_value == {}
unlocked_value == {0}
monitor_value == {1}
marked_value == {0, 1}
biased_lock_pattern == {0, 2}

(* Mutant: only the lock bits are looked at, as is_locked does.            *)
is_unlocked_TwoBits(w) == w \cap Mask(2) = unlocked_value
(* Mutant: the lowest bit decides.                                         *)
is_unlocked_FirstBit(w) == 0 \in w
is_unlocked(w) == w \cap Mask(3) = unlocked_value
is_locked(w) == w \cap Mask(2) # unlocked_value
is_marked(w) == w \cap Mask(2) = marked_value
is_being_inflated(w) == w = {}
has_bias_pattern(w) == w \cap Mask(3) = biased_lock_pattern
is_lightweight_locked(w) == w \cap Mask(2) = locked_value
is_heavyweight_locked(w) == w \cap Mask(2) = monitor_value

hash(w) == Right(w, HashShift) \cap Mask(HashBits)
age(w) == Right(w, AgeShift) \cap Mask(AgeBits)

(* The functions by which others ask a word. *)
markWord_is_unlocked(m) == is_unlocked(m)
markWord_is_gc_marked(m) == is_marked(m)
markWord_hash(m) == hash(m)

-----------------------------------------------------------------------------
(* The encoders *)

markWord_lightweight_locked(lock_rec) == lock_rec
markWord_heavyweight_locked(monitor) == monitor \cup monitor_value
markWord_biased(thread, a, epoch) ==
    thread \cup Left(epoch, EpochShift) \cup Left(a, AgeShift) \cup biased_lock_pattern

hash_mask_in_place == Left(Mask(HashBits), HashShift)

(* Mutant: the old hash is not cleared first.                              *)
markWord_with_hash_Or(m, h) == m \cup Left(h \cap Mask(HashBits), HashShift)
(* Mutant: the new hash is not masked.                                     *)
markWord_with_hash_Unmasked(m, h) == (m \ hash_mask_in_place) \cup Left(h, HashShift)
markWord_with_hash(m, h) ==
    (m \ hash_mask_in_place) \cup Left(h \cap Mask(HashBits), HashShift)

-----------------------------------------------------------------------------
(* A client's calls of set_mark, m being the word that mark() gave it. An  *)
(* address is a word with low bits 0.                                      *)

Addresses(align) == (SUBSET (align .. Width - 1)) \ {{}}

(* What a call is to record; a word has no other fields. *)
Recorded(state, h, a, epoch, pointer) ==
    [meant EXCEPT !.state = state, !.hash = h, !.age = a, !.epoch = epoch, !.pointer = pointer]

set_mark(w, header) == mark' = w /\ meant' = header

(* What an oopDesc itself says of its mark. *)
oopDesc_is_unlocked == markWord_is_unlocked(mark)
oopDesc_is_locked == is_lightweight_locked(mark)
oopDesc_is_heavyweight_locked == is_heavyweight_locked(mark)
oopDesc_is_gc_marked == markWord_is_gc_marked(mark)

Unlock == set_mark(unlocked_value, Recorded("unlocked", {}, {}, {}, {}))

SetHash(m, h) ==
    /\ is_unlocked(m)
    /\ set_mark(markWord_with_hash(m, h), [meant EXCEPT !.hash = h \cap Mask(HashBits)])

(* Lock records and monitors are aligned to 4 bytes at least. *)
Lock(lock_rec) ==
    set_mark(markWord_lightweight_locked(lock_rec),
             Recorded("lightweight", {}, {}, {}, lock_rec))
Inflate(monitor) ==
    set_mark(markWord_heavyweight_locked(monitor),
             Recorded("heavyweight", {}, {}, {}, monitor))

Bias(thread, a, epoch) ==
    set_mark(markWord_biased(thread, a, epoch), Recorded("biased", {}, a, epoch, thread))

GcMark == set_mark(marked_value, Recorded("marked", {}, {}, {}, {}))

(* oopDesc(): _mark is 0. *)
Init ==
    /\ mark = {}
    /\ meant = [state |-> "inflating", hash |-> {}, age |-> {}, epoch |-> {}, pointer |-> {}]

Next ==
    \/ Unlock
    \/ \E h \in SUBSET (0 .. HashBits) : SetHash(mark, h)
    \/ \E p \in Addresses(2) : Lock(p) \/ Inflate(p)
    \/ \E p \in Addresses(ThreadAlign), a \in SUBSET Mask(AgeBits), e \in SUBSET Mask(EpochBits) :
          Bias(p, a, e)
    \/ GcMark

Spec == Init /\ [][Next]_vars

-----------------------------------------------------------------------------
(* Properties *)

(* Type invariant: the fields have their widths, and a word that was only  *)
(* unlocked and hashed has no bit outside the lock and the hash field.     *)
TypeOK ==
    /\ mark \in Word
    /\ meant.state = "unlocked" => mark \subseteq unlocked_value \cup hash_mask_in_place
    /\ meant.hash \subseteq Mask(HashBits) /\ meant.age \subseteq Mask(AgeBits)
    /\ meant.epoch \subseteq Mask(EpochBits) /\ meant.pointer \in Word

(* Whatever was encoded, each predicate answers for its own state only:    *)
(* those of markOopDesc, and those of oopDesc, whose is_locked means a     *)
(* lightweight lock.                                                       *)
StatesTold ==
    /\ oopDesc_is_unlocked <=> meant.state = "unlocked"
    /\ oopDesc_is_locked <=> meant.state \in {"lightweight", "inflating"}
    /\ oopDesc_is_heavyweight_locked <=> meant.state = "heavyweight"
    /\ oopDesc_is_gc_marked <=> meant.state = "marked"
    /\ is_locked(mark) <=> meant.state \notin {"unlocked", "biased"}
    /\ has_bias_pattern(mark) <=> meant.state = "biased"
    /\ is_being_inflated(mark) <=> meant.state = "inflating"

(* The owner and the epoch of a biased header can be read back from their  *)
(* places in the layout (markOop.hpp: "the pointer to JavaThread is        *)
(* aligned to 256 bytes, its low 8 bits are 0, so just OR it in").         *)
BiasKept ==
    meant.state = "biased" =>
        /\ Right(mark, EpochShift) \cap Mask(EpochBits) = meant.epoch
        /\ {i \in mark : i >= EpochShift + EpochBits} = meant.pointer

(* Every field of the state a header is in can be read back: the hash and  *)
(* the age, after any number of hashes were put in place of each other,    *)
(* the pointer of a lock, the owner, age and epoch of a bias.              *)
FieldsKept ==
    /\ meant.state = "unlocked" => hash(mark) = meant.hash /\ age(mark) = meant.age
    /\ meant.state = "biased" => age(mark) = meant.age
    /\ meant.state = "lightweight" => mark = meant.pointer
    /\ meant.state = "heavyweight" => mark \ monitor_value = meant.pointer
    /\ BiasKept
=============================================================================
