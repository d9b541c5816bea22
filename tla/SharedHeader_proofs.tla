------------------------ MODULE SharedHeader_proofs ------------------------
(***************************************************************************)
(* Lemmas about the spin lock and about headers that threads share, for    *)
(* any threads, frames and layout of the mark word: what one step keeps.   *)
(***************************************************************************)
EXTENDS SharedHeader, TLAPS

-----------------------------------------------------------------------------
(* The spin lock *)

(* What is true of the lock between any two steps. *)
LockInv == LockTypeOK /\ L!MutualExclusion

(* The steps of a thread as far as the lock is concerned. *)
LockStep(t) ==
    \/ Start(t) \/ Spin(t) \/ Acquire(t) \/ Release(t)
    \/ Working(t) /\ Finish(t)

(* Nobody has the lock at first. *)
LEMMA LockInitially == LockInit => LockInv
  BY DEF LockInit, LockInv, LockTypeOK, L!MutualExclusion, L!Holds

(* A step keeps the types of the lock's words, and at most one thread has  *)
(* the lock afterwards.                                                    *)
LEMMA LockKept ==
    ASSUME LockInv, NEW t \in Threads, LockStep(t)
    PROVE  LockInv'
<1> USE DEF LockInv
<1>1. CASE Start(t)
  <2>1. LockTypeOK'
    BY <1>1 DEF LockTypeOK, Start, L!Look
  <2>2. lock' = lock /\ \A u \in Threads : L!Holds(u)' <=> L!Holds(u)
    BY <1>1 DEF LockTypeOK, Start, L!Look, L!Holds
  <2> QED BY <2>1, <2>2 DEF L!MutualExclusion
<1>2. CASE Spin(t)
  BY <1>2 DEF Spin, lockVars, LockTypeOK, L!MutualExclusion, L!Holds
<1>3. CASE L!TryLock(t) /\ UNCHANGED done
  <2>1. PICK frame \in Frames : /\ lock' = IF lock = 0 THEN frame ELSE lock
                                /\ swapped' = IF lock = 0 THEN <<1, lock'>> ELSE swapped
    BY <1>3 DEF L!TryLock, L!atomic_cas
  <2>2. LockTypeOK'
    BY <1>3, <2>1 DEF LockTypeOK, L!TryLock, L!cas_result
  <2>3. ~L!Holds(t) /\ (L!Holds(t)' <=> lock = 0)
    BY <1>3 DEF LockTypeOK, L!TryLock, L!Holds, L!cas_result
  <2>4. \A u \in Threads \ {t} : L!Holds(u)' <=> L!Holds(u)
    BY <1>3 DEF LockTypeOK, L!TryLock, L!Holds
  <2>5. lock' # 0
    BY <2>1, LockAssumption
  <2> QED BY <2>1, <2>2, <2>3, <2>4, <2>5 DEF L!MutualExclusion
<1>4. CASE L!ReturnCas(t) /\ UNCHANGED done
  <2>1. LockTypeOK'
    BY <1>4 DEF LockTypeOK, L!ReturnCas
  <2>2. lock' = lock /\ \A u \in Threads : L!Holds(u)' <=> L!Holds(u)
    BY <1>4 DEF LockTypeOK, L!ReturnCas, L!Holds
  <2> QED BY <2>1, <2>2 DEF L!MutualExclusion
<1>5. CASE Release(t)
  <2>1. LockTypeOK'
    BY <1>5 DEF LockTypeOK, Release, L!Unlock, L!atomic_store
  <2>2. L!Holds(t) /\ ~L!Holds(t)' /\ lock' = 0
    BY <1>5 DEF LockTypeOK, Release, L!Unlock, L!atomic_store, L!Holds
  <2>3. \A u \in Threads \ {t} : L!Holds(u)' <=> L!Holds(u)
    BY <1>5 DEF LockTypeOK, Release, L!Unlock, L!Holds
  <2> QED BY <2>1, <2>2, <2>3 DEF L!MutualExclusion
<1>6. CASE Working(t) /\ Finish(t)
  BY <1>6 DEF LockTypeOK, Working, Finish, L!MutualExclusion, L!Holds
<1> QED BY <1>1, <1>2, <1>3, <1>4, <1>5, <1>6 DEF LockStep, Acquire

(* A step changes at most the stepping thread's place in the protocol.     *)
LEMMA OthersStay ==
    ASSUME LockInv, NEW t \in Threads, LockStep(t)
    PROVE  \A u \in Threads \ {t} : pc'[u] = pc[u] /\ done'[u] = done[u]
BY DEF LockInv, LockTypeOK, LockStep, Start, Spin, Acquire, Release, Finish, lockVars,
       L!Look, L!TryLock, L!ReturnCas, L!Unlock

(* Only one thread works at a time. *)
LEMMA OneWorks ==
    ASSUME LockInv, NEW t \in Threads, NEW u \in Threads, pc[t] = "locked", pc[u] = "locked"
    PROVE  t = u
BY DEF LockInv, L!MutualExclusion, L!Holds
-----------------------------------------------------------------------------
(* Words, bit by bit *)

(* The shifts of the layout, all natural numbers. *)
LEMMA Layout ==
    /\ {Width, AgeBits, HashBits, EpochBits, ThreadAlign} \subseteq Nat
    /\ HashShift = 4 + AgeBits /\ EpochShift = HashShift /\ AgeShift = 3
    /\ HashShift + HashBits <= Width /\ 3 <= ThreadAlign
  BY LayoutAssumption DEF HashShift, EpochShift, AgeShift

(* The bits that make up the fields of a word. *)
LEMMA FieldBits ==
    ASSUME NEW w \in Word
    PROVE  /\ hash(w) = {i \in Mask(HashBits) : i + HashShift \in w}
           /\ age(w) = {i \in Mask(AgeBits) : i + AgeShift \in w}
           /\ Right(w, EpochShift) \cap Mask(EpochBits) = {i \in Mask(EpochBits) : i + EpochShift \in w}
<1>1. ASSUME NEW k \in Nat, NEW n \in Nat
      PROVE  Right(w, k) \cap Mask(n) = {i \in Mask(n) : i + k \in w}
  BY DEF Right, Mask, Word
<1> QED BY <1>1, Layout DEF hash, age

(* A word that was shifted up, with the bits that still have room. *)
LEMMA ShiftedBits ==
    ASSUME NEW f \in SUBSET Nat, NEW k \in Nat
    PROVE  /\ Left(f, k) \in Word
           /\ \A i \in Nat : i \in Left(f, k) <=> i < Width /\ i >= k /\ i - k \in f
  BY Layout DEF Left, Word

(* The hash field is above the other fields of an unlocked word. *)
LEMMA HashField ==
    /\ hash_mask_in_place \in Word
    /\ \A i \in Nat : i \in hash_mask_in_place <=> HashShift <= i /\ i < HashShift + HashBits
<1>1. Mask(HashBits) \in SUBSET Nat /\ HashShift \in Nat
  BY Layout DEF Mask
<1>2. hash_mask_in_place \in Word
  BY <1>1, ShiftedBits DEF hash_mask_in_place
<1>3. \A i \in Nat : i \in hash_mask_in_place <=> i < Width /\ i >= HashShift /\ i - HashShift \in Mask(HashBits)
  BY <1>1, ShiftedBits DEF hash_mask_in_place
<1> QED BY <1>2, <1>3, Layout DEF Mask

-----------------------------------------------------------------------------
(* What a word says of the header it is to record *)

Headers == [state : {"inflating", "unlocked", "lightweight", "heavyweight", "biased", "marked"},
            hash : SUBSET Mask(HashBits), age : SUBSET Mask(AgeBits),
            epoch : SUBSET Mask(EpochBits), pointer : Word]

(* TypeOK, of any word and header. *)
Typed(w, m) ==
    /\ w \in Word /\ m \in Headers
    /\ m.state = "unlocked" => w \subseteq unlocked_value \cup hash_mask_in_place

(* StatesTold, of any word and header. *)
Told(w, m) ==
    /\ is_unlocked(w) <=> m.state = "unlocked"
    /\ is_lightweight_locked(w) <=> m.state \in {"lightweight", "inflating"}
    /\ is_heavyweight_locked(w) <=> m.state = "heavyweight"
    /\ is_marked(w) <=> m.state = "marked"
    /\ is_locked(w) <=> m.state \notin {"unlocked", "biased"}
    /\ has_bias_pattern(w) <=> m.state = "biased"
    /\ is_being_inflated(w) <=> m.state = "inflating"

(* FieldsKept, of any word and header. *)
Kept(w, m) ==
    /\ m.state = "unlocked" => hash(w) = m.hash /\ age(w) = m.age
    /\ m.state = "biased" =>
          /\ age(w) = m.age
          /\ Right(w, EpochShift) \cap Mask(EpochBits) = m.epoch
          /\ {i \in w : i >= EpochShift + EpochBits} = m.pointer
    /\ m.state = "lightweight" => w = m.pointer
    /\ m.state = "heavyweight" => w \ monitor_value = m.pointer

(* Where the layout has room for the epoch: the owner's low bits are 0 up  *)
(* to its end.                                                             *)
BiasFits == EpochShift + EpochBits <= ThreadAlign

Faithful(w, m) == Typed(w, m) /\ Told(w, m) /\ (BiasFits => Kept(w, m))

(* The three lowest bits decide what is_... answers. *)
LEMMA LowBits ==
    ASSUME NEW w \in Word
    PROVE  /\ is_unlocked(w) <=> 0 \in w /\ 1 \notin w /\ 2 \notin w
           /\ is_lightweight_locked(w) <=> 0 \notin w /\ 1 \notin w
           /\ is_heavyweight_locked(w) <=> 0 \notin w /\ 1 \in w
           /\ is_marked(w) <=> 0 \in w /\ 1 \in w
           /\ is_locked(w) <=> ~(0 \in w /\ 1 \notin w)
           /\ has_bias_pattern(w) <=> 0 \in w /\ 1 \notin w /\ 2 \in w
<1>1. Mask(2) = {0, 1} /\ Mask(3) = {0, 1, 2}
  BY DEF Mask
<1> QED BY <1>1 DEF is_unlocked, is_lightweight_locked, is_heavyweight_locked, is_marked, is_locked,
               has_bias_pattern, unlocked_value, locked_value, monitor_value, marked_value,
               biased_lock_pattern

(* An unlocked word. *)
LEMMA UnlockedFaithful ==
    ASSUME NEW m \in Headers, m.state = "unlocked", m.hash = {}, m.age = {}
    PROVE  Faithful(unlocked_value, m) /\ hash(unlocked_value) = {}
<1>1. unlocked_value \in Word /\ \A i : i \in unlocked_value <=> i = 0
  BY Layout DEF unlocked_value, Word
<1>2. hash(unlocked_value) = {} /\ age(unlocked_value) = {}
  <2>1. \A i \in Nat : i + HashShift # 0 /\ i + AgeShift # 0
    BY Layout
  <2> QED BY <1>1, <2>1, FieldBits, Layout DEF Mask
<1>3. Told(unlocked_value, m)
  BY <1>1, LowBits DEF Told, is_being_inflated
<1> QED BY <1>1, <1>2, <1>3 DEF Faithful, Typed, Kept

(* An unlocked word that gets a hash. *)
LEMMA HashPut ==
    ASSUME NEW w \in Word, is_unlocked(w), NEW h
    PROVE  /\ markWord_with_hash(w, h) \in Word
           /\ is_unlocked(markWord_with_hash(w, h))
           /\ hash(markWord_with_hash(w, h)) = h \cap Mask(HashBits)
           /\ age(markWord_with_hash(w, h)) = age(w)
           /\ markWord_with_hash(w, h) \subseteq w \cup hash_mask_in_place
<1> DEFINE f == h \cap Mask(HashBits)
           v == markWord_with_hash(w, h)
<1>1. f \in SUBSET Nat /\ \A i \in f : i < HashBits
  BY Layout DEF Mask
<1>2. v = (w \ hash_mask_in_place) \cup Left(f, HashShift)
  BY DEF markWord_with_hash
<1> HIDE DEF f, v
<1>3. /\ Left(f, HashShift) \in Word
      /\ \A i \in Nat : i \in Left(f, HashShift) <=> i < Width /\ i >= HashShift /\ i - HashShift \in f
  BY <1>1, ShiftedBits, Layout
<1>4. v \in Word
  BY <1>2, <1>3 DEF Word
<1>5. \A i \in Nat : i \in v <=> IF HashShift <= i /\ i < HashShift + HashBits
                                  THEN i - HashShift \in f ELSE i \in w
  BY <1>1, <1>2, <1>3, HashField, Layout
<1>6. is_unlocked(v)
  BY <1>4, <1>5, LowBits, Layout
<1>7. hash(v) = f
  <2>1. \A i \in Mask(HashBits) : i + HashShift \in v <=> i \in f
    BY <1>5, Layout DEF Mask
  <2>2. f \subseteq Mask(HashBits)
    BY DEF f
  <2> QED BY <1>4, <2>1, <2>2, FieldBits
<1>8. age(v) = age(w)
  <2>1. \A i \in Mask(AgeBits) : i + AgeShift \in v <=> i + AgeShift \in w
    BY <1>5, Layout DEF Mask
  <2> QED BY <1>4, <2>1, FieldBits
<1>9. v \subseteq w \cup hash_mask_in_place
  BY <1>4, <1>5, HashField, Layout DEF Word
<1> QED BY <1>4, <1>6, <1>7, <1>8, <1>9 DEF v, f

(* What the header records after it got a hash is what its word says. *)
LEMMA HashFaithful ==
    ASSUME NEW w, NEW m, Faithful(w, m), is_unlocked(w), NEW h
    PROVE  Faithful(markWord_with_hash(w, h), [m EXCEPT !.hash = h \cap Mask(HashBits)])
<1> DEFINE v == markWord_with_hash(w, h)
           n == [m EXCEPT !.hash = h \cap Mask(HashBits)]
<1>1. w \in Word /\ m \in Headers /\ m.state = "unlocked" /\ w \subseteq unlocked_value \cup hash_mask_in_place
  BY DEF Faithful, Typed, Told
<1>2. n \in Headers /\ n.state = "unlocked" /\ n.hash = h \cap Mask(HashBits) /\ n.age = m.age
  BY <1>1 DEF Headers
<1>3. /\ v \in Word /\ is_unlocked(v) /\ hash(v) = h \cap Mask(HashBits) /\ age(v) = age(w)
      /\ v \subseteq w \cup hash_mask_in_place
  BY <1>1, HashPut
<1> HIDE DEF v, n
<1>4. Told(v, n)
  BY <1>2, <1>3, LowBits DEF Told, is_being_inflated
<1>5. Typed(v, n)
  BY <1>1, <1>2, <1>3 DEF Typed
<1>6. BiasFits => Kept(v, n)
  BY <1>1, <1>2, <1>3 DEF Kept, Faithful
<1> QED BY <1>4, <1>5, <1>6 DEF Faithful, v, n

(* The words of locks, which lead to an address with two low bits 0. *)
LEMMA AddressBits ==
    ASSUME NEW n \in Nat, NEW p \in Addresses(n)
    PROVE  p \in Word /\ p # {} /\ \A i \in p : i \in Nat /\ i >= n
BY Layout DEF Addresses, Word

(* The word of a lightweight lock is the address of its record. *)
LEMMA LightweightFaithful ==
    ASSUME NEW p \in Addresses(2), NEW m \in Headers, m.state = "lightweight", m.pointer = p
    PROVE  Faithful(markWord_lightweight_locked(p), m)
<1>1. p \in Word /\ p # {} /\ 0 \notin p /\ 1 \notin p
  BY AddressBits
<1>2. Told(p, m)
  BY <1>1, LowBits DEF Told, is_being_inflated
<1> QED BY <1>1, <1>2 DEF Faithful, Typed, Kept, markWord_lightweight_locked

(* The word of a heavyweight lock is the address of its monitor, marked. *)
LEMMA HeavyweightFaithful ==
    ASSUME NEW p \in Addresses(2), NEW m \in Headers, m.state = "heavyweight", m.pointer = p
    PROVE  /\ Faithful(markWord_heavyweight_locked(p), m)
           /\ markWord_heavyweight_locked(p) \ monitor_value = p
<1> DEFINE w == markWord_heavyweight_locked(p)
<1>1. p \in Word /\ 0 \notin p /\ 1 \notin p
  BY AddressBits
<1>2. w \in Word /\ 0 \notin w /\ 1 \in w /\ w \ monitor_value = p
  BY <1>1, Layout DEF markWord_heavyweight_locked, monitor_value, Word
<1> HIDE DEF w
<1>3. Told(w, m)
  BY <1>2, LowBits DEF Told, is_being_inflated
<1> QED BY <1>2, <1>3 DEF Faithful, Typed, Kept, w

(* The mark of the collector. *)
LEMMA MarkedFaithful ==
    ASSUME NEW m \in Headers, m.state = "marked"
    PROVE  Faithful(marked_value, m)
<1>1. marked_value \in Word /\ 0 \in marked_value /\ 1 \in marked_value
  BY Layout DEF marked_value, Word
<1>2. Told(marked_value, m)
  BY <1>1, LowBits DEF Told, is_being_inflated
<1> QED BY <1>1, <1>2 DEF Faithful, Typed, Kept

(* A biased word: owner, epoch and age keep out of each other's bits.      *)
LEMMA BiasedFaithful ==
    ASSUME NEW p \in Addresses(ThreadAlign), NEW a \in SUBSET Mask(AgeBits),
           NEW e \in SUBSET Mask(EpochBits), NEW m \in Headers,
           m.state = "biased", m.age = a, m.epoch = e, m.pointer = p
    PROVE  Faithful(markWord_biased(p, a, e), m)
<1> DEFINE w == markWord_biased(p, a, e)
<1>1. p \in Word /\ p # {} /\ \A i \in p : i \in Nat /\ i >= ThreadAlign
  BY AddressBits, Layout
<1>2. a \in SUBSET Nat /\ e \in SUBSET Nat
  BY DEF Mask
<1>3. /\ Left(a, AgeShift) \in Word /\ Left(e, EpochShift) \in Word
      /\ \A i \in Nat : i \in Left(a, AgeShift) <=> i < Width /\ i >= AgeShift /\ i - AgeShift \in a
      /\ \A i \in Nat : i \in Left(e, EpochShift) <=> i < Width /\ i >= EpochShift /\ i - EpochShift \in e
  BY <1>2, ShiftedBits, Layout
<1>4. w \in Word
  <2>1. p \in Word /\ biased_lock_pattern \in Word
    BY <1>1, Layout DEF biased_lock_pattern, Word
  <2> QED BY <1>3, <2>1 DEF markWord_biased, Word
<1>5. \A i \in Nat : i \in w <=> \/ i \in p \/ i \in {0, 2}
                                 \/ i < Width /\ i >= AgeShift /\ i - AgeShift \in a
                                 \/ i < Width /\ i >= EpochShift /\ i - EpochShift \in e
  BY <1>3 DEF markWord_biased, biased_lock_pattern
<1> HIDE DEF w
<1>6. 0 \in w /\ 1 \notin w /\ 2 \in w
  BY <1>1, <1>5, Layout
<1>7. Told(w, m)
  BY <1>4, <1>6, LowBits DEF Told, is_being_inflated
<1>8. ASSUME BiasFits
      PROVE  Kept(w, m)
  <2>0. ThreadAlign < Width
    <3>1. PICK i \in p : i \in 0 .. Width - 1 /\ i >= ThreadAlign
      BY <1>1 DEF Word
    <3> QED BY <3>1, Layout
  <2>1. age(w) = a
    <3>1. \A i \in Mask(AgeBits) : i + AgeShift \in w <=> i \in a
      BY <1>1, <1>5, <1>8, Layout DEF Mask, BiasFits
    <3> QED BY <1>4, <3>1, FieldBits
  <2>2. Right(w, EpochShift) \cap Mask(EpochBits) = e
    <3>1. \A i \in Mask(EpochBits) : i + EpochShift \in w <=> i \in e
      BY <1>1, <1>5, <1>8, <2>0, Layout DEF Mask, BiasFits
    <3> QED BY <1>4, <3>1, FieldBits
  <2>3. {i \in w : i >= EpochShift + EpochBits} = p
    <3>1. \A i \in Nat : i \in w /\ i >= EpochShift + EpochBits <=> i \in p
      BY <1>1, <1>5, <1>8, Layout DEF Mask, BiasFits
    <3>2. w \subseteq Nat /\ p \subseteq Nat
      BY <1>1, <1>4 DEF Word
    <3>3. \A i : i \in {j \in w : j >= EpochShift + EpochBits} <=> i \in p
      BY <3>1, <3>2, Zenon
    <3> QED BY <3>3, Zenon
  <2> QED BY <2>1, <2>2, <2>3 DEF Kept
<1> QED BY <1>4, <1>7, <1>8 DEF Faithful, Typed, w

-----------------------------------------------------------------------------
(* One call of set_mark *)

(* What the clients' calls make of a faithful header. *)
LEMMA CallsFaithful ==
    ASSUME Faithful(mark, meant)
    PROVE  /\ Unlock => Faithful(mark', meant') /\ is_unlocked(mark')
           /\ \A h : SetHash(mark, h) => Faithful(mark', meant')
           /\ \A p \in Addresses(2) : Lock(p) \/ Inflate(p) =>
                 Faithful(mark', meant') /\ is_locked(mark') /\ mark' \ monitor_value = p
           /\ \A p \in Addresses(ThreadAlign), a \in SUBSET Mask(AgeBits), e \in SUBSET Mask(EpochBits) :
                 Bias(p, a, e) => Faithful(mark', meant') /\ has_bias_pattern(mark')
           /\ GcMark => Faithful(mark', meant') /\ is_locked(mark') /\ is_marked(mark')
<1>1. mark \in Word /\ meant \in Headers
  BY DEF Faithful, Typed
<1>2. /\ {} \in Word /\ {} \in SUBSET Mask(AgeBits) /\ {} \in SUBSET Mask(HashBits)
      /\ {} \in SUBSET Mask(EpochBits)
  BY DEF Word
<1>3. ASSUME Unlock PROVE Faithful(mark', meant') /\ is_unlocked(mark')
  <2>1. /\ mark' = unlocked_value /\ meant' \in Headers
        /\ meant'.state = "unlocked" /\ meant'.hash = {} /\ meant'.age = {}
    BY <1>1, <1>2, <1>3 DEF Unlock, set_mark, Recorded, Headers
  <2>2. Faithful(mark', meant')
    BY <2>1, UnlockedFaithful
  <2> QED BY <2>1, <2>2 DEF Faithful, Told
<1>4. ASSUME NEW h, SetHash(mark, h) PROVE Faithful(mark', meant')
  BY <1>4, HashFaithful DEF SetHash, set_mark
<1>5. ASSUME NEW p \in Addresses(2), Lock(p)
      PROVE  Faithful(mark', meant') /\ is_locked(mark') /\ mark' \ monitor_value = p
  <2>1. p \in Word /\ 1 \notin p
    BY AddressBits
  <2>2. /\ mark' = markWord_lightweight_locked(p) /\ meant' \in Headers
        /\ meant'.state = "lightweight" /\ meant'.pointer = p
    BY <1>1, <1>2, <1>5, <2>1 DEF Lock, set_mark, Recorded, Headers
  <2>3. Faithful(mark', meant')
    BY <2>2, LightweightFaithful
  <2>4. mark' \ monitor_value = p
    BY <2>1, <2>2 DEF markWord_lightweight_locked, monitor_value
  <2> QED BY <2>2, <2>3, <2>4 DEF Faithful, Told
<1>6. ASSUME NEW p \in Addresses(2), Inflate(p)
      PROVE  Faithful(mark', meant') /\ is_locked(mark') /\ mark' \ monitor_value = p
  <2>1. p \in Word
    BY AddressBits
  <2>2. /\ mark' = markWord_heavyweight_locked(p) /\ meant' \in Headers
        /\ meant'.state = "heavyweight" /\ meant'.pointer = p
    BY <1>1, <1>2, <1>6, <2>1 DEF Inflate, set_mark, Recorded, Headers
  <2>3. Faithful(mark', meant') /\ mark' \ monitor_value = p
    BY <2>2, HeavyweightFaithful
  <2> QED BY <2>2, <2>3 DEF Faithful, Told
<1>7. ASSUME NEW p \in Addresses(ThreadAlign), NEW a \in SUBSET Mask(AgeBits),
             NEW e \in SUBSET Mask(EpochBits), Bias(p, a, e)
      PROVE  Faithful(mark', meant') /\ has_bias_pattern(mark')
  <2>1. p \in Word
    BY AddressBits, Layout
  <2>2. /\ meant' \in Headers /\ meant'.state = "biased" /\ meant'.age = a
        /\ meant'.epoch = e /\ meant'.pointer = p
    BY <1>1, <1>2, <1>7, <2>1 DEF Bias, set_mark, Recorded, Headers
  <2>3. mark' = markWord_biased(p, a, e)
    BY <1>7 DEF Bias, set_mark
  <2>4. Faithful(mark', meant')
    BY <2>2, <2>3, BiasedFaithful
  <2> QED BY <2>2, <2>4 DEF Faithful, Told
<1>8. ASSUME GcMark PROVE Faithful(mark', meant') /\ is_locked(mark') /\ is_marked(mark')
  <2>1. mark' = marked_value /\ meant' \in Headers /\ meant'.state = "marked"
    BY <1>1, <1>2, <1>8 DEF GcMark, set_mark, Recorded, Headers
  <2>2. Faithful(mark', meant')
    BY <2>1, MarkedFaithful
  <2> QED BY <2>1, <2>2 DEF Faithful, Told
<1> QED BY <1>3, <1>4, <1>5, <1>6, <1>7, <1>8

(* The header that the constructor makes, and what any call makes of it.   *)
LEMMA NewHeaderFaithful == Init => Faithful(mark, meant)
<1> SUFFICES ASSUME Init PROVE Faithful(mark, meant)
  OBVIOUS
<1>1. mark = {} /\ mark \in Word /\ meant \in Headers /\ meant.state = "inflating"
  BY DEF Init, Headers, Word
<1>2. Told(mark, meant)
  BY <1>1, LowBits DEF Told, is_being_inflated
<1> QED BY <1>1, <1>2 DEF Faithful, Typed, Kept

(* Whatever the creator calls, the word tells what its last call meant. *)
LEMMA NextFaithful == Faithful(mark, meant) /\ [Next]_vars => Faithful(mark, meant)'
BY CallsFaithful DEF Next, vars

(* What follows for the word itself. *)
LEMMA FaithfulMeans ==
    ASSUME Faithful(mark, meant)
    PROVE  TypeOK /\ StatesTold /\ (BiasFits => FieldsKept)
<1>1. Typed(mark, meant) /\ Told(mark, meant) /\ (BiasFits => Kept(mark, meant))
  BY DEF Faithful
<1>2. TypeOK
  BY <1>1 DEF Typed, TypeOK, Headers
<1>3. StatesTold
  BY <1>1 DEF Told, StatesTold, oopDesc_is_unlocked, oopDesc_is_locked, oopDesc_is_heavyweight_locked,
              oopDesc_is_gc_marked, markWord_is_unlocked, markWord_is_gc_marked
<1>4. BiasFits => FieldsKept
  BY <1>1 DEF Kept, FieldsKept, BiasKept
<1> QED BY <1>2, <1>3, <1>4

(* Any calls a client makes on a header it has for itself: the states are  *)
(* told apart, and where the layout leaves room for the epoch below the    *)
(* owner, every field is read back as it was written.                      *)
THEOREM HeaderTold == Spec => [](TypeOK /\ StatesTold /\ (BiasFits => FieldsKept))
<1>1. Faithful(mark, meant) => TypeOK /\ StatesTold /\ (BiasFits => FieldsKept)
  BY FaithfulMeans
<1> QED BY <1>1, NewHeaderFaithful, NextFaithful, PTL DEF Spec

-----------------------------------------------------------------------------
(* The header under the lock *)

Displacements == [word : Word, header : Headers]

(* What is true of the header between any two steps: the word is faithful  *)
(* to what was recorded, and so is every word that was displaced; a thread *)
(* that decides on a word has the lock, and nobody changed it meanwhile.   *)
HeaderInv ==
    /\ Faithful(mark, meant)
    /\ stage \in {"none", "fresh", "shared"}
    /\ seen \in [Threads -> Word \cup {NoWord}]
    /\ told \in [Threads -> SUBSET Mask(HashBits)]
    /\ displaced \in [Threads -> SUBSET Displacements]
    /\ \A t \in Threads : \A d \in displaced[t] : Faithful(d.word, d.header)
    /\ \A t \in Threads : seen[t] # NoWord => Working(t) /\ seen[t] = mark
    /\ stage # "shared" => \A t \in Threads : seen[t] = NoWord /\ told[t] = {} /\ displaced[t] = {}
    /\ HashAgreed
    /\ DisplacedKept

(* The header of an object that was just constructed. *)
LEMMA HeaderInitially == HeaderInit => HeaderInv
BY NewHeaderFaithful DEF HeaderInit, HeaderInv, HashAgreed, DisplacedKept

(* The properties of the module follow. *)
LEMMA HeaderInvMeans ==
    ASSUME HeaderInv
    PROVE  /\ HeaderTypeOK /\ StatesTold
           /\ BiasFits => FieldsKept
BY FaithfulMeans DEF HeaderTypeOK, HeaderInv, Displacements

(* A step of the lock that is none of the header. *)
LEMMA LockKeepsHeader ==
    ASSUME LockInv, HeaderInv, NEW t \in Threads, LockStep(t), UNCHANGED headerVars,
           Working(t) /\ Finish(t) => seen[t] = NoWord
    PROVE  HeaderInv'
<1>1. \A u \in Threads : seen[u] # NoWord => Working(u)'
  <2>1. \A u \in Threads \ {t} : Working(u)' <=> Working(u)
    BY OthersStay DEF Working
  <2>2. Working(t) => Spin(t) \/ (Working(t) /\ Finish(t))
    BY DEF LockStep, Start, Acquire, Release, Working, L!Look, L!TryLock, L!ReturnCas
  <2>3. Working(t) /\ Spin(t) => Working(t)'
    BY DEF Working, Spin, lockVars
  <2> QED BY <2>1, <2>2, <2>3 DEF HeaderInv
<1> QED BY <1>1 DEF HeaderInv, headerVars, HashAgreed, DisplacedKept

(* What a thread finds when it decides: nobody else is in the middle of an *)
(* operation, and the word it was given is the header's.                   *)
LEMMA Deciding ==
    ASSUME LockInv, HeaderInv, NEW t \in Threads, Decide(t)
    PROVE  /\ stage = "shared" /\ stage' = stage
           /\ seen[t] = mark /\ mark \in Word
           /\ seen' \in [Threads -> Word \cup {NoWord}]
           /\ \A u \in Threads : seen'[u] = NoWord
<1>1. seen[t] # NoWord /\ Working(t) /\ seen[t] = mark /\ stage = "shared" /\ mark \in Word
  BY DEF HeaderInv, Decide, Faithful, Typed
<1>2. \A u \in Threads \ {t} : seen[u] = NoWord
  BY <1>1, OneWorks DEF HeaderInv, Working
<1> QED BY <1>1, <1>2 DEF HeaderInv, Decide

(* What is left to show of a step that decides. *)
LEMMA AfterDeciding ==
    ASSUME LockInv, HeaderInv, NEW t \in Threads, Decide(t),
           Faithful(mark', meant'),
           told' \in [Threads -> SUBSET Mask(HashBits)],
           displaced' \in [Threads -> SUBSET Displacements],
           \A u \in Threads : \A d \in displaced'[u] : Faithful(d.word, d.header),
           HashAgreed', DisplacedKept'
    PROVE  HeaderInv'
BY Deciding DEF HeaderInv

(* An unlocked or biased header has displaced no word. *)
LEMMA NoneDisplaced ==
    ASSUME HeaderInv, stage = "shared", is_unlocked(mark) \/ has_bias_pattern(mark)
    PROVE  \A u \in Threads : displaced[u] = {}
<1>1. ~is_locked(mark)
  BY LowBits DEF HeaderInv, Faithful, Typed
<1> QED BY <1>1 DEF HeaderInv, DisplacedKept

(* Nobody was told a hash of a header that has none, or no room for one. *)
LEMMA NobodyTold ==
    ASSUME HeaderInv, has_bias_pattern(mark) \/ (is_unlocked(mark) /\ hash(mark) = {})
    PROVE  \A u \in Threads : told[u] = {}
BY DEF HeaderInv, HashAgreed, markWord_is_unlocked, markWord_hash

(* The operations on a shared header, one by one. *)
LEMMA ReadMarkKeeps ==
    ASSUME LockInv, HeaderInv, NEW t \in Threads, ReadMark(t)
    PROVE  HeaderInv'
<1>1. Working(t)' /\ \A u \in Threads : Working(u)' <=> Working(u)
  BY DEF ReadMark, Working, Continue, lockVars
<1>2. mark' = mark /\ meant' = meant /\ mark \in Word
  BY DEF ReadMark, HeaderInv, Faithful, Typed
<1> QED BY <1>1, <1>2 DEF HeaderInv, ReadMark, HashAgreed, DisplacedKept

(* A thread is told the hash in the word, or puts a new one there: in both *)
(* cases the one that all are told from then on.                           *)
LEMMA GetHashKeeps ==
    ASSUME LockInv, HeaderInv, NEW t \in Threads, GetHash(t)
    PROVE  HeaderInv'
<1>1. Decide(t) /\ stage = "shared" /\ seen[t] = mark /\ is_unlocked(mark) /\ displaced' = displaced
  BY Deciding DEF GetHash, markWord_is_unlocked
<1>2. \A u \in Threads : displaced[u] = {}
  BY <1>1, NoneDisplaced
<1>3. displaced \in [Threads -> SUBSET Displacements] /\ Faithful(mark, meant) /\ mark \in Word
  BY DEF HeaderInv, Faithful, Typed
<1>4. CASE hash(mark) # {}
  <2>1. mark' = mark /\ meant' = meant /\ told' = [told EXCEPT ![t] = hash(mark)]
    BY <1>1, <1>4 DEF GetHash, markWord_hash
  <2>2. hash(mark) \in SUBSET Mask(HashBits)
    BY DEF hash
  <2>3. \A u \in Threads : told[u] \in {{}, hash(mark)}
    BY <1>1 DEF HeaderInv, HashAgreed, markWord_is_unlocked, markWord_hash
  <2>4. told' \in [Threads -> SUBSET Mask(HashBits)] /\ \A u \in Threads : told'[u] \in {{}, hash(mark)}
    BY <2>1, <2>2, <2>3 DEF HeaderInv
  <2>5. ~has_bias_pattern(mark)
    BY <1>1, <1>3, LowBits
  <2>6. HashAgreed'
    BY <1>1, <1>2, <2>1, <2>4, <2>5 DEF HashAgreed, markWord_is_unlocked, markWord_hash
  <2>7. DisplacedKept'
    BY <1>1, <2>1, Deciding DEF DisplacedKept, HeaderInv
  <2> QED BY <1>1, <1>2, <1>3, <2>1, <2>4, <2>6, <2>7, AfterDeciding
<1>5. CASE hash(mark) = {}
  <2>1. PICK h \in SUBSET Mask(HashBits) :
              /\ h # {} /\ told' = [told EXCEPT ![t] = h]
              /\ mark' = markWord_with_hash(mark, h)
              /\ meant' = [meant EXCEPT !.hash = h \cap Mask(HashBits)]
    BY <1>1, <1>5 DEF GetHash, markWord_hash, SetHash, set_mark
  <2>2. \A u \in Threads : told[u] = {}
    BY <1>1, <1>5, NobodyTold
  <2>3. Faithful(mark', meant')
    BY <1>1, <1>3, <2>1, HashFaithful
  <2>4. is_unlocked(mark') /\ hash(mark') = h /\ mark' \in Word
    <3>1. h \cap Mask(HashBits) = h
      OBVIOUS
    <3> QED BY <1>1, <1>3, <2>1, <3>1, HashPut
  <2>5. ~has_bias_pattern(mark') /\ ~is_locked(mark')
    BY <2>4, LowBits
  <2>6. told' \in [Threads -> SUBSET Mask(HashBits)] /\ \A u \in Threads : told'[u] \in {{}, h}
    BY <2>1, <2>2 DEF HeaderInv
  <2>7. HashAgreed'
    BY <1>1, <1>2, <2>4, <2>5, <2>6 DEF HashAgreed, markWord_is_unlocked, markWord_hash
  <2>8. DisplacedKept'
    BY <1>1, <1>2, <2>5 DEF DisplacedKept
  <2> QED BY <1>1, <1>2, <1>3, <2>3, <2>6, <2>7, <2>8, AfterDeciding
<1> QED BY <1>4, <1>5

(* An unlocked word is displaced by one thread only, which keeps it. *)
LEMMA DisplaceKeeps ==
    ASSUME LockInv, HeaderInv, NEW t \in Threads, Displace(t)
    PROVE  HeaderInv'
<1>1. /\ Decide(t) /\ stage = "shared" /\ seen[t] = mark /\ is_unlocked(mark) /\ told' = told
      /\ displaced' = [displaced EXCEPT ![t] = {[word |-> mark, header |-> meant]}]
  BY Deciding DEF Displace, markWord_is_unlocked
<1>2. \A u \in Threads : displaced[u] = {}
  BY <1>1, NoneDisplaced
<1>3. displaced \in [Threads -> SUBSET Displacements] /\ Faithful(mark, meant)
  BY DEF HeaderInv
<1>4. mark \in Word /\ meant \in Headers /\ RecordOf[t] \in Addresses(2)
  BY <1>3, RecordAssumption DEF Faithful, Typed
<1>5. /\ Faithful(mark', meant') /\ is_locked(mark')
      /\ is_marked(mark') \/ mark' \ monitor_value = RecordOf[t]
  BY <1>3, <1>4, CallsFaithful DEF Displace
<1>6. ~is_unlocked(mark') /\ ~has_bias_pattern(mark')
  BY <1>5, LowBits DEF Faithful, Typed
<1>7. /\ displaced' \in [Threads -> SUBSET Displacements]
      /\ \A u \in Threads : \A d \in displaced'[u] : u = t /\ d.word = mark /\ d.header = meant
      /\ displaced'[t] # {}
  <2> DEFINE d0 == [word |-> mark, header |-> meant]
  <2>1. d0 \in Displacements /\ d0.word = mark /\ d0.header = meant
    BY <1>4 DEF Displacements
  <2>2. displaced' = [displaced EXCEPT ![t] = {d0}]
    BY <1>1
  <2> HIDE DEF d0
  <2> QED BY <1>2, <1>3, <2>1, <2>2
<1>8. HashAgreed'
  <2>1. \A u \in Threads : told[u] # {} => hash(mark) = told[u]
    BY <1>1 DEF HeaderInv, HashAgreed, markWord_is_unlocked, markWord_hash
  <2> QED BY <1>1, <1>6, <1>7, <2>1 DEF HashAgreed, HeaderInv, markWord_is_unlocked, markWord_hash
<1>9. DisplacedKept'
  BY <1>1, <1>5, <1>7 DEF DisplacedKept, markWord_is_unlocked
<1> QED BY <1>1, <1>3, <1>5, <1>7, <1>8, <1>9, AfterDeciding DEF HeaderInv

(* The thread that keeps the displaced word puts it back. *)
LEMMA RestoreKeeps ==
    ASSUME LockInv, HeaderInv, NEW t \in Threads, Restore(t)
    PROVE  HeaderInv'
<1>1. Decide(t) /\ stage = "shared" /\ told' = told /\ displaced' = [displaced EXCEPT ![t] = {}]
  BY Deciding DEF Restore
<1>2. PICK d \in displaced[t] : mark' = d.word /\ meant' = d.header
  BY DEF Restore, set_mark
<1>3. /\ Faithful(mark', meant') /\ is_unlocked(mark')
      /\ \A u \in Threads : displaced'[u] = {}
      /\ displaced' \in [Threads -> SUBSET Displacements]
  BY <1>1, <1>2 DEF HeaderInv, DisplacedKept, markWord_is_unlocked
<1>4. ~is_locked(mark') /\ ~has_bias_pattern(mark')
  BY <1>3, LowBits DEF Faithful, Typed
<1>5. HashAgreed'
  BY <1>1, <1>2, <1>3, <1>4 DEF HeaderInv, HashAgreed, markWord_is_unlocked, markWord_hash
<1>6. DisplacedKept'
  BY <1>3, <1>4 DEF DisplacedKept
<1> QED BY <1>1, <1>3, <1>5, <1>6, AfterDeciding DEF HeaderInv

(* A header without a hash is biased: nobody was told a hash that is lost. *)
LEMMA SetBiasKeeps ==
    ASSUME LockInv, HeaderInv, NEW t \in Threads, SetBias(t)
    PROVE  HeaderInv'
<1>1. /\ Decide(t) /\ stage = "shared" /\ told' = told /\ displaced' = displaced
      /\ is_unlocked(mark) /\ hash(mark) = {}
  BY Deciding DEF SetBias, markWord_is_unlocked, markWord_hash
<1>2. \A u \in Threads : displaced[u] = {} /\ told[u] = {}
  BY <1>1, NoneDisplaced, NobodyTold
<1>3. Faithful(mark', meant') /\ has_bias_pattern(mark')
  <2>1. {} \in SUBSET Mask(AgeBits)
    OBVIOUS
  <2> QED BY <2>1, CallsFaithful DEF HeaderInv, SetBias
<1>4. ~is_locked(mark')
  BY <1>3, LowBits DEF Faithful, Typed
<1>5. HashAgreed' /\ DisplacedKept'
  BY <1>1, <1>2, <1>4 DEF HashAgreed, DisplacedKept
<1> QED BY <1>1, <1>3, <1>5, AfterDeciding DEF HeaderInv

(* A bias is revoked: the header is unlocked, and still without a hash. *)
LEMMA RevokeBiasKeeps ==
    ASSUME LockInv, HeaderInv, NEW t \in Threads, RevokeBias(t)
    PROVE  HeaderInv'
<1>1. /\ Decide(t) /\ stage = "shared" /\ told' = told /\ displaced' = displaced
      /\ has_bias_pattern(mark)
  BY Deciding DEF RevokeBias
<1>2. \A u \in Threads : displaced[u] = {} /\ told[u] = {}
  BY <1>1, NoneDisplaced, NobodyTold
<1>3. Faithful(mark', meant') /\ is_unlocked(mark')
  BY CallsFaithful DEF RevokeBias, HeaderInv
<1>4. ~is_locked(mark')
  BY <1>3, LowBits DEF Faithful, Typed
<1>5. HashAgreed' /\ DisplacedKept'
  BY <1>1, <1>2, <1>4 DEF HashAgreed, DisplacedKept
<1> QED BY <1>1, <1>3, <1>5, AfterDeciding DEF HeaderInv

(* Every step of a thread on the shared header. *)
LEMMA HeaderStepKeeps ==
    ASSUME LockInv, HeaderInv, NEW t \in Threads, HeaderStep(t)
    PROVE  LockInv' /\ HeaderInv'
<1>1. CASE ReadMark(t)
  BY <1>1, ReadMarkKeeps DEF ReadMark, Continue, lockVars, LockInv, LockTypeOK, L!MutualExclusion, L!Holds
<1>2. CASE Decide(t)
  <2>1. LockInv'
    BY <1>2, LockKept DEF Decide, LockStep
  <2>2. ASSUME LeaveAsIs(t) PROVE HeaderInv'
    <3>1. HashAgreed' /\ DisplacedKept'
      BY <2>2 DEF LeaveAsIs, HeaderInv, HashAgreed, DisplacedKept, Decide
    <3> QED BY <2>2, <3>1, <1>2, AfterDeciding DEF LeaveAsIs, HeaderInv
  <2> QED BY <2>1, <2>2, <1>2, GetHashKeeps, DisplaceKeeps, RestoreKeeps, SetBiasKeeps, RevokeBiasKeeps
          DEF HeaderStep, ReadMark, Decide
<1> QED BY <1>1, <1>2
        DEF HeaderStep, GetHash, Displace, Restore, SetBias, RevokeBias, LeaveAsIs

(* What the creator does before it shares the object, and that it does.    *)
LEMMA PrepareKeeps == HeaderInv /\ Prepare => HeaderInv'
<1> SUFFICES ASSUME HeaderInv, Prepare PROVE HeaderInv'
  OBVIOUS
<1>1. Faithful(mark', meant')
  BY NextFaithful DEF HeaderInv, Prepare
<1> QED BY <1>1 DEF HeaderInv, Prepare, HashAgreed, DisplacedKept

(* The creator shares an object nobody has locked: no thread keeps a word  *)
(* of it, and none was told a hash but the one it has.                     *)
LEMMA ShareKeeps == HeaderInv /\ Share => HeaderInv'
<1> SUFFICES ASSUME HeaderInv, Share PROVE HeaderInv'
  OBVIOUS
<1>1. ~is_locked(mark)
  BY LowBits DEF HeaderInv, Share, Faithful, Typed, markWord_is_unlocked
<1> QED BY <1>1 DEF HeaderInv, Share, HashAgreed, DisplacedKept

=============================================================================
