------------------------ MODULE ResourceArea_proofs ------------------------
(***************************************************************************)
(* Proofs about ResourceArea, for any chunks, handles, sizes and depth of  *)
(* nesting. The inductive invariant is the arena's together with what the  *)
(* marks say of it: the chunks behind a mark are its own to delete because *)
(* the saved chunk is still linked, and what older scopes hold lies at or  *)
(* before the saved position.                                              *)
(***************************************************************************)
EXTENDS ResourceArea, Arena_proofs

(* The area as a reset to mark m would leave it now.                       *)
AfterReset(m) ==
    << <<Upto(m.chunk), m.chunk, m.max, m.size_in_bytes,
         [c \in Chunks |-> IF c \in Later(m) THEN 0 ELSE heap[c]]>>, m.hwm>>

(* When marks are put only on areas with a chunk, every mark can still     *)
(* restore what its constructor saw.                                       *)
Restorable ==
    MarkOnEmpty = FALSE =>
        \A i \in 1..Len(marks) : marks[i].chunk # NULL /\ seen[i] = AfterReset(marks[i])

RIndInv ==
    /\ IndInv
    /\ RTypeOK
    /\ MarksValid
    /\ StrandedHoldsNothing
    /\ Restorable

MarkType == [chunk : Chunks \cup {NULL}, hwm : Nat, max : Nat, size_in_bytes : Nat]

-----------------------------------------------------------------------------
(* Places on the list *)

(* The list as far as its p-th chunk is its first p elements.              *)
LEMMA UptoPrefix ==
    ASSUME TypeOK, Ownership, NEW p \in 1..Len(chain)
    PROVE  /\ Upto(chain[p]) = SubSeq(chain, 1, p)
           /\ Upto(chain[p]) \in Seq(Chunks)
           /\ Len(Upto(chain[p])) = p
           /\ \A i \in 1..p : Upto(chain[p])[i] = chain[i]
<1>1. chain \in Seq(Chunks) /\ Len(chain) \in Nat
  BY DEF TypeOK
<1>2. (CHOOSE i \in 1..Len(chain) : chain[i] = chain[p]) = p
  BY DEF Ownership
<1>3. Upto(chain[p]) = SubSeq(chain, 1, p)
  BY <1>2 DEF Upto
<1>4. /\ SubSeq(chain, 1, p) \in Seq(Chunks) /\ Len(SubSeq(chain, 1, p)) = p
      /\ \A i \in 1..p : SubSeq(chain, 1, p)[i] = chain[i]
  BY <1>1
<1> QED BY <1>3, <1>4

(* What a mark of the p-th chunk deletes is the list behind that place.    *)
LEMMA LaterSuffix ==
    ASSUME TypeOK, Ownership, NEW m, NEW p \in 1..Len(chain), m.chunk = chain[p]
    PROVE  /\ Later(m) = {chain[j] : j \in p+1 .. Len(chain)}
           /\ \A j \in 1..p : chain[j] \notin Later(m)
           /\ Later(m) = {} => p = Len(chain)
<1>1. chain \in Seq(Chunks) /\ Len(chain) \in Nat /\ m.chunk # NULL
  BY ChunksAssumption DEF TypeOK
<1>2. \A j \in 1..Len(chain) : (\E i \in 1..j-1 : chain[i] = m.chunk) <=> p < j
  BY <1>1 DEF Ownership
<1>3. Later(m) = {chain[j] : j \in p+1 .. Len(chain)}
  <2>1. Later(m) = {chain[j] : j \in {j \in 1..Len(chain) : \E i \in 1..j-1 : chain[i] = m.chunk}}
    BY <1>1 DEF Later
  <2>2. {j \in 1..Len(chain) : \E i \in 1..j-1 : chain[i] = m.chunk} = p+1 .. Len(chain)
    BY <1>1, <1>2
  <2> QED BY <2>1, <2>2
<1>4. \A j \in 1..p : chain[j] \notin Later(m)
  BY <1>1, <1>3 DEF Ownership
<1>5. ASSUME p # Len(chain) PROVE Later(m) # {}
  BY <1>1, <1>3, <1>5, Len(chain) \in p+1 .. Len(chain)
<1> QED BY <1>3, <1>4, <1>5

(* A reset to a mark of the p-th chunk leaves the first p chunks, with the *)
(* lengths they have.                                                      *)
AfterResetCut ==
    TypeOK /\ Ownership =>
        \A m \in MarkType, p \in 1..Len(chain) : m.chunk = chain[p] =>
            AfterReset(m) =
                << <<SubSeq(chain, 1, p), m.chunk, m.max, m.size_in_bytes,
                     [c \in Chunks |-> IF \E i \in 1..p : chain[i] = c THEN heap[c] ELSE 0]>>,
                   m.hwm>>

(* That description is right. *)
LEMMA AfterResetIsCut == AfterResetCut
<1> SUFFICES ASSUME TypeOK, Ownership, NEW m \in MarkType, NEW p \in 1..Len(chain),
                    m.chunk = chain[p]
             PROVE  AfterReset(m) =
                << <<SubSeq(chain, 1, p), m.chunk, m.max, m.size_in_bytes,
                     [c \in Chunks |-> IF \E i \in 1..p : chain[i] = c THEN heap[c] ELSE 0]>>,
                   m.hwm>>
  BY DEF AfterResetCut
<1>1. Len(chain) \in Nat /\ heap \in [Chunks -> Nat]
  BY DEF TypeOK
<1>2. Upto(m.chunk) = SubSeq(chain, 1, p)
  BY UptoPrefix
<1>3. /\ Later(m) = {chain[j] : j \in p+1 .. Len(chain)}
      /\ \A j \in 1..p : chain[j] \notin Later(m)
  BY LaterSuffix
<1>4. ASSUME NEW c \in Chunks
      PROVE  (IF c \in Later(m) THEN 0 ELSE heap[c])
                = (IF \E i \in 1..p : chain[i] = c THEN heap[c] ELSE 0)
  <2>1. CASE \E i \in 1..p : chain[i] = c
    BY <1>3, <2>1
  <2>2. CASE c \in Linked /\ ~\E i \in 1..p : chain[i] = c
    <3>1. PICK i \in 1..Len(chain) : chain[i] = c
      BY <2>2 DEF Linked
    <3>2. i \in p+1 .. Len(chain)
      BY <1>1, <2>2, <3>1
    <3> QED BY <1>3, <2>2, <3>1, <3>2
  <2>3. CASE c \notin Linked
    <3>1. heap[c] = 0
      BY <1>1, <2>3 DEF Ownership, Allocated
    <3> QED BY <2>3, <3>1
  <2> QED BY <2>1, <2>2, <2>3
<1> QED BY <1>2, <1>4 DEF AfterReset

(* What a mark would restore does not change while the list up to its      *)
(* chunk does not, whatever is linked or deleted behind.                   *)
LEMMA AfterResetStable ==
    ASSUME TypeOK, Ownership, TypeOK', Ownership', NEW m \in MarkType,
           NEW p \in 1..Len(chain), p \in 1..Len(chain'), m.chunk = chain[p],
           \A i \in 1..p : chain'[i] = chain[i] /\ heap'[chain[i]] = heap[chain[i]]
    PROVE  AfterReset(m)' = AfterReset(m)
<1>1. AfterResetCut'
  BY AfterResetIsCut, PTL
<1>2. chain \in Seq(Chunks) /\ chain' \in Seq(Chunks)
  BY DEF TypeOK
<1>3. SubSeq(chain', 1, p) = SubSeq(chain, 1, p)
  BY <1>2
<1>4. [c \in Chunks |-> IF \E i \in 1..p : chain'[i] = c THEN heap'[c] ELSE 0]
        = [c \in Chunks |-> IF \E i \in 1..p : chain[i] = c THEN heap[c] ELSE 0]
  OBVIOUS
<1>5. AfterReset(m)' =
                << <<SubSeq(chain', 1, p), m.chunk, m.max, m.size_in_bytes,
                     [c \in Chunks |-> IF \E i \in 1..p : chain'[i] = c THEN heap'[c] ELSE 0]>>,
                   m.hwm>>
  BY <1>1 DEF AfterResetCut
<1>6. AfterReset(m) =
                << <<SubSeq(chain, 1, p), m.chunk, m.max, m.size_in_bytes,
                     [c \in Chunks |-> IF \E i \in 1..p : chain[i] = c THEN heap[c] ELSE 0]>>,
                   m.hwm>>
  BY AfterResetIsCut DEF AfterResetCut
<1> QED BY <1>3, <1>4, <1>5, <1>6

-----------------------------------------------------------------------------
(* Arena operations under marks *)

(* The list only grows, at its end, and linked chunks keep their length.   *)
Extends ==
    /\ Len(chain) <= Len(chain')
    /\ \A i \in 1..Len(chain) : chain'[i] = chain[i]
    /\ \A c \in Linked : heap'[c] = heap[c]
    /\ chunk # NULL => chunk' # NULL

(* An operation on handle h alone, whose block is one of the innermost     *)
(* scope unless the operation only gives it back.                          *)
OnlyTouches(h) ==
    /\ \A g \in Handles \ {h} : own'[g] = own[g]
    /\ own[h] = Nil \/ own'[h] = Nil \/ own'[h] = own[h] \/ scope[h] = Len(marks)

(* Such an operation leaves every mark good.                               *)
LEMMA MarksKept ==
    ASSUME RIndInv, IndInv', marks' = marks, Scoping, UNCHANGED seen,
           NEW h \in Handles, Extends, OnlyTouches(h),
           chunk' = NULL => own'[h].size = 0 \/ own'[h] = own[h]
    PROVE  RIndInv'
<1>1. /\ TypeOK /\ TypeOK' /\ RTypeOK /\ MarksValid /\ StrandedHoldsNothing
      /\ chain \in Seq(Chunks) /\ chain' \in Seq(Chunks)
      /\ Len(chain) \in Nat /\ Len(chain') \in Nat /\ Len(marks) \in Nat
      /\ Linked \subseteq Linked'
  <2>1. TypeOK /\ TypeOK' /\ RTypeOK /\ MarksValid /\ StrandedHoldsNothing
    BY DEF RIndInv, IndInv
  <2>2. chain \in Seq(Chunks) /\ chain' \in Seq(Chunks) /\ Len(marks) \in Nat
    BY <2>1 DEF TypeOK, RTypeOK
  <2> QED BY <2>1, <2>2 DEF Extends, Linked
<1>2. /\ scope' \in [Handles -> 0..Len(marks)]
      /\ \A g \in Handles : scope'[g] = IF own'[g] = Nil THEN 0
                                        ELSE IF own[g] = Nil THEN Len(marks) ELSE scope[g]
  BY <1>1 DEF Scoping, RTypeOK
<1>3. RTypeOK'
  BY <1>1, <1>2 DEF RTypeOK
<1>4. Nil.size = 0
  BY DEF Nil, Block
<1>5. \A j \in 1..Len(chain) : j \in 1..Len(chain') /\ chain'[j] = chain[j]
  BY <1>1 DEF Extends
<1>6. ASSUME NEW i \in 1..Len(marks) PROVE OlderBlocksBelow(i)'
  <2> SUFFICES ASSUME NEW g \in Handles, own'[g].size > 0, scope'[g] < i
               PROVE  \/ own'[g].chunk = marks[i].chunk /\ End(own'[g]) <= marks[i].hwm
                      \/ \E j, l \in 1..Len(chain') :
                            j < l /\ chain'[j] = own'[g].chunk /\ chain'[l] = marks[i].chunk
    BY DEF OlderBlocksBelow, Before
  <2>1. own'[g] # Nil /\ own[g] # Nil /\ scope'[g] = scope[g] /\ scope[g] # Len(marks)
    BY <1>1, <1>2, <1>4
  <2>2. own'[g] = own[g]
    BY <2>1 DEF OnlyTouches
  <2>3. \/ own[g].chunk = marks[i].chunk /\ End(own[g]) <= marks[i].hwm
        \/ Before(own[g].chunk, marks[i].chunk)
    BY <1>1, <2>1, <2>2 DEF MarksValid, OlderBlocksBelow
  <2>4. CASE Before(own[g].chunk, marks[i].chunk)
    <3>1. PICK j, l \in 1..Len(chain) :
            j < l /\ chain[j] = own[g].chunk /\ chain[l] = marks[i].chunk
      BY <2>4 DEF Before
    <3> QED BY <1>5, <2>2, <3>1
  <2> QED BY <2>2, <2>3, <2>4
<1>7. ASSUME NEW i \in 1..Len(marks), MarkLinked(i) PROVE MarkLinked(i)'
  <2>1. ASSUME NEW l \in i..Len(marks) PROVE AtOrBefore(marks[i].chunk, marks[l].chunk)'
    <3>1. PICK j, k \in 1..Len(chain) :
            j <= k /\ chain[j] = marks[i].chunk /\ chain[k] = marks[l].chunk
      BY <1>7 DEF MarkLinked, AtOrBefore
    <3> QED BY <1>5, <3>1 DEF AtOrBefore
  <2> QED BY <1>1, <1>7, <2>1 DEF MarkLinked, Extends
<1>8. MarksValid'
  BY <1>1, <1>6, <1>7 DEF MarksValid
<1>9. StrandedHoldsNothing'
  BY <1>1 DEF StrandedHoldsNothing, Extends, OnlyTouches
<1>10. ASSUME MarkOnEmpty = FALSE, NEW i \in 1..Len(marks)
       PROVE  marks[i].chunk # NULL /\ seen[i] = AfterReset(marks[i])'
  <2>1. marks[i].chunk # NULL /\ seen[i] = AfterReset(marks[i]) /\ marks[i] \in MarkType
    <3>1. marks[i].chunk # NULL /\ seen[i] = AfterReset(marks[i])
      BY <1>10 DEF RIndInv, Restorable
    <3>2. marks \in Seq(MarkType)
      BY <1>1 DEF RTypeOK, MarkType
    <3> QED BY <3>1, <3>2
  <2>2. MarkLinked(i)
    BY <1>1, <2>1 DEF MarksValid
  <2>3. PICK p \in 1..Len(chain) : chain[p] = marks[i].chunk
    BY <2>2 DEF MarkLinked, Linked
  <2>4. p \in 1..Len(chain')
    BY <1>5
  <2>5. \A j \in 1..p : chain'[j] = chain[j] /\ heap'[chain[j]] = heap[chain[j]]
    BY <1>1, <1>5 DEF Extends, Linked
  <2>6. Ownership /\ Ownership'
    BY DEF RIndInv, IndInv
  <2>7. ASSUME NEW m \in MarkType, m = marks[i] PROVE AfterReset(m)' = AfterReset(m)
    BY <1>1, <2>3, <2>4, <2>5, <2>6, <2>7, AfterResetStable
  <2> QED BY <2>1, <2>7
<1>11. Restorable'
  BY <1>10 DEF Restorable
<1> QED BY <1>3, <1>8, <1>9, <1>11 DEF RIndInv

(* Amalloc changes the list only by linking a chunk behind its last.       *)
LEMMA AllocateExtends ==
    ASSUME TypeOK, Ownership, InBounds, NEW n \in Nat,
           NEW c \in Chunks \cup {NULL}, NEW o, Allocate(n, c, o)
    PROVE  Extends
<1>1. chain \in Seq(Chunks) /\ Len(chain) \in Nat /\ \A d \in Linked : heap'[d] = heap[d]
  <2>1. \A d \in Linked : heap'[d] = heap[d]
    BY AllocateIsFresh
  <2> QED BY <2>1 DEF TypeOK
<1>2. CASE UNCHANGED area
  BY <1>1, <1>2 DEF Extends, area
<1>3. CASE ~Fits(n) /\ (chain = <<>> \/ chunk # NULL) /\ c # NULL /\ Link(c, NewLength(n))
  <2>1. c \in Chunks /\ NewLength(n) \in Nat \ {0}
    BY <1>3, NewLengthHolds
  <2>2. chain' = Append(chain, c) /\ chunk' = c
    BY <1>3, <2>1, LinkAppends DEF Link
  <2>3. Len(chain') = Len(chain) + 1 /\ \A i \in 1..Len(chain) : chain'[i] = chain[i]
    BY <1>1, <2>1, <2>2
  <2> QED BY <1>1, <1>3, <2>2, <2>3 DEF Extends
<1> QED BY <1>2, <1>3 DEF Allocate

(* A call that leaves list and blocks alone extends the list by nothing.   *)
LEMMA SameListExtends ==
    ASSUME TypeOK, UNCHANGED <<chain, chunk, heap>>
    PROVE  Extends
  BY DEF TypeOK, Extends

(* After any step, a block without a chunk has no byte.                    *)
LEMMA NullBlockIsEmpty ==
    ASSUME IndInv', NEW h \in Handles, own'[h].chunk = NULL
    PROVE  own'[h].size = 0
<1>1. own'[h].size \in Nat /\ (own'[h].size > 0 => own'[h].chunk \in Linked')
  BY DEF IndInv, TypeOK, InBounds, contains
<1>2. NULL \notin Linked'
  BY ChunksAssumption DEF IndInv, TypeOK, Linked
<1> QED BY <1>1, <1>2

(* Amalloc under marks. *)
LEMMA AmallocKeepsMarks ==
    ASSUME RIndInv, NEW h \in Handles, NEW x \in Nat, Amalloc(h, x),
           Scoping, UNCHANGED <<marks, seen>>
    PROVE  RIndInv'
<1>1. IndInv /\ TypeOK /\ Ownership /\ InBounds /\ IndInv'
  BY AmallocPreserves DEF RIndInv, IndInv
<1>2. CASE Dies(AlignUp(x))
  <2>1. UNCHANGED <<chain, chunk, heap, own>>
    BY <1>2 DEF Dies, area
  <2> QED BY <1>1, <2>1, SameListExtends, MarksKept DEF OnlyTouches
<1>3. ASSUME NEW c \in Chunks \cup {NULL}, NEW o \in {0, hwm}, Allocate(AlignUp(x), c, o),
             Hand(h, Block(c, o, x))
      PROVE  RIndInv'
  <2>1. AlignUp(x) \in Nat
    BY AlignUpGrows
  <2>2. Extends /\ chunk' = c
    BY <1>1, <1>3, <2>1, AllocateExtends, AllocateIsFresh
  <2>3. own' = [own EXCEPT ![h] = Block(c, o, x)] /\ own'[h].chunk = c /\ own[h] = Nil
    BY <1>1, <1>3 DEF Hand, Block, Amalloc, TypeOK
  <2>4. OnlyTouches(h)
    BY <1>1, <2>3 DEF OnlyTouches, TypeOK
  <2>5. chunk' = NULL => own'[h].size = 0
    BY <1>1, <2>2, <2>3, NullBlockIsEmpty
  <2> QED BY <1>1, <2>2, <2>4, <2>5, MarksKept
<1> QED BY <1>2, <1>3 DEF Amalloc

(* Arealloc under marks, of a block of the innermost scope or of nullptr.  *)
LEMMA AreallocKeepsMarks ==
    ASSUME RIndInv, NEW h \in Handles, NEW y \in Nat, Arealloc(h, y),
           own[h] = Nil \/ scope[h] = Len(marks), Scoping, UNCHANGED <<marks, seen>>
    PROVE  RIndInv'
<1>1. IndInv /\ TypeOK /\ Ownership /\ InBounds /\ StrandedHoldsNothing /\ IndInv'
  BY AreallocPreserves DEF RIndInv, IndInv
<1>2. ASSUME own' = [own EXCEPT ![h] = own'[h]] PROVE OnlyTouches(h)
  BY <1>1, <1>2 DEF OnlyTouches, TypeOK
<1>3. CASE own[h] = Nil /\ Amalloc(h, y)
  BY <1>3, AmallocKeepsMarks
<1>4. CASE ReallocInPlace(h, y)
  <2>1. /\ AlignUp(y) <= AlignUp(own[h].size) /\ UNCHANGED <<chain, chunk, heap>>
        /\ own' = [own EXCEPT ![h] = [own[h] EXCEPT !.size = y]]
    BY <1>4 DEF ReallocInPlace, Hand, area
  <2>2. own'[h].size = y
    BY <1>1, <2>1 DEF TypeOK
  <2>3. ASSUME chunk' = NULL PROVE own'[h].size = 0
    <3>1. own[h].size = 0
      BY <1>1, <2>1, <2>3 DEF StrandedHoldsNothing
    <3>2. AlignUp(y) \in Nat /\ AlignUp(y) >= y /\ AlignUp(own[h].size) = 0
      BY <3>1, AlignUpGrows, AlignUpZero
    <3> QED BY <2>1, <2>2, <3>2
  <2>4. own' = [own EXCEPT ![h] = own'[h]]
    BY <1>1, <2>1 DEF TypeOK
  <2> QED BY <1>1, <1>2, <2>1, <2>3, <2>4, SameListExtends, MarksKept
<1>5. CASE ReallocExtend(h, y)
  <2>1. /\ own[h].chunk = chunk /\ UNCHANGED <<chain, chunk, heap>>
        /\ own' = [own EXCEPT ![h] = [own[h] EXCEPT !.size = y]]
    BY <1>5 DEF ReallocExtend, Hand, area, AtTop
  <2>2. own'[h].chunk = chunk' /\ own' = [own EXCEPT ![h] = own'[h]]
    BY <1>1, <2>1 DEF TypeOK
  <2> QED BY <1>1, <1>2, <2>1, <2>2, NullBlockIsEmpty, SameListExtends, MarksKept
<1>6. ASSUME NEW c \in Chunks \cup {NULL}, NEW o \in {0, hwm}, ReallocMove(h, y, c, o)
      PROVE  RIndInv'
  <2>1. AlignUp(y) \in Nat /\ AlignUp(AlignUp(y)) \in Nat
    BY AlignUpGrows
  <2>2. Allocate(AlignUp(AlignUp(y)), c, o) /\ own' = [own EXCEPT ![h] = Block(c, o, y)]
    BY <1>6 DEF ReallocMove
  <2>3. Extends /\ chunk' = c
    BY <1>1, <2>1, <2>2, AllocateExtends, AllocateIsFresh
  <2>4. own'[h].chunk = chunk' /\ own' = [own EXCEPT ![h] = own'[h]]
    BY <1>1, <2>2, <2>3 DEF TypeOK, Block
  <2> QED BY <1>1, <1>2, <2>3, <2>4, NullBlockIsEmpty, MarksKept
<1>7. CASE ReallocDies(h, y)
  <2>1. UNCHANGED <<chain, chunk, heap, own>>
    BY <1>7 DEF ReallocDies, Dies, area
  <2> QED BY <1>1, <2>1, SameListExtends, MarksKept DEF OnlyTouches
<1> QED BY <1>3, <1>4, <1>5, <1>6, <1>7 DEF Arealloc

(* Afree under marks, of a block of any scope. *)
LEMMA AfreeKeepsMarks ==
    ASSUME RIndInv, NEW h \in Handles, Afree(h), Scoping, UNCHANGED <<marks, seen>>
    PROVE  RIndInv'
<1>1. IndInv /\ TypeOK /\ IndInv'
  BY AfreePreserves DEF RIndInv, IndInv
<1>2. UNCHANGED <<chain, chunk, heap>> /\ own' = [own EXCEPT ![h] = Nil]
  BY DEF Afree, area
<1>3. own'[h] = Nil /\ Nil.size = 0 /\ OnlyTouches(h)
  BY <1>1, <1>2 DEF OnlyTouches, TypeOK, Nil, Block
<1> QED BY <1>1, <1>2, <1>3, SameListExtends, MarksKept

-----------------------------------------------------------------------------
(* ResourceMark *)

(* A new mark saves a position all live blocks lie at or before.           *)
LEMMA MarkKeepsMarks ==
    ASSUME RIndInv, Mark
    PROVE  RIndInv'
<1>1. /\ TypeOK /\ Ownership /\ InBounds /\ RTypeOK /\ MarksValid /\ StrandedHoldsNothing
      /\ chain \in Seq(Chunks) /\ Len(chain) \in Nat /\ Len(marks) \in Nat
      /\ marks \in Seq(MarkType) /\ scope \in [Handles -> 0..Len(marks)]
  BY DEF RIndInv, IndInv, TypeOK, RTypeOK, MarkType
<1>2. UNCHANGED <<chain, chunk, hwm, max, size_in_bytes, heap, own, lost, status, scope>>
  BY DEF Mark, vars
<1>3. IndInv'
  BY <1>1, <1>2, Unchanged DEF RIndInv, TypeOK
<1>4. Saved \in MarkType /\ Snapshot \in Snapshots
  BY <1>1 DEF Saved, MarkType, Snapshot, Snapshots, area, TypeOK
<1>5. /\ Len(marks') = Len(marks) + 1 /\ marks' \in Seq(MarkType)
      /\ \A i \in 1..Len(marks) : marks'[i] = marks[i]
      /\ marks'[Len(marks) + 1] = Saved
      /\ seen' \in Seq(Snapshots) /\ Len(seen') = Len(marks')
  BY <1>1, <1>4 DEF Mark, RTypeOK
<1>6. RTypeOK'
  <2>1. scope' \in [Handles -> 0..Len(marks')]
    BY <1>1, <1>2, <1>5
  <2>2. Len(marks') <= MaxMarks
    BY <1>1, <1>5, MarksAssumption DEF Mark
  <2> QED BY <1>3, <1>5, <2>1, <2>2 DEF RTypeOK, IndInv, MarkType
<1>7. ASSUME NEW h \in Handles, own[h].size > 0
      PROVE  \/ own[h].chunk = chunk /\ End(own[h]) <= hwm
             \/ Before(own[h].chunk, chunk)
  <2>1. /\ chunk # NULL /\ own[h].chunk \in Linked
        /\ own[h].chunk = chunk => End(own[h]) <= hwm
    BY <1>1, <1>7, BlockFacts DEF StrandedHoldsNothing
  <2>2. PICK i \in 1..Len(chain) : chain[i] = own[h].chunk
    BY <2>1 DEF Linked
  <2>3. chain[Len(chain)] = chunk /\ Len(chain) \in 1..Len(chain)
    BY <1>1, <2>1, <2>2 DEF Ownership
  <2>4. i < Len(chain) \/ i = Len(chain)
    BY <1>1
  <2> QED BY <2>1, <2>2, <2>3, <2>4 DEF Before
<1>8. ASSUME NEW i \in 1..Len(marks) + 1 PROVE OlderBlocksBelow(i)'
  <2>1. CASE i \in 1..Len(marks)
    <3>1. OlderBlocksBelow(i) /\ marks'[i] = marks[i]
      BY <1>1, <1>5, <2>1 DEF MarksValid
    <3> QED BY <1>2, <3>1 DEF OlderBlocksBelow, Before, End
  <2>2. CASE i = Len(marks) + 1
    BY <1>2, <1>5, <1>7, <2>2 DEF OlderBlocksBelow, Before, Saved
  <2> QED BY <1>1, <2>1, <2>2
<1>9. ASSUME chunk # NULL
      PROVE  /\ chain[Len(chain)] = chunk /\ Len(chain) \in 1..Len(chain)
             /\ chunk \in Linked /\ hwm <= max /\ max = heap[chunk]
  <2>1. chain # <<>> /\ chain[Len(chain)] = chunk /\ hwm <= max /\ max = heap[chunk]
    BY <1>1, <1>9 DEF Ownership, InBounds
  <2>2. Len(chain) # 0
    BY <1>1, <2>1
  <2> QED BY <1>1, <2>1, <2>2 DEF Linked
<1>10. ASSUME NEW i \in 1..Len(marks), MarkLinked(i) PROVE MarkLinked(i)'
  <2>1. chunk # NULL /\ marks[i].chunk \in Linked
    BY <1>10 DEF MarkLinked
  <2>2. PICK l \in 1..Len(chain) : chain[l] = marks[i].chunk
    BY <2>1 DEF Linked
  <2>3. AtOrBefore(marks[i].chunk, chunk)
    <3>1. chain[Len(chain)] = chunk /\ Len(chain) \in 1..Len(chain)
      BY <1>9, <2>1
    <3>2. l <= Len(chain)
      BY <1>1
    <3> QED BY <2>2, <3>1, <3>2 DEF AtOrBefore
  <2>4. ASSUME NEW j \in i..Len(marks') PROVE AtOrBefore(marks[i].chunk, marks[j].chunk)'
    <3>1. CASE j \in i..Len(marks)
      <4>1. AtOrBefore(marks[i].chunk, marks[j].chunk) /\ marks'[j] = marks[j]
        BY <1>1, <1>5, <1>10, <3>1 DEF MarkLinked
      <4> QED BY <1>2, <1>5, <4>1 DEF AtOrBefore
    <3>2. CASE j = Len(marks) + 1
      <4>1. marks'[j].chunk = chunk
        BY <1>5, <3>2 DEF Saved
      <4> QED BY <1>2, <1>5, <2>3, <4>1 DEF AtOrBefore
    <3> QED BY <1>1, <1>5, <3>1, <3>2
  <2>5. /\ marks[i].chunk \in Linked /\ marks[i].hwm <= marks[i].max
        /\ marks[i].max = heap[marks[i].chunk] /\ chunk # NULL
    BY <1>10 DEF MarkLinked
  <2> QED BY <1>2, <1>5, <2>4, <2>5 DEF MarkLinked, Linked
<1>11. ASSUME chunk # NULL, NEW n \in 1..Len(marks'), n = Len(marks) + 1
       PROVE  MarkLinked(n)'
  <2>1. AtOrBefore(chunk, chunk)
    BY <1>1, <1>9, <1>11 DEF AtOrBefore
  <2>2. n .. Len(marks') = {n}
    BY <1>1, <1>5, <1>11
  <2>3. marks'[n].chunk = chunk /\ marks'[n].hwm = hwm /\ marks'[n].max = max
    BY <1>5, <1>11 DEF Saved
  <2>4. AtOrBefore(marks[n].chunk, marks[n].chunk)'
    BY <1>2, <2>1, <2>3 DEF AtOrBefore
  <2>5. \A j \in n .. Len(marks') : AtOrBefore(marks[n].chunk, marks[j].chunk)'
    BY <2>2, <2>4
  <2> QED BY <1>2, <1>9, <1>11, <2>3, <2>5 DEF MarkLinked, Linked
<1>12. ASSUME NEW i \in 1..Len(marks')
       PROVE  /\ OlderBlocksBelow(i)'
              /\ IF marks'[i].chunk = NULL THEN marks'[i].hwm = 0 /\ marks'[i].max = 0
                                           ELSE MarkLinked(i)'
  <2>1. OlderBlocksBelow(i)'
    BY <1>5, <1>8
  <2>2. CASE i \in 1..Len(marks)
    <3>1. /\ marks'[i] = marks[i]
          /\ IF marks[i].chunk = NULL THEN marks[i].hwm = 0 /\ marks[i].max = 0 ELSE MarkLinked(i)
      BY <1>1, <1>5, <2>2 DEF MarksValid
    <3> QED BY <1>10, <2>1, <2>2, <3>1
  <2>3. CASE i = Len(marks) + 1 /\ chunk = NULL
    <3>1. max = 0 /\ hwm = 0
      BY <1>1, <2>3 DEF Ownership, InBounds, TypeOK
    <3> QED BY <1>5, <2>1, <2>3, <3>1 DEF Saved
  <2>4. CASE i = Len(marks) + 1 /\ chunk # NULL
    <3>1. marks'[i].chunk = chunk /\ MarkLinked(i)'
      BY <1>5, <1>11, <2>4 DEF Saved
    <3> QED BY <2>1, <2>4, <3>1
  <2> QED BY <1>1, <1>5, <2>2, <2>3, <2>4
<1>13. MarksValid'
  BY <1>12 DEF MarksValid
<1>14. StrandedHoldsNothing'
  BY <1>1, <1>2 DEF StrandedHoldsNothing
<1>15. \A m : AfterReset(m)' = AfterReset(m)
  BY <1>2 DEF AfterReset, Upto, Later
<1>16. ASSUME chunk # NULL PROVE AfterReset(Saved) = Snapshot
  <2>1. Saved.chunk = chain[Len(chain)] /\ Saved.max = max
        /\ Saved.hwm = hwm /\ Saved.size_in_bytes = size_in_bytes
    BY <1>9, <1>16 DEF Saved
  <2>2. Upto(chunk) = SubSeq(chain, 1, Len(chain)) /\ SubSeq(chain, 1, Len(chain)) = chain
    BY <1>1, <1>9, <1>16, UptoPrefix
  <2>3. Later(Saved) = {}
    <3>1. Later(Saved) = {chain[j] : j \in Len(chain)+1 .. Len(chain)}
      BY <1>1, <1>9, <1>16, <2>1, LaterSuffix
    <3> QED BY <1>1, <3>1, Len(chain)+1 .. Len(chain) = {}
  <2>4. [c \in Chunks |-> IF c \in Later(Saved) THEN 0 ELSE heap[c]] = heap
    BY <1>1, <2>3 DEF TypeOK
  <2> QED BY <1>9, <1>16, <2>1, <2>2, <2>4 DEF AfterReset, Snapshot, area
<1>17. ASSUME MarkOnEmpty = FALSE, NEW i \in 1..Len(marks')
       PROVE  marks'[i].chunk # NULL /\ seen'[i] = AfterReset(marks'[i])
  <2>1. chunk # NULL /\ seen' = Append(seen, Snapshot) /\ seen \in Seq(Snapshots) /\ Len(seen) = Len(marks)
    BY <1>1, <1>17 DEF Mark, RTypeOK
  <2>2. CASE i \in 1..Len(marks)
    <3>1. marks'[i] = marks[i] /\ seen'[i] = seen[i]
      BY <1>1, <1>4, <1>5, <2>1, <2>2
    <3> QED BY <1>17, <2>2, <3>1 DEF RIndInv, Restorable
  <2>3. CASE i = Len(marks) + 1
    <3>1. marks'[i] = Saved /\ seen'[i] = Snapshot /\ Saved.chunk = chunk
      BY <1>1, <1>4, <1>5, <2>1, <2>3 DEF Saved
    <3> QED BY <1>16, <2>1, <3>1
  <2> QED BY <1>1, <1>5, <2>2, <2>3
<1>18. Restorable'
  BY <1>15, <1>17 DEF Restorable
<1> QED BY <1>3, <1>6, <1>13, <1>14, <1>18 DEF RIndInv

(* What is left after a reset: blocks of older scopes, as they were.       *)
LEMMA ResetKeepsOlder ==
    ASSUME RIndInv, marks # <<>>, ResetToMark(Top),
           Len(marks') \in {Len(marks) - 1, Len(marks)}
    PROVE  /\ own' \in [Handles -> [chunk : Chunks \cup {NULL}, off : Nat, size : Nat]]
           /\ scope' \in [Handles -> 0..Len(marks')]
           /\ \A g \in Handles : own'[g].size > 0 =>
                 own'[g] = own[g] /\ scope'[g] = scope[g] /\ scope[g] < Len(marks)
           /\ Disjoint'
<1>1. /\ own \in [Handles -> [chunk : Chunks \cup {NULL}, off : Nat, size : Nat]]
      /\ scope \in [Handles -> 0..Len(marks)]
      /\ Len(marks) \in Nat \ {0}
      /\ Disjoint
  <2>1. marks \in Seq(MarkType)
    BY DEF RIndInv, RTypeOK, MarkType
  <2>2. Len(marks) \in Nat \ {0}
    BY <2>1
  <2> QED BY <2>2 DEF RIndInv, IndInv, TypeOK, RTypeOK
<1>2. /\ own' = [h \in Handles |-> IF scope[h] = Len(marks) THEN Nil ELSE own[h]]
      /\ scope' = [h \in Handles |-> IF own'[h] = Nil THEN 0
                                     ELSE IF own[h] = Nil THEN Len(marks) ELSE scope[h]]
  BY DEF ResetToMark, Scoping
<1>3. Nil \in [chunk : Chunks \cup {NULL}, off : Nat, size : Nat] /\ Nil.size = 0
  BY DEF Nil, Block
<1>4. \A h \in Handles : \/ own'[h] = Nil /\ scope'[h] = 0
                         \/ /\ own'[h] = own[h] /\ scope'[h] = scope[h]
                            /\ own[h] # Nil /\ scope[h] \in 0..Len(marks) - 1
  BY <1>1, <1>2
<1>5. \A h \in Handles : scope'[h] \in 0..Len(marks')
  BY <1>1, <1>4
<1>6. own' \in [Handles -> [chunk : Chunks \cup {NULL}, off : Nat, size : Nat]]
  BY <1>1, <1>2, <1>3
<1>7. Disjoint'
  <2> SUFFICES ASSUME NEW g \in Handles, NEW h \in Handles, g # h
               PROVE  Apart(own'[g], own'[h])
    BY DEF Disjoint
  <2>1. CASE own'[g] = own[g] /\ own'[h] = own[h]
    BY <1>1, <2>1 DEF Disjoint
  <2>2. CASE own'[g] = Nil \/ own'[h] = Nil
    BY <1>3, <2>2 DEF Apart
  <2> QED BY <1>4, <2>1, <2>2
<1> QED BY <1>1, <1>2, <1>3, <1>4, <1>5, <1>6, <1>7

(* A reset to a mark that found no chunk: no block is left, the list stays. *)
LEMMA ResetToNothing ==
    ASSUME RIndInv, marks # <<>>, ResetToMark(Top), Top.chunk = NULL,
           Len(marks') \in {Len(marks) - 1, Len(marks)}, marks' \in Seq(MarkType),
           \A i \in 1..Len(marks') : marks'[i] = marks[i]
    PROVE  /\ IndInv' /\ StrandedHoldsNothing' /\ MarksValid'
<1>1. /\ TypeOK /\ Ownership /\ InBounds /\ lost = {} /\ MarksValid
      /\ marks \in Seq(MarkType) /\ Len(marks) \in 1..Len(marks)
      /\ Len(marks') \in Nat /\ Len(marks') <= Len(marks)
  <2>1. marks \in Seq(MarkType)
    BY DEF RIndInv, RTypeOK, MarkType
  <2> QED BY <2>1 DEF RIndInv, IndInv, ContentsKept
<1>2. /\ OlderBlocksBelow(Len(marks)) /\ Top.hwm = 0 /\ Top.max = 0
      /\ Top \in MarkType
  BY <1>1 DEF MarksValid, Top
<1>3. Later(Top) = {}
  BY DEF Later
<1>4. /\ chain' = chain /\ chunk' = NULL /\ hwm' = 0 /\ max' = 0
      /\ size_in_bytes' \in Nat /\ heap' = heap /\ lost' = lost /\ status' = status
  BY <1>1, <1>2, <1>3 DEF ResetToMark, TypeOK, MarkType
<1>5. NULL \notin Linked
  BY <1>1, ChunksAssumption DEF TypeOK, Linked
<1>6. \A g \in Handles : own'[g].size = 0
  <2>1. ASSUME NEW g \in Handles, own'[g].size > 0 PROVE FALSE
    <3>1. own[g].size > 0 /\ scope[g] < Len(marks)
      BY <2>1, ResetKeepsOlder
    <3>2. own[g].chunk = NULL \/ \E j \in 1..Len(chain) : chain[j] = NULL
      BY <1>2, <3>1 DEF OlderBlocksBelow, Before, Top
    <3>3. own[g].chunk \in Linked
      BY <1>1, <3>1, BlockFacts
    <3> QED BY <1>5, <3>2, <3>3 DEF Linked
  <2>2. \A g \in Handles : own'[g].size \in Nat
    BY ResetKeepsOlder
  <2> QED BY <2>1, <2>2
<1>7. IndInv'
  <2>1. TypeOK'
    BY <1>1, <1>4, ResetKeepsOlder DEF TypeOK
  <2>2. Ownership'
    BY <1>1, <1>4 DEF Ownership, Linked, Allocated
  <2>3. InBounds' /\ Disjoint' /\ ContentsKept'
    BY <1>1, <1>4, <1>6, ResetKeepsOlder DEF InBounds, ContentsKept
  <2> QED BY <2>1, <2>2, <2>3 DEF IndInv
<1>8. ASSUME NEW i \in 1..Len(marks')
      PROVE  marks[i].chunk = NULL /\ marks[i].hwm = 0 /\ marks[i].max = 0
  <2>1. i \in 1..Len(marks) /\ Len(marks) \in i..Len(marks)
    BY <1>1
  <2>2. ~AtOrBefore(marks[i].chunk, marks[Len(marks)].chunk)
    BY <1>5 DEF AtOrBefore, Linked, Top
  <2>3. ~MarkLinked(i)
    BY <2>1, <2>2 DEF MarkLinked
  <2> QED BY <1>1, <2>1, <2>3 DEF MarksValid
<1>9. MarksValid'
  BY <1>6, <1>8 DEF MarksValid, OlderBlocksBelow
<1> QED BY <1>6, <1>7, <1>9 DEF StrandedHoldsNothing

(* A reset to a mark of a chunk cuts the list off behind that chunk.       *)
LEMMA ResetCuts ==
    ASSUME TypeOK, Ownership, NEW m, NEW p \in 1..Len(chain), m.chunk = chain[p], ResetToMark(m)
    PROVE  /\ chain' = Upto(m.chunk)
           /\ chain' \in Seq(Chunks) /\ Len(chain') = p
           /\ \A i \in 1..p : chain'[i] = chain[i]
           /\ heap' \in [Chunks -> Nat]
           /\ \A i \in 1..p : heap'[chain[i]] = heap[chain[i]]
           /\ Linked' = {chain[i] : i \in 1..p} /\ Allocated' = Linked'
<1>1. chain \in Seq(Chunks) /\ Len(chain) \in Nat /\ heap \in [Chunks -> Nat]
  BY DEF TypeOK
<1>2. chain' = Upto(m.chunk)
  <2>1. CASE Later(m) = {}
    <3>1. p = Len(chain) /\ SubSeq(chain, 1, Len(chain)) = chain
      BY <1>1, <2>1, LaterSuffix
    <3>2. Upto(m.chunk) = chain
      BY <3>1, UptoPrefix
    <3> QED BY <2>1, <3>2 DEF ResetToMark
  <2>2. CASE Later(m) # {}
    BY <2>2 DEF ResetToMark
  <2> QED BY <2>1, <2>2
<1>3. /\ chain' \in Seq(Chunks) /\ Len(chain') = p
      /\ \A i \in 1..p : chain'[i] = chain[i]
  BY <1>2, UptoPrefix
<1>4. heap' = [c \in Chunks |-> IF c \in Later(m) THEN 0 ELSE heap[c]]
  BY DEF ResetToMark
<1>5. /\ Later(m) = {chain[j] : j \in p+1 .. Len(chain)}
      /\ \A j \in 1..p : chain[j] \notin Later(m)
  BY LaterSuffix
<1>6. \A i \in 1..p : chain[i] \in Chunks /\ heap'[chain[i]] = heap[chain[i]]
  BY <1>1, <1>4, <1>5
<1>7. Linked' = {chain[i] : i \in 1..p}
  BY <1>3 DEF Linked
<1>8. ASSUME NEW c \in Chunks
      PROVE  heap'[c] > 0 <=> c \in {chain[i] : i \in 1..p}
  <2>1. heap'[c] > 0 => c \notin Later(m) /\ heap[c] > 0
    BY <1>4
  <2>2. heap[c] > 0 <=> \E i \in 1..Len(chain) : chain[i] = c
    BY DEF Ownership, Linked, Allocated
  <2>3. \A i \in 1..Len(chain) : i \in 1..p \/ i \in p+1 .. Len(chain)
    BY <1>1
  <2>4. ASSUME NEW i \in 1..p, c = chain[i] PROVE heap'[c] > 0
    <3>1. i \in 1..Len(chain)
      BY <1>1
    <3> QED BY <1>6, <2>2, <2>4, <3>1
  <2> QED BY <1>5, <2>1, <2>2, <2>3, <2>4
<1>9. heap' \in [Chunks -> Nat]
  BY <1>1, <1>4
<1>10. Allocated' = Linked'
  BY <1>1, <1>6, <1>7, <1>8 DEF Allocated
<1> QED BY <1>2, <1>3, <1>6, <1>7, <1>9, <1>10

(* Such a reset keeps the invariants: nothing an older scope holds, and no *)
(* chunk an older mark saved, lies behind the cut.                         *)
LEMMA ResetToChunk ==
    ASSUME RIndInv, marks # <<>>, ResetToMark(Top), Top.chunk # NULL,
           Len(marks') \in {Len(marks) - 1, Len(marks)}, marks' \in Seq(MarkType),
           \A i \in 1..Len(marks') : marks'[i] = marks[i]
    PROVE  /\ IndInv' /\ StrandedHoldsNothing' /\ MarksValid'
<1>1. /\ TypeOK /\ Ownership /\ InBounds /\ lost = {} /\ MarksValid
      /\ marks \in Seq(MarkType) /\ Len(marks) \in 1..Len(marks)
      /\ Len(marks') \in Nat /\ Len(marks') <= Len(marks)
      /\ chain \in Seq(Chunks) /\ Len(chain) \in Nat
  <2>1. marks \in Seq(MarkType) /\ TypeOK
    BY DEF RIndInv, RTypeOK, IndInv, MarkType
  <2>2. chain \in Seq(Chunks)
    BY <2>1 DEF TypeOK
  <2> QED BY <2>1, <2>2 DEF RIndInv, IndInv, ContentsKept
<1>2. OlderBlocksBelow(Len(marks)) /\ MarkLinked(Len(marks)) /\ Top \in MarkType
  BY <1>1 DEF MarksValid, Top
<1>3. PICK p \in 1..Len(chain) : chain[p] = Top.chunk
  BY <1>2 DEF MarkLinked, Linked, Top
<1>4. /\ chain' \in Seq(Chunks) /\ Len(chain') = p
      /\ \A i \in 1..p : chain'[i] = chain[i]
      /\ heap' \in [Chunks -> Nat]
      /\ \A i \in 1..p : heap'[chain[i]] = heap[chain[i]]
      /\ Linked' = {chain[i] : i \in 1..p} /\ Allocated' = Linked'
  BY <1>1, <1>3, ResetCuts
<1>5. /\ chunk' = Top.chunk /\ hwm' = Top.hwm /\ max' = Top.max
      /\ size_in_bytes' = Top.size_in_bytes /\ lost' = lost /\ status' = status
      /\ Top.hwm \in Nat /\ Top.max \in Nat /\ Top.size_in_bytes \in Nat
      /\ Top.hwm <= Top.max /\ Top.max = heap[Top.chunk]
  BY <1>2 DEF ResetToMark, MarkType, MarkLinked, Top
<1>6. TypeOK'
  <2>1. chunk' \in Chunks \cup {NULL}
    BY <1>2, <1>5 DEF MarkType
  <2> QED BY <1>1, <1>4, <1>5, <2>1, ResetKeepsOlder DEF TypeOK
<1>7. Ownership'
  <2>1. \A i, j \in 1..Len(chain') : chain'[i] = chain'[j] => i = j
    <3>1. \A i, j \in 1..Len(chain) : chain[i] = chain[j] => i = j
      BY <1>1 DEF Ownership
    <3>2. \A i \in 1..p : i \in 1..Len(chain)
      BY <1>1
    <3> QED BY <1>4, <3>1, <3>2
  <2>2. chain' # <<>> /\ chain'[p] = chunk' /\ max' = heap'[chunk']
    BY <1>3, <1>4, <1>5
  <2>3. chunk' # NULL /\ Linked' = Allocated' /\ Len(chain') = p
    BY <1>4, <1>5
  <2> QED BY <2>1, <2>2, <2>3 DEF Ownership
<1>8. ASSUME NEW g \in Handles, own'[g].size > 0
      PROVE  /\ own'[g] = own[g] /\ scope'[g] = scope[g] /\ scope[g] < Len(marks)
             /\ own[g].chunk \in Linked' /\ heap'[own[g].chunk] = heap[own[g].chunk]
             /\ own[g].chunk = chunk' => End(own[g]) <= hwm'
  <2>1. own'[g] = own[g] /\ scope'[g] = scope[g] /\ scope[g] < Len(marks)
    BY <1>8, ResetKeepsOlder
  <2>2. \/ own[g].chunk = Top.chunk /\ End(own[g]) <= Top.hwm
        \/ Before(own[g].chunk, Top.chunk)
    BY <1>2, <1>8, <2>1 DEF OlderBlocksBelow, Top
  <2>3. CASE own[g].chunk = Top.chunk /\ End(own[g]) <= Top.hwm
    BY <1>3, <1>4, <1>5, <2>1, <2>3
  <2>4. CASE Before(own[g].chunk, Top.chunk)
    <3>1. PICK i, j \in 1..Len(chain) : i < j /\ chain[i] = own[g].chunk /\ chain[j] = Top.chunk
      BY <2>4 DEF Before
    <3>2. j = p /\ i # p
      BY <1>1, <1>3, <3>1 DEF Ownership
    <3>3. i \in 1..p
      BY <1>1, <3>1, <3>2
    <3>4. own[g].chunk # chunk'
      BY <1>1, <1>3, <1>5, <3>1, <3>2 DEF Ownership
    <3> QED BY <1>4, <2>1, <3>1, <3>3, <3>4
  <2> QED BY <2>2, <2>3, <2>4
<1>9. InBounds'
  <2>1. ASSUME NEW g \in Handles, own'[g].size > 0
        PROVE  /\ own'[g].chunk \in Linked' /\ own'[g].off \in 0 .. heap'[own'[g].chunk]
               /\ End(own'[g]) <= heap'[own'[g].chunk]
               /\ own'[g].chunk = chunk' => End(own'[g]) <= hwm'
    <3>1. own[g].off \in 0 .. heap[own[g].chunk] /\ End(own[g]) <= heap[own[g].chunk]
      BY <1>1, <1>8, <2>1 DEF InBounds, contains
    <3> QED BY <1>8, <2>1, <3>1
  <2> QED BY <1>5, <2>1 DEF InBounds, contains
<1>10. IndInv'
  BY <1>1, <1>5, <1>6, <1>7, <1>9, ResetKeepsOlder DEF IndInv, ContentsKept
<1>11. ASSUME NEW i \in 1..Len(marks), NEW l \in 1..Len(chain), chain[l] = marks[i].chunk
       PROVE  l \in 1..p /\ l \in 1..Len(chain') /\ chain'[l] = marks[i].chunk
  <2>1. marks[i].chunk # NULL
    BY <1>1, <1>11, ChunksAssumption
  <2>2. AtOrBefore(marks[i].chunk, Top.chunk)
    BY <1>1, <2>1 DEF MarksValid, MarkLinked, Top
  <2>3. PICK j, k \in 1..Len(chain) : j <= k /\ chain[j] = marks[i].chunk /\ chain[k] = Top.chunk
    BY <2>2 DEF AtOrBefore
  <2>4. j = l /\ k = p
    BY <1>1, <1>3, <1>11, <2>3 DEF Ownership
  <2>5. l \in 1..p
    BY <1>1, <2>3, <2>4
  <2> QED BY <1>4, <1>11, <2>5
<1>12. ASSUME NEW i \in 1..Len(marks') PROVE OlderBlocksBelow(i)'
  <2>1. i \in 1..Len(marks) /\ marks'[i] = marks[i]
    BY <1>1
  <2> SUFFICES ASSUME NEW g \in Handles, own'[g].size > 0, scope'[g] < i
               PROVE  \/ own'[g].chunk = marks[i].chunk /\ End(own'[g]) <= marks[i].hwm
                      \/ \E j, l \in 1..Len(chain') :
                            j < l /\ chain'[j] = own'[g].chunk /\ chain'[l] = marks[i].chunk
    BY <2>1 DEF OlderBlocksBelow, Before
  <2>2. own'[g] = own[g] /\ scope'[g] = scope[g]
    BY <1>8
  <2>3. \/ own[g].chunk = marks[i].chunk /\ End(own[g]) <= marks[i].hwm
        \/ Before(own[g].chunk, marks[i].chunk)
    BY <1>1, <2>1, <2>2 DEF MarksValid, OlderBlocksBelow
  <2>4. CASE Before(own[g].chunk, marks[i].chunk)
    <3>1. PICK j, l \in 1..Len(chain) :
            j < l /\ chain[j] = own[g].chunk /\ chain[l] = marks[i].chunk
      BY <2>4 DEF Before
    <3>2. l \in 1..p /\ l \in 1..Len(chain') /\ chain'[l] = marks[i].chunk
      BY <1>11, <2>1, <3>1
    <3>3. j \in 1..p /\ j \in 1..Len(chain') /\ chain'[j] = chain[j]
      <4>1. j \in 1..p
        BY <3>1, <3>2
      <4>2. Len(chain') = p /\ chain'[j] = chain[j]
        BY <1>4, <4>1
      <4> QED BY <4>1, <4>2
    <3>4. chain'[j] = own'[g].chunk
      BY <2>2, <3>1, <3>3
    <3>5. j \in 1..Len(chain') /\ l \in 1..Len(chain') /\ j < l /\ chain'[l] = marks[i].chunk
      BY <3>1, <3>2, <3>3
    <3> QED BY <3>4, <3>5
  <2> QED BY <2>2, <2>3, <2>4
<1>13. ASSUME NEW i \in 1..Len(marks'), MarkLinked(i) PROVE MarkLinked(i)'
  <2>1. i \in 1..Len(marks) /\ marks'[i] = marks[i]
    BY <1>1
  <2>2. PICK l \in 1..Len(chain) : chain[l] = marks[i].chunk
    BY <1>13 DEF MarkLinked, Linked
  <2>3. l \in 1..p
    BY <1>11, <2>1, <2>2
  <2>4. ASSUME NEW j \in i..Len(marks') PROVE AtOrBefore(marks[i].chunk, marks[j].chunk)'
    <3>1. j \in i..Len(marks) /\ j \in 1..Len(marks) /\ marks'[j] = marks[j]
      BY <1>1, <2>1
    <3>2. PICK a, b \in 1..Len(chain) : a <= b /\ chain[a] = marks[i].chunk /\ chain[b] = marks[j].chunk
      BY <1>13, <3>1 DEF MarkLinked, AtOrBefore
    <3>3. /\ a \in 1..Len(chain') /\ chain'[a] = marks[i].chunk
          /\ b \in 1..Len(chain') /\ chain'[b] = marks[j].chunk
      BY <1>11, <2>1, <3>1, <3>2
    <3> QED BY <2>1, <3>1, <3>2, <3>3 DEF AtOrBefore
  <2>5. marks[i].chunk \in Linked' /\ heap'[marks[i].chunk] = heap[marks[i].chunk]
    BY <1>4, <2>2, <2>3
  <2>6. chunk' # NULL /\ marks[i].hwm <= marks[i].max /\ marks[i].max = heap[marks[i].chunk]
    BY <1>5, <1>13 DEF MarkLinked
  <2> QED BY <2>1, <2>4, <2>5, <2>6 DEF MarkLinked
<1>14. MarksValid'
  <2>1. ASSUME NEW i \in 1..Len(marks')
        PROVE  IF marks'[i].chunk = NULL THEN marks'[i].hwm = 0 /\ marks'[i].max = 0
                                         ELSE MarkLinked(i)'
    <3>1. i \in 1..Len(marks) /\ marks'[i] = marks[i]
      BY <1>1
    <3>2. IF marks[i].chunk = NULL THEN marks[i].hwm = 0 /\ marks[i].max = 0 ELSE MarkLinked(i)
      BY <1>1, <3>1 DEF MarksValid
    <3> QED BY <1>13, <3>1, <3>2
  <2> QED BY <1>12, <2>1 DEF MarksValid
<1> QED BY <1>5, <1>10, <1>14 DEF StrandedHoldsNothing

(* A reset keeps the invariant, whether the mark ends or stays.            *)
LEMMA ResetKeepsMarks ==
    ASSUME RIndInv, marks # <<>>, ResetToMark(Top),
           Len(marks') \in {Len(marks) - 1, Len(marks)}, marks' \in Seq(MarkType),
           \A i \in 1..Len(marks') : marks'[i] = marks[i],
           seen' \in Seq(Snapshots), Len(seen') = Len(marks'),
           \A i \in 1..Len(marks') : seen'[i] = seen[i]
    PROVE  RIndInv'
<1>1. IndInv' /\ StrandedHoldsNothing' /\ MarksValid'
  BY ResetToNothing, ResetToChunk
<1>2. Len(marks') <= MaxMarks
  <2>1. Len(marks) \in Nat /\ Len(marks) <= MaxMarks /\ MaxMarks \in Nat
    BY MarksAssumption DEF RIndInv, RTypeOK
  <2> QED BY <2>1
<1>3. RTypeOK'
  BY <1>1, <1>2, ResetKeepsOlder DEF RTypeOK, IndInv, MarkType
<1>4. ASSUME MarkOnEmpty = FALSE, NEW i \in 1..Len(marks')
      PROVE  marks'[i].chunk # NULL /\ seen'[i] = AfterReset(marks[i])'
  <2>1. /\ marks \in Seq(MarkType) /\ Len(marks) \in 1..Len(marks)
        /\ i \in 1..Len(marks) /\ marks'[i] = marks[i] /\ seen'[i] = seen[i]
    <3>1. marks \in Seq(MarkType)
      BY DEF RIndInv, RTypeOK, MarkType
    <3> QED BY <3>1
  <2>2. /\ marks[i].chunk # NULL /\ seen[i] = AfterReset(marks[i]) /\ marks[i] \in MarkType
        /\ Top.chunk # NULL
    BY <1>4, <2>1 DEF RIndInv, Restorable, Top
  <2>3. MarkLinked(i) /\ TypeOK /\ Ownership /\ TypeOK' /\ Ownership'
    BY <1>1, <2>1, <2>2 DEF RIndInv, IndInv, MarksValid
  <2>4. AtOrBefore(marks[i].chunk, Top.chunk)
    BY <2>1, <2>3 DEF MarkLinked, Top
  <2>5. PICK q, p \in 1..Len(chain) : q <= p /\ chain[q] = marks[i].chunk /\ chain[p] = Top.chunk
    BY <2>4 DEF AtOrBefore
  <2>6. /\ Len(chain') = p
        /\ \A j \in 1..p : chain'[j] = chain[j] /\ heap'[chain[j]] = heap[chain[j]]
    BY <2>3, <2>5, ResetCuts
  <2>7. q \in 1..Len(chain') /\ \A j \in 1..q : j \in 1..p
    BY <2>5, <2>6
  <2>8. ASSUME NEW m \in MarkType, m = marks[i] PROVE AfterReset(m)' = AfterReset(m)
    BY <2>3, <2>5, <2>6, <2>7, <2>8, AfterResetStable
  <2> QED BY <2>1, <2>2, <2>8
<1>5. Restorable'
  BY <1>4 DEF Restorable
<1> QED BY <1>1, <1>3, <1>5 DEF RIndInv

(* The destructor drops the innermost mark. *)
LEMMA UnmarkKeepsMarks ==
    ASSUME RIndInv, Unmark
    PROVE  RIndInv'
<1>1. /\ marks \in Seq(MarkType) /\ seen \in Seq(Snapshots) /\ Len(seen) = Len(marks)
      /\ marks # <<>> /\ Len(marks) \in Nat \ {0}
  BY DEF RIndInv, RTypeOK, MarkType, Unmark
<1>2. /\ marks' \in Seq(MarkType) /\ Len(marks') = Len(marks) - 1
      /\ \A i \in 1..Len(marks') : marks'[i] = marks[i]
  BY <1>1 DEF Unmark
<1>3. /\ seen' \in Seq(Snapshots) /\ Len(seen') = Len(marks')
      /\ \A i \in 1..Len(marks') : seen'[i] = seen[i]
  BY <1>1, <1>2 DEF Unmark
<1> QED BY <1>1, <1>2, <1>3, ResetKeepsMarks DEF Unmark

(* reset_to_mark called by hand keeps it. *)
LEMMA ResetByHandKeepsMarks ==
    ASSUME RIndInv, reset_to_mark
    PROVE  RIndInv'
  BY ResetKeepsMarks DEF RIndInv, RTypeOK, MarkType, reset_to_mark

-----------------------------------------------------------------------------
(* The invariant *)

(* Without marks, destruct_contents keeps the invariant.                   *)
LEMMA DestructKeepsMarks ==
    ASSUME RIndInv, Destruct
    PROVE  RIndInv'
<1>1. IndInv' /\ marks' = <<>> /\ seen' = seen /\ Len(seen) = 0 /\ seen \in Seq(Snapshots)
  BY DestructPreserves DEF RIndInv, Destruct, RTypeOK
<1>2. \A h \in Handles : own'[h] = Nil /\ Nil.size = 0
  BY DEF Destruct, destruct_contents, Nil, Block
<1>3. scope' \in [Handles -> 0..Len(marks')]
  BY <1>1, <1>2 DEF Destruct, Scoping
<1>4. RTypeOK'
  BY <1>1, <1>3, MarksAssumption DEF RTypeOK, IndInv
<1>5. MarksValid' /\ StrandedHoldsNothing' /\ Restorable'
  BY <1>1, <1>2 DEF MarksValid, StrandedHoldsNothing, Restorable
<1> QED BY <1>1, <1>4, <1>5 DEF RIndInv

(* No sequence of allocations, releases and scopes breaks the invariant.   *)
THEOREM RInvariance == RSpec => []RIndInv
<1>1. RInit => RIndInv
  <2> SUFFICES ASSUME RInit PROVE RIndInv
    OBVIOUS
  <2>1. IndInv
    BY InitEstablishes DEF RInit
  <2>2. \A h \in Handles : own[h].size = 0
    BY DEF RInit, Init, Nil, Block
  <2>3. RTypeOK
    BY <2>1, MarksAssumption DEF RInit, RTypeOK, IndInv
  <2> QED BY <2>1, <2>2, <2>3 DEF RIndInv, RInit, MarksValid, StrandedHoldsNothing, Restorable
<1>2. RIndInv /\ [RNext]_rvars => RIndInv'
  <2> SUFFICES ASSUME RIndInv, [RNext]_rvars PROVE RIndInv'
    OBVIOUS
  <2>1. ASSUME NEW h \in Handles, NEW x \in Sizes, allocate_bytes(h, x)
        PROVE  RIndInv'
    BY <2>1, AmallocKeepsMarks, SizesAssumption DEF allocate_bytes
  <2>2. ASSUME NEW h \in Handles, NEW x \in Sizes, Resize(h, x)
        PROVE  RIndInv'
    BY <2>2, AreallocKeepsMarks, SizesAssumption DEF Resize
  <2>3. ASSUME NEW h \in Handles, Free(h)
        PROVE  RIndInv'
    BY <2>3, AfreeKeepsMarks DEF Free
  <2>4. CASE Mark
    BY <2>4, MarkKeepsMarks
  <2>5. CASE Unmark
    BY <2>5, UnmarkKeepsMarks
  <2>6. CASE reset_to_mark
    BY <2>6, ResetByHandKeepsMarks
  <2>7. CASE Destruct
    BY <2>7, DestructKeepsMarks
  <2>8. CASE UNCHANGED rvars
    <3>1. UNCHANGED <<chain, chunk, hwm, max, size_in_bytes, heap, own, lost, status, marks, scope, seen>>
      BY <2>8 DEF rvars, vars
    <3>2. IndInv'
      BY <3>1, Unchanged DEF RIndInv, IndInv, TypeOK
    <3>3. RTypeOK'
      BY <3>1, <3>2 DEF RIndInv, IndInv, RTypeOK
    <3>4. MarksValid'
      BY <3>1 DEF RIndInv, MarksValid, MarkLinked, OlderBlocksBelow, Before, AtOrBefore, Linked
    <3>5. Restorable'
      <4>1. \A m : AfterReset(m)' = AfterReset(m)
        BY <3>1 DEF AfterReset, Upto, Later
      <4> QED BY <3>1, <4>1 DEF RIndInv, Restorable
    <3> QED BY <3>1, <3>2, <3>3, <3>4, <3>5 DEF RIndInv, StrandedHoldsNothing
  <2>9. CASE Halted /\ UNCHANGED <<marks, scope, seen>>
    BY <2>8, <2>9 DEF Halted, rvars
  <2> QED BY <2>1, <2>2, <2>3, <2>4, <2>5, <2>6, <2>7, <2>8, <2>9 DEF RNext
<1> QED BY <1>1, <1>2, PTL DEF RSpec

(* Every variable of an area with marks keeps its type.                    *)
THEOREM MarksTypeCorrect == RSpec => []RTypeOK
<1>1. RIndInv => RTypeOK
  BY DEF RIndInv
<1> QED BY <1>1, RInvariance, PTL

(* Whatever scopes begin and end in between, no two live blocks of a       *)
(* resource area share a reserved byte.                                    *)
THEOREM ScopedBlocksDisjoint == RSpec => []Disjoint
<1>1. RIndInv => Disjoint
  BY DEF RIndInv, IndInv
<1> QED BY <1>1, RInvariance, PTL

(* No mark dangles, and resetting to one gives away no older block.        *)
THEOREM MarksStayValid == RSpec => []MarksValid
<1>1. RIndInv => MarksValid
  BY DEF RIndInv
<1> QED BY <1>1, RInvariance, PTL

(* However marks are placed, on an area with or without a chunk, no chunk  *)
(* leaves the list that destruct_contents walks while it is malloc'ed.     *)
THEOREM ScopedChunksOwned == RSpec => []Ownership
<1>1. RIndInv => Ownership
  BY DEF RIndInv, IndInv
<1> QED BY <1>1, RInvariance, PTL

(* An area that lost its current chunk holds no byte in use.               *)
THEOREM StrandedIsEmpty == RSpec => []StrandedHoldsNothing
<1>1. RIndInv => StrandedHoldsNothing
  BY DEF RIndInv
<1> QED BY <1>1, RInvariance, PTL

(* A reset to the innermost mark leaves what the mark found.               *)
LEMMA ResetRestores ==
    ASSUME MarkOnEmpty = FALSE, RIndInv, marks # <<>>, ResetToMark(Top)
    PROVE  Snapshot' = seen[Len(seen)] /\ Len(seen) \in 1..Len(seen)
<1>1. marks \in Seq(MarkType) /\ Len(seen) = Len(marks)
  BY DEF RIndInv, RTypeOK, MarkType
<1>2. Len(marks) \in 1..Len(marks)
  BY <1>1
<1>3. Top.chunk # NULL /\ seen[Len(seen)] = AfterReset(Top)
  BY <1>1, <1>2 DEF RIndInv, Restorable, Top
<1>4. MarkLinked(Len(marks)) /\ TypeOK /\ Ownership
  BY <1>2, <1>3 DEF RIndInv, IndInv, MarksValid, Top
<1>5. PICK p \in 1..Len(chain) : chain[p] = Top.chunk
  BY <1>4 DEF MarkLinked, Linked, Top
<1>6. chain' = Upto(Top.chunk)
  BY <1>4, <1>5, ResetCuts
<1> QED BY <1>1, <1>2, <1>3, <1>6 DEF ResetToMark, AfterReset, Snapshot, area

(* If every scope begins on an area that has a chunk, the end of a scope   *)
(* leaves the area exactly as its begin found it: the same chunks in the   *)
(* same order, the same position, the same size.                           *)
THEOREM ScopesRestore ==
    ASSUME MarkOnEmpty = FALSE
    PROVE  RSpec => ScopeExitRestores
<1>1. RIndInv /\ [RNext]_rvars => [Len(marks') < Len(marks) => Snapshot' = seen[Len(seen)]]_rvars
  <2> SUFFICES ASSUME RIndInv, [RNext]_rvars, Len(marks') < Len(marks)
               PROVE  Snapshot' = seen[Len(seen)]
    OBVIOUS
  <2>1. marks \in Seq(MarkType) /\ Len(marks) \in Nat /\ Len(seen) = Len(marks)
    <3>1. marks \in Seq(MarkType) /\ Len(seen) = Len(marks)
      BY DEF RIndInv, RTypeOK, MarkType
    <3> QED BY <3>1
  <2>2. marks' # marks /\ Len(marks') # Len(marks) + 1
    BY <2>1
  <2>3. Mark => Len(marks') = Len(marks) + 1
    <3>1. Saved \in MarkType
      BY DEF RIndInv, IndInv, TypeOK, Saved, MarkType
    <3> QED BY <2>1, <3>1 DEF Mark
  <2>4. Unmark
    BY <2>2, <2>3 DEF RNext, rvars, allocate_bytes, Resize, Free, Destruct, reset_to_mark
  <2> QED BY <2>4, ResetRestores DEF Unmark
<1> QED BY <1>1, RInvariance, PTL DEF RSpec, ScopeExitRestores

-----------------------------------------------------------------------------
(* The area implements ScopedAllocator, its marks being the scopes *)

(* A handle whose block is the same keeps the scope its bytes belong to.   *)
Birth(h) == IF own[h].size = 0 THEN 0 ELSE scope[h]
LEMMA BirthKept ==
    ASSUME RTypeOK, Scoping, NEW h \in Handles, own'[h] = own[h]
    PROVE  Birth(h)' = Birth(h)
<1>1. scope'[h] = IF own'[h] = Nil THEN 0 ELSE IF own[h] = Nil THEN Len(marks) ELSE scope[h]
  BY DEF Scoping
<1>2. Nil.size = 0
  BY DEF Nil, Block
<1> QED BY <1>1, <1>2 DEF Birth

(* A call on a handle, which takes bytes for the innermost scope only, and *)
(* resizes only what that scope took.                                      *)
LEMMA CallPlacesInScope ==
    ASSUME RIndInv, RIndInv', NEW h \in Handles, CallOn(h), Scoping, UNCHANGED <<marks, seen>>,
           own[h] = Nil \/ own'[h] = Nil \/ scope[h] = Len(marks)
    PROVE  AbsScoped!Place(h) \/ AbsScoped!Die
<1>1. /\ lost = {} /\ lost' = {} /\ status = "ok" /\ Len(marks') = Len(marks)
      /\ IndInv /\ IndInv' /\ TypeOK /\ TypeOK' /\ RTypeOK
  BY DEF RIndInv, IndInv, ContentsKept, CallOn
<1>2. CASE status' = "ok" /\ \A g \in Handles \ {h} : own'[g] = own[g]
  <2>1. ASSUME NEW g \in Handles \ {h}
        PROVE  /\ Bytes(own'[g]) = Bytes(own[g]) /\ Birth(g)' = Birth(g)
               /\ Bytes(own'[h]) \cap Bytes(own[g]) = {}
    <3>1. /\ own'[h].off \in Nat /\ own'[h].size \in Nat /\ own'[g].off \in Nat /\ own'[g].size \in Nat
      BY <1>1, <2>1 DEF TypeOK
    <3>2. Apart(own'[h], own'[g])
      BY <1>1, <2>1 DEF IndInv, Disjoint, Apart, End
    <3>3. Bytes(own'[h]) \cap Bytes(own'[g]) = {}
      BY <3>1, <3>2, ApartShareNoByte
    <3>4. own'[g] = own[g]
      BY <1>2, <2>1
    <3>5. Birth(g)' = Birth(g)
      BY <1>1, <2>1, <3>4, BirthKept
    <3> QED BY <3>3, <3>4, <3>5
  <2>2. /\ own[h].off \in Nat /\ own[h].size \in Nat /\ own'[h].off \in Nat /\ own'[h].size \in Nat
        /\ Nil.size = 0
    BY <1>1 DEF TypeOK, Nil, Block
  <2>3. scope'[h] = IF own'[h] = Nil THEN 0 ELSE IF own[h] = Nil THEN Len(marks) ELSE scope[h]
    BY DEF Scoping
  <2>4. Bytes(own'[h]) \subseteq Bytes(own[h]) \/ Birth(h)' = Len(marks)
    <3>1. CASE own'[h].size = 0
      BY <2>2, <3>1, BytesOfBlock
    <3>2. CASE own'[h].size # 0
      BY <2>2, <2>3, <3>2 DEF Birth
    <3> QED BY <3>1, <3>2
  <2>5. Bytes(own[h]) = {} \/ Bytes(own'[h]) = {} \/ Birth(h)' = Birth(h)
    <3>1. CASE own[h].size = 0 \/ own'[h].size = 0
      BY <2>2, <3>1, BytesOfBlock
    <3>2. CASE own[h].size # 0 /\ own'[h].size # 0
      BY <2>2, <2>3, <3>2 DEF Birth
    <3> QED BY <3>1, <3>2
  <2> QED BY <1>1, <1>2, <2>1, <2>4, <2>5 DEF AbsScoped!Place, Birth
<1>3. CASE status' # "ok" /\ own' = own /\ lost' = lost
  <2>1. \A g \in Handles : Birth(g)' = Birth(g)
    BY <1>1, <1>3, BirthKept
  <2> QED BY <1>1, <1>3, <2>1 DEF AbsScoped!Die, Birth
<1> QED BY <1>2, <1>3 DEF CallOn

(* The end of a scope, or its reset: what was taken in it is released,     *)
(* nothing else.                                                           *)
LEMMA ResetCloses ==
    ASSUME RIndInv, RIndInv', marks # <<>>, ResetToMark(Top),
           Len(marks') \in {Len(marks) - 1, Len(marks)}
    PROVE  AbsScoped!Close
<1>1. /\ TypeOK /\ TypeOK' /\ RTypeOK /\ Len(marks) \in Nat /\ Len(marks) > 0
      /\ status = "ok" /\ status' = "ok" /\ lost' = lost /\ Scoping
  BY DEF RIndInv, IndInv, RTypeOK, ResetToMark
<1>2. ASSUME NEW h \in Handles
      PROVE  IF Bytes(own[h]) # {} /\ Birth(h) = Len(marks)
             THEN Bytes(own'[h]) = {}
             ELSE Bytes(own'[h]) = Bytes(own[h]) /\ Birth(h)' = Birth(h)
  <2>1. own'[h] = IF scope[h] = Len(marks) THEN Nil ELSE own[h]
    BY DEF ResetToMark
  <2>2. /\ own[h].off \in Nat /\ own[h].size \in Nat /\ Nil.off = 0 /\ Nil.size = 0
    BY <1>1 DEF TypeOK, Nil, Block
  <2>3. Bytes(Nil) = {} /\ (Bytes(own[h]) = {} <=> own[h].size = 0)
    BY <2>2, BytesOfBlock
  <2>4. CASE scope[h] # Len(marks)
    <3>1. own'[h] = own[h] /\ Birth(h)' = Birth(h)
      BY <1>1, <2>1, <2>4, BirthKept
    <3>2. Bytes(own[h]) # {} => Birth(h) # Len(marks)
      BY <2>3, <2>4 DEF Birth
    <3> QED BY <3>1, <3>2
  <2>5. CASE scope[h] = Len(marks)
    <3>1. own'[h] = Nil /\ Birth(h)' = 0
      BY <2>1, <2>2, <2>5 DEF Birth
    <3>2. Bytes(own[h]) # {} => Birth(h) = Len(marks)
      BY <2>3, <2>5 DEF Birth
    <3>3. Bytes(own[h]) = {} => Birth(h) = 0
      BY <2>3 DEF Birth
    <3> QED BY <2>3, <3>1, <3>2, <3>3
  <2> QED BY <2>4, <2>5
<1> QED BY <1>1, <1>2 DEF AbsScoped!Close, Birth

(* Every step of the area and its marks is a step of the allocator with    *)
(* scopes, or none.                                                        *)
LEMMA RStepImplements ==
    RIndInv /\ RIndInv' /\ [RNext]_rvars => [AbsScoped!AbsNext]_(AbsScoped!absVars)
<1> SUFFICES ASSUME RIndInv, RIndInv', [RNext]_rvars
             PROVE  [AbsScoped!AbsNext]_(AbsScoped!absVars)
  OBVIOUS
<1>1. TypeOK /\ RTypeOK /\ Len(marks) \in Nat
  BY DEF RIndInv, IndInv, RTypeOK
<1>2. ASSUME NEW h \in Handles, NEW x, allocate_bytes(h, x) \/ Resize(h, x) \/ Free(h)
      PROVE  AbsScoped!AbsNext
  <2>1. /\ Amalloc(h, x) \/ Arealloc(h, x) \/ Afree(h)
        /\ Scoping /\ UNCHANGED <<marks, seen>>
        /\ own[h] = Nil \/ own'[h] = Nil \/ scope[h] = Len(marks)
    <3>1. CASE allocate_bytes(h, x)
      BY <3>1 DEF allocate_bytes, Amalloc
    <3>2. CASE Resize(h, x)
      BY <3>2 DEF Resize
    <3>3. CASE Free(h)
      <4>1. own'[h] = Nil
        BY <1>1, <3>3 DEF Free, Afree, TypeOK
      <4> QED BY <3>3, <4>1 DEF Free
    <3> QED BY <1>2, <3>1, <3>2, <3>3
  <2>2. CallOn(h)
    BY <1>1, <2>1, CallsTouchOne
  <2>3. AbsScoped!Place(h) \/ AbsScoped!Die
    BY <2>1, <2>2, CallPlacesInScope
  <2> QED BY <2>3 DEF AbsScoped!AbsNext
<1>3. CASE Mark
  <2>1. /\ status = "ok" /\ UNCHANGED <<own, scope, lost, status>>
        /\ Len(marks') = Len(marks) + 1
    BY <1>1, <1>3 DEF Mark, vars, RTypeOK
  <2>2. AbsScoped!Open
    BY <2>1 DEF AbsScoped!Open
  <2> QED BY <2>2 DEF AbsScoped!AbsNext
<1>4. CASE Unmark \/ reset_to_mark
  <2>1. /\ marks # <<>> /\ ResetToMark(Top)
        /\ Len(marks') \in {Len(marks) - 1, Len(marks)}
    BY <1>1, <1>4 DEF Unmark, reset_to_mark, RTypeOK
  <2>2. AbsScoped!Close
    BY <2>1, ResetCloses
  <2> QED BY <2>2 DEF AbsScoped!AbsNext
<1>5. CASE Destruct
  <2>1. /\ status = "ok" /\ status' = "ok" /\ lost' = lost /\ own' = [h \in Handles |-> Nil]
        /\ Len(marks) = 0 /\ Len(marks') = 0
    BY <1>5 DEF Destruct, destruct_contents
  <2>2. Bytes(Nil) = {}
    BY BytesOfBlock DEF Nil, Block
  <2>3. AbsScoped!Clear
    BY <2>1, <2>2 DEF AbsScoped!Clear
  <2> QED BY <2>3 DEF AbsScoped!AbsNext
<1>6. CASE UNCHANGED rvars
  BY <1>6 DEF rvars, vars, AbsScoped!absVars
<1> QED BY <1>2, <1>3, <1>4, <1>5, <1>6 DEF RNext, Halted, rvars

(* A resource area under any nesting of marks is an allocator with scopes: *)
(* opening one costs nobody anything, ending or resetting one releases     *)
(* exactly what was taken since it was opened, and no call touches what    *)
(* another handle owns.                                                    *)
THEOREM AreaImplements == RSpec => ImplementsScopedAllocator
<1>1. RInit => AbsScoped!AbsInit
  <2> SUFFICES ASSUME RInit PROVE AbsScoped!AbsInit
    OBVIOUS
  <2>1. own = [h \in Handles |-> Nil] /\ lost = {} /\ status = "ok" /\ Len(marks) = 0
    BY DEF RInit, Init
  <2>2. Bytes(Nil) = {} /\ Nil.size = 0
    BY BytesOfBlock DEF Nil, Block
  <2> QED BY <2>1, <2>2 DEF AbsScoped!AbsInit
<1> QED BY <1>1, RStepImplements, RInvariance, PTL DEF RSpec, ImplementsScopedAllocator, AbsScoped!AbsSpec

-----------------------------------------------------------------------------
(* size_in_bytes() under marks *)

(* The counter is right now, and was where each live mark was put.         *)
BalancedIn(s) == s[1][4] = Footprints(s[1][5], {c \in Chunks : s[1][5][c] > 0})
Balances == Balance /\ \A i \in 1..Len(seen) : BalancedIn(seen[i])

(* A snapshot is all that it takes to tell. *)
LEMMA BalanceIsInSnapshot == Balance <=> BalancedIn(Snapshot)
  BY DEF Balance, BalancedIn, Snapshot, area, Allocated

(* If every scope begins on an area that has a chunk, the size that marks  *)
(* save and put back stays what the malloc'ed chunks take, across any      *)
(* nesting of scopes, and used() fits in it.                               *)
THEOREM ScopedBytesAccounted ==
    ASSUME MarkOnEmpty = FALSE
    PROVE  RSpec => []Accounting
<1>1. RInit => Balances
  <2> SUFFICES ASSUME RInit PROVE Balances
    OBVIOUS
  <2>1. Balance
    BY FreshBalances DEF RInit
  <2> QED BY <2>1 DEF RInit, Balances
<1>2. RIndInv /\ Balances /\ [RNext]_rvars => Balances'
  <2> SUFFICES ASSUME RIndInv, Balances, [RNext]_rvars PROVE Balances'
    OBVIOUS
  <2>1. /\ TypeOK /\ Ownership /\ Balance /\ seen \in Seq(Snapshots)
        /\ \A i \in 1..Len(seen) : BalancedIn(seen[i])
    BY DEF RIndInv, IndInv, RTypeOK, Balances
  <2>2. ASSUME NEW h \in Handles, NEW x \in Nat, Amalloc(h, x) \/ Arealloc(h, x) \/ Afree(h),
               UNCHANGED seen
        PROVE  Balances'
    <3>1. Balance'
      BY <2>1, <2>2, CallsGrow, GrowthBalances
    <3> QED BY <2>1, <2>2, <3>1 DEF Balances
  <2>3. CASE Mark
    <3>1. Balance' /\ BalancedIn(Snapshot)
      <4>1. Balance'
        BY <2>1, <2>3, GrowthBalances DEF Mark, vars
      <4> QED BY <2>1, <4>1, BalanceIsInSnapshot
    <3>2. PICK s : s = Snapshot /\ s \in Snapshots /\ BalancedIn(s) /\ seen' = Append(seen, s)
      BY <2>1, <2>3, <3>1 DEF Mark, Snapshot, Snapshots, area, TypeOK
    <3>3. \A i \in 1..Len(seen') : BalancedIn(seen'[i])
      <4>1. Len(seen') = Len(seen) + 1 /\ seen'[Len(seen) + 1] = s /\ Len(seen) \in Nat
        BY <2>1, <3>2
      <4>2. \A i \in 1..Len(seen) : seen'[i] = seen[i]
        BY <2>1, <3>2
      <4>3. ASSUME NEW i \in 1..Len(seen') PROVE i \in 1..Len(seen) \/ i = Len(seen) + 1
        BY <4>1
      <4> QED BY <2>1, <3>2, <4>1, <4>2, <4>3
    <3> QED BY <3>1, <3>3 DEF Balances
  <2>4. CASE Unmark \/ reset_to_mark
    <3>1. Snapshot' = seen[Len(seen)] /\ Len(seen) \in 1..Len(seen)
      BY <2>4, ResetRestores DEF Unmark, reset_to_mark
    <3>2. BalancedIn(Snapshot')
      BY <2>1, <3>1
    <3>3. Balance'
      <4>1. Balance' <=> BalancedIn(Snapshot)'
        BY BalanceIsInSnapshot, PTL
      <4> QED BY <3>2, <4>1 DEF BalancedIn
    <3>4. \A i \in 1..Len(seen') : i \in 1..Len(seen) /\ seen'[i] = seen[i]
      BY <2>1, <2>4 DEF Unmark, reset_to_mark
    <3> QED BY <2>1, <3>3, <3>4 DEF Balances
  <2>5. CASE Destruct
    <3>1. Balance' /\ seen' = seen
      BY <2>1, <2>5, FreshBalances DEF Destruct
    <3> QED BY <2>1, <3>1 DEF Balances
  <2>6. CASE UNCHANGED rvars
    <3>1. Balance' /\ seen' = seen
      BY <2>1, <2>6, GrowthBalances DEF rvars, vars
    <3> QED BY <2>1, <3>1 DEF Balances
  <2>7. ASSUME NEW h \in Handles, NEW x \in Sizes, allocate_bytes(h, x) \/ Resize(h, x)
        PROVE  Balances'
    BY <2>2, <2>7, SizesAssumption DEF allocate_bytes, Resize
  <2>8. ASSUME NEW h \in Handles, Free(h)
        PROVE  Balances'
    BY <2>2, <2>8 DEF Free
  <2> QED BY <2>3, <2>4, <2>5, <2>6, <2>7, <2>8 DEF RNext, Halted, rvars
<1>3. RIndInv /\ Balances => Accounting
  BY BalanceAccounts DEF RIndInv, IndInv, Balances
<1> QED BY <1>1, <1>2, <1>3, RInvariance, PTL DEF RSpec

=============================================================================
