---------------------------- MODULE Arena_proofs ----------------------------
(***************************************************************************)
(* Proofs about Arena, for any chunks, handles, alignment and sizes. The   *)
(* inductive invariant is the conjunction of the invariants the run        *)
(* checks: disjointness is kept because every block of the current chunk   *)
(* ends at or before _hwm, and a chunk malloc returns held no block.       *)
(***************************************************************************)
EXTENDS Arena, FiniteSetTheorems, WellFoundedInduction, TLAPS

IndInv ==
    /\ TypeOK
    /\ Ownership
    /\ InBounds
    /\ Disjoint
    /\ ContentsKept

-----------------------------------------------------------------------------
(* ARENA_ALIGN *)

(* A number lies between two multiples of Align next to each other.        *)
LEMMA Division ==
    ASSUME NEW y \in Int
    PROVE  /\ y \div Align \in Int
           /\ (y \div Align) * Align <= y
           /\ y < (y \div Align) * Align + Align
  BY AlignAssumption

(* Dividing a multiple of Align is exact.                                  *)
LEMMA Multiples ==
    ASSUME NEW a \in Int, NEW b \in Int, a < b
    PROVE  a * Align + Align <= b * Align
  BY AlignAssumption

(* Rounding up yields a natural number that is not smaller. *)
LEMMA AlignUpGrows ==
    ASSUME NEW x \in Nat
    PROVE  AlignUp(x) \in Nat /\ AlignUp(x) >= x
  BY AlignAssumption, Division DEF AlignUp

(* Rounding up gives nothing for nothing. *)
LEMMA AlignUpZero == AlignUp(0) = 0
<1>1. /\ (Align - 1) \div Align \in Int
      /\ ((Align - 1) \div Align) * Align <= Align - 1
      /\ Align - 1 < ((Align - 1) \div Align) * Align + Align
  BY AlignAssumption, Division
<1>2. (Align - 1) \div Align = 0
  <2>1. ~((Align - 1) \div Align < 0)
    <3>1. (Align - 1) \div Align < 0 => ((Align - 1) \div Align) * Align + Align <= 0 * Align
      BY <1>1, Multiples
    <3> QED BY <1>1, <3>1, AlignAssumption
  <2>2. ~(0 < (Align - 1) \div Align)
    <3>1. 0 < (Align - 1) \div Align => 0 * Align + Align <= ((Align - 1) \div Align) * Align
      BY <1>1, Multiples
    <3> QED BY <1>1, <3>1, AlignAssumption
  <2> QED BY <1>1, <2>1, <2>2
<1> QED BY <1>2, AlignAssumption DEF AlignUp

(* What is aligned stays as it is when it is aligned again. *)
LEMMA AlignUpIdempotent ==
    ASSUME NEW x \in Nat
    PROVE  AlignUp(AlignUp(x)) = AlignUp(x)
<1> DEFINE q == (x + Align - 1) \div Align
           d == (q * Align + Align - 1) \div Align
<1>1. q \in Int /\ AlignUp(x) = q * Align /\ AlignUp(AlignUp(x)) = d * Align
  BY AlignAssumption, Division DEF AlignUp
<1> HIDE DEF q
<1>2. q * Align \in Int /\ q * Align + Align - 1 \in Int
  BY <1>1, AlignAssumption
<1>3. d \in Int /\ d * Align <= q * Align + Align - 1 /\ q * Align + Align - 1 < d * Align + Align
  BY <1>2, Division
<1> HIDE DEF d
<1>4. d * Align \in Int
  BY <1>3, AlignAssumption
<1>5. ~(d < q)
  <2>1. d < q => d * Align + Align <= q * Align
    BY <1>1, <1>3, Multiples
  <2> QED BY <2>1, <1>2, <1>3, <1>4, AlignAssumption
<1>6. ~(q < d)
  <2>1. q < d => q * Align + Align <= d * Align
    BY <1>1, <1>3, Multiples
  <2> QED BY <2>1, <1>2, <1>3, <1>4, AlignAssumption
<1> QED BY <1>1, <1>3, <1>5, <1>6

-----------------------------------------------------------------------------
(* Amalloc *)

(* A length grow() asks malloc for holds the request.                      *)
LEMMA NewLengthHolds ==
    ASSUME NEW n \in Nat
    PROVE  NewLength(n) \in Nat \ {0} /\ n <= NewLength(n)
  BY SizesAssumption DEF NewLength

(* Linking a new chunk appends it to the list and keeps the list exact.    *)
LEMMA LinkAppends ==
    ASSUME TypeOK, Ownership, chain = <<>> \/ chunk # NULL,
           NEW k \in Chunks, NEW len \in Nat \ {0}, Link(k, len)
    PROVE  /\ k \notin Linked
           /\ chain' = Append(chain, k)
           /\ Linked' = Linked \cup {k}
           /\ Ownership'
<1>1. chain \in Seq(Chunks) /\ heap \in [Chunks -> Nat] /\ heap[k] = 0
  BY DEF TypeOK, Link
<1>2. k \notin Linked
  BY <1>1 DEF Ownership, Allocated
<1>3. (IF chain = <<>> THEN <<>> ELSE Upto(chunk)) = chain
  <2>1. CASE chain = <<>>
    BY <2>1
  <2>2. CASE chain # <<>>
    <3>1. Len(chain) \in 1..Len(chain) /\ chain[Len(chain)] = chunk
      BY <1>1, <2>2, Len(chain) \in Nat, chain = <<>> <=> Len(chain) = 0 DEF Ownership
    <3>2. (CHOOSE i \in 1..Len(chain) : chain[i] = chunk) = Len(chain)
      BY <3>1 DEF Ownership
    <3>3. SubSeq(chain, 1, Len(chain)) = chain
      BY <1>1
    <3> QED BY <2>2, <3>2, <3>3 DEF Upto
  <2> QED BY <2>1, <2>2
<1>4. chain' = Append(chain, k)
  BY <1>3 DEF Link
<1>5. /\ Len(chain) \in Nat
      /\ Len(chain') = Len(chain) + 1
      /\ \A i \in 1..Len(chain) : chain'[i] = chain[i]
      /\ chain'[Len(chain) + 1] = k
  BY <1>1, <1>4
<1>6. Linked' = Linked \cup {k}
  BY <1>5 DEF Linked
<1>7. Allocated' = Allocated \cup {k}
  BY <1>1 DEF Link, Allocated
<1>8. \A i, j \in 1..Len(chain') : chain'[i] = chain'[j] => i = j
  <2> SUFFICES ASSUME NEW i \in 1..Len(chain'), NEW j \in 1..Len(chain'), chain'[i] = chain'[j]
               PROVE  i = j
    OBVIOUS
  <2>1. \A l \in 1..Len(chain) : chain'[l] \in Linked
    BY <1>5 DEF Linked
  <2> QED BY <1>2, <1>5, <2>1 DEF Ownership
<1>9. chunk' = k /\ max' = heap'[k] /\ k # NULL
  BY <1>1, ChunksAssumption DEF Link
<1>10. chain' # <<>> /\ chain'[Len(chain')] = k
  BY <1>4, <1>5, <1>1
<1> QED
  BY <1>2, <1>4, <1>6, <1>7, <1>8, <1>9, <1>10 DEF Ownership

(* What the list holds are chunks.                                         *)
LEMMA LinkedChunks ==
    ASSUME TypeOK
    PROVE  Linked \subseteq Chunks
  BY DEF TypeOK, Linked

(* The facts about a live block that the steps below use.                  *)
LEMMA BlockFacts ==
    ASSUME TypeOK, InBounds, NEW g \in Handles
    PROVE  /\ own[g].chunk \in Chunks \cup {NULL} /\ own[g].off \in Nat /\ own[g].size \in Nat
           /\ AlignUp(own[g].size) \in Nat /\ AlignUp(own[g].size) >= own[g].size
           /\ End(own[g]) = own[g].off + AlignUp(own[g].size)
           /\ own[g].size > 0 => /\ own[g].chunk \in Linked
                                 /\ End(own[g]) <= heap[own[g].chunk]
                                 /\ own[g].chunk = chunk => End(own[g]) <= hwm
  BY AlignUpGrows DEF TypeOK, InBounds, End, contains

(* A write that keeps clear of the other blocks' reserved bytes hits none. *)
LEMMA NoHit ==
    ASSUME TypeOK, InBounds, NEW h \in Handles, NEW c, NEW lo \in Nat, NEW hi \in Nat,
           \A g \in Handles \ {h} : own[g].size > 0 /\ own[g].chunk = c
                                   => End(own[g]) <= lo \/ hi <= own[g].off
    PROVE  Hit(h, c, lo, hi) = {}
<1>1. ASSUME NEW g \in Handles \ {h}, own[g].chunk = c,
             NEW i \in lo .. hi - 1, own[g].off <= i, i < own[g].off + own[g].size
      PROVE  FALSE
  <2>1. /\ own[g].off \in Nat /\ own[g].size \in Nat /\ AlignUp(own[g].size) \in Nat
        /\ AlignUp(own[g].size) >= own[g].size
        /\ End(own[g]) = own[g].off + AlignUp(own[g].size)
    BY BlockFacts
  <2>2. i \in Int /\ lo <= i /\ i < hi /\ own[g].size > 0
    BY <1>1, <2>1
  <2>3. End(own[g]) <= lo \/ hi <= own[g].off
    BY <1>1, <2>2
  <2> QED BY <1>1, <2>1, <2>2, <2>3
<1>2. \A g \in Handles \ {h} :
        ~ (own[g].chunk = c /\ \E i \in lo .. hi - 1 : own[g].off <= i /\ i < own[g].off + own[g].size)
  BY <1>1
<1> QED BY <1>2 DEF Hit

(* What Amalloc's two ways have in common: the offset returned is past     *)
(* every live block of its chunk, and the chunk has room behind it.        *)
LEMMA AllocateIsFresh ==
    ASSUME TypeOK, Ownership, InBounds, NEW n \in Nat,
           NEW c \in Chunks \cup {NULL}, NEW o, Allocate(n, c, o)
    PROVE  /\ o \in Nat
           /\ \A g \in Handles : own[g].size > 0 /\ own[g].chunk = c => End(own[g]) <= o
           /\ chunk' = c /\ o + n <= max'
           /\ n > 0 => c \in Linked'
           /\ \A d \in Linked : d \in Linked' /\ heap'[d] = heap[d]
           /\ chain' \in Seq(Chunks) /\ max' \in Nat /\ size_in_bytes' \in Nat
           /\ heap' \in [Chunks -> Nat]
           /\ Ownership'
<1>1. CASE Fits(n) /\ c = chunk /\ o = hwm /\ UNCHANGED area
  <2>1. /\ chain' = chain /\ chunk' = chunk /\ max' = max /\ size_in_bytes' = size_in_bytes
        /\ heap' = heap
    BY <1>1 DEF area
  <2>2. Linked' = Linked /\ Ownership'
    BY <2>1 DEF Linked, Ownership, Allocated
  <2>3. o \in Nat /\ o + n <= max /\ max \in Nat
    BY <1>1 DEF Fits, TypeOK
  <2>4. n > 0 => c \in Linked
    <3> SUFFICES ASSUME n > 0 PROVE c \in Linked
      OBVIOUS
    <3>1. c # NULL
      BY <1>1, <2>3 DEF Ownership
    <3>2. Len(chain) \in 1..Len(chain)
      BY <3>1, <1>1, Len(chain) \in Nat, chain = <<>> <=> Len(chain) = 0 DEF TypeOK, Ownership
    <3> QED BY <3>1, <3>2, <1>1 DEF Ownership, Linked
  <2>5. \A g \in Handles : own[g].size > 0 /\ own[g].chunk = c => End(own[g]) <= o
    BY <1>1, BlockFacts
  <2> QED BY <1>1, <2>1, <2>2, <2>3, <2>4, <2>5 DEF TypeOK
<1>2. CASE ~Fits(n) /\ (chain = <<>> \/ chunk # NULL) /\ c # NULL /\ Link(c, NewLength(n)) /\ o = 0
  <2> DEFINE len == NewLength(n)
  <2>1. len \in Nat \ {0} /\ n <= len
    BY NewLengthHolds
  <2> HIDE DEF len
  <2>2. c \in Chunks /\ Link(c, len)
    BY <1>2 DEF len
  <2>3. c \notin Linked /\ chain' = Append(chain, c) /\ Linked' = Linked \cup {c} /\ Ownership'
    BY <1>2, <2>1, <2>2, LinkAppends
  <2>4. \A g \in Handles : own[g].size > 0 => own[g].chunk # c
    BY <2>3, BlockFacts
  <2>5. /\ chunk' = c /\ max' = len /\ size_in_bytes' = size_in_bytes + len + Overhead
        /\ heap' = [heap EXCEPT ![c] = len]
    BY <2>2 DEF Link
  <2>6. chain' \in Seq(Chunks) /\ size_in_bytes' \in Nat /\ heap' \in [Chunks -> Nat]
    BY <2>1, <2>2, <2>3, <2>5, SizesAssumption DEF TypeOK
  <2>7. \A d \in Linked : d \in Linked' /\ heap'[d] = heap[d]
    BY <2>3, <2>5 DEF TypeOK
  <2> QED BY <1>2, <2>1, <2>3, <2>4, <2>5, <2>6, <2>7
<1> QED BY <1>1, <1>2 DEF Allocate

(* A handle that is given the block Allocate returned, sized within it.    *)
LEMMA PlaceBlock ==
    ASSUME IndInv, NEW h \in Handles, NEW x \in Nat, NEW n \in Nat, AlignUp(x) <= n,
           NEW c \in Chunks \cup {NULL}, NEW o, Allocate(n, c, o),
           hwm' = o + n, own' = [own EXCEPT ![h] = Block(c, o, x)],
           lost' = lost \cup Hit(h, c, o, o + x), status' \in Status
    PROVE  IndInv'
<1>1. /\ TypeOK /\ Ownership /\ InBounds /\ Disjoint /\ lost = {}
  BY DEF IndInv, ContentsKept
<1>2. /\ o \in Nat
      /\ \A g \in Handles : own[g].size > 0 /\ own[g].chunk = c => End(own[g]) <= o
      /\ chunk' = c /\ o + n <= max'
      /\ n > 0 => c \in Linked'
      /\ \A d \in Linked : d \in Linked' /\ heap'[d] = heap[d]
      /\ chain' \in Seq(Chunks) /\ max' \in Nat /\ size_in_bytes' \in Nat
      /\ heap' \in [Chunks -> Nat]
      /\ Ownership'
  BY <1>1, AllocateIsFresh
<1>3. AlignUp(x) \in Nat /\ AlignUp(x) >= x
  BY AlignUpGrows
<1>4. /\ own'[h].chunk = c /\ own'[h].off = o /\ own'[h].size = x
      /\ End(own'[h]) = o + AlignUp(x)
      /\ \A g \in Handles \ {h} : own'[g] = own[g]
  BY <1>1 DEF TypeOK, Block, End
<1>5. Hit(h, c, o, o + x) = {}
  BY <1>1, <1>2, NoHit
<1>6. TypeOK'
  <2>1. Block(c, o, x) \in [chunk : Chunks \cup {NULL}, off : Nat, size : Nat]
    BY <1>2 DEF Block
  <2>2. lost' = {}
    BY <1>1, <1>5
  <2>3. hwm' \in Nat
    BY <1>2
  <2> QED BY <1>1, <1>2, <2>1, <2>2, <2>3 DEF TypeOK
<1>7. InBounds'
  <2>1. hwm' <= max'
    BY <1>2
  <2>2. ASSUME NEW g \in Handles, own'[g].size > 0
        PROVE  /\ contains(own[g].chunk, own[g].off)'
               /\ End(own'[g]) <= heap'[own'[g].chunk]
               /\ own'[g].chunk = chunk' => End(own'[g]) <= hwm'
    <3>1. CASE g = h
      <4>1. c \in Linked' /\ chunk' # NULL
        <5>1. c \in Linked'
          BY <1>2, <1>3, <1>4, <2>2, <3>1
        <5>2. Linked' \subseteq Chunks
          BY <1>2 DEF Linked
        <5> QED BY <1>2, <5>1, <5>2, ChunksAssumption
      <4>2. max' = heap'[c]
        BY <4>1, <1>2 DEF Ownership
      <4>3. o \in 0 .. heap'[c] /\ o + AlignUp(x) <= heap'[c] /\ o + AlignUp(x) <= hwm'
        BY <4>2, <1>2, <1>3
      <4> QED BY <3>1, <1>4, <4>1, <4>3 DEF contains
    <3>2. CASE g # h
      <4>1. own'[g] = own[g] /\ own[g].size > 0
        BY <3>2, <2>2, <1>4
      <4>2. /\ own[g].chunk \in Linked /\ own[g].off \in 0 .. heap[own[g].chunk]
            /\ End(own[g]) <= heap[own[g].chunk]
        BY <4>1, <1>1 DEF InBounds, contains
      <4>4. own[g].chunk \in Linked' /\ heap'[own[g].chunk] = heap[own[g].chunk]
        BY <4>2, <1>2
      <4>3. own[g].chunk = chunk' => End(own[g]) <= hwm'
        <5>1. SUFFICES ASSUME own[g].chunk = chunk' PROVE End(own[g]) <= hwm'
          OBVIOUS
        <5>2. End(own[g]) <= o
          BY <4>1, <5>1, <1>2
        <5>3. End(own[g]) \in Nat
          BY <1>1, BlockFacts
        <5> QED BY <5>2, <5>3, <1>2
      <4> QED BY <4>1, <4>2, <4>3, <4>4 DEF contains
    <3> QED BY <3>1, <3>2
  <2> QED BY <2>1, <2>2 DEF InBounds
<1>8. Disjoint'
  <2>1. ASSUME NEW g \in Handles \ {h}
        PROVE  Apart(own'[g], own'[h]) /\ Apart(own'[h], own'[g])
    <3>1. own'[g] = own[g]
      BY <1>4
    <3>2. CASE own[g].size > 0 /\ own[g].chunk = c
      <4>1. End(own[g]) <= o
        BY <1>2, <3>2
      <4> QED BY <1>4, <3>1, <4>1 DEF Apart
    <3>3. CASE own[g].size = 0 \/ own[g].chunk # c
      BY <1>4, <3>1, <3>3 DEF Apart
    <3>4. own[g].size \in Nat
      BY <1>1, BlockFacts
    <3> QED BY <3>2, <3>3, <3>4
  <2>2. \A f, g \in Handles \ {h} : f # g => Apart(own'[f], own'[g])
    BY <1>1, <1>4 DEF Disjoint
  <2> QED BY <2>1, <2>2 DEF Disjoint
<1> QED BY <1>1, <1>2, <1>5, <1>6, <1>7, <1>8 DEF IndInv, ContentsKept

(* A step that changes nothing but the status, as a dying process does.    *)
LEMMA Unchanged ==
    ASSUME IndInv, UNCHANGED <<chain, chunk, hwm, max, size_in_bytes, heap, own, lost>>,
           status' \in Status
    PROVE  IndInv'
  BY DEF IndInv, TypeOK, Ownership, Linked, Allocated, InBounds, contains, Disjoint, ContentsKept

(* Amalloc keeps the invariant, whether it returns or dies.                *)
LEMMA AmallocPreserves ==
    ASSUME IndInv, NEW h \in Handles, NEW x \in Nat, Amalloc(h, x)
    PROVE  IndInv'
<1>1. CASE Dies(AlignUp(x))
  <2>1. UNCHANGED <<chain, chunk, hwm, max, size_in_bytes, heap, own, lost>> /\ status' \in Status
    BY <1>1 DEF Dies, OutOfMemory, NoCurrentChunk, area, Status
  <2> QED BY <2>1, Unchanged
<1>2. ASSUME NEW c \in Chunks \cup {NULL}, NEW o \in {0, hwm}, Allocate(AlignUp(x), c, o),
             hwm' = o + AlignUp(x), Hand(h, Block(c, o, x)), UNCHANGED status
      PROVE  IndInv'
  <2>1. AlignUp(x) \in Nat /\ AlignUp(x) <= AlignUp(x)
    BY AlignUpGrows
  <2>2. /\ own' = [own EXCEPT ![h] = Block(c, o, x)]
        /\ lost' = lost \cup Hit(h, c, o, o + x)
        /\ status' \in Status
    BY <1>2 DEF Hand, Block, IndInv, TypeOK
  <2> QED BY <1>2, <2>1, <2>2, PlaceBlock
<1> QED BY <1>1, <1>2 DEF Amalloc

-----------------------------------------------------------------------------
(* Afree *)

(* Afree keeps it: lowering _hwm to the last block's start leaves every    *)
(* other live block of the chunk below it.                                 *)
LEMMA AfreePreserves ==
    ASSUME IndInv, NEW h \in Handles, Afree(h)
    PROVE  IndInv'
<1>1. /\ TypeOK /\ Ownership /\ InBounds /\ Disjoint /\ lost = {}
  BY DEF IndInv, ContentsKept
<1>2. /\ UNCHANGED <<chain, chunk, max, size_in_bytes, heap, lost, status>>
      /\ hwm' = Lowered(chunk, hwm, own[h])
      /\ own' = [own EXCEPT ![h] = Nil]
  BY DEF Afree, area
<1>3. /\ own'[h] = Nil /\ Nil.size = 0
      /\ Nil \in [chunk : Chunks \cup {NULL}, off : Nat, size : Nat]
      /\ \A g \in Handles \ {h} : own'[g] = own[g]
  BY <1>1, <1>2 DEF TypeOK, Nil, Block
<1>4. /\ hwm' \in Nat /\ hwm' <= hwm
      /\ \A g \in Handles \ {h} : own[g].size > 0 /\ own[g].chunk = chunk => End(own[g]) <= hwm'
  <2>1. CASE own[h].chunk = chunk /\ End(own[h]) = hwm
    <3>1. hwm' = own[h].off
      BY <1>2, <2>1 DEF Lowered
    <3>2. /\ own[h].off \in Nat /\ own[h].size \in Nat /\ AlignUp(own[h].size) \in Nat
          /\ hwm = own[h].off + AlignUp(own[h].size)
          /\ own[h].size > 0 \/ own[h].size = 0
      BY <1>1, <2>1, BlockFacts
    <3>3. hwm' \in Nat /\ hwm' <= hwm
      BY <1>1, <2>1, <3>1, BlockFacts
    <3>4. ASSUME NEW g \in Handles \ {h}, own[g].size > 0, own[g].chunk = chunk
          PROVE  End(own[g]) <= hwm'
      <4>1. CASE own[h].size > 0
        <5>1. Apart(own[g], own[h])
          BY <1>1, <3>4 DEF Disjoint
        <5>2. /\ End(own[g]) \in Nat /\ End(own[g]) <= hwm /\ own[g].off \in Nat
              /\ AlignUp(own[g].size) >= own[g].size /\ AlignUp(own[g].size) \in Nat
              /\ own[g].size \in Nat /\ End(own[g]) = own[g].off + AlignUp(own[g].size)
          BY <1>1, <3>4, BlockFacts
        <5> QED BY <2>1, <3>1, <3>2, <3>4, <4>1, <5>1, <5>2 DEF Apart
      <4>2. CASE own[h].size = 0
        <5>1. AlignUp(0) = 0
          BY AlignUpZero
        <5>2. hwm' = hwm
          BY <1>1, <2>1, <3>1, <4>2, <5>1, BlockFacts
        <5> QED BY <1>1, <3>4, <5>2, BlockFacts
      <4> QED BY <1>1, <4>1, <4>2, BlockFacts
    <3> QED BY <3>3, <3>4
  <2>2. CASE ~(own[h].chunk = chunk /\ End(own[h]) = hwm)
    <3>1. hwm' = hwm
      BY <1>2, <2>2 DEF Lowered
    <3> QED BY <1>1, <3>1, BlockFacts DEF TypeOK
  <2> QED BY <2>1, <2>2
<1>5. TypeOK'
  BY <1>1, <1>2, <1>3, <1>4 DEF TypeOK
<1>6. Ownership' /\ Linked' = Linked
  BY <1>1, <1>2 DEF Ownership, Linked, Allocated
<1>7. InBounds'
  <2>1. hwm' <= max'
    BY <1>1, <1>2, <1>4 DEF InBounds, TypeOK
  <2> QED BY <1>1, <1>2, <1>3, <1>4, <1>6, <2>1 DEF InBounds, contains
<1>8. Disjoint'
  BY <1>1, <1>3 DEF Disjoint, Apart
<1> QED BY <1>1, <1>2, <1>5, <1>6, <1>7, <1>8 DEF IndInv, ContentsKept

-----------------------------------------------------------------------------
(* Arealloc *)

(* A block resized where it is, with its bytes up to its new end free of   *)
(* other blocks and within its chunk.                                      *)
LEMMA ResizeBlock ==
    ASSUME IndInv, NEW h \in Handles, NEW y \in Nat, own[h].size > 0 \/ AtTop(own[h]),
           UNCHANGED <<area, status>>, Hand(h, [own[h] EXCEPT !.size = y]),
           hwm' \in Nat, hwm <= hwm', hwm' <= max,
           \/ AlignUp(y) <= AlignUp(own[h].size) /\ own[h].size > 0
           \/ AtTop(own[h]) /\ hwm' = own[h].off + AlignUp(y)
    PROVE  IndInv'
<1> DEFINE b == [own[h] EXCEPT !.size = y]
<1>1. /\ TypeOK /\ Ownership /\ InBounds /\ Disjoint /\ lost = {}
  BY DEF IndInv, ContentsKept
<1>2. /\ UNCHANGED <<chain, chunk, max, size_in_bytes, heap, status>>
      /\ own' = [own EXCEPT ![h] = b]
      /\ lost' = Hit(h, b.chunk, b.off, b.off + b.size)
  BY <1>1 DEF area, Hand
<1>3. /\ b.chunk = own[h].chunk /\ b.off = own[h].off /\ b.size = y
      /\ b \in [chunk : Chunks \cup {NULL}, off : Nat, size : Nat]
      /\ End(b) = own[h].off + AlignUp(y)
      /\ own'[h] = b /\ \A g \in Handles \ {h} : own'[g] = own[g]
  BY <1>1, <1>2 DEF TypeOK, End
<1>4. AlignUp(y) \in Nat /\ AlignUp(y) >= y
  BY AlignUpGrows
<1>5. b.off \in Nat /\ End(b) \in Nat /\ b.off + y <= End(b)
  BY <1>3, <1>4, BlockFacts, <1>1
<1> HIDE DEF b
<1>6. \A g \in Handles \ {h} : own[g].size > 0 /\ own[g].chunk = b.chunk
                                 => End(own[g]) <= b.off \/ End(b) <= own[g].off
  <2> SUFFICES ASSUME NEW g \in Handles \ {h}, own[g].size > 0, own[g].chunk = b.chunk
               PROVE  End(own[g]) <= b.off \/ End(b) <= own[g].off
    OBVIOUS
  <2>1. /\ own[g].off \in Nat /\ End(own[g]) \in Nat
        /\ own[g].chunk = chunk => End(own[g]) <= hwm
    BY <1>1, BlockFacts
  <2>2. CASE own[h].size > 0
    <3>1. End(own[g]) <= b.off \/ End(own[h]) <= own[g].off
      BY <1>1, <1>3, <2>2 DEF Disjoint, Apart
    <3>2. CASE AlignUp(y) <= AlignUp(own[h].size)
      <4>1. End(b) <= End(own[h]) /\ End(own[h]) \in Nat
        BY <1>1, <1>3, <1>4, <3>2, BlockFacts
      <4> QED BY <2>1, <3>1, <4>1, <1>5
    <3>3. CASE AtTop(own[h])
      <4>1. End(own[g]) <= End(own[h]) /\ End(own[h]) \in Nat /\ End(own[g]) > own[g].off
        BY <1>1, <1>3, <2>1, <3>3, BlockFacts DEF AtTop
      <4> QED BY <2>1, <3>1, <4>1
    <3> QED BY <3>2, <3>3
  <2>3. CASE own[h].size = 0
    <3>1. AtTop(own[h]) /\ own[h].off = hwm
      BY <1>1, <2>3, AlignUpZero, BlockFacts DEF AtTop
    <3> QED BY <1>3, <2>1, <3>1 DEF AtTop
  <2> QED BY <1>1, <2>2, <2>3, BlockFacts
<1>7. Hit(h, b.chunk, b.off, b.off + y) = {}
  <2>1. \A g \in Handles \ {h} : own[g].size > 0 /\ own[g].chunk = b.chunk
                                 => End(own[g]) <= b.off \/ b.off + y <= own[g].off
    BY <1>1, <1>5, <1>6, BlockFacts
  <2>2. b.off + y \in Nat
    BY <1>5
  <2> QED BY <1>1, <1>5, <2>1, <2>2, NoHit
<1>8. TypeOK' /\ lost' = {}
  BY <1>1, <1>2, <1>3, <1>7 DEF TypeOK
<1>9. Ownership' /\ Linked' = Linked
  BY <1>1, <1>2 DEF Ownership, Linked, Allocated
<1>10. InBounds'
  <2>1. ASSUME NEW g \in Handles \ {h}, own'[g].size > 0
        PROVE  /\ contains(own[g].chunk, own[g].off)'
               /\ End(own'[g]) <= heap'[own'[g].chunk]
               /\ own'[g].chunk = chunk' => End(own'[g]) <= hwm'
    <3>1. own'[g] = own[g]
      BY <1>3
    <3>2. own[g].chunk = chunk => End(own[g]) <= hwm'
      BY <1>1, <2>1, <3>1, BlockFacts DEF TypeOK
    <3> QED BY <1>1, <1>2, <1>9, <2>1, <3>1, <3>2 DEF InBounds, contains
  <2>2. ASSUME y > 0
        PROVE  /\ contains(own[h].chunk, own[h].off)'
               /\ End(own'[h]) <= heap'[own'[h].chunk]
               /\ own'[h].chunk = chunk' => End(own'[h]) <= hwm'
    <3>1. CASE AlignUp(y) <= AlignUp(own[h].size) /\ own[h].size > 0
      <4>1. End(b) <= End(own[h]) /\ End(own[h]) \in Nat
        BY <1>1, <1>3, <1>4, <3>1, BlockFacts
      <4>2. /\ own[h].chunk \in Linked /\ own[h].off \in 0 .. heap[own[h].chunk]
            /\ End(own[h]) <= heap[own[h].chunk] /\ heap[own[h].chunk] \in Nat
            /\ own[h].chunk = chunk => End(own[h]) <= hwm
        BY <1>1, <3>1, BlockFacts, LinkedChunks DEF InBounds, contains, TypeOK
      <4> QED BY <1>1, <1>2, <1>3, <1>5, <1>9, <4>1, <4>2 DEF contains, TypeOK
    <3>2. CASE AtTop(own[h]) /\ hwm' = own[h].off + AlignUp(y)
      <4>1. own[h].chunk = chunk /\ max > 0 /\ End(b) = hwm' /\ hwm' <= max
        BY <1>1, <1>3, <1>4, <1>5, <2>2, <3>2 DEF AtTop, TypeOK
      <4>2. chunk # NULL /\ max = heap[chunk] /\ chain # <<>> /\ chain[Len(chain)] = chunk
        BY <1>1, <4>1 DEF Ownership
      <4>3. chunk \in Linked
        BY <1>1, <4>2, Len(chain) \in Nat, chain = <<>> <=> Len(chain) = 0 DEF Linked, TypeOK
      <4>4. own[h].off \in 0 .. heap[chunk]
        BY <1>1, <1>3, <1>5, <4>1, <4>2 DEF TypeOK
      <4> QED BY <1>2, <1>3, <1>9, <4>1, <4>2, <4>3, <4>4 DEF contains
    <3> QED BY <3>1, <3>2
  <2>3. hwm' <= max'
    BY <1>2
  <2> QED BY <1>3, <2>1, <2>2, <2>3 DEF InBounds
<1>11. Disjoint'
  <2>1. ASSUME NEW g \in Handles \ {h}
        PROVE  Apart(own'[g], own'[h]) /\ Apart(own'[h], own'[g])
    <3>1. own'[g] = own[g] /\ own'[h] = b
      BY <1>3
    <3>2. CASE own[g].size > 0 /\ own[g].chunk = b.chunk
      <4>1. End(own[g]) <= b.off \/ End(b) <= own[g].off
        BY <1>6, <3>2
      <4> QED BY <3>1, <4>1 DEF Apart
    <3>3. CASE own[g].size = 0 \/ own[g].chunk # b.chunk
      BY <3>1, <3>3 DEF Apart
    <3>4. own[g].size \in Nat
      BY <1>1, BlockFacts
    <3> QED BY <3>2, <3>3, <3>4
  <2>2. \A f, g \in Handles \ {h} : f # g => Apart(own'[f], own'[g])
    BY <1>1, <1>3 DEF Disjoint
  <2> QED BY <2>1, <2>2 DEF Disjoint
<1> QED BY <1>8, <1>9, <1>10, <1>11 DEF IndInv, ContentsKept

(* The Afree at the end of Arealloc never gives anything back: the block   *)
(* that moved is not the last one any more.                                *)
LEMMA MoveFreesNothing ==
    ASSUME IndInv, NEW h \in Handles, NEW n \in Nat, n > 0,
           NEW c \in Chunks \cup {NULL}, NEW o, Allocate(n, c, o)
    PROVE  Lowered(c, o + n, [own[h] EXCEPT !.size = AlignUp(@)]) = o + n
<1> DEFINE b == [own[h] EXCEPT !.size = AlignUp(@)]
<1>1. TypeOK /\ Ownership /\ InBounds
  BY DEF IndInv
<1>2. o \in Nat /\ (own[h].size > 0 /\ own[h].chunk = c => End(own[h]) <= o)
  BY <1>1, AllocateIsFresh
<1>3. b.chunk = own[h].chunk /\ b.off = own[h].off /\ b.size = AlignUp(own[h].size)
  BY <1>1 DEF TypeOK
<1>4. End(b) = End(own[h])
  BY <1>1, <1>3, AlignUpIdempotent, BlockFacts DEF End
<1>5. ASSUME b.chunk = c, End(b) = o + n
      PROVE  b.off = o + n
  <2>1. own[h].size = 0
    BY <1>1, <1>2, <1>3, <1>4, <1>5, BlockFacts
  <2> QED BY <1>1, <1>3, <1>4, <1>5, <2>1, AlignUpZero, BlockFacts
<1> QED BY <1>5 DEF Lowered

(* Arealloc keeps it, by each of its returns.                              *)
LEMMA AreallocPreserves ==
    ASSUME IndInv, NEW h \in Handles, NEW y \in Nat, Arealloc(h, y)
    PROVE  IndInv'
<1>1. /\ TypeOK /\ InBounds /\ lost = {} /\ hwm \in Nat /\ max \in Nat /\ hwm <= max
      /\ status \in Status /\ own \in [Handles -> [chunk : Chunks \cup {NULL}, off : Nat, size : Nat]]
  BY DEF IndInv, ContentsKept, TypeOK, InBounds
<1>2. /\ AlignUp(y) \in Nat /\ AlignUp(y) >= y
      /\ AlignUp(own[h].size) \in Nat /\ AlignUp(own[h].size) >= own[h].size
      /\ own[h].off \in Nat /\ own[h].size \in Nat
  BY <1>1, AlignUpGrows, BlockFacts
<1>3. CASE own[h] = Nil /\ Amalloc(h, y)
  BY <1>3, AmallocPreserves
<1>4. CASE ReallocInPlace(h, y) /\ UNCHANGED status
  <2>1. CASE own[h].size > 0
    BY <1>1, <1>4, <2>1, ResizeBlock DEF ReallocInPlace
  <2>2. CASE own[h].size = 0
    <3>1. y = 0
      BY <1>2, <1>4, <2>2, AlignUpZero DEF ReallocInPlace
    <3>2. [own[h] EXCEPT !.size = y] = own[h]
      BY <1>1, <2>2, <3>1
    <3>3. own' = own
      BY <1>1, <1>4, <3>2 DEF ReallocInPlace, Hand
    <3>4. Hit(h, own[h].chunk, own[h].off, own[h].off + own[h].size) = {}
      BY <1>2, <2>2, own[h].off .. own[h].off + 0 - 1 = {} DEF Hit
    <3>5. lost' = lost
      BY <1>4, <3>2, <3>4 DEF ReallocInPlace, Hand
    <3> QED BY <1>1, <1>4, <3>3, <3>5, Unchanged DEF ReallocInPlace, area
  <2> QED BY <1>2, <2>1, <2>2
<1>5. CASE ReallocExtend(h, y) /\ UNCHANGED status
  <2>1. /\ AtTop(own[h]) /\ hwm = own[h].off + AlignUp(own[h].size)
        /\ hwm' = hwm + (AlignUp(y) - AlignUp(own[h].size))
        /\ hwm + (AlignUp(y) - AlignUp(own[h].size)) <= max
        /\ AlignUp(y) > AlignUp(own[h].size)
    BY <1>5 DEF ReallocExtend, AtTop, Room, End
  <2>2. hwm' = own[h].off + AlignUp(y) /\ hwm' \in Nat /\ hwm <= hwm' /\ hwm' <= max
    BY <1>1, <1>2, <2>1
  <2> QED BY <1>5, <2>1, <2>2, ResizeBlock DEF ReallocExtend
<1>6. ASSUME NEW c \in Chunks \cup {NULL}, NEW o \in {0, hwm},
             ReallocMove(h, y, c, o), UNCHANGED status
      PROVE  IndInv'
  <2> DEFINE n == AlignUp(AlignUp(y))
  <2>1. n \in Nat /\ AlignUp(y) <= n /\ n > 0
    BY <1>2, <1>6, AlignUpGrows DEF ReallocMove
  <2> HIDE DEF n
  <2>2. Allocate(n, c, o) /\ own' = [own EXCEPT ![h] = Block(c, o, y)]
    BY <1>6 DEF ReallocMove, n
  <2>3. hwm' = o + n
    BY <1>6, <2>1, <2>2, MoveFreesNothing DEF ReallocMove, n
  <2>4. lost' = lost \cup Hit(h, c, o, o + y)
    BY <1>2, <1>6 DEF ReallocMove, Copied
  <2> QED BY <1>1, <1>6, <2>1, <2>2, <2>3, <2>4, PlaceBlock
<1>7. CASE ReallocDies(h, y)
  <2>1. UNCHANGED <<chain, chunk, hwm, max, size_in_bytes, heap, own, lost>> /\ status' \in Status
    BY <1>7 DEF ReallocDies, Dies, OutOfMemory, NoCurrentChunk, area, Status
  <2> QED BY <2>1, Unchanged
<1> QED BY <1>3, <1>4, <1>5, <1>6, <1>7 DEF Arealloc

-----------------------------------------------------------------------------
(* Construction, destruction and the invariant *)

(* destruct_contents keeps it: no block survives, and no chunk.            *)
LEMMA DestructPreserves ==
    ASSUME IndInv, destruct_contents
    PROVE  IndInv'
<1>1. /\ TypeOK /\ Ownership /\ lost = {}
  BY DEF IndInv, ContentsKept
<1>2. /\ chain' = <<>> /\ chunk' = NULL /\ hwm' = 0 /\ max' = 0 /\ size_in_bytes' = 0
      /\ heap' = [c \in Chunks |-> IF c \in Linked THEN 0 ELSE heap[c]]
      /\ own' = [h \in Handles |-> Nil] /\ lost' = lost /\ status' = status
  BY DEF destruct_contents, Deleted
<1>3. \A c \in Chunks : heap'[c] = 0
  BY <1>1, <1>2 DEF Ownership, Allocated, TypeOK
<1>4. Nil.size = 0 /\ Nil \in [chunk : Chunks \cup {NULL}, off : Nat, size : Nat]
  BY DEF Nil, Block
<1>5. TypeOK'
  BY <1>1, <1>2, <1>4 DEF TypeOK
<1>6. Ownership'
  BY <1>2, <1>3 DEF Ownership, Linked, Allocated
<1> QED BY <1>1, <1>2, <1>4, <1>5, <1>6 DEF IndInv, InBounds, Disjoint, Apart, ContentsKept

(* A new arena satisfies it, with or without a first chunk.               *)
LEMMA InitEstablishes == Init => IndInv
<1> SUFFICES ASSUME Init PROVE IndInv
  OBVIOUS
<1>1. /\ hwm = 0 /\ own = [h \in Handles |-> Nil] /\ lost = {} /\ status = "ok"
      /\ Nil.size = 0 /\ Nil \in [chunk : Chunks \cup {NULL}, off : Nat, size : Nat]
  BY DEF Init, Nil, Block
<1>2. TypeOK /\ Ownership /\ hwm <= max
  <2>1. PICK s \in InitSizes :
          \/ /\ s = 0 /\ chain = <<>> /\ chunk = NULL /\ max = 0 /\ size_in_bytes = 0
             /\ heap = [c \in Chunks |-> 0]
          \/ /\ s # 0
             /\ \E k \in Chunks : /\ chain = <<k>> /\ chunk = k /\ max = s
                                  /\ size_in_bytes = s + Overhead
                                  /\ heap = [c \in Chunks |-> IF c = k THEN s ELSE 0]
    BY DEF Init
  <2>2. s \in Nat /\ Overhead \in Nat
    BY SizesAssumption
  <2>3. CASE s = 0
    BY <1>1, <2>1, <2>3 DEF TypeOK, Status, Ownership, Linked, Allocated
  <2>4. CASE s # 0
    <3>1. PICK k \in Chunks : /\ chain = <<k>> /\ chunk = k /\ max = s
                              /\ size_in_bytes = s + Overhead
                              /\ heap = [c \in Chunks |-> IF c = k THEN s ELSE 0]
      BY <2>1, <2>4
    <3>2. TypeOK
      BY <1>1, <2>2, <3>1 DEF TypeOK, Status
    <3>3. Linked = {k} /\ Allocated = {k} /\ Len(chain) = 1 /\ chain[1] = k
      BY <2>2, <2>4, <3>1 DEF Linked, Allocated
    <3> QED BY <1>1, <2>2, <3>1, <3>2, <3>3, ChunksAssumption DEF Ownership
  <2> QED BY <2>3, <2>4
<1> QED BY <1>1, <1>2 DEF IndInv, InBounds, Disjoint, Apart, ContentsKept

(* No sequence of calls breaks the inductive invariant.                    *)
THEOREM Invariance == Spec => []IndInv
<1>1. Init => IndInv
  BY InitEstablishes
<1>2. IndInv /\ [Next]_vars => IndInv'
  <2> SUFFICES ASSUME IndInv, [Next]_vars PROVE IndInv'
    OBVIOUS
  <2>1. ASSUME NEW h \in Handles, NEW x \in Sizes, Amalloc(h, x)
        PROVE  IndInv'
    BY <2>1, AmallocPreserves, SizesAssumption
  <2>2. ASSUME NEW h \in Handles, NEW x \in Sizes, Arealloc(h, x)
        PROVE  IndInv'
    BY <2>2, AreallocPreserves, SizesAssumption
  <2>3. ASSUME NEW h \in Handles, Afree(h)
        PROVE  IndInv'
    BY <2>3, AfreePreserves
  <2>4. CASE destruct_contents
    BY <2>4, DestructPreserves
  <2>5. CASE Halted \/ UNCHANGED vars
    BY <2>5, Unchanged DEF Halted, vars, IndInv, TypeOK
  <2> QED BY <2>1, <2>2, <2>3, <2>4, <2>5 DEF Next
<1> QED BY <1>1, <1>2, PTL DEF Spec

(* Every variable keeps its type, under any sequence of calls.             *)
THEOREM TypeCorrect == Spec => []TypeOK
<1>1. IndInv => TypeOK
  BY DEF IndInv
<1> QED BY <1>1, Invariance, PTL

(* Whatever is allocated, freed and resized in whatever order, no two live *)
(* blocks of an arena share a reserved byte.                               *)
THEOREM BlocksDisjoint == Spec => []Disjoint
<1>1. IndInv => Disjoint
  BY DEF IndInv
<1> QED BY <1>1, Invariance, PTL

(* Every live block lies inside a chunk that is linked and malloc'ed.      *)
THEOREM BlocksInBounds == Spec => []InBounds
<1>1. IndInv => InBounds
  BY DEF IndInv
<1> QED BY <1>1, Invariance, PTL

(* No call overwrites a block other than its own.                          *)
THEOREM ContentsSurvive == Spec => []ContentsKept
<1>1. IndInv => ContentsKept
  BY DEF IndInv
<1> QED BY <1>1, Invariance, PTL

(* The list from _first holds exactly the malloc'ed chunks.                *)
THEOREM ChunksOwned == Spec => []Ownership
<1>1. IndInv => Ownership
  BY DEF IndInv
<1> QED BY <1>1, Invariance, PTL

-----------------------------------------------------------------------------
(* The arena implements ScopedAllocator with no scope *)

(* A block owns an address exactly if it has a size. *)
LEMMA BytesOfBlock ==
    ASSUME NEW b, b.off \in Nat, b.size \in Nat
    PROVE  Bytes(b) = {} <=> b.size = 0
<1>1. CASE b.size = 0
  <2>1. b.off .. b.off + b.size - 1 = {}
    BY <1>1
  <2> QED BY <1>1, <2>1 DEF Bytes
<1>2. CASE b.size > 0
  <2>1. b.off \in b.off .. b.off + b.size - 1
    BY <1>2
  <2>2. <<b.chunk, b.off>> \in Bytes(b)
    BY <2>1 DEF Bytes
  <2> QED BY <1>2, <2>2
<1> QED BY <1>1, <1>2

(* Blocks that share no reserved byte share no address. *)
LEMMA ApartShareNoByte ==
    ASSUME NEW b, NEW d, b.off \in Nat, b.size \in Nat, d.off \in Nat, d.size \in Nat, Apart(b, d)
    PROVE  Bytes(b) \cap Bytes(d) = {}
<1>1. End(b) >= b.off + b.size /\ End(d) >= d.off + d.size /\ End(b) \in Int /\ End(d) \in Int
  BY AlignUpGrows DEF End
<1>2. CASE b.size = 0 \/ d.size = 0
  BY <1>2, BytesOfBlock
<1>3. CASE b.chunk # d.chunk
  BY <1>3 DEF Bytes
<1>4. CASE End(b) <= d.off \/ End(d) <= b.off
  <2>1. \A i \in b.off .. b.off + b.size - 1 : i \notin d.off .. d.off + d.size - 1
    BY <1>1, <1>4
  <2> QED BY <2>1 DEF Bytes
<1> QED BY <1>2, <1>3, <1>4 DEF Apart

(* A call on a handle leaves the other handles' blocks alone, or the       *)
(* process dies in it and everything stays.                                *)
CallOn(h) ==
    /\ status = "ok"
    /\ \/ status' = "ok" /\ \A g \in Handles \ {h} : own'[g] = own[g]
       \/ status' # "ok" /\ own' = own /\ lost' = lost

LEMMA CallsTouchOne ==
    ASSUME TypeOK, NEW h \in Handles, NEW x, Amalloc(h, x) \/ Arealloc(h, x) \/ Afree(h)
    PROVE  CallOn(h)
<1>1. ASSUME NEW n, Dies(n) PROVE status' # "ok" /\ own' = own /\ lost' = lost
  BY <1>1 DEF Dies, OutOfMemory, NoCurrentChunk, AllocFailType
<1>2. own \in [Handles -> [chunk : Chunks \cup {NULL}, off : Nat, size : Nat]]
  BY DEF TypeOK
<1>3. ASSUME NEW b, own' = [own EXCEPT ![h] = b] PROVE \A g \in Handles \ {h} : own'[g] = own[g]
  BY <1>2, <1>3
<1>4. CASE Amalloc(h, x)
  BY <1>1, <1>3, <1>4 DEF Amalloc, Hand, CallOn
<1>5. CASE Arealloc(h, x) /\ own[h] # Nil
  BY <1>1, <1>3, <1>5 DEF Arealloc, ReallocInPlace, ReallocExtend, ReallocMove, ReallocDies, Hand, CallOn
<1>6. CASE Afree(h)
  BY <1>3, <1>6 DEF Afree, CallOn
<1>7. Amalloc(h, x) \/ (Arealloc(h, x) /\ own[h] # Nil) \/ Afree(h)
  BY DEF Arealloc
<1> QED BY <1>4, <1>5, <1>6, <1>7

(* So a call gives a handle bytes of its own, or lets the process die.     *)
LEMMA CallPlaces ==
    ASSUME IndInv, IndInv', NEW h \in Handles, CallOn(h)
    PROVE  Abs!Place(h) \/ Abs!Die
<1>1. lost = {} /\ lost' = {} /\ status = "ok"
  BY DEF IndInv, ContentsKept, CallOn
<1>2. CASE status' = "ok" /\ \A g \in Handles \ {h} : own'[g] = own[g]
  <2>1. ASSUME NEW g \in Handles \ {h} PROVE Bytes(own'[h]) \cap Bytes(own[g]) = {}
    <3>1. /\ own'[h].off \in Nat /\ own'[h].size \in Nat /\ own'[g].off \in Nat /\ own'[g].size \in Nat
      BY <2>1 DEF IndInv, TypeOK
    <3>2. Apart(own'[h], own'[g])
      BY <2>1 DEF IndInv, Disjoint, Apart, End
    <3>3. Bytes(own'[h]) \cap Bytes(own'[g]) = {}
      BY <3>1, <3>2, ApartShareNoByte
    <3> QED BY <1>2, <2>1, <3>3
  <2> QED BY <1>1, <1>2, <2>1 DEF Abs!Place
<1>3. CASE status' # "ok" /\ own' = own /\ lost' = lost
  BY <1>1, <1>3 DEF Abs!Die
<1> QED BY <1>2, <1>3 DEF CallOn

(* Every step of the arena is a step of the abstract allocator, or none.   *)
LEMMA StepImplements == IndInv /\ IndInv' /\ [Next]_vars => [Abs!AbsNext]_(Abs!absVars)
<1> SUFFICES ASSUME IndInv, IndInv', [Next]_vars PROVE [Abs!AbsNext]_(Abs!absVars)
  OBVIOUS
<1>1. ASSUME NEW h \in Handles, NEW x, Amalloc(h, x) \/ Arealloc(h, x) \/ Afree(h)
      PROVE  Abs!AbsNext
  <2>1. CallOn(h)
    BY <1>1, CallsTouchOne DEF IndInv
  <2>2. Abs!Place(h) \/ Abs!Die
    BY <1>1, <2>1, CallPlaces
  <2> QED BY <1>1, <2>2 DEF Abs!AbsNext
<1>2. CASE destruct_contents
  <2>1. /\ status = "ok" /\ status' = "ok" /\ lost' = lost /\ own' = [h \in Handles |-> Nil]
    BY <1>2 DEF destruct_contents
  <2>2. Bytes(Nil) = {}
    BY BytesOfBlock DEF Nil, Block
  <2>3. Abs!Clear
    BY <2>1, <2>2 DEF Abs!Clear
  <2> QED BY <2>3 DEF Abs!AbsNext
<1>3. CASE UNCHANGED vars
  BY <1>3 DEF vars, Abs!absVars
<1> QED BY <1>1, <1>2, <1>3 DEF Next, Halted

(* Whatever its client calls, and wherever malloc places chunks, an arena  *)
(* is an allocator: it gives each handle addresses that are nobody else's, *)
(* and never touches what another handle owns.                             *)
THEOREM ArenaImplements == Spec => ImplementsAllocator
<1>1. Init => Abs!AbsInit
  <2> SUFFICES ASSUME Init PROVE Abs!AbsInit
    OBVIOUS
  <2>1. own = [h \in Handles |-> Nil] /\ lost = {} /\ status = "ok"
    BY DEF Init
  <2>2. Bytes(Nil) = {}
    BY BytesOfBlock DEF Nil, Block
  <2> QED BY <2>1, <2>2 DEF Abs!AbsInit
<1> QED BY <1>1, StepImplements, Invariance, PTL DEF Spec, ImplementsAllocator, Abs!AbsSpec

-----------------------------------------------------------------------------
(* Sums over finite sets *)

(* Every set of natural numbers that is not empty has a least element. *)
LEMMA LeastNumber ==
    ASSUME NEW T \in SUBSET Nat, T # {}
    PROVE  \E n \in T : \A k \in T : n <= k
<1> DEFINE R == {ss \in Nat \X Nat : ss[1] < ss[2]}
<1>1. IsWellFoundedOn(R, Nat)
  BY NatLessThanWellFounded DEF OpToRel
<1>2. \A k, n \in Nat : <<k, n>> \in R <=> k < n
  OBVIOUS
<1> HIDE DEF R
<1>3. PICK n \in T : \A k \in T : <<k, n>> \notin R
  BY <1>1, WFMin
<1>4. \A k \in T : ~(k < n)
  BY <1>2, <1>3
<1> QED BY <1>4

(* So among subsets of a finite set, some of which have a property, there  *)
(* is one with it of which no smaller subset has it.                       *)
LEMMA LeastSubset ==
    ASSUME NEW S, IsFiniteSet(S), NEW U \in SUBSET (SUBSET S), U # {}
    PROVE  \E T \in U : \A x \in T : T \ {x} \notin U
<1> DEFINE N == {n \in Nat : \E T \in U : Cardinality(T) = n}
<1>1. ASSUME NEW T \in U PROVE IsFiniteSet(T) /\ Cardinality(T) \in Nat
  BY FS_Subset, FS_CardinalityType
<1>2. N # {}
  BY <1>1
<1> HIDE DEF N
<1>3. PICK n \in N : \A k \in N : n <= k
  <2>1. N \in SUBSET Nat
    BY DEF N
  <2> QED BY <1>2, <2>1, LeastNumber
<1>4. PICK T \in U : Cardinality(T) = n
  BY <1>3 DEF N
<1>5. ASSUME NEW x \in T, T \ {x} \in U PROVE FALSE
  <2>1. Cardinality(T \ {x}) = n - 1 /\ n \in Nat
    BY <1>1, <1>4, FS_RemoveElement
  <2>2. Cardinality(T \ {x}) \in N
    BY <1>1, <1>5 DEF N
  <2> QED BY <1>3, <2>1, <2>2
<1> QED BY <1>5

(* The community modules sum over a set with a recursive function g on its *)
(* subsets. Here it is for the numbers f.                                  *)
Some(s) == CHOOSE x \in s : TRUE
Sums(g, f, S) ==
    g = [s \in SUBSET S |-> IF s = {} THEN 0 ELSE f[Some(s)] + g[s \ {Some(s)}]]

(* There is such a function. *)
LEMMA SumsExist ==
    ASSUME NEW S, IsFiniteSet(S), NEW f \in [S -> Nat]
    PROVE  \E g : Sums(g, f, S)
<1> DEFINE Rule(g, s) == IF s = {} THEN 0 ELSE f[Some(s)] + g[s \ {Some(s)}]
           Works(g, n) == \A s \in SUBSET S : Cardinality(s) <= n => g[s] = Rule(g, s)
           N == {n \in Nat : ~ \E g \in [SUBSET S -> Nat] : Works(g, n)}
<1>1. ASSUME NEW s \in SUBSET S PROVE IsFiniteSet(s) /\ Cardinality(s) \in Nat
  BY FS_Subset, FS_CardinalityType
<1>2. ASSUME NEW s \in SUBSET S, s # {}
      PROVE  Some(s) \in s /\ Cardinality(s \ {Some(s)}) = Cardinality(s) - 1
  <2>1. Some(s) \in s
    BY <1>2 DEF Some
  <2> QED BY <1>1, <2>1, FS_RemoveElement
<1>3. 0 \notin N
  <2> DEFINE g == [s \in SUBSET S |-> 0]
  <2>1. g \in [SUBSET S -> Nat]
    OBVIOUS
  <2>2. ASSUME NEW s \in SUBSET S, Cardinality(s) <= 0 PROVE s = {}
    <3>1. Cardinality(s) = 0
      BY <1>1, <2>2
    <3> QED BY <1>1, <3>1, FS_EmptySet
  <2>3. Works(g, 0)
    BY <2>2
  <2> QED BY <2>1, <2>3
<1>4. ASSUME NEW n \in Nat, n \notin N PROVE n + 1 \notin N
  <2>1. PICK g \in [SUBSET S -> Nat] : Works(g, n)
    BY <1>4
  <2> DEFINE h == [s \in SUBSET S |-> IF Cardinality(s) <= n THEN g[s] ELSE Rule(g, s)]
  <2>2. h \in [SUBSET S -> Nat]
    <3>1. ASSUME NEW s \in SUBSET S PROVE Rule(g, s) \in Nat
      <4>1. CASE s = {}
        BY <4>1
      <4>2. CASE s # {}
        <5>1. f[Some(s)] \in Nat /\ g[s \ {Some(s)}] \in Nat
          BY <1>2, <4>2
        <5> QED BY <4>2, <5>1
      <4> QED BY <4>1, <4>2
    <3> HIDE DEF Rule
    <3> QED BY <3>1
  <2>3. ASSUME NEW s \in SUBSET S, Cardinality(s) <= n + 1 PROVE h[s] = Rule(h, s)
    <3>1. h[s] = Rule(g, s)
      BY <2>1
    <3>2. Rule(g, s) = Rule(h, s)
      <4>1. CASE s = {}
        BY <4>1
      <4>2. CASE s # {}
        <5>1. Cardinality(s \ {Some(s)}) <= n
          BY <1>1, <1>2, <2>3, <4>2
        <5>2. s \ {Some(s)} \in SUBSET S
          OBVIOUS
        <5>3. h[s \ {Some(s)}] = g[s \ {Some(s)}]
          BY <5>1, <5>2
        <5> QED BY <4>2, <5>3
      <4> QED BY <4>1, <4>2
    <3> QED BY <3>1, <3>2
  <2> HIDE DEF h
  <2>4. Works(h, n + 1)
    BY <2>3
  <2> QED BY <2>2, <2>4
<1>5. N = {}
  <2> SUFFICES ASSUME N # {} PROVE FALSE
    OBVIOUS
  <2>1. N \in SUBSET Nat
    OBVIOUS
  <2> HIDE DEF N
  <2>2. PICK n \in N : \A k \in N : n <= k
    BY <2>1, LeastNumber
  <2>3. n # 0 /\ n - 1 \in Nat /\ (n - 1) + 1 = n /\ ~(n <= n - 1)
    BY <1>3, <2>1, <2>2
  <2>4. n - 1 \notin N
    BY <2>2, <2>3
  <2> QED BY <1>4, <2>3, <2>4
<1>6. PICK g \in [SUBSET S -> Nat] : Works(g, Cardinality(S))
  <2>1. Cardinality(S) \in Nat
    BY FS_CardinalityType
  <2> QED BY <1>5, <2>1
<1>7. ASSUME NEW s \in SUBSET S PROVE g[s] = Rule(g, s)
  <2>1. Cardinality(s) <= Cardinality(S)
    BY FS_Subset
  <2> QED BY <1>6, <2>1
<1> HIDE DEF Rule
<1>8. g = [s \in SUBSET S |-> Rule(g, s)]
  BY <1>7
<1> QED BY <1>8 DEF Sums, Rule

(* What it says of each subset. *)
StepByStep(g, f, S) ==
    /\ g[{}] = 0
    /\ \A s \in SUBSET S : s # {} =>
          Some(s) \in s /\ g[s] = f[Some(s)] + g[s \ {Some(s)}]
LEMMA SumsStep ==
    ASSUME NEW S, NEW f \in [S -> Nat], NEW g, Sums(g, f, S)
    PROVE  StepByStep(g, f, S)
<1>1. ASSUME NEW s \in SUBSET S
      PROVE  g[s] = IF s = {} THEN 0 ELSE f[Some(s)] + g[s \ {Some(s)}]
  BY Zenon DEF Sums
<1>2. \A s \in SUBSET S : s # {} => Some(s) \in s
  BY DEF Some
<1> QED BY <1>1, <1>2 DEF StepByStep

(* Sums are numbers, *)
LEMMA SumsAreNumbers ==
    ASSUME NEW S, IsFiniteSet(S), NEW f \in [S -> Nat], NEW g, Sums(g, f, S)
    PROVE  \A s \in SUBSET S : g[s] \in Nat
<1>1. StepByStep(g, f, S)
  BY SumsStep
<1> DEFINE U == {s \in SUBSET S : g[s] \notin Nat}
<1> SUFFICES ASSUME U # {} PROVE FALSE
  OBVIOUS
<1>2. PICK s \in U : \A x \in s : s \ {x} \notin U
  <2>1. U \in SUBSET (SUBSET S)
    OBVIOUS
  <2> QED BY <2>1, LeastSubset
<1>3. s \in SUBSET S /\ s # {}
  BY <1>1 DEF StepByStep
<1>4. g[s] = f[Some(s)] + g[s \ {Some(s)}] /\ Some(s) \in s
  <2>1. \A r \in SUBSET S : r # {} => Some(r) \in r /\ g[r] = f[Some(r)] + g[r \ {Some(r)}]
    BY <1>1 DEF StepByStep
  <2> QED BY <1>3, <2>1
<1>5. g[s \ {Some(s)}] \in Nat /\ f[Some(s)] \in Nat
  BY <1>2, <1>3, <1>4
<1> QED BY <1>4, <1>5

(* and do not depend on the element that is taken first. *)
AnyOrder(g, f, S) == \A s \in SUBSET S : \A x \in s : g[s] = f[x] + g[s \ {x}]
LEMMA SumsAnyOrder ==
    ASSUME NEW S, IsFiniteSet(S), NEW f \in [S -> Nat], NEW g, Sums(g, f, S)
    PROVE  AnyOrder(g, f, S)
<1>1. StepByStep(g, f, S)
  BY SumsStep
<1> DEFINE U == {s \in SUBSET S : \E x \in s : g[s] # f[x] + g[s \ {x}]}
<1> SUFFICES ASSUME U # {} PROVE FALSE
  BY DEF AnyOrder
<1>2. PICK s \in U : \A x \in s : s \ {x} \notin U
  <2>1. U \in SUBSET (SUBSET S)
    OBVIOUS
  <2> QED BY <2>1, LeastSubset
<1>3. PICK x \in s : g[s] # f[x] + g[s \ {x}]
  OBVIOUS
<1>4. PICK y \in s : g[s] = f[y] + g[s \ {y}]
  <2>1. \A r \in SUBSET S : r # {} => Some(r) \in r /\ g[r] = f[Some(r)] + g[r \ {Some(r)}]
    BY <1>1 DEF StepByStep
  <2>2. s \in SUBSET S /\ s # {}
    BY <1>3
  <2> QED BY <2>1, <2>2
<1>5. /\ s \ {x} \notin U /\ s \ {y} \notin U /\ x # y
      /\ s \ {x} \in SUBSET S /\ s \ {y} \in SUBSET S /\ (s \ {x}) \ {y} \in SUBSET S
      /\ y \in s \ {x} /\ x \in s \ {y} /\ (s \ {x}) \ {y} = (s \ {y}) \ {x}
  BY <1>2, <1>3, <1>4
<1>6. g[s \ {x}] = f[y] + g[(s \ {x}) \ {y}] /\ g[s \ {y}] = f[x] + g[(s \ {x}) \ {y}]
  BY <1>5
<1>7. f[x] \in Nat /\ f[y] \in Nat /\ g[(s \ {x}) \ {y}] \in Nat
  BY <1>5, SumsAreNumbers
<1> QED BY <1>3, <1>4, <1>6, <1>7

(* Where every number of one sum exceeds the other's by k at least.        *)
LEMMA SumsCompared ==
    ASSUME NEW S, IsFiniteSet(S), NEW f \in [S -> Nat], NEW g, Sums(g, f, S),
           NEW S2, IsFiniteSet(S2), NEW f2 \in [S2 -> Nat], NEW g2, Sums(g2, f2, S2),
           NEW T \in SUBSET S, T \in SUBSET S2, NEW k \in Nat,
           \A x \in T : f[x] + k <= f2[x]
    PROVE  g[T] + k * Cardinality(T) <= g2[T]
<1>1. StepByStep(g, f, S) /\ StepByStep(g2, f2, S2)
  BY SumsStep
<1> DEFINE U == {s \in SUBSET T : ~(g[s] + k * Cardinality(s) <= g2[s])}
<1> SUFFICES ASSUME U # {} PROVE FALSE
  OBVIOUS
<1>2. PICK s \in U : \A x \in s : s \ {x} \notin U
  <2>1. U \in SUBSET (SUBSET S)
    OBVIOUS
  <2> QED BY <2>1, LeastSubset
<1>3. s \in SUBSET S /\ s \in SUBSET S2 /\ s \in SUBSET T /\ s # {}
  <2>1. g[{}] = 0
    BY <1>1 DEF StepByStep
  <2>2. g2[{}] = 0
    BY <1>1 DEF StepByStep
  <2>3. k * Cardinality({}) = 0
    BY FS_EmptySet
  <2>4. {} \notin U
    BY <2>1, <2>2, <2>3
  <2> QED BY <2>4
<1>4. PICK x \in s : TRUE
  BY <1>3
<1>5. g[s] = f[x] + g[s \ {x}] /\ g2[s] = f2[x] + g2[s \ {x}]
  <2>1. AnyOrder(g, f, S) /\ AnyOrder(g2, f2, S2)
    BY SumsAnyOrder
  <2> QED BY <1>3, <2>1 DEF AnyOrder
<1>6. /\ g[s \ {x}] \in Nat /\ g2[s \ {x}] \in Nat /\ f[x] \in Nat /\ f2[x] \in Nat
      /\ f[x] + k <= f2[x]
  BY <1>3, SumsAreNumbers
<1>7. PICK n \in Nat : n = Cardinality(s \ {x}) /\ Cardinality(s) = n + 1
  <2>1. IsFiniteSet(s) /\ Cardinality(s) \in Nat
    BY <1>3, FS_Subset, FS_CardinalityType
  <2>2. IsFiniteSet(s \ {x}) /\ Cardinality(s \ {x}) = Cardinality(s) - 1
    BY <2>1, FS_RemoveElement
  <2>3. Cardinality(s \ {x}) \in Nat
    BY <2>2, FS_CardinalityType
  <2> QED BY <2>1, <2>2, <2>3
<1>8. g[s \ {x}] + k * n <= g2[s \ {x}]
  BY <1>2, <1>3, <1>7
<1>9. k * (n + 1) = k * n + k /\ k * n \in Nat
  BY <1>7
<1>10. g[s] + k * (n + 1) <= g2[s]
  BY <1>5, <1>6, <1>8, <1>9
<1> QED BY <1>7, <1>10

(* Two sums over one set of the same numbers are the same. *)
LEMMA SumsAgree ==
    ASSUME NEW S, IsFiniteSet(S), NEW f \in [S -> Nat], NEW g, Sums(g, f, S),
           NEW S2, IsFiniteSet(S2), NEW f2 \in [S2 -> Nat], NEW g2, Sums(g2, f2, S2),
           NEW T \in SUBSET S, T \in SUBSET S2, \A x \in T : f[x] = f2[x]
    PROVE  g[T] = g2[T]
<1>1. \A x \in T : f[x] + 0 <= f2[x] /\ f2[x] + 0 <= f[x]
  OBVIOUS
<1>2. g[T] + 0 * Cardinality(T) <= g2[T] /\ g2[T] + 0 * Cardinality(T) <= g[T]
  BY <1>1, SumsCompared
<1>3. g[T] \in Nat /\ g2[T] \in Nat /\ Cardinality(T) \in Nat
  BY SumsAreNumbers, FS_Subset, FS_CardinalityType
<1> QED BY <1>2, <1>3

-----------------------------------------------------------------------------
(* size_in_bytes() and used() *)

(* What chunks of lengths hp take, and how much of it is used when chunk c *)
(* is so far as top: the sums of Accounting.                               *)
Footprints(hp, S) == LET Footprint(c) == hp[c] + Overhead IN MapThenSumSet(Footprint, S)
Counts(hp, ch, top, S) ==
    LET Count(c) == IF c = ch THEN top ELSE hp[c] IN MapThenSumSet(Count, S)

(* What chunks take is a sum of numbers. *)
LEMMA FootprintsAreSums ==
    ASSUME NEW S, IsFiniteSet(S), NEW hp, \A c \in S : hp[c] \in Nat,
           NEW f, f = [c \in S |-> hp[c] + Overhead]
    PROVE  /\ f \in [S -> Nat]
           /\ \E g : Sums(g, f, S) /\ Footprints(hp, S) = g[S]
<1> DEFINE P(g) == g = [s \in SUBSET S |->
                          IF s = {} THEN 0 ELSE hp[Some(s)] + Overhead + g[s \ {Some(s)}]]
<1>1. f \in [S -> Nat]
  BY SizesAssumption
<1>2. \A s \in SUBSET S : s # {} => f[Some(s)] = hp[Some(s)] + Overhead
  BY DEF Some
<1>3. \A g : P(g) <=> Sums(g, f, S)
  <2> SUFFICES ASSUME NEW g
               PROVE  [s \in SUBSET S |->
                         IF s = {} THEN 0 ELSE hp[Some(s)] + Overhead + g[s \ {Some(s)}]]
                      = [s \in SUBSET S |-> IF s = {} THEN 0 ELSE f[Some(s)] + g[s \ {Some(s)}]]
    BY DEF Sums
  <2> QED BY <1>2
<1>4. Footprints(hp, S) = (CHOOSE g : P(g))[S]
  BY Zenon DEF Footprints, MapThenSumSet, MapThenFoldSet, Some
<1>5. \E g : P(g)
  BY <1>1, <1>3, SumsExist
<1> HIDE DEF P
<1>6. P(CHOOSE g : P(g))
  BY <1>5, Zenon
<1> QED BY <1>1, <1>3, <1>4, <1>6

(* So it is with what is used of them. *)
LEMMA CountsAreSums ==
    ASSUME NEW S, IsFiniteSet(S), NEW hp, \A c \in S : hp[c] \in Nat, NEW ch, NEW top \in Nat,
           NEW f, f = [c \in S |-> IF c = ch THEN top ELSE hp[c]]
    PROVE  /\ f \in [S -> Nat]
           /\ \E g : Sums(g, f, S) /\ Counts(hp, ch, top, S) = g[S]
<1> DEFINE Count(c) == IF c = ch THEN top ELSE hp[c]
           P(g) == g = [s \in SUBSET S |->
                          IF s = {} THEN 0 ELSE Count(Some(s)) + g[s \ {Some(s)}]]
<1>1. f \in [S -> Nat]
  OBVIOUS
<1>2. \A s \in SUBSET S : s # {} => f[Some(s)] = Count(Some(s))
  BY DEF Some
<1>3. \A g : P(g) <=> Sums(g, f, S)
  <2> HIDE DEF Count
  <2> SUFFICES ASSUME NEW g
               PROVE  [s \in SUBSET S |->
                         IF s = {} THEN 0 ELSE Count(Some(s)) + g[s \ {Some(s)}]]
                      = [s \in SUBSET S |-> IF s = {} THEN 0 ELSE f[Some(s)] + g[s \ {Some(s)}]]
    BY DEF Sums
  <2> QED BY <1>2
<1>4. Counts(hp, ch, top, S) = (CHOOSE g : P(g))[S]
  BY Zenon DEF Counts, MapThenSumSet, MapThenFoldSet, Some
<1>5. \E g : P(g)
  BY <1>1, <1>3, SumsExist
<1> HIDE DEF P
<1>6. P(CHOOSE g : P(g))
  BY <1>5, Zenon
<1> QED BY <1>1, <1>3, <1>4, <1>6

(* No chunk takes nothing; one more takes its length and a header.         *)
LEMMA FootprintsGrow ==
    ASSUME NEW S, IsFiniteSet(S), NEW hp, \A c \in S : hp[c] \in Nat
    PROVE  /\ Footprints(hp, {}) = 0
           /\ Footprints(hp, S) \in Nat
           /\ \A hp2, k : k \notin S /\ (\A c \in S : hp2[c] = hp[c]) /\ hp2[k] \in Nat
                 => Footprints(hp2, S \cup {k}) = Footprints(hp, S) + hp2[k] + Overhead
<1>1. Footprints(hp, {}) = 0
  <2>1. IsFiniteSet({}) /\ \A c \in {} : hp[c] \in Nat
    BY FS_EmptySet
  <2>2. PICK f : f = [c \in {} |-> hp[c] + Overhead]
    OBVIOUS
  <2>3. PICK g : Sums(g, f, {}) /\ Footprints(hp, {}) = g[{}] /\ f \in [{} -> Nat]
    BY <2>1, <2>2, FootprintsAreSums
  <2> QED BY <2>3, SumsStep DEF StepByStep
<1>2. PICK f, g : /\ f = [c \in S |-> hp[c] + Overhead] /\ f \in [S -> Nat]
                  /\ Sums(g, f, S) /\ Footprints(hp, S) = g[S]
  <2>1. PICK f : f = [c \in S |-> hp[c] + Overhead]
    OBVIOUS
  <2> QED BY <2>1, FootprintsAreSums
<1>3. g[S] \in Nat
  BY <1>2, SumsAreNumbers
<1>4. ASSUME NEW hp2, NEW k, k \notin S, \A c \in S : hp2[c] = hp[c], hp2[k] \in Nat
      PROVE  Footprints(hp2, S \cup {k}) = g[S] + hp2[k] + Overhead
  <2>1. PICK T : T = S \cup {k} /\ IsFiniteSet(T) /\ S = T \ {k} /\ S \in SUBSET T /\ k \in T
    <3>1. IsFiniteSet(S \cup {k})
      BY FS_AddElement
    <3>2. S = (S \cup {k}) \ {k} /\ S \in SUBSET (S \cup {k}) /\ k \in S \cup {k}
      BY <1>4
    <3> QED BY <3>1, <3>2
  <2>2. \A c \in T : hp2[c] \in Nat
    BY <1>4, <2>1
  <2>3. PICK f2, g2 : /\ f2 = [c \in T |-> hp2[c] + Overhead] /\ f2 \in [T -> Nat]
                      /\ Sums(g2, f2, T) /\ Footprints(hp2, T) = g2[T]
    <3>1. PICK f2 : f2 = [c \in T |-> hp2[c] + Overhead]
      OBVIOUS
    <3> QED BY <2>1, <2>2, <3>1, FootprintsAreSums
  <2>4. g2[T] = f2[k] + g2[S]
    <3>1. AnyOrder(g2, f2, T)
      BY <2>1, <2>3, SumsAnyOrder
    <3> QED BY <2>1, <3>1 DEF AnyOrder
  <2>5. g2[S] = g[S]
    <3>1. \A x \in S : f2[x] = f[x]
      BY <1>2, <1>4, <2>1, <2>3
    <3>2. S \in SUBSET S /\ S \in SUBSET T /\ IsFiniteSet(T)
      BY <2>1
    <3>3. f2 \in [T -> Nat] /\ Sums(g2, f2, T) /\ f \in [S -> Nat] /\ Sums(g, f, S)
      BY <1>2, <2>3
    <3> QED BY <3>1, <3>2, <3>3, SumsAgree
  <2>6. f2[k] = hp2[k] + Overhead
    BY <2>1, <2>3
  <2> QED BY <1>3, <1>4, <2>1, <2>3, <2>4, <2>5, <2>6, SizesAssumption
<1> QED BY <1>1, <1>2, <1>3, <1>4

(* Lengths that agree on the chunks take the same. *)
LEMMA FootprintsSame ==
    ASSUME NEW S, IsFiniteSet(S), NEW hp, NEW hp2, \A c \in S : hp[c] \in Nat /\ hp2[c] = hp[c]
    PROVE  Footprints(hp2, S) = Footprints(hp, S)
<1>1. PICK f : f = [c \in S |-> hp[c] + Overhead] /\ f = [c \in S |-> hp2[c] + Overhead]
  OBVIOUS
<1>2. f \in [S -> Nat] /\ \E g : Sums(g, f, S) /\ Footprints(hp, S) = g[S]
  BY <1>1, FootprintsAreSums
<1>3. \E g : Sums(g, f, S) /\ Footprints(hp2, S) = g[S]
  BY <1>1, FootprintsAreSums
<1> QED BY <1>2, <1>3, SumsAgree

(* What is used of chunks, and a header for each, is not more than they    *)
(* take.                                                                   *)
LEMMA UsedFits ==
    ASSUME NEW S, IsFiniteSet(S), NEW hp, \A c \in S : hp[c] \in Nat, NEW ch, NEW top \in Nat,
           ch \in S => top <= hp[ch]
    PROVE  Counts(hp, ch, top, S) + Overhead * Cardinality(S) <= Footprints(hp, S)
<1>1. PICK f, f2 : /\ f = [c \in S |-> IF c = ch THEN top ELSE hp[c]]
                   /\ f2 = [c \in S |-> hp[c] + Overhead]
  OBVIOUS
<1>2. f \in [S -> Nat] /\ \E g : Sums(g, f, S) /\ Counts(hp, ch, top, S) = g[S]
  BY <1>1, CountsAreSums
<1>3. f2 \in [S -> Nat] /\ \E g : Sums(g, f2, S) /\ Footprints(hp, S) = g[S]
  BY <1>1, FootprintsAreSums
<1>4. \A c \in S : f[c] + Overhead <= f2[c] /\ Overhead \in Nat
  BY <1>1, SizesAssumption
<1>5. Overhead \in Nat
  BY SizesAssumption
<1> QED BY <1>2, <1>3, <1>4, <1>5, SumsCompared

(* What the constructors and grow() count up to is what the chunks take.   *)
Balance == size_in_bytes = Footprints(heap, Allocated)

(* As many chunks as the list is long. *)
LEMMA ChainCounts ==
    ASSUME TypeOK, Ownership
    PROVE  IsFiniteSet(Linked) /\ Cardinality(Linked) = Len(chain)
<1>1. Len(chain) \in Nat /\ chain \in Seq(Chunks)
  BY DEF TypeOK
<1>2. IsFiniteSet(1..Len(chain)) /\ Cardinality(1..Len(chain)) = Len(chain)
  BY <1>1, FS_Interval
<1>3. PICK f : f = [i \in 1..Len(chain) |-> chain[i]]
  OBVIOUS
<1>4. f \in Surjection(1..Len(chain), Linked)
  BY <1>3 DEF Surjection, Linked
<1>5. f \in Injection(1..Len(chain), Linked)
  BY <1>3, <1>4 DEF Surjection, Injection, IsInjective, Ownership
<1> QED BY <1>2, <1>4, <1>5, FS_Surjection

(* Where the counter is right, Accounting holds. *)
LEMMA BalanceAccounts ==
    ASSUME TypeOK, Ownership, InBounds, Balance
    PROVE  Accounting
<1>1. IsFiniteSet(Linked) /\ Cardinality(Linked) = Len(chain) /\ Linked = Allocated
  BY ChainCounts DEF Ownership
<1>2. \A c \in Linked : heap[c] \in Nat
  BY <1>1 DEF TypeOK, Allocated
<1>3. hwm \in Nat /\ (chunk \in Linked => hwm <= heap[chunk])
  BY <1>1, ChunksAssumption DEF TypeOK, Ownership, InBounds, Allocated
<1>4. Counts(heap, chunk, hwm, Linked) + Overhead * Cardinality(Linked) <= Footprints(heap, Linked)
  BY <1>1, <1>2, <1>3, UsedFits
<1>5. used = Counts(heap, chunk, hwm, Linked)
  BY Zenon DEF used, Counts
<1>6. size_in_bytes = (LET Footprint(c) == heap[c] + Overhead IN MapThenSumSet(Footprint, Allocated))
  BY Zenon DEF Balance, Footprints
<1>7. used + Overhead * Len(chain) <= size_in_bytes
  BY <1>1, <1>4, <1>5 DEF Balance
<1> QED BY <1>6, <1>7, Zenon DEF Accounting

(* No call on a handle changes what it counts, except that grow() links a  *)
(* new chunk.                                                              *)
Grows == \E k \in Chunks, len \in Nat \ {0} : (chain = <<>> \/ chunk # NULL) /\ Link(k, len)

LEMMA CallsGrow ==
    ASSUME NEW h \in Handles, NEW x \in Nat, Amalloc(h, x) \/ Arealloc(h, x) \/ Afree(h)
    PROVE  UNCHANGED <<size_in_bytes, heap>> \/ Grows
<1>1. ASSUME NEW n \in Nat, NEW c \in Chunks \cup {NULL}, NEW o, Allocate(n, c, o)
      PROVE  UNCHANGED <<size_in_bytes, heap>> \/ Grows
  BY <1>1, NewLengthHolds DEF Allocate, area, Grows
<1>2. ASSUME NEW n, Dies(n) PROVE UNCHANGED <<size_in_bytes, heap>>
  BY <1>2 DEF Dies, area
<1>3. AlignUp(x) \in Nat /\ AlignUp(AlignUp(x)) \in Nat
  BY AlignUpGrows
<1>4. CASE Amalloc(h, x)
  BY <1>1, <1>2, <1>3, <1>4 DEF Amalloc
<1>5. CASE Arealloc(h, x) /\ own[h] # Nil
  <2>1. CASE ReallocInPlace(h, x) \/ ReallocExtend(h, x)
    BY <2>1 DEF ReallocInPlace, ReallocExtend, area
  <2>2. CASE \E c \in Chunks \cup {NULL}, o \in {0, hwm} : ReallocMove(h, x, c, o)
    BY <1>1, <1>3, <2>2 DEF ReallocMove
  <2>3. CASE ReallocDies(h, x)
    BY <1>2, <2>3 DEF ReallocDies
  <2> QED BY <1>5, <2>1, <2>2, <2>3 DEF Arealloc
<1>6. CASE Afree(h)
  BY <1>6 DEF Afree, area
<1> QED BY <1>4, <1>5, <1>6 DEF Arealloc

(* Linking keeps the counter right, as does leaving all as it is, *)
LEMMA GrowthBalances ==
    ASSUME TypeOK, Ownership, Balance, UNCHANGED <<size_in_bytes, heap>> \/ Grows
    PROVE  Balance'
<1>1. CASE UNCHANGED <<size_in_bytes, heap>>
  BY <1>1 DEF Balance, Allocated
<1>2. CASE Grows
  <2>1. PICK k \in Chunks, len \in Nat \ {0} : (chain = <<>> \/ chunk # NULL) /\ Link(k, len)
    BY <1>2 DEF Grows
  <2>2. k \notin Linked /\ Linked' = Linked \cup {k} /\ Ownership'
    BY <2>1, LinkAppends
  <2>3. PICK S : S = Allocated /\ IsFiniteSet(S) /\ k \notin S /\ Allocated' = S \cup {k}
    BY <2>2, ChainCounts DEF Ownership
  <2>4. heap \in [Chunks -> Nat] /\ heap' = [heap EXCEPT ![k] = len] /\ heap'[k] = len
    BY <2>1 DEF TypeOK, Link
  <2>5. PICK hp, hp2 : hp = heap /\ hp2 = heap'
    OBVIOUS
  <2>6. /\ \A c \in S : hp[c] \in Nat /\ hp2[c] = hp[c]
        /\ hp2[k] = len /\ hp2[k] \in Nat
    BY <2>3, <2>4, <2>5 DEF Allocated
  <2>7. Footprints(hp2, S \cup {k}) = Footprints(hp, S) + len + Overhead
    BY <2>3, <2>6, FootprintsGrow
  <2>8. size_in_bytes' = Footprints(hp, S) + len + Overhead
    BY <2>1, <2>3, <2>5 DEF Balance, Link
  <2> QED BY <2>3, <2>5, <2>7, <2>8 DEF Balance
<1> QED BY <1>1, <1>2

(* and as do the constructors and destruct_contents. *)
LEMMA FreshBalances ==
    /\ Init => Balance
    /\ TypeOK /\ Ownership /\ destruct_contents => Balance'
<1>1. \A hp : Footprints(hp, {}) = 0
  <2>1. IsFiniteSet({}) /\ \A hp : \A c \in {} : hp[c] \in Nat
    BY FS_EmptySet
  <2> QED BY <2>1, FootprintsGrow
<1>2. ASSUME NEW k, NEW hp, hp[k] \in Nat PROVE Footprints(hp, {k}) = hp[k] + Overhead
  <2>1. IsFiniteSet({}) /\ \A c \in {} : hp[c] \in Nat
    BY FS_EmptySet
  <2>2. Footprints(hp, {} \cup {k}) = Footprints(hp, {}) + hp[k] + Overhead
    BY <1>2, <2>1, FootprintsGrow
  <2>3. {} \cup {k} = {k} /\ Overhead \in Nat
    BY SizesAssumption
  <2> QED BY <1>1, <1>2, <2>2, <2>3
<1>3. ASSUME Init PROVE Balance
  <2>1. PICK s \in InitSizes :
          \/ /\ s = 0 /\ size_in_bytes = 0 /\ heap = [c \in Chunks |-> 0]
          \/ /\ s # 0
             /\ \E k \in Chunks : /\ size_in_bytes = s + Overhead
                                  /\ heap = [c \in Chunks |-> IF c = k THEN s ELSE 0]
    BY <1>3 DEF Init
  <2>2. s \in Nat
    BY SizesAssumption
  <2>3. CASE s = 0
    <3>1. Allocated = {}
      BY <2>1, <2>3 DEF Allocated
    <3> QED BY <1>1, <2>1, <2>3, <3>1 DEF Balance
  <2>4. CASE s # 0
    <3>1. PICK k \in Chunks : /\ size_in_bytes = s + Overhead
                              /\ heap = [c \in Chunks |-> IF c = k THEN s ELSE 0]
      BY <2>1, <2>4
    <3>2. Allocated = {k} /\ heap[k] = s
      BY <2>2, <2>4, <3>1 DEF Allocated
    <3> QED BY <1>2, <2>2, <3>1, <3>2 DEF Balance
  <2> QED BY <2>3, <2>4
<1>4. ASSUME TypeOK, Ownership, destruct_contents PROVE Balance'
  <2>1. Allocated' = {} /\ size_in_bytes' = 0
    BY <1>4 DEF TypeOK, Ownership, Allocated, destruct_contents, Deleted
  <2> QED BY <1>1, <2>1 DEF Balance
<1> QED BY <1>3, <1>4

(* The counter that grow() and the constructors keep by increments is at   *)
(* all times what the malloc'ed chunks take, and used() fits in it.        *)
THEOREM BytesAccounted == Spec => []Accounting
<1>1. Init => Balance
  BY FreshBalances
<1>2. IndInv /\ IndInv' /\ Balance /\ [Next]_vars => Balance'
  <2> SUFFICES ASSUME IndInv, IndInv', Balance, [Next]_vars PROVE Balance'
    OBVIOUS
  <2>1. TypeOK /\ Ownership
    BY DEF IndInv
  <2>2. ASSUME NEW h \in Handles, NEW x \in Sizes, Amalloc(h, x) \/ Arealloc(h, x)
        PROVE  Balance'
    BY <2>1, <2>2, CallsGrow, GrowthBalances, SizesAssumption
  <2>3. ASSUME NEW h \in Handles, Afree(h)
        PROVE  Balance'
    BY <2>1, <2>3, GrowthBalances DEF Afree, area
  <2>4. CASE destruct_contents
    BY <2>1, <2>4, FreshBalances
  <2>5. CASE UNCHANGED vars
    BY <2>1, <2>5, GrowthBalances DEF vars
  <2> QED BY <2>2, <2>3, <2>4, <2>5 DEF Next, Halted
<1>3. IndInv /\ Balance => Accounting
  BY BalanceAccounts DEF IndInv
<1> QED BY <1>1, <1>2, <1>3, Invariance, PTL DEF Spec

=============================================================================
