------------------------ MODULE GrowableArray_proofs ------------------------
(***************************************************************************)
(* Proofs about GrowableArray, for any arrays, blocks, values and bounds.  *)
(* The inductive invariant says of every array what memory holds for it,   *)
(* of any two arrays that they share no block, and of memory that nothing  *)
(* leaks; all but two of the calls rewrite the cells of one array's block, *)
(* after grow() made sure that there are enough of them.                   *)
(***************************************************************************)
EXTENDS GrowableArray, SequenceTheorems, WellFoundedInduction, TLAPS

Cells == [in : Storage \cup {"free"}, scope : 0..MaxMarks, cells : Seq(Values \cup {Fresh})]

(* In memory m, an array with fields r holds the values s. *)
Holds(m, r, s) ==
    /\ r.len <= r.max
    /\ r.where # "stack" => r.scope = 0
    /\ r.data = NULL => r.max = 0
    /\ r.data # NULL =>
          /\ m[r.data].in = r.where /\ m[r.data].scope = r.scope
          /\ Len(m[r.data].cells) = r.max
    /\ Len(s) = r.len
    /\ \A i \in 1..r.len : m[r.data].cells[i] = s[i]

Typed ==
    /\ arr \in [Arrays -> {NULL} \cup ArrayFields]
    /\ mem \in [Blocks -> Cells]
    /\ depth \in 0..MaxMarks
    /\ expected \in [Arrays -> Seq(Values)]

Unshared == \A a, c \in Live : a # c /\ arr[a].data # NULL => arr[c].data # arr[a].data

ArrayInv ==
    /\ Typed
    /\ \A a \in Live : Holds(mem, arr[a], expected[a])
    /\ Unshared
    /\ HeapExact

-----------------------------------------------------------------------------
(* Arrays and memory *)

(* An array that exists has fields of their types. *)
LEMMA LiveFields ==
    ASSUME Typed, NEW a \in Live
    PROVE  /\ arr[a] \in ArrayFields /\ arr[a] # NULL /\ expected[a] \in Seq(Values)
           /\ arr[a].len \in 0..MaxSize /\ arr[a].max \in 0..MaxSize
           /\ arr[a].data \in Blocks \cup {NULL} /\ arr[a].where \in Storage
           /\ arr[a].scope \in 0..MaxMarks
<1>1. arr[a] \in ArrayFields /\ arr[a] # NULL /\ expected[a] \in Seq(Values)
  BY DEF Typed, Live
<1> QED BY <1>1 DEF ArrayFields

(* The bounds are numbers, and nullptr is not the address of a block.      *)
LEMMA Bounds ==
    /\ MaxSize \in Nat /\ MaxMarks \in Nat /\ NULL \notin Blocks
    /\ \A r \in ArrayFields : r # NULL
  BY BoundsAssumption, NullAssumption

(* The end of an array's life, or a new array, for the others: they keep   *)
(* what they hold when their blocks keep their contents.                   *)
LEMMA HoldsStill ==
    ASSUME NEW m1, NEW m2, NEW r, NEW s, Holds(m1, r, s), r.len \in Nat,
           r.data # NULL => m2[r.data] = m1[r.data]
    PROVE  Holds(m2, r, s)
BY DEF Holds

(* One array changes: memory has what it holds, its old block is given     *)
(* back if it was malloc'ed and is not used any more, and no other block   *)
(* changes.                                                                *)
LEMMA ArrayChanges ==
    ASSUME ArrayInv, NEW a \in Live, NEW r \in ArrayFields, NEW s \in Seq(Values),
           NEW m \in [Blocks -> Cells],
           arr' = [arr EXCEPT ![a] = r], expected' = [expected EXCEPT ![a] = s],
           mem' = m, depth' = depth,
           r.where = arr[a].where, Holds(m, r, s),
           r.data # NULL => \A c \in Live \ {a} : arr[c].data # r.data,
           \A x \in Blocks \ {r.data} : m[x] = mem[x] \/ (m[x].in = "free" /\ x = arr[a].data),
           r.where = "C_heap" /\ arr[a].data \in Blocks \ {r.data} => m[arr[a].data].in = "free"
    PROVE  ArrayInv'
<1>1. a \in Arrays /\ r # NULL
  BY Bounds DEF Live
<1>2. /\ arr' \in [Arrays -> {NULL} \cup ArrayFields] /\ arr'[a] = r
      /\ \A c \in Arrays \ {a} : arr'[c] = arr[c]
      /\ expected' \in [Arrays -> Seq(Values)] /\ expected'[a] = s
      /\ \A c \in Arrays \ {a} : expected'[c] = expected[c]
  BY <1>1 DEF ArrayInv, Typed
<1>3. Live' = Live
  BY <1>1, <1>2 DEF Live
<1>4. Typed'
  BY <1>2 DEF ArrayInv, Typed
<1>5. ASSUME NEW c \in Live \ {a}
      PROVE  Holds(m, arr[c], expected[c])
  <2>1. Holds(mem, arr[c], expected[c]) /\ arr[c].data \in Blocks \cup {NULL} /\ arr[c].len \in Nat
    BY LiveFields DEF ArrayInv
  <2>2. arr[c].data # NULL => arr[a].data # arr[c].data /\ arr[c].data # r.data
    BY DEF ArrayInv, Unshared
  <2>3. arr[c].data # NULL => m[arr[c].data] = mem[arr[c].data]
    BY <2>1, <2>2
  <2> QED BY <2>1, <2>3, HoldsStill DEF Holds
<1>6. \A c \in Live' : Holds(mem, arr[c], expected[c])'
  BY <1>2, <1>3, <1>5 DEF Live, Holds
<1>7. Unshared'
  BY <1>2, <1>3 DEF ArrayInv, Unshared, Live
<1>8. HeapExact'
  <2> SUFFICES ASSUME NEW x \in Blocks, m[x].in = "C_heap"
               PROVE  \E c \in Live : arr'[c].where = "C_heap" /\ arr'[c].data = x
    BY <1>3 DEF HeapExact
  <2>1. CASE x = r.data
    <3>1. r.data # NULL
      BY <2>1, Bounds
    <3> QED BY <1>2, <2>1, <3>1 DEF Holds
  <2>2. CASE x # r.data
    <3>1. m[x] = mem[x]
      BY <2>2
    <3>2. PICK c \in Live : arr[c].where = "C_heap" /\ arr[c].data = x
      BY <3>1 DEF ArrayInv, HeapExact
    <3>3. c # a
      BY <2>2, <3>2
    <3> QED BY <1>2, <3>2, <3>3 DEF Live
  <2> QED BY <2>1, <2>2
<1> QED BY <1>4, <1>6, <1>7, <1>8 DEF ArrayInv

-----------------------------------------------------------------------------
(* grow *)

(* What an array and memory are like when there is room for index j.       *)
LEMMA Ensured ==
    ASSUME ArrayInv, NEW a \in Live, NEW j \in Nat, NEW b \in Blocks \cup {NULL}, NEW n \in 1..MaxSize,
           Ensure(arr[a], j, b, n), NEW m, m = Memory(arr[a], j, b, n)
    PROVE  /\ b \in Blocks /\ n > j /\ m \in [Blocks -> Cells]
           /\ arr[a].len <= n
           /\ m[b].in = arr[a].where /\ m[b].scope = arr[a].scope /\ Len(m[b].cells) = n
           /\ \A i \in 1..arr[a].len : m[b].cells[i] = expected[a][i]
           /\ \A c \in Live \ {a} : arr[c].data # b
           /\ \A x \in Blocks \ {b} : m[x] = mem[x] \/ (m[x].in = "free" /\ x = arr[a].data)
           /\ arr[a].where = "C_heap" /\ arr[a].data \in Blocks \ {b} => m[arr[a].data].in = "free"
           /\ (arr[a].where # "C_heap" \/ j < arr[a].max) /\ arr[a].data \in Blocks =>
                 m[arr[a].data] = mem[arr[a].data]
<1> DEFINE r == arr[a]
<1>1. /\ r \in ArrayFields /\ r.len \in Nat /\ r.max \in Nat /\ r.max <= MaxSize
      /\ r.data \in Blocks \cup {NULL} /\ r.where \in Storage /\ r.scope \in 0..MaxMarks
      /\ Holds(mem, r, expected[a]) /\ r.len <= r.max /\ MaxSize \in Nat
  BY LiveFields, Bounds DEF ArrayInv, Holds
<1>2. mem \in [Blocks -> Cells]
  BY DEF ArrayInv, Typed
<1>3. CASE j < r.max
  <2>1. b = r.data /\ n = r.max /\ m = mem
    BY <1>3 DEF Ensure, Memory
  <2>2. b \in Blocks
    BY <1>1, <1>3, <2>1 DEF Holds
  <2>3. b # NULL
    BY <2>2, Bounds
  <2> QED BY <1>1, <1>2, <1>3, <2>1, <2>2, <2>3 DEF Holds, ArrayInv, Unshared
<1>4. CASE ~(j < r.max)
  <2>1. b \in Blocks /\ mem[b].in = "free" /\ InScope(r) /\ n > j
    BY <1>1, <1>4 DEF Ensure, FreeBlocks, Free, Doubled
  <2> DEFINE cells == Moved(r, n)
             h == Holding(r.where, cells)
             m1 == [mem EXCEPT ![b] = h]
  <2>2. m = Freed(m1, r)
    BY <1>4 DEF Memory
  <2>3. r.data # NULL => r.data # b /\ mem[r.data].in = r.where
    BY <1>1, <2>1 DEF Holds, Storage
  <2>4. ASSUME NEW i \in 1..r.len
        PROVE  Read(mem, r.data, i) = expected[a][i] /\ expected[a][i] \in Values
    <3>1. r.data # NULL
      BY <1>1 DEF Holds
    <3>2. Len(mem[r.data].cells) = r.max /\ mem[r.data] \in Cells
      BY <1>1, <1>2, <3>1 DEF Holds
    <3>3. i \in DOMAIN mem[r.data].cells
      BY <1>1, <3>2 DEF Cells
    <3>4. expected[a][i] \in Values
      <4>1. expected[a] \in Seq(Values) /\ Len(expected[a]) = r.len
        BY <1>1, LiveFields DEF ArrayInv, Holds
      <4> QED BY <4>1
    <3> QED BY <1>1, <3>1, <3>3, <3>4 DEF Read, Holds
  <2>5. /\ cells \in Seq(Values \cup {Fresh}) /\ Len(cells) = n
        /\ \A i \in 1..r.len : cells[i] = expected[a][i]
    <3>1. n \in Nat /\ n >= r.len
      BY <1>1, <1>4, <2>1
    <3>2. cells = [i \in 1..n |-> IF i <= r.len THEN Read(mem, r.data, i) ELSE Fresh]
      BY DEF Moved
    <3>3. \A i \in 1..n : i <= r.len => i \in 1..r.len
      BY <1>1
    <3>4. cells \in [1..n -> Values \cup {Fresh}]
      BY <2>4, <3>2, <3>3
    <3>5. \A i \in 1..r.len : i \in 1..n /\ cells[i] = Read(mem, r.data, i)
      BY <1>1, <3>1, <3>2
    <3> HIDE DEF cells
    <3> QED BY <2>4, <3>1, <3>4, <3>5
  <2> HIDE DEF cells
  <2>6. h \in Cells /\ h.in = r.where /\ h.scope = r.scope /\ h.cells = cells
    <3>1. r.where = "stack" => r.scope = depth
      BY <2>1 DEF InScope
    <3>2. r.where # "stack" => r.scope = 0
      BY <1>1 DEF Holds
    <3> QED BY <1>1, <2>5, <3>1, <3>2 DEF Cells, Holding
  <2> HIDE DEF h
  <2>7. m1 \in [Blocks -> Cells] /\ m1[b] = h /\ \A x \in Blocks \ {b} : m1[x] = mem[x]
    BY <1>2, <2>1, <2>6
  <2>8. Free \in Cells /\ Free.in = "free"
    BY Bounds DEF Free, Cells
  <2> HIDE DEF m1
  <2>9. /\ m \in [Blocks -> Cells] /\ m[b] = h
        /\ \A x \in Blocks \ {b} : m[x] = m1[x] \/ (m[x] = Free /\ x = r.data)
        /\ r.where = "C_heap" /\ r.data \in Blocks => m[r.data] = Free
        /\ r.where # "C_heap" => m = m1
    <3>1. CASE r.where = "C_heap" /\ r.data # NULL
      <4>1. m = [m1 EXCEPT ![r.data] = Free] /\ r.data \in Blocks /\ r.data # b
        BY <1>1, <2>2, <2>3, <3>1 DEF Freed
      <4> QED BY <2>1, <2>7, <2>8, <3>1, <4>1
    <3>2. CASE ~(r.where = "C_heap" /\ r.data # NULL)
      BY <2>2, <2>7, <3>2, Bounds DEF Freed
    <3> QED BY <3>1, <3>2
  <2>10. \A c \in Live \ {a} : arr[c].data # b
    <3> SUFFICES ASSUME NEW c \in Live \ {a}, arr[c].data = b PROVE FALSE
      OBVIOUS
    <3>1. Holds(mem, arr[c], expected[c]) /\ arr[c].where \in Storage /\ arr[c].data # NULL
      BY <2>1, LiveFields, Bounds DEF ArrayInv
    <3> QED BY <2>1, <3>1 DEF Holds, Storage
  <2>11. r.len <= n
    BY <1>1, <1>4, <2>1
  <2>12. arr[a].where # "C_heap" /\ arr[a].data \in Blocks => m[arr[a].data] = mem[arr[a].data]
    BY <2>3, <2>7, <2>9, Bounds
  <2> QED BY <1>4, <2>1, <2>5, <2>6, <2>7, <2>8, <2>9, <2>10, <2>11, <2>12
<1> QED BY <1>3, <1>4

(* Memory with these cells in block b, and an array of this length.        *)
Written(m, b, cs) == [m EXCEPT ![b].cells = cs]
OfLength(r, len) == [r EXCEPT !.len = len]

(* Calls that write to the block of an array that has room for index j     *)
(* leave it with these cells and values.                                   *)
LEMMA Rewritten ==
    ASSUME ArrayInv, NEW a \in Live, NEW j \in Nat, NEW b \in Blocks \cup {NULL}, NEW n \in 1..MaxSize,
           Ensure(arr[a], j, b, n), NEW m, m = Memory(arr[a], j, b, n),
           NEW cs \in Seq(Values \cup {Fresh}), Len(cs) = n,
           NEW s \in Seq(Values), NEW len \in 0..n, Len(s) = len, \A i \in 1..len : cs[i] = s[i],
           mem' = Written(m, b, cs),
           arr' = [arr EXCEPT ![a] = OfLength(Grown(arr[a], j, b, n), len)],
           expected' = [expected EXCEPT ![a] = s], depth' = depth
    PROVE  ArrayInv'
<1>1. /\ b \in Blocks /\ m \in [Blocks -> Cells]
      /\ m[b].in = arr[a].where /\ m[b].scope = arr[a].scope
      /\ \A c \in Live \ {a} : arr[c].data # b
      /\ \A x \in Blocks \ {b} : m[x] = mem[x] \/ (m[x].in = "free" /\ x = arr[a].data)
      /\ arr[a].where = "C_heap" /\ arr[a].data \in Blocks \ {b} => m[arr[a].data].in = "free"
  BY Ensured
<1>2. /\ arr[a] \in ArrayFields /\ Holds(mem, arr[a], expected[a]) /\ MaxSize \in Nat
      /\ b # NULL
  BY <1>1, LiveFields, Bounds DEF ArrayInv
<1> DEFINE g1 == [arr[a] EXCEPT !.data = b]
           g == Grown(arr[a], j, b, n)
           r == OfLength(g, len)
           m2 == Written(m, b, cs)
<1>3. g \in ArrayFields /\ g.data = b /\ g.max = n /\ g.where = arr[a].where /\ g.scope = arr[a].scope
  <2>1. g1 \in ArrayFields /\ g1.data = b /\ g1.where = arr[a].where /\ g1.scope = arr[a].scope
    BY <1>1, <1>2 DEF ArrayFields
  <2>2. g = [g1 EXCEPT !.max = n]
    BY <1>2 DEF Grown, ArrayFields
  <2>3. n \in 0..MaxSize
    BY <1>2
  <2> HIDE DEF g1
  <2> QED BY <2>1, <2>2, <2>3 DEF ArrayFields
<1> HIDE DEF g
<1>4. r \in ArrayFields /\ r.len = len /\ r.data = b /\ r.max = n /\ r.where = arr[a].where /\ r.scope = arr[a].scope
  <2>1. len \in 0..MaxSize
    BY <1>2
  <2> QED BY <1>3, <2>1 DEF ArrayFields, OfLength
<1>5. m[b] \in Cells /\ [m[b] EXCEPT !.cells = cs] \in Cells
  <2>1. m[b] \in Cells
    BY <1>1
  <2> QED BY <2>1 DEF Cells
<1>6. /\ m2 \in [Blocks -> Cells] /\ m2[b].cells = cs /\ m2[b].in = m[b].in /\ m2[b].scope = m[b].scope
      /\ \A x \in Blocks \ {b} : m2[x] = m[x]
  BY <1>1, <1>5 DEF Cells, Written
<1> HIDE DEF m2
<1>7. Holds(m2, r, s)
  BY <1>1, <1>2, <1>4, <1>6 DEF Holds
<1>8. arr' = [arr EXCEPT ![a] = r] /\ mem' = m2
  BY DEF g, m2
<1> HIDE DEF r
<1>9. /\ \A c \in Live \ {a} : arr[c].data # r.data
      /\ \A x \in Blocks \ {r.data} : m2[x] = mem[x] \/ (m2[x].in = "free" /\ x = arr[a].data)
      /\ r.where = "C_heap" /\ arr[a].data \in Blocks \ {r.data} => m2[arr[a].data].in = "free"
  BY <1>1, <1>4, <1>6
<1> QED BY <1>4, <1>6, <1>7, <1>8, <1>9, ArrayChanges

(* The memory of an array that has the index already: nothing moves.       *)
LEMMA NothingMoves ==
    ASSUME ArrayInv, NEW a \in Live, NEW i \in Nat, i < arr[a].len
    PROVE  /\ arr[a].data \in Blocks /\ arr[a].max \in 1..MaxSize
           /\ Ensure(arr[a], i, arr[a].data, arr[a].max)
           /\ Memory(arr[a], i, arr[a].data, arr[a].max) = mem
           /\ Grown(arr[a], i, arr[a].data, arr[a].max) = arr[a]
           /\ mem[arr[a].data].cells \in Seq(Values \cup {Fresh})
           /\ Len(mem[arr[a].data].cells) = arr[a].max /\ arr[a].len <= arr[a].max
<1>1. /\ Holds(mem, arr[a], expected[a]) /\ arr[a] \in ArrayFields /\ MaxSize \in Nat
      /\ arr[a].max \in Nat /\ arr[a].max <= MaxSize /\ arr[a].data \in Blocks \cup {NULL}
      /\ arr[a].len \in Nat
  BY LiveFields, Bounds DEF ArrayInv
<1>2. i < arr[a].max /\ arr[a].data # NULL
  BY <1>1 DEF Holds
<1>3. mem[arr[a].data] \in Cells
  BY <1>1, <1>2 DEF ArrayInv, Typed
<1>4. Grown(arr[a], i, arr[a].data, arr[a].max) = arr[a]
  BY <1>1 DEF Grown, ArrayFields
<1> QED BY <1>1, <1>2, <1>3, <1>4 DEF Holds, Ensure, Memory, Cells

(* What a call reads through a reference is what its caller means, also    *)
(* after the array moved.                                                  *)
LEMMA ReadsWhatIsMeant ==
    ASSUME ArrayInv, NEW a \in Live, NEW j \in Nat, NEW b \in Blocks \cup {NULL}, NEW n \in 1..MaxSize,
           Ensure(arr[a], j, b, n), NEW m, m = Memory(arr[a], j, b, n),
           NEW e \in Args(arr[a]), StillValid(arr[a], j, e)
    PROVE  Deref(m, arr[a], e) = Meant(a, e) /\ Meant(a, e) \in Values
<1> DEFINE r == arr[a]
<1>1. /\ Holds(mem, r, expected[a]) /\ expected[a] \in Seq(Values) /\ r.len \in Nat /\ r.max \in Nat
      /\ r.data \in Blocks \cup {NULL}
  BY LiveFields DEF ArrayInv
<1>2. CASE e[1] = "value"
  BY <1>2 DEF Args, Deref, Meant
<1>3. CASE e[1] # "value"
  <2>1. e[1] = "own" /\ e[2] \in 1..r.len
    BY <1>3 DEF Args
  <2>2. r.data # NULL /\ r.len <= r.max
    BY <1>1, <2>1 DEF Holds
  <2>3. m[r.data] = mem[r.data]
    <3>1. arr[a].where # "C_heap" \/ j < arr[a].max
      BY <2>1 DEF StillValid, Storage
    <3>2. arr[a].data \in Blocks
      BY <1>1, <2>2
    <3>3. (arr[a].where # "C_heap" \/ j < arr[a].max) /\ arr[a].data \in Blocks =>
             m[arr[a].data] = mem[arr[a].data]
      BY Ensured
    <3> QED BY <3>1, <3>2, <3>3
  <2>4. mem[r.data] \in Cells /\ Len(mem[r.data].cells) = r.max
    BY <1>1, <2>2 DEF ArrayInv, Typed, Holds
  <2>5. e[2] \in DOMAIN mem[r.data].cells
    BY <1>1, <2>1, <2>2, <2>4 DEF Cells
  <2>6. Read(m, r.data, e[2]) = mem[r.data].cells[e[2]]
    BY <1>1, <2>2, <2>3, <2>5 DEF Read
  <2>7. mem[r.data].cells[e[2]] = expected[a][e[2]] /\ expected[a][e[2]] \in Values
    BY <1>1, <2>1 DEF Holds
  <2> QED BY <1>3, <2>6, <2>7 DEF Deref, Meant
<1> QED BY <1>2, <1>3

-----------------------------------------------------------------------------
(* The calls *)

(* Putting an element behind the last. *)
LEMMA AppendKeeps ==
    ASSUME ArrayInv, NEW a \in Live, NEW e \in Args(arr[a]), append(a, e)
    PROVE  ArrayInv'
<1>1. PICK b \in Blocks \cup {NULL}, n \in 1..MaxSize :
         /\ StillValid(arr[a], arr[a].len, e)
         /\ Ensure(arr[a], arr[a].len, b, n)
         /\ mem' = [Memory(arr[a], arr[a].len, b, n) EXCEPT
                      ![b].cells[arr[a].len + 1] = Deref(Memory(arr[a], arr[a].len, b, n), arr[a], e)]
         /\ arr' = [arr EXCEPT ![a] = [Grown(arr[a], arr[a].len, b, n) EXCEPT !.len = @ + 1]]
         /\ expected' = [expected EXCEPT ![a] = Append(expected[a], Meant(a, e))]
         /\ depth' = depth
  BY DEF append, ArrayInv, Typed, Live
<1>2. PICK len, m : len \in Nat /\ len = arr[a].len /\ m = Memory(arr[a], len, b, n)
  BY LiveFields DEF ArrayInv
<1>3. PICK v \in Values : v = Meant(a, e) /\ Deref(m, arr[a], e) = v
  BY <1>1, <1>2, ReadsWhatIsMeant
<1>4. PICK s : s = Append(expected[a], v)
  OBVIOUS
<1>5. /\ b \in Blocks /\ n > len /\ m \in [Blocks -> Cells] /\ Len(m[b].cells) = n
      /\ \A i \in 1..len : m[b].cells[i] = expected[a][i]
      /\ arr[a] \in ArrayFields /\ expected[a] \in Seq(Values) /\ Len(expected[a]) = len
  BY <1>1, <1>2, Ensured, LiveFields DEF ArrayInv, Holds
<1>6. PICK cs : cs = [m[b].cells EXCEPT ![len + 1] = v]
  OBVIOUS
<1>7. /\ cs \in Seq(Values \cup {Fresh}) /\ Len(cs) = n
      /\ cs[len + 1] = v /\ \A i \in 1..len : cs[i] = expected[a][i]
  <2>1. m[b].cells \in Seq(Values \cup {Fresh}) /\ len + 1 \in 1..n
    BY <1>5 DEF Cells
  <2> QED BY <1>5, <1>6, <2>1
<1> DEFINE longer == len + 1
<1>8. /\ s \in Seq(Values) /\ Len(s) = longer /\ \A i \in 1..longer : cs[i] = s[i]
      /\ longer \in 0..n
  <2>1. s \in Seq(Values) /\ Len(s) = len + 1
    BY <1>4, <1>5
  <2>2. s[len + 1] = v /\ \A i \in 1..len : s[i] = expected[a][i]
    BY <1>4, <1>5
  <2> QED BY <1>5, <1>7, <2>1, <2>2
<1>9. mem' = Written(m, b, cs)
  BY <1>1, <1>2, <1>3, <1>5, <1>6 DEF Written
<1>10. arr' = [arr EXCEPT ![a] = OfLength(Grown(arr[a], len, b, n), longer)]
  <2>1. Grown(arr[a], len, b, n).len = len
    BY <1>2, <1>5 DEF Grown, ArrayFields
  <2> QED BY <1>1, <1>2, <2>1 DEF OfLength
<1>11. expected' = [expected EXCEPT ![a] = s]
  BY <1>1, <1>3, <1>4
<1>12. Ensure(arr[a], len, b, n) /\ depth' = depth
  BY <1>1, <1>2
<1> HIDE DEF longer
<1> QED BY <1>2, <1>7, <1>8, <1>9, <1>10, <1>11, <1>12, Rewritten

(* Putting an element in the place of another. *)
LEMMA AtPutKeeps ==
    ASSUME ArrayInv, NEW a \in Live, NEW i \in Nat, NEW e \in Args(arr[a]), at_put(a, i, e)
    PROVE  ArrayInv'
<1>1. /\ i < arr[a].len
      /\ mem' = [mem EXCEPT ![arr[a].data].cells[i + 1] = Deref(mem, arr[a], e)]
      /\ expected' = [expected EXCEPT ![a][i + 1] = Meant(a, e)]
      /\ arr' = arr /\ depth' = depth
  BY DEF at_put
<1>2. PICK b \in Blocks, n \in 1..MaxSize, m \in {mem} :
         /\ b = arr[a].data /\ n = arr[a].max
         /\ Ensure(arr[a], i, b, n) /\ m = Memory(arr[a], i, b, n)
         /\ Grown(arr[a], i, b, n) = arr[a]
         /\ mem[b].cells \in Seq(Values \cup {Fresh}) /\ Len(mem[b].cells) = n /\ arr[a].len <= n
  BY <1>1, NothingMoves
<1>3. i < arr[a].max
  BY <1>1, <1>2, LiveFields DEF ArrayInv
<1>4. PICK v \in Values : v = Meant(a, e) /\ Deref(m, arr[a], e) = v
  <2>1. StillValid(arr[a], i, e)
    BY <1>3 DEF StillValid
  <2> QED BY <1>2, <2>1, ReadsWhatIsMeant
<1>5. /\ expected[a] \in Seq(Values) /\ arr[a].len \in Nat /\ Len(expected[a]) = arr[a].len
      /\ arr[a] \in ArrayFields /\ \A k \in 1..arr[a].len : mem[b].cells[k] = expected[a][k]
      /\ mem \in [Blocks -> Cells] /\ expected \in [Arrays -> Seq(Values)] /\ a \in Arrays
      /\ arr \in [Arrays -> {NULL} \cup ArrayFields]
  BY <1>2, LiveFields DEF ArrayInv, Holds, Typed, Live
<1>6. PICK cs, s : cs = [mem[b].cells EXCEPT ![i + 1] = v] /\ s = [expected[a] EXCEPT ![i + 1] = v]
  OBVIOUS
<1>7. i + 1 \in 1..arr[a].len /\ i + 1 \in 1..n
  BY <1>1, <1>2, <1>5
<1>8. /\ cs \in Seq(Values \cup {Fresh}) /\ Len(cs) = n
      /\ s \in Seq(Values) /\ Len(s) = arr[a].len /\ arr[a].len \in 0..n
      /\ \A k \in 1..arr[a].len : cs[k] = s[k]
  BY <1>2, <1>5, <1>6, <1>7
<1>9. /\ mem' = Written(m, b, cs) /\ expected' = [expected EXCEPT ![a] = s]
  BY <1>1, <1>2, <1>4, <1>5, <1>6 DEF Written
<1>10. arr' = [arr EXCEPT ![a] = OfLength(Grown(arr[a], i, b, n), arr[a].len)]
  BY <1>1, <1>2, <1>5 DEF ArrayFields, OfLength
<1>11. PICK len \in 0..n : len = arr[a].len
  BY <1>8
<1>12. /\ Ensure(arr[a], i, b, n) /\ m = Memory(arr[a], i, b, n) /\ depth' = depth
       /\ Len(s) = len /\ \A k \in 1..len : cs[k] = s[k]
       /\ arr' = [arr EXCEPT ![a] = OfLength(Grown(arr[a], i, b, n), len)]
  BY <1>1, <1>2, <1>8, <1>10, <1>11
<1> QED BY <1>8, <1>9, <1>12, Rewritten

(* Putting an element behind the last, and filling the gap.                *)
LEMMA AtPutGrowKeeps ==
    ASSUME ArrayInv, NEW a \in Live, NEW i \in Nat, NEW e \in Args(arr[a]), NEW fill \in Args(arr[a]),
           at_put_grow(a, i, e, fill)
    PROVE  ArrayInv'
<1> SUFFICES ASSUME ~at_put(a, i, e) PROVE ArrayInv'
  BY AtPutKeeps
<1>1. PICK b \in Blocks \cup {NULL}, n \in 1..MaxSize :
         LET r == arr[a]
             m == Memory(r, i, b, n)
         IN  /\ i >= r.len
             /\ StillValid(r, i, e) /\ StillValid(r, i, fill)
             /\ Ensure(r, i, b, n)
             /\ mem' = [m EXCEPT ![b].cells =
                          [Filled(r, i, m[b].cells, Deref(m, r, fill)) EXCEPT ![i + 1] = Deref(m, r, e)]]
             /\ arr' = [arr EXCEPT ![a] = [Grown(r, i, b, n) EXCEPT !.len = i + 1]]
             /\ expected' = [expected EXCEPT ![a] =
                   [k \in 1..i + 1 |-> IF k <= r.len THEN expected[a][k]
                                       ELSE IF k <= i THEN Meant(a, fill) ELSE Meant(a, e)]]
             /\ depth' = depth
  <2>1. a \in Arrays /\ expected \in [Arrays -> Seq(Values)]
    BY DEF ArrayInv, Typed, Live
  <2>2. PICK b \in Blocks \cup {NULL}, n \in 1..MaxSize :
           LET r == arr[a]
               m == Memory(r, i, b, n)
           IN  /\ i >= r.len
               /\ StillValid(r, i, e) /\ StillValid(r, i, fill)
               /\ Ensure(r, i, b, n)
               /\ mem' = [m EXCEPT ![b].cells =
                            [Filled(r, i, @, Deref(m, r, fill)) EXCEPT ![i + 1] = Deref(m, r, e)]]
               /\ arr' = [arr EXCEPT ![a] = [Grown(r, i, b, n) EXCEPT !.len = i + 1]]
               /\ expected' = [expected EXCEPT ![a] =
                     [k \in 1..i + 1 |-> IF k <= r.len THEN @[k]
                                         ELSE IF k <= i THEN Meant(a, fill) ELSE Meant(a, e)]]
               /\ UNCHANGED depth
    BY Zenon DEF at_put_grow
  <2>3. Memory(arr[a], i, b, n) \in [Blocks -> Cells] /\ b \in Blocks
    BY <2>2, Ensured
  <2>4. expected' = [expected EXCEPT ![a] =
                   [k \in 1..i + 1 |-> IF k <= arr[a].len THEN expected[a][k]
                                       ELSE IF k <= i THEN Meant(a, fill) ELSE Meant(a, e)]]
    BY <2>1, <2>2
  <2> QED BY <2>2, <2>3, <2>4
<1>2. PICK len, m : len \in Nat /\ len = arr[a].len /\ m = Memory(arr[a], i, b, n)
  BY LiveFields DEF ArrayInv
<1>3. PICK v \in Values, f \in Values :
         /\ v = Meant(a, e) /\ Deref(m, arr[a], e) = v
         /\ f = Meant(a, fill) /\ Deref(m, arr[a], fill) = f
  BY <1>1, <1>2, ReadsWhatIsMeant
<1>4. /\ b \in Blocks /\ n > i /\ m \in [Blocks -> Cells] /\ Len(m[b].cells) = n
      /\ \A k \in 1..len : m[b].cells[k] = expected[a][k]
      /\ arr[a] \in ArrayFields /\ expected[a] \in Seq(Values) /\ Len(expected[a]) = len
      /\ i >= len
  BY <1>1, <1>2, Ensured, LiveFields DEF ArrayInv, Holds
<1>5. PICK longer \in Nat : longer = i + 1
  OBVIOUS
<1>6. PICK filled, cs, s :
         /\ longer = i + 1
         /\ filled = Filled(arr[a], i, m[b].cells, f)
         /\ cs = [filled EXCEPT ![i + 1] = v]
         /\ s = [k \in 1..longer |-> IF k <= len THEN expected[a][k] ELSE IF k <= i THEN f ELSE v]
  BY <1>5
<1>7. m[b].cells \in Seq(Values \cup {Fresh}) /\ DOMAIN m[b].cells = 1..n /\ n \in Nat /\ longer \in 1..n
  BY <1>4, <1>6 DEF Cells
<1>8. /\ filled \in Seq(Values \cup {Fresh}) /\ Len(filled) = n
      /\ \A k \in 1..n : filled[k] = IF len < k /\ k <= i THEN f ELSE m[b].cells[k]
  <2>1. filled = [k \in 1..n |-> IF len < k /\ k <= i THEN f ELSE m[b].cells[k]]
    BY <1>2, <1>6, <1>7 DEF Filled
  <2>2. filled \in [1..n -> Values \cup {Fresh}]
    BY <1>7, <2>1
  <2> QED BY <1>7, <2>1, <2>2
<1>9. /\ cs \in Seq(Values \cup {Fresh}) /\ Len(cs) = n /\ cs[longer] = v
      /\ \A k \in 1..i : cs[k] = IF len < k THEN f ELSE expected[a][k]
  <2>1. cs \in Seq(Values \cup {Fresh}) /\ Len(cs) = n /\ cs[longer] = v
    BY <1>6, <1>7, <1>8
  <2>2. \A k \in 1..i : k \in 1..n /\ k # i + 1 /\ (~(len < k) => k \in 1..len)
    BY <1>2, <1>6, <1>7
  <2>3. \A k \in 1..i : cs[k] = filled[k]
    BY <1>6, <1>7, <1>8, <2>2
  <2>4. \A k \in 1..i : filled[k] = IF len < k THEN f ELSE m[b].cells[k]
    BY <1>8, <2>2
  <2> QED BY <1>4, <2>1, <2>2, <2>3, <2>4
<1>10. s \in Seq(Values) /\ Len(s) = longer /\ longer \in 0..n /\ \A k \in 1..longer : cs[k] = s[k]
  <2>1. \A k \in 1..longer : k <= len => k \in 1..len /\ expected[a][k] \in Values
    BY <1>4
  <2>2. s \in [1..longer -> Values]
    BY <1>6, <2>1
  <2>3. s \in Seq(Values) /\ Len(s) = longer /\ longer \in 0..n
    BY <1>7, <2>2
  <2>4. \A k \in 1..longer : k = longer \/ k \in 1..i
    BY <1>6
  <2>5. s[longer] = v
    BY <1>2, <1>4, <1>6
  <2>6. \A k \in 1..i : s[k] = IF len < k THEN f ELSE expected[a][k]
    <3>1. \A k \in 1..i : k \in 1..longer /\ k <= i /\ (k <= len <=> ~(len < k))
      BY <1>2, <1>6
    <3> QED BY <1>6, <3>1
  <2> QED BY <1>9, <2>3, <2>4, <2>5, <2>6
<1>11. mem' = Written(m, b, cs)
  BY <1>1, <1>2, <1>3, <1>6 DEF Written
<1>12. arr' = [arr EXCEPT ![a] = OfLength(Grown(arr[a], i, b, n), longer)]
  BY <1>1, <1>6 DEF OfLength
<1>13. expected' = [expected EXCEPT ![a] = s]
  BY <1>1, <1>2, <1>3, <1>6
<1>14. Ensure(arr[a], i, b, n) /\ depth' = depth
  BY <1>1
<1> QED BY <1>2, <1>9, <1>10, <1>11, <1>12, <1>13, <1>14, Rewritten

(* What is left of a sequence without its element i + 1. *)
LEMMA Removed ==
    ASSUME NEW S, NEW q \in Seq(S), NEW i \in Nat, i < Len(q)
    PROVE  /\ RemoveAt(q, i + 1) \in Seq(S) /\ Len(RemoveAt(q, i + 1)) = Len(q) - 1
           /\ \A k \in 1 .. Len(q) - 1 :
                 RemoveAt(q, i + 1)[k] = IF i < k THEN q[k + 1] ELSE q[k]
<1> DEFINE p == SubSeq(q, 1, i)
           t == SubSeq(q, i + 2, Len(q))
<1>1. RemoveAt(q, i + 1) = p \o t
  <2>1. PICK j : j = i + 1
    OBVIOUS
  <2>2. RemoveAt(q, j) = SubSeq(q, 1, j - 1) \o SubSeq(q, j + 1, Len(q))
    BY Zenon DEF RemoveAt
  <2>3. j - 1 = i /\ j + 1 = i + 2
    BY <2>1
  <2> QED BY <2>1, <2>2, <2>3
<1>2. p \in Seq(S) /\ Len(p) = i /\ \A k \in 1..i : p[k] = q[k]
  OBVIOUS
<1>3. /\ t \in Seq(S) /\ Len(t) = Len(q) - 1 - i
      /\ \A k \in 1 .. Len(q) - 1 - i : t[k] = q[i + 1 + k]
  OBVIOUS
<1> HIDE DEF p, t
<1>4. p \o t \in Seq(S) /\ Len(p \o t) = Len(q) - 1
  <2>1. p \in Seq(S) /\ t \in Seq(S)
    BY <1>2, <1>3
  <2>2. p \o t \in Seq(S) /\ Len(p \o t) = Len(p) + Len(t)
    BY <2>1
  <2>3. Len(q) \in Nat
    OBVIOUS
  <2> QED BY <1>2, <1>3, <2>2, <2>3
<1>5. \A k \in 1..i : (p \o t)[k] = q[k]
  BY <1>2, <1>3
<1>6. ASSUME NEW k \in i + 1 .. Len(q) - 1
      PROVE  (p \o t)[k] = q[k + 1]
  <2>1. k - i \in 1 .. Len(q) - 1 - i /\ (p \o t)[k] = t[k - i]
    BY <1>2, <1>3
  <2>2. i + 1 + (k - i) = k + 1
    OBVIOUS
  <2> QED BY <1>3, <2>1, <2>2
<1>7. \A k \in 1 .. Len(q) - 1 : (i < k => k \in i + 1 .. Len(q) - 1) /\ (~(i < k) => k \in 1..i)
  OBVIOUS
<1> DEFINE pt == p \o t
<1> HIDE DEF pt
<1>8. \A k \in 1 .. Len(q) - 1 : pt[k] = IF i < k THEN q[k + 1] ELSE q[k]
  BY <1>5, <1>6, <1>7 DEF pt
<1> QED BY <1>1, <1>4, <1>8 DEF pt

(* Taking out an element: those behind it move up. *)
LEMMA RemoveAtKeeps ==
    ASSUME ArrayInv, NEW a \in Live, NEW i \in Nat, remove_at(a, i)
    PROVE  ArrayInv'
<1>1. /\ i < arr[a].len
      /\ mem' = [mem EXCEPT ![arr[a].data].cells =
                   [k \in DOMAIN @ |-> IF i < k /\ k < arr[a].len THEN @[k + 1] ELSE @[k]]]
      /\ arr' = [arr EXCEPT ![a].len = @ - 1]
      /\ expected' = [expected EXCEPT ![a] = RemoveAt(@, i + 1)]
      /\ depth' = depth
  BY Zenon DEF remove_at
<1>2. PICK b \in Blocks, n \in 1..MaxSize, m \in {mem} :
         /\ b = arr[a].data /\ n = arr[a].max
         /\ Ensure(arr[a], i, b, n) /\ m = Memory(arr[a], i, b, n)
         /\ Grown(arr[a], i, b, n) = arr[a]
         /\ mem[b].cells \in Seq(Values \cup {Fresh}) /\ Len(mem[b].cells) = n /\ arr[a].len <= n
  BY <1>1, NothingMoves
<1>3. /\ expected[a] \in Seq(Values) /\ arr[a].len \in Nat /\ Len(expected[a]) = arr[a].len
      /\ arr[a] \in ArrayFields /\ \A k \in 1..arr[a].len : mem[b].cells[k] = expected[a][k]
      /\ mem \in [Blocks -> Cells] /\ expected \in [Arrays -> Seq(Values)] /\ a \in Arrays
      /\ arr \in [Arrays -> {NULL} \cup ArrayFields]
  BY <1>2, LiveFields DEF ArrayInv, Holds, Typed, Live
<1>4. PICK len \in Nat : len = arr[a].len - 1
  BY <1>1, <1>3
<1>5. PICK cs, s :
         /\ cs = [k \in 1..n |-> IF i < k /\ k <= len THEN mem[b].cells[k + 1] ELSE mem[b].cells[k]]
         /\ s = RemoveAt(expected[a], i + 1)
  OBVIOUS
<1>6. len + 1 <= n /\ n \in Nat /\ arr[a].len = len + 1
  BY <1>2, <1>3, <1>4
<1>7. cs \in Seq(Values \cup {Fresh}) /\ Len(cs) = n
  <2>1. \A k \in 1..n : k <= len => k + 1 \in 1..n
    BY <1>4, <1>6
  <2>2. \A k \in 1..n : mem[b].cells[k] \in Values \cup {Fresh}
    BY <1>2, <1>6
  <2>3. cs \in [1..n -> Values \cup {Fresh}]
    BY <1>5, <2>1, <2>2
  <2> QED BY <1>6, <2>3
<1>8. /\ s \in Seq(Values) /\ Len(s) = len
      /\ \A k \in 1..len : s[k] = IF i < k THEN expected[a][k + 1] ELSE expected[a][k]
  BY <1>1, <1>3, <1>4, <1>5, <1>6, Removed
<1>9. \A k \in 1..len : cs[k] = s[k]
  <2>1. \A k \in 1..len : k \in 1..n /\ k <= len /\ k \in 1..arr[a].len /\ k + 1 \in 1..arr[a].len
    BY <1>4, <1>6
  <2> QED BY <1>3, <1>5, <1>8, <2>1
<1>10. mem' = Written(m, b, cs)
  <2>1. [k \in DOMAIN mem[b].cells |->
            IF i < k /\ k < arr[a].len THEN mem[b].cells[k + 1] ELSE mem[b].cells[k]] = cs
    <3>1. DOMAIN mem[b].cells = 1..n
      BY <1>2
    <3>2. \A k \in 1..n : k < arr[a].len <=> k <= len
      BY <1>4, <1>6
    <3> QED BY <1>5, <3>1, <3>2
  <2>2. mem' = [mem EXCEPT ![b].cells = [k \in DOMAIN mem[b].cells |->
            IF i < k /\ k < arr[a].len THEN mem[b].cells[k + 1] ELSE mem[b].cells[k]]]
    BY <1>1, <1>2, <1>3
  <2> QED BY <1>2, <2>1, <2>2 DEF Written
<1>11. arr' = [arr EXCEPT ![a] = OfLength(Grown(arr[a], i, b, n), len)]
  BY <1>1, <1>2, <1>3, <1>4 DEF OfLength
<1>12. expected' = [expected EXCEPT ![a] = s]
  BY <1>1, <1>3, <1>5
<1>13. Ensure(arr[a], i, b, n) /\ depth' = depth /\ len \in 0..n /\ m = Memory(arr[a], i, b, n)
  BY <1>1, <1>2, <1>6
<1> QED BY <1>7, <1>8, <1>9, <1>10, <1>11, <1>12, <1>13, Rewritten

(* Every set of natural numbers that is not empty has a least element. *)
LEMMA LeastNumber ==
    ASSUME NEW T \in SUBSET Nat, T # {}
    PROVE  Min(T) \in T /\ \A k \in T : Min(T) <= k
<1> DEFINE R == {ss \in Nat \X Nat : ss[1] < ss[2]}
<1>1. IsWellFoundedOn(R, Nat)
  BY NatLessThanWellFounded DEF OpToRel
<1>2. \A k, n \in Nat : <<k, n>> \in R <=> k < n
  OBVIOUS
<1> HIDE DEF R
<1>3. PICK n \in T : \A k \in T : <<k, n>> \notin R
  BY <1>1, WFMin
<1>4. \A k \in T : n <= k
  <2>1. \A k \in T : ~(k < n)
    BY <1>2, <1>3
  <2> QED BY <2>1
<1> QED BY <1>4, Zenon DEF Min

(* The values an array is asked for, and where find sees them first.       *)
LEMMA Found ==
    ASSUME ArrayInv, NEW a \in Live, NEW v
    PROVE  /\ \A i \in 1..arr[a].len : at(arr[a], i - 1) = expected[a][i]
           /\ contains(arr[a], v) <=> \E i \in 1..arr[a].len : expected[a][i] = v
           /\ contains(arr[a], v) => find(arr[a], v) \in 0 .. arr[a].len - 1
<1> DEFINE r == arr[a]
           hits == {i \in 0 .. r.len - 1 : at(r, i) = v}
<1>1. /\ Holds(mem, r, expected[a]) /\ r.len \in Nat /\ r.max \in Nat /\ r.data \in Blocks \cup {NULL}
      /\ mem \in [Blocks -> Cells]
  BY LiveFields DEF ArrayInv, Typed
<1>2. ASSUME NEW i \in 1..r.len
      PROVE  at(r, i - 1) = expected[a][i]
  <2>1. r.data \in Blocks /\ mem[r.data] \in Cells /\ Len(mem[r.data].cells) = r.max /\ r.len <= r.max
    BY <1>1 DEF Holds
  <2>2. i \in DOMAIN mem[r.data].cells
    BY <1>1, <2>1 DEF Cells
  <2>3. Read(mem, r.data, i) = expected[a][i]
    BY <1>1, <2>1, <2>2 DEF Read, Holds
  <2>4. i - 1 + 1 = i
    BY <1>1
  <2> QED BY <2>3, <2>4 DEF at
<1>3. find(r, v) = IF hits = {} THEN -1 ELSE Min(hits)
  BY DEF find, find_from
<1>4. hits \in SUBSET Nat /\ \A i \in hits : i \in 0 .. r.len - 1
  BY <1>1
<1>5. hits # {} <=> \E i \in 1..r.len : expected[a][i] = v
  <2>1. ASSUME NEW i \in hits PROVE i + 1 \in 1..r.len /\ expected[a][i + 1] = v
    <3>1. i + 1 \in 1..r.len /\ i + 1 - 1 = i /\ at(r, i) = v
      BY <1>1, <1>4
    <3> QED BY <1>2, <3>1
  <2>2. ASSUME NEW i \in 1..r.len, expected[a][i] = v PROVE i - 1 \in hits
    <3>1. i - 1 \in 0 .. r.len - 1
      BY <1>1
    <3> QED BY <1>2, <2>2, <3>1
  <2> QED BY <2>1, <2>2
<1>6. hits # {} => Min(hits) \in hits
  BY <1>4, LeastNumber
<1> HIDE DEF hits
<1>7. hits # {} => Min(hits) \in 0 .. r.len - 1
  BY <1>4, <1>6
<1> QED BY <1>1, <1>2, <1>3, <1>5, <1>7 DEF contains

(* Removing a value: the first element that equals it. *)
LEMMA RemoveKeeps ==
    ASSUME ArrayInv, NEW a \in Live, NEW e \in Args(arr[a]), remove(a, e)
    PROVE  ArrayInv'
<1>1. PICK v : v = Deref(mem, arr[a], e) /\ contains(arr[a], v) /\ remove_at(a, find(arr[a], v))
  BY DEF remove
<1>2. find(arr[a], v) \in Nat
  <2>1. find(arr[a], v) \in 0 .. arr[a].len - 1
    BY <1>1, Found
  <2> QED BY <2>1
<1> QED BY <1>1, <1>2, RemoveAtKeeps

(* Taking away elements at the end: the first ones stay. *)
LEMMA Shortened ==
    ASSUME ArrayInv, NEW a \in Live, NEW n \in 0 .. arr[a].len,
           NEW s \in Seq(Values), Len(s) = n, \A k \in 1..n : s[k] = expected[a][k],
           arr' = [arr EXCEPT ![a] = OfLength(arr[a], n)],
           expected' = [expected EXCEPT ![a] = s], mem' = mem, depth' = depth
    PROVE  ArrayInv'
<1>1. /\ arr[a] \in ArrayFields /\ Holds(mem, arr[a], expected[a]) /\ mem \in [Blocks -> Cells]
      /\ arr[a].len \in Nat /\ arr[a].len <= MaxSize /\ arr[a].max \in Nat
      /\ MaxSize \in Nat
  BY LiveFields, Bounds DEF ArrayInv, Typed
<1> DEFINE r == OfLength(arr[a], n)
<1>2. /\ r \in ArrayFields /\ r.len = n /\ r.max = arr[a].max /\ r.data = arr[a].data
      /\ r.where = arr[a].where /\ r.scope = arr[a].scope
  <2>1. n \in 0..MaxSize
    BY <1>1
  <2> QED BY <1>1, <2>1 DEF OfLength, ArrayFields
<1>3. arr' = [arr EXCEPT ![a] = r]
  OBVIOUS
<1> HIDE DEF r
<1>4. Holds(mem, r, s)
  <2>1. n <= arr[a].max /\ \A k \in 1..n : k \in 1..arr[a].len
    BY <1>1 DEF Holds
  <2> QED BY <1>1, <1>2, <2>1 DEF Holds
<1>5. r.data # NULL => \A c \in Live \ {a} : arr[c].data # r.data
  BY <1>2 DEF ArrayInv, Unshared
<1>6. \A x \in Blocks \ {r.data} : mem[x] = mem[x] \/ (mem[x].in = "free" /\ x = arr[a].data)
  OBVIOUS
<1>7. r.where = "C_heap" /\ arr[a].data \in Blocks \ {r.data} => mem[arr[a].data].in = "free"
  BY <1>2
<1> QED BY <1>1, <1>2, <1>3, <1>4, <1>5, <1>6, <1>7, ArrayChanges

(* Taking the last element. *)
LEMMA PopKeeps ==
    ASSUME ArrayInv, NEW a \in Live, pop(a)
    PROVE  ArrayInv'
<1>1. /\ arr[a].len # 0 /\ arr' = [arr EXCEPT ![a].len = @ - 1]
      /\ expected' = [expected EXCEPT ![a] = Front(@)]
      /\ mem' = mem /\ depth' = depth
  BY DEF pop, is_empty
<1>2. /\ arr[a].len \in Nat /\ expected[a] \in Seq(Values) /\ Len(expected[a]) = arr[a].len
      /\ arr \in [Arrays -> {NULL} \cup ArrayFields] /\ expected \in [Arrays -> Seq(Values)]
      /\ a \in Arrays
  BY LiveFields DEF ArrayInv, Holds, Typed, Live
<1>3. PICK n \in 0 .. arr[a].len : n = arr[a].len - 1
  <2>1. arr[a].len - 1 \in 0 .. arr[a].len
    BY <1>1, <1>2
  <2> QED BY <2>1
<1>4. PICK s : s = SubSeq(expected[a], 1, n)
  OBVIOUS
<1>5. s \in Seq(Values) /\ Len(s) = n /\ \A k \in 1..n : s[k] = expected[a][k]
  BY <1>2, <1>3, <1>4
<1>6. arr' = [arr EXCEPT ![a] = OfLength(arr[a], n)]
  BY <1>1, <1>2, <1>3 DEF OfLength
<1>7. expected' = [expected EXCEPT ![a] = s]
  <2>1. Front(expected[a]) = s
    BY <1>2, <1>3, <1>4 DEF Front
  <2> QED BY <1>1, <1>2, <2>1
<1> QED BY <1>1, <1>5, <1>6, <1>7, Shortened

(* Keeping the first elements only. *)
LEMMA TruncateKeeps ==
    ASSUME ArrayInv, NEW a \in Live, NEW n \in Nat, trunc_to(a, n)
    PROVE  ArrayInv'
<1>1. /\ n <= arr[a].len /\ arr' = [arr EXCEPT ![a].len = n]
      /\ expected' = [expected EXCEPT ![a] = SubSeq(@, 1, n)]
      /\ mem' = mem /\ depth' = depth
  BY DEF trunc_to
<1>2. /\ arr[a].len \in Nat /\ expected[a] \in Seq(Values) /\ Len(expected[a]) = arr[a].len
      /\ arr \in [Arrays -> {NULL} \cup ArrayFields] /\ expected \in [Arrays -> Seq(Values)]
      /\ a \in Arrays
  BY LiveFields DEF ArrayInv, Holds, Typed, Live
<1>3. PICK s : s = SubSeq(expected[a], 1, n)
  OBVIOUS
<1>4. n \in 0 .. arr[a].len
  BY <1>1, <1>2
<1>5. s \in Seq(Values) /\ Len(s) = n /\ \A k \in 1..n : s[k] = expected[a][k]
  BY <1>2, <1>3, <1>4
<1>6. arr' = [arr EXCEPT ![a] = OfLength(arr[a], n)] /\ expected' = [expected EXCEPT ![a] = s]
  BY <1>1, <1>2, <1>3 DEF OfLength
<1> QED BY <1>1, <1>4, <1>5, <1>6, Shortened

(* Giving back the block of an array: what memory is like then.            *)
LEMMA FreedBlock ==
    ASSUME ArrayInv, NEW a \in Live
    PROVE  LET m == Freed(mem, arr[a]) IN
           /\ m \in [Blocks -> Cells]
           /\ \A x \in Blocks \ {arr[a].data} : m[x] = mem[x]
           /\ \A x \in Blocks : m[x] = mem[x] \/ (m[x].in = "free" /\ x = arr[a].data)
           /\ arr[a].where = "C_heap" /\ arr[a].data \in Blocks => m[arr[a].data].in = "free"
<1>1. mem \in [Blocks -> Cells] /\ arr[a].data \in Blocks \cup {NULL}
  BY LiveFields DEF ArrayInv, Typed
<1>2. Free \in Cells /\ Free.in = "free"
  BY Bounds DEF Free, Cells
<1>3. CASE arr[a].where = "C_heap" /\ arr[a].data # NULL
  <2>1. Freed(mem, arr[a]) = [mem EXCEPT ![arr[a].data] = Free] /\ arr[a].data \in Blocks
    BY <1>1, <1>3 DEF Freed
  <2> QED BY <1>1, <1>2, <2>1
<1>4. CASE ~(arr[a].where = "C_heap" /\ arr[a].data # NULL)
  <2>1. Freed(mem, arr[a]) = mem
    BY <1>4 DEF Freed
  <2> QED BY <1>1, <1>4, <2>1, Bounds
<1> QED BY <1>3, <1>4

(* Emptying an array, which gives its block back. *)
LEMMA ClearKeeps ==
    ASSUME ArrayInv, NEW a \in Live, clear_and_deallocate(a)
    PROVE  ArrayInv'
<1> DEFINE r1 == [arr[a] EXCEPT !.len = 0]
           r2 == [r1 EXCEPT !.max = 0]
           r == [r2 EXCEPT !.data = NULL]
           m == Freed(mem, arr[a])
           none == <<>>
<1>1. /\ arr[a] \in ArrayFields /\ Holds(mem, arr[a], expected[a]) /\ MaxSize \in Nat /\ NULL \notin Blocks
      /\ a \in Arrays /\ arr \in [Arrays -> {NULL} \cup ArrayFields]
      /\ expected \in [Arrays -> Seq(Values)]
  BY LiveFields, Bounds DEF ArrayInv, Live, Typed
<1>2. /\ mem' = m /\ depth' = depth /\ arr' = [arr EXCEPT ![a] = r]
      /\ expected' = [expected EXCEPT ![a] = none]
  BY <1>1 DEF clear_and_deallocate
<1>3. /\ r \in ArrayFields /\ r.len = 0 /\ r.max = 0 /\ r.data = NULL
      /\ r.where = arr[a].where /\ r.scope = arr[a].scope
  <2>1. r1 \in ArrayFields /\ r1.len = 0 /\ r1.where = arr[a].where /\ r1.scope = arr[a].scope
    <3>1. arr[a] \in ArrayFields /\ 0 \in 0..MaxSize
      BY <1>1
    <3> QED BY <3>1 DEF ArrayFields
  <2> HIDE DEF r1
  <2>2. r2 \in ArrayFields /\ r2.len = 0 /\ r2.max = 0 /\ r2.where = arr[a].where /\ r2.scope = arr[a].scope
    BY <1>1, <2>1 DEF ArrayFields
  <2> HIDE DEF r2
  <2> QED BY <2>2 DEF ArrayFields
<1>4. /\ m \in [Blocks -> Cells]
      /\ \A x \in Blocks : m[x] = mem[x] \/ (m[x].in = "free" /\ x = arr[a].data)
      /\ arr[a].where = "C_heap" /\ arr[a].data \in Blocks => m[arr[a].data].in = "free"
  BY FreedBlock
<1> HIDE DEF m, r
<1>5. none \in Seq(Values) /\ Len(none) = 0
  OBVIOUS
<1> HIDE DEF none
<1>6. Holds(m, r, none)
  <2>1. r.where # "stack" => r.scope = 0
    BY <1>1, <1>3 DEF Holds
  <2> QED BY <1>3, <1>5, <2>1 DEF Holds
<1>7. /\ r.data # NULL => \A c \in Live \ {a} : arr[c].data # r.data
      /\ \A x \in Blocks \ {r.data} : m[x] = mem[x] \/ (m[x].in = "free" /\ x = arr[a].data)
      /\ r.where = "C_heap" /\ arr[a].data \in Blocks \ {r.data} => m[arr[a].data].in = "free"
  BY <1>3, <1>4
<1> QED BY <1>2, <1>3, <1>4, <1>5, <1>6, <1>7, ArrayChanges

(* The end of an array's life. *)
LEMMA DestroyKeeps ==
    ASSUME ArrayInv, NEW a \in Live, Destroy(a)
    PROVE  ArrayInv'
<1> DEFINE m == Freed(mem, arr[a])
<1>1. /\ arr[a] \in ArrayFields /\ a \in Arrays /\ arr \in [Arrays -> {NULL} \cup ArrayFields]
      /\ expected \in [Arrays -> Seq(Values)] /\ depth \in 0..MaxMarks
  BY LiveFields DEF ArrayInv, Live, Typed
<1>2. /\ mem' = m /\ depth' = depth /\ arr' = [arr EXCEPT ![a] = NULL]
      /\ expected' = [expected EXCEPT ![a] = <<>>]
  BY DEF Destroy
<1>3. /\ m \in [Blocks -> Cells]
      /\ \A x \in Blocks \ {arr[a].data} : m[x] = mem[x]
      /\ \A x \in Blocks : m[x] = mem[x] \/ (m[x].in = "free" /\ x = arr[a].data)
      /\ arr[a].where = "C_heap" /\ arr[a].data \in Blocks => m[arr[a].data].in = "free"
  BY FreedBlock
<1> HIDE DEF m
<1>4. Live' = Live \ {a} /\ \A c \in Live' : arr'[c] = arr[c] /\ expected'[c] = expected[c] /\ c \in Arrays
  BY <1>1, <1>2 DEF Live
<1>5. Typed'
  BY <1>1, <1>2, <1>3 DEF Typed
<1>6. ASSUME NEW c \in Live'
      PROVE  Holds(m, arr[c], expected[c])
  <2>1. c \in Live /\ c # a
    BY <1>4
  <2>2. Holds(mem, arr[c], expected[c]) /\ arr[c].data \in Blocks \cup {NULL} /\ arr[c].len \in Nat
    BY <2>1, LiveFields DEF ArrayInv
  <2>3. arr[c].data # NULL => arr[a].data # arr[c].data
    BY <2>1 DEF ArrayInv, Unshared
  <2>4. arr[c].data # NULL => m[arr[c].data] = mem[arr[c].data]
    BY <1>3, <2>2, <2>3
  <2> QED BY <2>2, <2>4, HoldsStill
<1>7. \A c \in Live' : Holds(mem, arr[c], expected[c])'
  BY <1>2, <1>4, <1>6 DEF Holds
<1>8. Unshared'
  BY <1>4 DEF ArrayInv, Unshared
<1>9. HeapExact'
  <2> SUFFICES ASSUME NEW x \in Blocks, m[x].in = "C_heap"
               PROVE  \E c \in Live' : arr'[c].where = "C_heap" /\ arr'[c].data = x
    BY <1>2 DEF HeapExact
  <2>1. m[x] = mem[x]
    BY <1>3
  <2>2. PICK c \in Live : arr[c].where = "C_heap" /\ arr[c].data = x
    BY <2>1 DEF ArrayInv, HeapExact
  <2>3. c # a
    BY <1>3, <2>2
  <2> QED BY <1>4, <2>2, <2>3
<1> QED BY <1>5, <1>7, <1>8, <1>9 DEF ArrayInv

(* A new array: a block that nobody uses becomes its own. *)
LEMMA ConstructKeeps ==
    ASSUME ArrayInv, NEW a \in Arrays, NEW where \in Storage, NEW size \in Nat, NEW len \in Nat,
           NEW filler, filler \in Values \/ len = 0, filler \in Values \cup {Fresh},
           Construct(a, where, size, len, filler)
    PROVE  ArrayInv'
<1>1. PICK b \in FreeBlocks :
         /\ mem' = [mem EXCEPT ![b] =
                      Holding(where, [i \in 1..size |-> IF i <= len THEN filler ELSE Fresh])]
         /\ arr' = [arr EXCEPT ![a] = [len |-> len, max |-> size, data |-> b,
                                       where |-> where, scope |-> mem'[b].scope]]
  BY DEF Construct
<1>2. /\ arr[a] = NULL /\ len <= size /\ size <= MaxSize /\ depth' = depth
      /\ expected' = [expected EXCEPT ![a] = [i \in 1..len |-> filler]]
      /\ b \in Blocks /\ mem[b].in = "free"
  BY <1>1 DEF Construct, FreeBlocks, Free
<1>3. /\ mem \in [Blocks -> Cells] /\ arr \in [Arrays -> {NULL} \cup ArrayFields]
      /\ expected \in [Arrays -> Seq(Values)] /\ depth \in 0..MaxMarks /\ MaxMarks \in Nat
      /\ MaxSize \in Nat /\ b # NULL
  BY <1>2, Bounds DEF ArrayInv, Typed
<1>4. PICK cells, s :
         /\ cells = [i \in 1..size |-> IF i <= len THEN filler ELSE Fresh]
         /\ s = [i \in 1..len |-> filler]
  OBVIOUS
<1>5. /\ cells \in Seq(Values \cup {Fresh}) /\ Len(cells) = size
      /\ \A i \in 1..len : cells[i] = filler
  <2>1. cells \in [1..size -> Values \cup {Fresh}]
    BY <1>4
  <2>2. \A i \in 1..len : i \in 1..size /\ i <= len
    BY <1>2
  <2> QED BY <1>4, <2>1, <2>2
<1>6. s \in Seq(Values) /\ Len(s) = len /\ \A i \in 1..len : s[i] = filler
  <2>1. len = 0 => 1..len = {}
    OBVIOUS
  <2>2. s \in [1..len -> Values]
    BY <1>4, <2>1
  <2> QED BY <1>4, <2>2
<1>7. PICK h : h = Holding(where, cells)
  OBVIOUS
<1>8. /\ h \in Cells /\ h.in = where /\ h.cells = cells /\ h.scope \in 0..MaxMarks
      /\ where # "stack" => h.scope = 0
  BY <1>3, <1>5, <1>7 DEF Holding, Cells
<1>9. /\ mem' \in [Blocks -> Cells] /\ mem'[b] = h
      /\ \A x \in Blocks \ {b} : mem'[x] = mem[x]
  BY <1>1, <1>2, <1>3, <1>4, <1>7, <1>8
<1>10. PICK r : r = [len |-> len, max |-> size, data |-> b, where |-> where, scope |-> h.scope]
  OBVIOUS
<1>11. /\ r \in ArrayFields /\ r.len = len /\ r.max = size /\ r.data = b
       /\ r.where = where /\ r.scope = h.scope /\ r # NULL
  <2>1. len \in 0..MaxSize /\ size \in 0..MaxSize
    BY <1>2, <1>3
  <2>2. r \in ArrayFields /\ r.len = len /\ r.max = size /\ r.data = b /\ r.where = where /\ r.scope = h.scope
    BY <1>2, <1>8, <1>10, <2>1 DEF ArrayFields
  <2> QED BY <2>2, Bounds
<1>12. arr' = [arr EXCEPT ![a] = r] /\ expected' = [expected EXCEPT ![a] = s]
  BY <1>1, <1>2, <1>4, <1>9, <1>10
<1>13. /\ arr'[a] = r /\ expected'[a] = s
       /\ Live' = Live \cup {a} /\ a \notin Live
       /\ \A c \in Live : arr'[c] = arr[c] /\ expected'[c] = expected[c]
  BY <1>2, <1>3, <1>11, <1>12 DEF Live
<1>14. Typed'
  BY <1>2, <1>3, <1>6, <1>9, <1>11, <1>12 DEF Typed
<1>15. ASSUME NEW c \in Live
       PROVE  Holds(mem', arr[c], expected[c]) /\ arr[c].data # b
  <2>1. Holds(mem, arr[c], expected[c]) /\ arr[c].data \in Blocks \cup {NULL} /\ arr[c].len \in Nat
        /\ arr[c].where \in Storage
    BY LiveFields DEF ArrayInv
  <2>2. arr[c].data # b
    BY <1>2, <1>3, <2>1 DEF Holds, Storage
  <2>3. arr[c].data # NULL => mem'[arr[c].data] = mem[arr[c].data]
    BY <1>9, <2>1, <2>2
  <2> QED BY <2>1, <2>2, <2>3, HoldsStill
<1>16. Holds(mem', r, s)
  <2>1. mem'[r.data] = h /\ Len(h.cells) = size
    BY <1>5, <1>8, <1>9, <1>11
  <2> QED BY <1>2, <1>3, <1>5, <1>6, <1>8, <1>11, <2>1 DEF Holds
<1>17. \A c \in Live' : Holds(mem, arr[c], expected[c])'
  <2>1. ASSUME NEW c \in Live'
        PROVE  Holds(mem', arr'[c], expected'[c])
    BY <1>13, <1>15, <1>16
  <2> QED BY <2>1 DEF Holds
<1>18. Unshared'
  BY <1>3, <1>11, <1>13, <1>15 DEF ArrayInv, Unshared
<1>19. HeapExact'
  <2> SUFFICES ASSUME NEW x \in Blocks, mem'[x].in = "C_heap"
               PROVE  \E c \in Live' : arr'[c].where = "C_heap" /\ arr'[c].data = x
    BY DEF HeapExact
  <2>1. CASE x = b
    BY <1>8, <1>9, <1>11, <1>13, <2>1
  <2>2. CASE x # b
    <3>1. PICK c \in Live : arr[c].where = "C_heap" /\ arr[c].data = x
      BY <1>9, <2>2 DEF ArrayInv, HeapExact
    <3> QED BY <1>13, <3>1
  <2> QED BY <2>1, <2>2
<1> QED BY <1>14, <1>17, <1>18, <1>19 DEF ArrayInv

(* The constructors. *)
LEMMA NewKeeps ==
    ASSUME ArrayInv, NEW a \in Arrays, New(a)
    PROVE  ArrayInv'
<1>1. CASE \E size \in InitSizes, where \in {"C_heap", "stack"} : Construct(a, where, size, 0, Fresh)
  <2>1. PICK size \in InitSizes, where \in {"C_heap", "stack"} : Construct(a, where, size, 0, Fresh)
    BY <1>1
  <2>2. size \in Nat /\ where \in Storage
    BY BoundsAssumption DEF Storage
  <2> QED BY <2>1, <2>2, ConstructKeeps
<1>2. CASE \E size \in InitSizes, where \in {"arena", "stack"}, len \in 0..MaxSize, v \in Values :
              Construct(a, where, size, len, v)
  <2>1. PICK size \in InitSizes, where \in {"arena", "stack"}, len \in 0..MaxSize, v \in Values :
           Construct(a, where, size, len, v)
    BY <1>2
  <2>2. size \in Nat /\ where \in Storage /\ len \in Nat
    BY BoundsAssumption DEF Storage
  <2> QED BY <2>1, <2>2, ConstructKeeps
<1> QED BY <1>1, <1>2 DEF New

(* Memory is given back that no array that goes on uses, and nothing else  *)
(* happens to the arrays that go on.                                       *)
LEMMA SomeEnd ==
    ASSUME ArrayInv, Typed',
           \A c \in Live' : c \in Live /\ arr'[c] = arr[c] /\ expected'[c] = expected[c],
           \A x \in Blocks : mem'[x] = mem[x] \/ mem'[x] = Free,
           \A c \in Live' : arr[c].data # NULL => mem'[arr[c].data] = mem[arr[c].data],
           \A c \in Live : arr[c].where = "C_heap" => c \in Live'
    PROVE  ArrayInv'
<1>1. ASSUME NEW c \in Live'
      PROVE  Holds(mem', arr'[c], expected'[c])
  <2>1. Holds(mem, arr[c], expected[c]) /\ arr[c].len \in Nat
    BY LiveFields DEF ArrayInv
  <2> QED BY <2>1, HoldsStill
<1>2. \A c \in Live' : Holds(mem, arr[c], expected[c])'
  BY <1>1 DEF Holds
<1>3. Unshared'
  BY DEF ArrayInv, Unshared
<1>4. HeapExact'
  <2> SUFFICES ASSUME NEW x \in Blocks, mem'[x].in = "C_heap"
               PROVE  \E c \in Live' : arr'[c].where = "C_heap" /\ arr'[c].data = x
    BY DEF HeapExact
  <2>1. mem'[x] = mem[x]
    BY DEF Free
  <2>2. PICK c \in Live : arr[c].where = "C_heap" /\ arr[c].data = x
    BY <2>1 DEF ArrayInv, HeapExact
  <2> QED BY <2>2
<1> QED BY <1>2, <1>3, <1>4 DEF ArrayInv

(* The end of a scope: the blocks it takes along are those of the arrays   *)
(* that end with it.                                                       *)
LEMMA UnmarkKeeps ==
    ASSUME ArrayInv, Unmark
    PROVE  ArrayInv'
<1>1. /\ depth > 0 /\ depth' = depth - 1
      /\ mem' = [b \in Blocks |-> IF mem[b].in = "stack" /\ mem[b].scope = depth THEN Free ELSE mem[b]]
      /\ arr' = [a \in Arrays |-> IF EndsWithScope(a) THEN NULL ELSE arr[a]]
      /\ expected' = [a \in Arrays |-> IF EndsWithScope(a) THEN <<>> ELSE expected[a]]
  BY DEF Unmark
<1>2. /\ arr \in [Arrays -> {NULL} \cup ArrayFields] /\ expected \in [Arrays -> Seq(Values)]
      /\ mem \in [Blocks -> Cells] /\ depth \in 0..MaxMarks /\ MaxMarks \in Nat
  BY Bounds DEF ArrayInv, Typed
<1>3. Live' = {a \in Live : ~EndsWithScope(a)}
  BY <1>1 DEF Live
<1>4. \A c \in Live' : c \in Live /\ ~EndsWithScope(c) /\ arr'[c] = arr[c] /\ expected'[c] = expected[c]
  BY <1>1, <1>3 DEF Live
<1>5. Typed'
  <2>1. Free \in Cells
    BY Bounds DEF Free, Cells
  <2>2. mem' \in [Blocks -> Cells]
    BY <1>1, <1>2, <2>1
  <2>3. depth' \in 0..MaxMarks
    BY <1>1, <1>2
  <2>4. arr' \in [Arrays -> {NULL} \cup ArrayFields] /\ expected' \in [Arrays -> Seq(Values)]
    BY <1>1, <1>2
  <2> QED BY <2>2, <2>3, <2>4 DEF Typed
<1>6. \A x \in Blocks : mem'[x] = mem[x] \/ mem'[x] = Free
  BY <1>1
<1>7. ASSUME NEW c \in Live', arr[c].data # NULL
      PROVE  mem'[arr[c].data] = mem[arr[c].data]
  <2>1. /\ c \in Live /\ arr[c].data \in Blocks /\ Holds(mem, arr[c], expected[c])
        /\ ~(arr[c].where = "stack" /\ arr[c].scope = depth)
    BY <1>4, <1>7, LiveFields DEF ArrayInv, EndsWithScope, Live
  <2> QED BY <1>1, <1>7, <2>1 DEF Holds
<1>8. \A c \in Live : arr[c].where = "C_heap" => c \in Live'
  BY <1>3 DEF EndsWithScope
<1> QED BY <1>4, <1>5, <1>6, <1>7, <1>8, SomeEnd

(* The end of the arena: the arrays that go on are not on it. *)
LEMMA EndArenaKeeps ==
    ASSUME ArrayInv, EndArena
    PROVE  ArrayInv'
<1>1. /\ \A a \in Arrays : arr[a] # NULL => arr[a].where # "arena"
      /\ mem' = [b \in Blocks |-> IF mem[b].in = "arena" THEN Free ELSE mem[b]]
      /\ arr' = arr /\ depth' = depth /\ expected' = expected
  BY DEF EndArena
<1>2. Live' = Live
  BY <1>1 DEF Live
<1>3. Typed'
  <2>1. Free \in Cells
    BY Bounds DEF Free, Cells
  <2>2. mem' \in [Blocks -> Cells]
    BY <1>1, <2>1 DEF ArrayInv, Typed
  <2> QED BY <1>1, <2>2 DEF ArrayInv, Typed
<1>4. \A x \in Blocks : mem'[x] = mem[x] \/ mem'[x] = Free
  BY <1>1
<1>5. ASSUME NEW c \in Live', arr[c].data # NULL
      PROVE  mem'[arr[c].data] = mem[arr[c].data]
  <2>1. /\ arr[c].data \in Blocks /\ Holds(mem, arr[c], expected[c]) /\ arr[c].where # "arena"
    BY <1>1, <1>2, <1>5, LiveFields DEF ArrayInv, Live
  <2> QED BY <1>1, <1>5, <2>1 DEF Holds
<1> QED BY <1>1, <1>2, <1>3, <1>4, <1>5, SomeEnd

(* A new scope. *)
LEMMA MarkKeeps ==
    ASSUME ArrayInv, Mark
    PROVE  ArrayInv'
<1>1. depth' \in 0..MaxMarks /\ arr' = arr /\ mem' = mem /\ expected' = expected
  BY Bounds DEF Mark, ArrayInv, Typed
<1>2. Live' = Live
  BY <1>1 DEF Live
<1> QED BY <1>1, <1>2 DEF ArrayInv, Typed, Holds, Unshared, HeapExact, Live

-----------------------------------------------------------------------------
(* The invariant *)

(* At first there are no arrays, and all memory is free. *)
LEMMA ArrayInitially == Init => ArrayInv
<1> SUFFICES ASSUME Init PROVE ArrayInv
  OBVIOUS
<1>1. Free \in Cells /\ Free.in = "free" /\ 0 \in 0..MaxMarks /\ <<>> \in Seq(Values)
  BY Bounds DEF Free, Cells
<1>2. Typed
  BY <1>1 DEF Init, Typed
<1>3. Live = {}
  BY DEF Live, Init
<1>4. HeapExact
  BY <1>1 DEF HeapExact, Init
<1> QED BY <1>2, <1>3, <1>4 DEF ArrayInv, Unshared

(* Every call, and the end of every scope, keeps the invariant. *)
LEMMA ArrayStepKeeps == ArrayInv /\ [Next]_vars => ArrayInv'
<1> SUFFICES ASSUME ArrayInv, [Next]_vars PROVE ArrayInv'
  OBVIOUS
<1>1. ASSUME NEW a \in Arrays, New(a) \/ clear_and_deallocate(a) \/ Destroy(a)
      PROVE  ArrayInv'
  <2>1. clear_and_deallocate(a) \/ Destroy(a) => a \in Live
    BY DEF clear_and_deallocate, Destroy, Live
  <2> QED BY <1>1, <2>1, NewKeeps, ClearKeeps, DestroyKeeps
<1>2. ASSUME NEW a \in Live, NEW e \in Args(arr[a]), append(a, e) \/ remove(a, e)
      PROVE  ArrayInv'
  BY <1>2, AppendKeeps, RemoveKeeps
<1>3. ASSUME NEW a \in Live, pop(a)
      PROVE  ArrayInv'
  BY <1>3, PopKeeps
<1>4. ASSUME NEW a \in Live, NEW i \in 0 .. MaxSize - 1, NEW e \in Args(arr[a]), NEW fill \in Args(arr[a]),
             at_put_grow(a, i, e, fill)
      PROVE  ArrayInv'
  <2>1. i \in Nat
    BY Bounds
  <2> QED BY <1>4, <2>1, AtPutGrowKeeps
<1>5. ASSUME NEW a \in Live, NEW n \in 0..MaxSize, trunc_to(a, n) \/ remove_at(a, n)
      PROVE  ArrayInv'
  <2>1. n \in Nat
    BY Bounds
  <2> QED BY <1>5, <2>1, TruncateKeeps, RemoveAtKeeps
<1>6. CASE UNCHANGED vars
  <2>1. arr' = arr /\ mem' = mem /\ depth' = depth /\ expected' = expected
    BY <1>6 DEF vars
  <2> QED BY <2>1 DEF ArrayInv, Typed, Holds, Unshared, HeapExact, Live
<1> QED BY <1>1, <1>2, <1>3, <1>4, <1>5, <1>6, MarkKeeps, UnmarkKeeps, EndArenaKeeps DEF Next

(* In every state, memory holds for every array the values of its          *)
(* sequence, arrays share no block, and every malloc'ed block has an owner.*)
THEOREM ArrayInvariant == Spec => []ArrayInv
BY ArrayInitially, ArrayStepKeeps, PTL DEF Spec

-----------------------------------------------------------------------------
(* What the invariant says *)

(* The fields of arrays, memory and the values meant are what they can be: *)
(* no array is larger than what its length and maximum say.                *)
THEOREM ArraysTyped == Spec => []TypeOK
<1>1. ArrayInv => TypeOK
  BY DEF ArrayInv, Typed, Cells, TypeOK
<1> QED BY <1>1, ArrayInvariant, PTL

(* An array has its elements in memory that is still allocated, where its  *)
(* constructor was told to put them, of exactly _max elements, used by no  *)
(* other array: whatever the calls, and whatever scopes ended.             *)
THEOREM ElementsAreOwned == Spec => []ElementsOwned
<1>1. ArrayInv => ElementsOwned
  <2> SUFFICES ASSUME ArrayInv, NEW a \in Live
               PROVE  /\ arr[a].len <= arr[a].max
                      /\ arr[a].data = NULL => arr[a].max = 0
                      /\ arr[a].data # NULL =>
                            /\ mem[arr[a].data].in = arr[a].where
                            /\ mem[arr[a].data].scope = arr[a].scope
                            /\ Len(mem[arr[a].data].cells) = arr[a].max
                            /\ \A b \in Live \ {a} : arr[b].data # arr[a].data
    BY DEF ElementsOwned
  <2>1. Holds(mem, arr[a], expected[a])
    BY DEF ArrayInv
  <2> QED BY <2>1 DEF ArrayInv, Unshared, Holds
<1> QED BY <1>1, ArrayInvariant, PTL

(* No block malloc'ed for elements is ever without the array that will     *)
(* free it.                                                                *)
THEOREM NothingLeaks == Spec => []HeapExact
<1>1. ArrayInv => HeapExact
  BY DEF ArrayInv
<1> QED BY <1>1, ArrayInvariant, PTL

(* An array holds, and finds, the values a sequence would after the same   *)
(* calls, also when a call was given one of the array's own elements, the  *)
(* array moved, or others reused memory it gave back.                      *)
THEOREM ArraysAreSequences == Spec => []ActsAsSequence
<1>1. ASSUME ArrayInv, NEW a \in Live
      PROVE  /\ elements(arr[a]) = expected[a]
             /\ ~is_empty(arr[a]) => top(arr[a]) = Last(expected[a])
             /\ \A v \in Values : contains(arr[a], v) <=> v \in ToSet(expected[a])
  <2>1. /\ arr[a].len \in Nat /\ expected[a] \in Seq(Values) /\ Len(expected[a]) = arr[a].len
        /\ \A i \in 1..arr[a].len : at(arr[a], i - 1) = expected[a][i]
    <3>1. arr[a].len \in Nat /\ expected[a] \in Seq(Values) /\ Len(expected[a]) = arr[a].len
      BY <1>1, LiveFields DEF ArrayInv, Holds
    <3>2. \A i \in 1..arr[a].len : at(arr[a], i - 1) = expected[a][i]
      BY <1>1, Found
    <3> QED BY <3>1, <3>2
  <2>2. elements(arr[a]) = expected[a]
    <3>1. expected[a] = [i \in 1..arr[a].len |-> expected[a][i]]
      BY <2>1
    <3> QED BY <2>1, <3>1 DEF elements
  <2>3. ~is_empty(arr[a]) => top(arr[a]) = Last(expected[a])
    <3>1. arr[a].len # 0 => arr[a].len \in 1..arr[a].len
      BY <2>1
    <3> QED BY <2>1, <3>1 DEF is_empty, top, Last
  <2>4. \A v \in Values : contains(arr[a], v) <=> v \in ToSet(expected[a])
    <3>1. ToSet(expected[a]) = {expected[a][i] : i \in 1..arr[a].len}
      BY <2>1 DEF ToSet
    <3> QED BY <1>1, <3>1, Found
  <2> QED BY <2>2, <2>3, <2>4
<1>2. ArrayInv => ActsAsSequence
  BY <1>1 DEF ActsAsSequence
<1> QED BY <1>2, ArrayInvariant, PTL

=============================================================================
