------------------------- MODULE OutputStream_proofs -------------------------
(***************************************************************************)
(* Proofs about OutputStream, for any characters, texts, sizes of buffers  *)
(* and tab stops. The inductive invariant relates a stream to the text     *)
(* that was written to it. A call makes one write or several, and what a   *)
(* stream is like between two of them is the same relation, to the text    *)
(* written so far: so it is stated of a stream and a text, and kept by     *)
(* every write.                                                            *)
(***************************************************************************)
EXTENDS OutputStream, SequenceTheorems, WellFoundedInduction, TLAPS

-----------------------------------------------------------------------------
(* Numbers and sequences *)

(* Every set of natural numbers that is not empty has a least element. *)
LEMMA LeastNumber ==
    ASSUME NEW T \in SUBSET Nat, T # {}
    PROVE  Min(T) \in T /\ \A k \in T : Min(T) <= k
<1> DEFINE R == {ss \in Nat \X Nat : ss[1] < ss[2]}
<1>1. IsWellFoundedOn(R, Nat)
  BY NatLessThanWellFounded DEF OpToRel
<1>2. \A k, n \in Nat : <<k, n>> \in R <=> k < n
  OBVIOUS
<1> HIDE DEF R
<1>3. PICK n \in T : \A k \in T : <<k, n>> \notin R
  BY <1>1, WFMin
<1>4. \A k \in T : n <= k
  <2>1. \A k \in T : ~(k < n)
    BY <1>2, <1>3
  <2> QED BY <2>1
<1> QED BY <1>4, Zenon DEF Min

(* A set of numbers from 0 to n with 0, and with the successor of each of  *)
(* its members but n, has them all.                                        *)
LEMMA AllNumbers ==
    ASSUME NEW n \in Nat, NEW T, 0 \in T, \A i \in 1..n : i - 1 \in T => i \in T
    PROVE  \A i \in 0..n : i \in T
<1> DEFINE U == {i \in 0..n : i \notin T}
<1> SUFFICES ASSUME U # {} PROVE FALSE
  OBVIOUS
<1>1. PICK i \in U : \A k \in U : i <= k
  <2>1. U \in SUBSET Nat
    OBVIOUS
  <2> QED BY <2>1, LeastNumber
<1>2. i \in 1..n /\ i - 1 \in 0..n /\ ~(i <= i - 1)
  BY <1>1
<1>3. i - 1 \in T
  BY <1>1, <1>2
<1> QED BY <1>1, <1>2, <1>3

(* Steps f[1], f[2] and so on lead from x through elements of S. *)
Steps(c, x, f, n) ==
    /\ c[0] = x
    /\ \A i \in 1..n : c[i] = f[i][c[i - 1]]

(* However many steps there are. *)
LEMMA Iterated ==
    ASSUME NEW S, NEW x \in S, NEW n \in Nat, NEW f \in [1..n -> [S -> S]]
    PROVE  \E c \in [0..n -> S] : Steps(c, x, f, n)
<1> DEFINE T == {k \in 0..n : \E c \in [0..k -> S] : Steps(c, x, f, k)}
<1>1. 0 \in T
  <2> DEFINE c == [i \in 0..0 |-> x]
  <2>1. c \in [0..0 -> S] /\ Steps(c, x, f, 0)
    BY DEF Steps
  <2> HIDE DEF c
  <2>2. 0 \in 0..n
    OBVIOUS
  <2> QED BY <2>1, <2>2
<1>2. ASSUME NEW k \in 1..n, k - 1 \in T
      PROVE  k \in T
  <2>1. PICK c \in [0..k - 1 -> S] : Steps(c, x, f, k - 1)
    BY <1>2
  <2> DEFINE d == [i \in 0..k |-> IF i = k THEN f[k][c[k - 1]] ELSE c[i]]
  <2>2. k \in 0..n /\ k - 1 \in 0..k - 1 /\ \A i \in 0..k : i = k \/ i \in 0..k - 1
    OBVIOUS
  <2>3. f[k][c[k - 1]] \in S
    BY <2>1, <2>2
  <2>4. d \in [0..k -> S]
    BY <2>1, <2>2, <2>3
  <2>5. d[0] = x
    BY <2>1, <2>2 DEF Steps
  <2>6. ASSUME NEW i \in 1..k
        PROVE  d[i] = f[i][d[i - 1]]
    <3>1. i \in 0..k /\ i - 1 \in 0..k /\ i - 1 # k /\ (i # k => i \in 1..k - 1)
      OBVIOUS
    <3>2. d[i - 1] = c[i - 1]
      BY <3>1
    <3>3. CASE i = k
      BY <3>1, <3>2, <3>3
    <3>4. CASE i # k
      BY <2>1, <3>1, <3>2, <3>4 DEF Steps
    <3> QED BY <3>3, <3>4
  <2> HIDE DEF d
  <2>7. Steps(d, x, f, k)
    BY <2>5, <2>6 DEF Steps
  <2> QED BY <2>2, <2>4, <2>7
<1> HIDE DEF T
<1>3. n \in T
  <2>1. \A i \in 0..n : i \in T
    BY <1>1, <1>2, AllNumbers
  <2> QED BY <2>1
<1> QED BY <1>3 DEF T

(* Elements of two sequences put together. *)
LEMMA Joined ==
    ASSUME NEW S, NEW s \in Seq(S), NEW t \in Seq(S)
    PROVE  /\ s \o t \in Seq(S) /\ Len(s \o t) = Len(s) + Len(t)
           /\ \A i \in 1..Len(s) : (s \o t)[i] = s[i]
           /\ \A i \in 1..Len(t) : (s \o t)[Len(s) + i] = t[i]
OBVIOUS

(* Putting texts together is associative. *)
LEMMA JoinedTwice ==
    \A s, t, u \in Seq(Chars) : (s \o t) \o u = s \o (t \o u)
OBVIOUS

-----------------------------------------------------------------------------
(* The column *)

(* A character leads from a column to a column. *)
LEMMA Advances ==
    ASSUME NEW p \in Nat, NEW ch
    PROVE  Advance(p, ch) \in Nat
<1>1. p \div TabStop \in Nat
  BY SizesAssumption
<1>2. \A q \in Nat : (q + 1) * TabStop \in Nat
  BY SizesAssumption
<1> QED BY <1>1, <1>2 DEF Advance

(* The columns c that the characters of s lead through, from column p.     *)
Through(c, p, s) ==
    /\ DOMAIN c = 0..Len(s)
    /\ c[0] = p
    /\ \A i \in 1..Len(s) : c[i] = Advance(c[i - 1], s[i])

(* Characters lead through one sequence of columns. *)
LEMMA OneWayThrough ==
    ASSUME NEW S, NEW s \in Seq(S), NEW p, NEW c, NEW d, Through(c, p, s), Through(d, p, s)
    PROVE  c[Len(s)] = d[Len(s)]
<1> DEFINE T == {i \in 0..Len(s) : c[i] = d[i]}
<1>1. Len(s) \in Nat
  OBVIOUS
<1>2. 0 \in T
  BY <1>1 DEF Through
<1>3. \A i \in 1..Len(s) : i - 1 \in T => i \in T
  BY <1>1 DEF Through
<1> HIDE DEF T
<1>4. \A i \in 0..Len(s) : i \in T
  BY <1>1, <1>2, <1>3, AllNumbers
<1>5. Len(s) \in T
  BY <1>1, <1>4
<1> QED BY <1>5 DEF T

(* They do lead through one, of numbers. *)
LEMMA SomeWayThrough ==
    ASSUME NEW S, NEW s \in Seq(S), NEW p \in Nat
    PROVE  \E c \in [0..Len(s) -> Nat] : Through(c, p, s)
<1> DEFINE f == [i \in 1..Len(s) |-> [q \in Nat |-> Advance(q, s[i])]]
<1>1. Len(s) \in Nat /\ f \in [1..Len(s) -> [Nat -> Nat]]
  BY Advances
<1>2. PICK c \in [0..Len(s) -> Nat] : Steps(c, p, f, Len(s))
  <2> HIDE DEF f
  <2>1. PICK n \in Nat : n = Len(s)
    BY <1>1
  <2> QED BY <1>1, <2>1, Iterated
<1>3. \A i \in 1..Len(s) : c[i - 1] \in Nat
  <2>1. \A i \in 1..Len(s) : i - 1 \in 0..Len(s)
    BY <1>1
  <2> QED BY <2>1
<1>4. \A i \in 1..Len(s) : c[i] = Advance(c[i - 1], s[i])
  BY <1>2, <1>3 DEF Steps
<1> QED BY <1>2, <1>4 DEF Through, Steps

(* update_position gives the last of them. *)
LEMMA ColumnReached ==
    ASSUME NEW S, NEW s \in Seq(S), NEW p \in Nat, NEW c, Through(c, p, s)
    PROVE  update_position(p, s) = c[Len(s)]
<1> DEFINE Columns(d) == [i \in 0..Len(s) |-> IF i = 0 THEN p ELSE Advance(d[i - 1], s[i])]
           column == CHOOSE d : d = Columns(d)
<1>1. PICK d \in [0..Len(s) -> Nat] : Through(d, p, s)
  BY SomeWayThrough
<1>2. d = Columns(d)
  <2>1. Len(s) \in Nat /\ \A i \in 0..Len(s) : i = 0 \/ i \in 1..Len(s)
    OBVIOUS
  <2>2. \A i \in 0..Len(s) : d[i] = Columns(d)[i]
    BY <1>1, <2>1 DEF Through
  <2> QED BY <1>1, <2>2
<1>3. column = Columns(column)
  BY <1>2
<1>4. update_position(p, s) = column[Len(s)]
  BY Zenon DEF update_position
<1> HIDE DEF column
<1>5. Through(column, p, s)
  <2>1. Len(s) \in Nat /\ 0 \in 0..Len(s) /\ \A i \in 1..Len(s) : i \in 0..Len(s) /\ i # 0
    OBVIOUS
  <2>2. DOMAIN column = 0..Len(s)
    BY <1>3
  <2>3. column[0] = p
    BY <1>3, <2>1
  <2>4. \A i \in 1..Len(s) : column[i] = Advance(column[i - 1], s[i])
    BY <1>3, <2>1
  <2> QED BY <2>2, <2>3, <2>4 DEF Through
<1> QED BY <1>4, <1>5, OneWayThrough

(* A column is a number; no text leads nowhere, and one character to the   *)
(* column it advances to.                                                  *)
LEMMA ColumnOfLittle ==
    ASSUME NEW p \in Nat
    PROVE  /\ \A s \in Seq(Chars) : update_position(p, s) \in Nat
           /\ update_position(p, <<>>) = p
           /\ \A ch \in Chars : update_position(p, <<ch>>) = Advance(p, ch)
<1>1. ASSUME NEW s \in Seq(Chars)
      PROVE  update_position(p, s) \in Nat
  <2>1. PICK c \in [0..Len(s) -> Nat] : Through(c, p, s)
    BY SomeWayThrough
  <2>2. Len(s) \in Nat /\ Len(s) \in 0..Len(s)
    OBVIOUS
  <2>3. update_position(p, s) = c[Len(s)]
    BY <2>1, ColumnReached
  <2> QED BY <2>2, <2>3
<1>2. update_position(p, <<>>) = p
  <2> DEFINE none == <<>>
  <2>1. none \in Seq(Chars) /\ Len(none) = 0
    OBVIOUS
  <2> HIDE DEF none
  <2>2. PICK c \in [0..Len(none) -> Nat] : Through(c, p, none)
    BY <2>1, SomeWayThrough
  <2>3. update_position(p, none) = c[Len(none)]
    BY <2>1, <2>2, ColumnReached
  <2>4. update_position(p, none) = p
    BY <2>1, <2>2, <2>3 DEF Through
  <2> QED BY <2>4 DEF none
<1>3. ASSUME NEW ch \in Chars
      PROVE  update_position(p, <<ch>>) = Advance(p, ch)
  <2> DEFINE one == <<ch>>
  <2>1. one \in Seq(Chars) /\ Len(one) = 1 /\ one[1] = ch
    OBVIOUS
  <2> HIDE DEF one
  <2>2. PICK c \in [0..Len(one) -> Nat] : Through(c, p, one)
    BY <2>1, SomeWayThrough
  <2>3. update_position(p, one) = c[Len(one)]
    BY <2>1, <2>2, ColumnReached
  <2>4. c[1] = Advance(c[1 - 1], ch) /\ c[0] = p
    BY <2>1, <2>2 DEF Through
  <2>5. update_position(p, one) = Advance(p, ch)
    BY <2>1, <2>3, <2>4
  <2> QED BY <2>5 DEF one
<1> QED BY <1>1, <1>2, <1>3

(* The column after two texts is that after the second, from the column    *)
(* after the first.                                                        *)
LEMMA ColumnOfBoth ==
    ASSUME NEW s \in Seq(Chars), NEW t \in Seq(Chars), NEW p \in Nat
    PROVE  update_position(p, s \o t) = update_position(update_position(p, s), t)
<1>1. PICK u \in Seq(Chars), n \in Nat, m \in Nat : u = s \o t /\ n = Len(s) /\ m = Len(t)
  <2>1. s \o t \in Seq(Chars) /\ Len(s) \in Nat /\ Len(t) \in Nat
    OBVIOUS
  <2> QED BY <2>1
<1>2. /\ Len(u) = n + m /\ \A i \in 1..n : u[i] = s[i]
      /\ \A i \in 1..m : u[n + i] = t[i]
  BY <1>1, Joined
<1>3. PICK c \in [0..Len(u) -> Nat] : Through(c, p, u)
  BY SomeWayThrough
<1>4. update_position(p, u) = c[n + m]
  BY <1>2, <1>3, ColumnReached
<1>5. update_position(p, s) = c[n]
  <2> DEFINE d == [i \in 0..n |-> c[i]]
  <2>1. Through(d, p, s)
    <3>1. 0 \in 0..n /\ \A i \in 1..n : i \in 0..n /\ i - 1 \in 0..n /\ i \in 1..n + m
      OBVIOUS
    <3>2. d[0] = p
      BY <1>3, <3>1 DEF Through
    <3>3. \A i \in 1..n : d[i] = Advance(d[i - 1], s[i])
      BY <1>2, <1>3, <3>1 DEF Through
    <3> QED BY <1>1, <3>2, <3>3 DEF Through
  <2>2. d[n] = c[n]
    OBVIOUS
  <2> HIDE DEF d
  <2> QED BY <1>1, <2>1, <2>2, ColumnReached
<1>6. c[n] \in Nat
  BY <1>2, <1>3
<1>7. update_position(c[n], t) = c[n + m]
  <2> DEFINE d == [i \in 0..m |-> c[n + i]]
  <2>1. Through(d, c[n], t)
    <3>1. 0 \in 0..m /\ n + 0 = n
      OBVIOUS
    <3>2. d[0] = c[n]
      BY <3>1
    <3>3. ASSUME NEW i \in 1..m
          PROVE  d[i] = Advance(d[i - 1], t[i])
      <4>1. i \in 0..m /\ i - 1 \in 0..m
        OBVIOUS
      <4>2. PICK j \in 1..n + m : j = n + i
        OBVIOUS
      <4>3. c[j] = Advance(c[j - 1], u[j]) /\ u[j] = t[i]
        BY <1>2, <1>3, <4>2 DEF Through
      <4>4. n + (i - 1) = j - 1
        BY <4>2
      <4>5. d[i] = c[j] /\ d[i - 1] = c[j - 1]
        BY <4>1, <4>2, <4>4
      <4> QED BY <4>3, <4>5
    <3> HIDE DEF d
    <3>4. DOMAIN d = 0..m
      BY DEF d
    <3> QED BY <1>1, <3>2, <3>3, <3>4 DEF Through
  <2>2. d[m] = c[n + m]
    OBVIOUS
  <2> HIDE DEF d
  <2>3. PICK q \in Nat : q = c[n]
    BY <1>6
  <2>4. update_position(q, t) = d[Len(t)]
    BY <2>1, <2>3, ColumnReached
  <2> QED BY <1>1, <2>2, <2>3, <2>4
<1> QED BY <1>1, <1>4, <1>5, <1>7

-----------------------------------------------------------------------------
(* The size of a larger buffer *)

(* Doubling a size as often as a number is large exceeds that number, so   *)
(* that the least doubled size that does is well defined.                  *)
LEMMA LargeEnough ==
    ASSUME NEW n \in Nat \ {0}, NEW need \in Nat
    PROVE  Enlarged(n, need) \in Nat /\ Enlarged(n, need) > need
<1>1. PICK times \in Nat : times = need + 1
  OBVIOUS
<1>2. /\ \A i \in 0..times : i = 0 \/ i \in 1..times
      /\ \A i \in 1..times : i - 1 \in 0..times /\ i \in 0..times /\ i # 0
      /\ 0 \in 0..times
  OBVIOUS
<1> DEFINE Sizes(d) == [k \in 0..times |-> IF k = 0 THEN n ELSE 2 * d[k - 1]]
           size == CHOOSE d : d = Sizes(d)
           f == [i \in 1..times |-> [x \in Nat |-> 2 * x]]
<1>3. PICK d \in [0..times -> Nat] : Steps(d, n, f, times)
  <2>1. f \in [1..times -> [Nat -> Nat]]
    OBVIOUS
  <2> HIDE DEF f
  <2> QED BY <2>1, Iterated
<1>4. d = Sizes(d)
  <2>1. \A i \in 1..times : d[i] = 2 * d[i - 1]
    BY <1>2, <1>3 DEF Steps
  <2>2. \A i \in 0..times : d[i] = Sizes(d)[i]
    BY <1>2, <1>3, <2>1 DEF Steps
  <2> QED BY <1>3, <2>2
<1>5. size = Sizes(size)
  BY <1>4
<1>6. Doublings(n, times) = {size[k] : k \in 1..times}
  BY Zenon DEF Doublings
<1> HIDE DEF size
<1>7. /\ size[0] = n
      /\ \A k \in 1..times : size[k] = 2 * size[k - 1]
  BY <1>2, <1>5
<1> DEFINE T == {k \in 0..times : size[k] \in Nat /\ size[k] > k}
<1>8. \A k \in 0..times : k \in T
  <2>1. 0 \in T
    BY <1>7
  <2>2. ASSUME NEW k \in 1..times, k - 1 \in T
        PROVE  k \in T
    <3>1. size[k] = 2 * size[k - 1] /\ size[k - 1] \in Nat /\ size[k - 1] > k - 1 /\ k \in 0..times
      BY <1>7, <2>2
    <3>2. \A x \in Nat : x > k - 1 => 2 * x \in Nat /\ 2 * x > k
      OBVIOUS
    <3> QED BY <3>1, <3>2
  <2> HIDE DEF T
  <2> QED BY <2>1, <2>2, AllNumbers
<1> DEFINE M == {m \in Doublings(n, times) : m > need}
<1>9. M \in SUBSET Nat /\ M # {}
  <2>1. Doublings(n, times) \in SUBSET Nat
    BY <1>2, <1>6, <1>8
  <2>2. size[times] \in Doublings(n, times) /\ size[times] > need
    <3>1. times \in 1..times /\ times \in T
      BY <1>1, <1>8
    <3>2. size[times] \in Nat /\ size[times] > times
      BY <3>1
    <3> QED BY <1>1, <1>6, <3>1, <3>2
  <2> QED BY <2>1, <2>2
<1>10. Enlarged(n, need) = Min(M)
  BY <1>1 DEF Enlarged
<1>11. Min(M) \in M
  <2> HIDE DEF M
  <2> QED BY <1>9, LeastNumber
<1> QED BY <1>9, <1>10, <1>11

-----------------------------------------------------------------------------
(* A stream and the text written to it *)

Contents == Seq(Chars \cup {NUL, Raw})
Streams ==
    [buffer : Contents, pos : Nat, position : Nat,
     pending : Seq(Chars), device : Seq(Chars), lost : BOOLEAN, held : Nat]

(* What a stream with text w in its buffer, or on its way to its device, is *)
(* like.                                                                    *)
InBuffer(st, w) ==
    /\ Len(st.buffer) = 0 => st.pos = 0 /\ w = <<>>
    /\ owns => Len(st.buffer) > 0 /\ st.pos = Len(w)
    /\ st.pos <= Len(w)
    /\ st.pos = Len(w) \/ st.pos = Len(st.buffer) - 1
    /\ \A i \in 1..st.pos : st.buffer[i] = w[i]
InDevice(st, w) == ~st.lost => st.device \o st.pending = w

Told(st, w) ==
    /\ st \in Streams
    /\ st.held = IF alive /\ owns THEN 1 ELSE 0
    /\ Len(st.buffer) > 0 => st.pos < Len(st.buffer)
    /\ st.pos > 0 => Len(st.buffer) > 0 /\ st.buffer[st.pos + 1] = NUL
    /\ IF kind = "string" THEN InBuffer(st, w) ELSE InDevice(st, w)
    /\ kind = "fd" => st.pending = <<>>
    /\ open /\ (kind = "string" => owns) => st.position = update_position(origin, w)

Kinds ==
    /\ kind \in {"string", "file", "fd"}
    /\ indentation \in Int
    /\ {owns, open, alive, hung} \subseteq BOOLEAN
    /\ wrote \in Seq(Chars)
    /\ origin \in Nat
    /\ kind = "string" => open
    /\ kind = "file" /\ owns => open
    /\ kind = "fd" => ~owns

StreamInv ==
    /\ Kinds
    /\ Told(stream, wrote)
    /\ ~alive /\ owns => stream.pending = <<>>

(* A stream that a call on it comes back from. *)
Writable(st) == kind = "string" => Len(st.buffer) > 0

(* The text after s was written too. *)
Longer(w, s) == IF open THEN w \o s ELSE w

(* Characters and their terminator put behind the text in a buffer. *)
LEMMA StoredText ==
    ASSUME NEW b \in Contents, NEW p \in Nat, NEW s \in Seq(Chars), p + Len(s) < Len(b)
    PROVE  /\ Stored(b, p, s) \in Contents /\ Len(Stored(b, p, s)) = Len(b)
           /\ \A i \in 1..p : Stored(b, p, s)[i] = b[i]
           /\ \A i \in 1..Len(s) : Stored(b, p, s)[p + i] = s[i]
           /\ Stored(b, p, s)[p + Len(s) + 1] = NUL
<1>1. PICK n \in Nat, m \in Nat : n = Len(b) /\ m = Len(s)
  BY DEF Contents
<1>2. Stored(b, p, s) = [i \in 1..n |-> IF i \in p + 1 .. p + m THEN s[i - p]
                                         ELSE IF i = p + m + 1 THEN NUL ELSE b[i]]
  BY <1>1 DEF Stored
<1> DEFINE c == Stored(b, p, s)
<1> HIDE DEF c
<1>3. /\ DOMAIN c = 1..n
      /\ \A i \in 1..n : c[i] = IF i \in p + 1 .. p + m THEN s[i - p]
                                ELSE IF i = p + m + 1 THEN NUL ELSE b[i]
  BY <1>2 DEF c
<1>4. \A i \in 1..n : c[i] \in Chars \cup {NUL, Raw}
  <2> SUFFICES ASSUME NEW i \in 1..n PROVE c[i] \in Chars \cup {NUL, Raw}
    OBVIOUS
  <2>1. i \in p + 1 .. p + m => i - p \in 1..m /\ s[i - p] \in Chars
    BY <1>1
  <2>2. b[i] \in Chars \cup {NUL, Raw}
    BY <1>1 DEF Contents
  <2> QED BY <1>3, <2>1, <2>2
<1>5. c \in Contents /\ Len(c) = n
  <2>1. c = [i \in 1..n |-> c[i]]
    BY <1>2 DEF c
  <2>2. c \in [1..n -> Chars \cup {NUL, Raw}]
    BY <1>4, <2>1
  <2> QED BY <2>2 DEF Contents
<1>6. \A i \in 1..p : c[i] = b[i]
  <2>1. \A i \in 1..p : i \in 1..n /\ i \notin p + 1 .. p + m /\ i # p + m + 1
    BY <1>1
  <2> QED BY <1>3, <2>1
<1>7. ASSUME NEW i \in 1..m
      PROVE  c[p + i] = s[i]
  <2>1. PICK j \in Nat : j = p + i
    OBVIOUS
  <2>2. j \in 1..n /\ j \in p + 1 .. p + m /\ j - p = i
    BY <1>1, <2>1
  <2>3. c[j] = s[i]
    BY <1>3, <2>2
  <2> QED BY <2>1, <2>3
<1>8. c[p + m + 1] = NUL
  <2>1. PICK j \in Nat : j = p + m + 1
    OBVIOUS
  <2>2. j \in 1..n /\ j \notin p + 1 .. p + m
    BY <1>1, <2>1
  <2>3. c[j] = NUL
    BY <1>3, <2>1, <2>2
  <2> QED BY <2>1, <2>3
<1> QED BY <1>1, <1>5, <1>6, <1>7, <1>8 DEF c

(* A stream whose buffer has become b, with room for s, once s is stored.  *)
LEMMA StoreFields ==
    ASSUME NEW st \in Streams, NEW b \in Contents, NEW s \in Seq(Chars), st.pos + Len(s) < Len(b)
    PROVE  LET r == Store(st, b, s) IN
           /\ r \in Streams
           /\ r.buffer = Stored(b, st.pos, s) /\ r.pos = st.pos + Len(s) /\ r.position = Column(st, s)
           /\ r.pending = st.pending /\ r.device = st.device /\ r.lost = st.lost /\ r.held = st.held
<1>1. /\ st.pos \in Nat /\ st.position \in Nat /\ Len(s) \in Nat
      /\ Stored(b, st.pos, s) \in Contents
      /\ Column(st, s) \in Nat
  <2>1. st.pos \in Nat /\ st.position \in Nat /\ Len(s) \in Nat
    BY DEF Streams
  <2>2. Stored(b, st.pos, s) \in Contents
    BY <2>1, StoredText
  <2>3. Column(st, s) \in Nat
    BY <2>1, ColumnOfLittle DEF Column
  <2> QED BY <2>1, <2>2, <2>3
<1>2. PICK buf \in Contents, pos \in Nat, col \in Nat :
         buf = Stored(b, st.pos, s) /\ pos = st.pos + Len(s) /\ col = Column(st, s)
  BY <1>1
<1> DEFINE r1 == [st EXCEPT !.buffer = buf]
           r2 == [r1 EXCEPT !.pos = pos]
           r3 == [r2 EXCEPT !.position = col]
<1>3. /\ r1 \in Streams /\ r1.buffer = buf /\ r1.pos = st.pos /\ r1.pending = st.pending
      /\ r1.device = st.device /\ r1.lost = st.lost /\ r1.held = st.held
  BY DEF Streams
<1>4. Store(st, b, s) = r3
  BY <1>2, <1>3 DEF Store
<1> HIDE DEF r1
<1>5. /\ r2 \in Streams /\ r2.buffer = buf /\ r2.pos = pos /\ r2.pending = st.pending
      /\ r2.device = st.device /\ r2.lost = st.lost /\ r2.held = st.held
  BY <1>3 DEF Streams
<1> HIDE DEF r2
<1>6. /\ r3 \in Streams /\ r3.buffer = buf /\ r3.pos = pos /\ r3.position = col /\ r3.pending = st.pending
      /\ r3.device = st.device /\ r3.lost = st.lost /\ r3.held = st.held
  BY <1>5 DEF Streams
<1> HIDE DEF r3
<1> QED BY <1>2, <1>4, <1>6

(* A larger buffer that a stream gets for need characters. *)
LEMMA GrownFields ==
    ASSUME NEW st \in Streams, Len(st.buffer) > 0, st.pos < Len(st.buffer), st.held = 1,
           NEW need \in Nat
    PROVE  LET r == Grown(st, need) IN
           /\ r \in Streams /\ Len(r.buffer) > need
           /\ \A i \in 1..st.pos : i <= need => r.buffer[i] = st.buffer[i]
           /\ r.pos = st.pos /\ r.position = st.position /\ r.held = 1
           /\ r.pending = st.pending /\ r.device = st.device /\ r.lost = st.lost
<1>1. st.buffer \in Contents /\ Len(st.buffer) \in Nat \ {0} /\ st.pos \in Nat /\ st.held \in Nat
  BY DEF Streams, Contents
<1>2. PICK n \in Nat : n = Enlarged(Len(st.buffer), need) /\ n > need
  BY <1>1, LargeEnough
<1>3. PICK buf : buf = Copied(st, n)
  OBVIOUS
<1>4. /\ DOMAIN buf = 1..n
      /\ \A i \in 1..n : buf[i] = IF i <= st.pos THEN st.buffer[i] ELSE Raw
      /\ buf = [i \in 1..n |-> buf[i]]
  BY <1>3 DEF Copied
<1>5. buf \in Contents /\ Len(buf) = n
  <2>1. \A i \in 1..n : i <= st.pos => st.buffer[i] \in Chars \cup {NUL, Raw}
    BY <1>1 DEF Contents
  <2>2. \A i \in 1..n : buf[i] \in Chars \cup {NUL, Raw}
    BY <1>4, <2>1
  <2>3. buf \in [1..n -> Chars \cup {NUL, Raw}]
    BY <1>4, <2>2
  <2> QED BY <2>3 DEF Contents
<1>6. \A i \in 1..st.pos : i <= need => buf[i] = st.buffer[i]
  <2>1. \A i \in 1..st.pos : i <= need => i \in 1..n /\ i <= st.pos
    BY <1>1, <1>2
  <2> QED BY <1>4, <2>1
<1> DEFINE r1 == [st EXCEPT !.buffer = buf]
           r2 == [r1 EXCEPT !.held = 1]
<1>7. /\ r1 \in Streams /\ r1.buffer = buf /\ r1.pos = st.pos /\ r1.pending = st.pending
      /\ r1.device = st.device /\ r1.lost = st.lost /\ r1.held = st.held /\ r1.position = st.position
  BY <1>5 DEF Streams
<1>8. Grown(st, need) = r2
  <2>1. GivenBack(st.held + 1) = 1
    BY DEF GivenBack
  <2> QED BY <1>2, <1>3, <1>7, <2>1 DEF Grown
<1> HIDE DEF r1
<1>9. /\ r2 \in Streams /\ r2.buffer = buf /\ r2.pos = st.pos /\ r2.pending = st.pending
      /\ r2.device = st.device /\ r2.lost = st.lost /\ r2.held = 1 /\ r2.position = st.position
  BY <1>7 DEF Streams
<1> HIDE DEF r2
<1> QED BY <1>2, <1>5, <1>6, <1>8, <1>9

-----------------------------------------------------------------------------
(* stringStream::write *)

(* Storing s in buffer b makes a stream of text x, when x begins with what *)
(* is in the buffer and goes on with s.                                    *)
LEMMA StoreTells ==
    ASSUME Kinds, kind = "string", NEW st \in Streams, st.held = IF alive /\ owns THEN 1 ELSE 0,
           NEW b \in Contents, NEW s \in Seq(Chars), NEW x \in Seq(Chars),
           NEW n \in Nat, n = st.pos + Len(s), n < Len(b), n <= Len(x),
           n = Len(x) \/ n = Len(b) - 1,
           owns => n = Len(x) /\ Column(st, s) = update_position(origin, x),
           \A i \in 1..st.pos : b[i] = x[i],
           \A i \in 1..Len(s) : s[i] = x[st.pos + i]
    PROVE  Told(Store(st, b, s), x) /\ Writable(Store(st, b, s))
<1>1. st.pos \in Nat /\ Len(s) \in Nat /\ Len(b) \in Nat /\ Len(x) \in Nat
  BY DEF Streams, Contents
<1>2. PICK r : r = Store(st, b, s)
  OBVIOUS
<1>3. /\ r \in Streams /\ r.buffer = Stored(b, st.pos, s) /\ r.pos = n /\ r.position = Column(st, s)
      /\ r.held = st.held
  BY <1>2, StoreFields
<1>4. /\ Len(r.buffer) = Len(b) /\ r.buffer[n + 1] = NUL
      /\ \A i \in 1..st.pos : r.buffer[i] = b[i]
      /\ \A i \in 1..Len(s) : r.buffer[st.pos + i] = s[i]
  BY <1>1, <1>3, StoredText
<1>5. ASSUME NEW i \in 1..n
      PROVE  r.buffer[i] = x[i]
  <2>1. CASE i <= st.pos
    BY <1>1, <1>4, <2>1
  <2>2. CASE ~(i <= st.pos)
    <3>1. PICK j \in 1..Len(s) : st.pos + j = i
      <4>1. i - st.pos \in 1..Len(s) /\ st.pos + (i - st.pos) = i
        BY <1>1, <2>2
      <4> QED BY <4>1
    <3> QED BY <1>4, <3>1
  <2> QED BY <2>1, <2>2
<1>6. InBuffer(r, x)
  BY <1>1, <1>3, <1>4, <1>5 DEF InBuffer
<1>7. Told(r, x)
  BY <1>1, <1>3, <1>4, <1>6 DEF Told, Kinds
<1>8. Writable(r)
  BY <1>1, <1>4 DEF Writable
<1> QED BY <1>2, <1>7, <1>8

(* Writing to a string stream adds to its text. *)
LEMMA WriteStringTells ==
    ASSUME Kinds, alive, kind = "string", NEW st, NEW w \in Seq(Chars), Told(st, w), Writable(st),
           NEW s \in Seq(Chars)
    PROVE  Told(WriteString(st, s), w \o s) /\ Writable(WriteString(st, s))
<1>1. /\ st \in Streams /\ InBuffer(st, w) /\ Len(st.buffer) > 0 /\ st.pos < Len(st.buffer)
      /\ st.held = IF alive /\ owns THEN 1 ELSE 0
      /\ owns => st.position = update_position(origin, w)
  BY DEF Told, Writable, Kinds
<1>2. /\ st.buffer \in Contents /\ Len(st.buffer) \in Nat /\ st.pos \in Nat
      /\ Len(w) \in Nat /\ Len(s) \in Nat
  BY <1>1 DEF Streams, Contents
<1>3. PICK x \in Seq(Chars) : x = w \o s
  <2>1. w \o s \in Seq(Chars)
    BY Joined
  <2> QED BY <2>1
<1>4. /\ Len(x) = Len(w) + Len(s)
      /\ \A i \in 1..Len(w) : x[i] = w[i]
      /\ \A i \in 1..Len(s) : x[Len(w) + i] = s[i]
  BY <1>3, Joined
<1>5. PICK need \in Nat : need = st.pos + Len(s)
  BY <1>2
<1>6. /\ st.pos <= Len(w) /\ \A i \in 1..st.pos : st.buffer[i] = w[i]
      /\ st.pos = Len(w) \/ st.pos = Len(st.buffer) - 1
      /\ owns => st.pos = Len(w)
  BY <1>1 DEF InBuffer
<1>7. PICK lw \in Nat, ls \in Nat, lb \in Nat, lx \in Nat, p \in Nat :
         /\ lw = Len(w) /\ ls = Len(s) /\ lb = Len(st.buffer) /\ lx = Len(x) /\ p = st.pos
         /\ lx = lw + ls /\ need = p + ls /\ p < lb /\ p <= lw /\ (p = lw \/ p = lb - 1)
         /\ owns => p = lw
  <2>1. Len(x) \in Nat
    OBVIOUS
  <2> QED BY <1>1, <1>2, <1>4, <1>5, <1>6, <2>1
<1>8. lx = lw + ls /\ need = p + ls /\ p < lb /\ p <= lw /\ (p = lw \/ p = lb - 1)
  BY <1>7
<1>9. \A i \in 1..st.pos : st.buffer[i] = x[i]
  <2>1. \A i \in 1..st.pos : i \in 1..Len(w)
    BY <1>2, <1>6
  <2> QED BY <1>4, <1>6, <2>1
<1>10. owns => Column(st, s) = update_position(origin, x)
  BY <1>1, <1>3, ColumnOfBoth DEF Column, Kinds
<1>11. CASE need < Len(st.buffer)
  <2>1. WriteString(st, s) = Store(st, st.buffer, s)
    BY <1>5, <1>11 DEF WriteString
  <2>2. ls = 0 \/ p = lw
    BY <1>7, <1>11
  <2>3. \A i \in 1..Len(s) : s[i] = x[st.pos + i]
    <3>1. CASE p = lw
      BY <1>7, <1>4, <3>1
    <3>2. CASE ls = 0
      <4>1. 1..Len(s) = {}
        BY <1>7, <3>2
      <4> QED BY <4>1
    <3> QED BY <2>2, <3>1, <3>2
  <2>4. /\ need <= Len(x)
        /\ need = Len(x) \/ need = Len(st.buffer) - 1
        /\ owns => need = Len(x)
    <3>1. need <= lx /\ (need = lx \/ need = lb - 1) /\ (owns => need = lx)
      BY <1>7, <2>2
    <3> QED BY <1>7, <3>1
  <2>5. Told(Store(st, st.buffer, s), x) /\ Writable(Store(st, st.buffer, s))
    BY <1>1, <1>2, <1>5, <1>9, <1>10, <1>11, <2>3, <2>4, StoreTells
  <2> QED BY <1>3, <2>1, <2>5
<1>12. CASE ~(need < Len(st.buffer)) /\ owns
  <2>1. PICK large : large = Grown(st, need)
    OBVIOUS
  <2>2. WriteString(st, s) = Store(large, large.buffer, s)
    BY <1>5, <1>12, <2>1 DEF WriteString
  <2>3. /\ large \in Streams /\ Len(large.buffer) > need /\ large.pos = st.pos
        /\ large.position = st.position /\ large.held = 1
        /\ \A i \in 1..st.pos : i <= need => large.buffer[i] = st.buffer[i]
    BY <1>1, <1>12, <2>1, GrownFields
  <2>4. large.buffer \in Contents /\ Column(large, s) = Column(st, s)
    BY <2>3 DEF Streams, Column
  <2>5. \A i \in 1..large.pos : large.buffer[i] = x[i]
    <3>1. \A i \in 1..st.pos : i <= need
      BY <1>2, <1>5
    <3> QED BY <1>9, <2>3, <3>1
  <2>6. /\ need = Len(x) /\ need <= Len(x) /\ need < Len(large.buffer) /\ need = large.pos + Len(s)
        /\ \A i \in 1..Len(s) : s[i] = x[large.pos + i]
        /\ large.held = IF alive /\ owns THEN 1 ELSE 0
    <3>1. Len(large.buffer) \in Nat
      BY <2>4 DEF Contents
    <3>2. need = lx /\ st.pos = Len(w)
      BY <1>7, <1>12
    <3> QED BY <1>7, <1>4, <1>12, <2>3, <3>1, <3>2
  <2>7. Told(Store(large, large.buffer, s), x) /\ Writable(Store(large, large.buffer, s))
    BY <1>10, <1>12, <2>3, <2>4, <2>5, <2>6, StoreTells
  <2> QED BY <1>3, <2>2, <2>7
<1>13. CASE ~(need < Len(st.buffer)) /\ ~owns
  <2>0. PICK cut : cut = Cut(st, s)
    OBVIOUS
  <2>1. PICK m \in Nat : m = lb - p - 1
    <3>1. lb - p - 1 \in Nat
      BY <1>7
    <3> QED BY <3>1
  <2>2. cut = SubSeq(s, 1, m) /\ m <= ls
    <3>1. m <= ls
      <4>1. lb <= p + ls
        BY <1>7, <1>13
      <4> QED BY <2>1, <4>1
    <3> QED BY <1>7, <2>0, <2>1, <3>1 DEF Cut
  <2>3. cut \in Seq(Chars) /\ Len(cut) = m /\ \A i \in 1..m : cut[i] = s[i]
    BY <1>7, <2>2
  <2>4. CASE cut = <<>>
    <3>1. WriteString(st, s) = st
      BY <1>5, <1>13, <2>0, <2>4 DEF WriteString
    <3>2. m = 0
      BY <2>3, <2>4
    <3>3. st.pos = Len(st.buffer) - 1 /\ st.pos <= Len(x)
      <4>1. p = lb - 1 /\ p <= lx
        BY <1>8, <2>1, <3>2
      <4> QED BY <1>7, <4>1
    <3>4. InBuffer(st, x)
      BY <1>1, <1>9, <1>13, <3>3 DEF InBuffer
    <3>5. Told(st, x)
      BY <1>13, <3>4 DEF Told
    <3> QED BY <1>3, <3>1, <3>5
  <2>5. CASE cut # <<>>
    <3>1. WriteString(st, s) = Store(st, st.buffer, cut)
      BY <1>5, <1>13, <2>0, <2>5 DEF WriteString
    <3>2. m > 0 /\ p = lw
      <4>1. m # 0
        BY <2>3, <2>5
      <4> QED BY <1>8, <2>1, <4>1
    <3>3. PICK n \in Nat : n = p + m
      OBVIOUS
    <3>4. n = st.pos + Len(cut) /\ n < Len(st.buffer) /\ n <= Len(x) /\ n = Len(st.buffer) - 1
      <4>1. n < lb /\ n <= lx /\ n = lb - 1
        BY <1>8, <2>1, <2>2, <3>2, <3>3
      <4> QED BY <1>7, <2>3, <3>3, <4>1
    <3>5. \A i \in 1..Len(cut) : cut[i] = x[st.pos + i]
      <4>1. \A i \in 1..m : i \in 1..Len(s)
        BY <1>7, <2>2
      <4> QED BY <1>7, <1>4, <2>3, <3>2, <4>1
    <3>6. Told(Store(st, st.buffer, cut), x) /\ Writable(Store(st, st.buffer, cut))
      BY <1>1, <1>2, <1>9, <1>13, <2>3, <3>4, <3>5, StoreTells
    <3> QED BY <1>3, <3>1, <3>6
  <2> QED BY <2>4, <2>5
<1> QED BY <1>11, <1>12, <1>13

-----------------------------------------------------------------------------
(* write *)

(* A file that s was written to. *)
LEMMA WriteFileTells ==
    ASSUME Kinds, kind = "file", open, NEW st, NEW w \in Seq(Chars), Told(st, w), NEW s \in Seq(Chars)
    PROVE  Told(WriteFile(st, s), w \o s)
<1>1. /\ st \in Streams /\ InDevice(st, w) /\ st.position = update_position(origin, w)
      /\ st.pending \in Seq(Chars) /\ st.device \in Seq(Chars) /\ st.position \in Nat
  BY DEF Told, Streams
<1>2. PICK more \in Seq(Chars), col \in Nat : more = st.pending \o s /\ col = Column(st, s)
  <2>1. st.pending \o s \in Seq(Chars) /\ Column(st, s) \in Nat
    BY <1>1, ColumnOfLittle DEF Column
  <2> QED BY <2>1
<1> DEFINE r1 == [st EXCEPT !.pending = more]
           r == [r1 EXCEPT !.position = col]
<1>3. /\ r1 \in Streams /\ r1.pending = more /\ r1.buffer = st.buffer /\ r1.pos = st.pos
      /\ r1.device = st.device /\ r1.lost = st.lost /\ r1.held = st.held
  BY <1>1 DEF Streams
<1>4. WriteFile(st, s) = r
  BY <1>1, <1>2 DEF WriteFile
<1> HIDE DEF r1
<1>5. /\ r \in Streams /\ r.pending = more /\ r.position = col /\ r.buffer = st.buffer /\ r.pos = st.pos
      /\ r.device = st.device /\ r.lost = st.lost /\ r.held = st.held
  BY <1>3 DEF Streams
<1> HIDE DEF r
<1>6. ~r.lost => r.device \o r.pending = w \o s
  <2>1. ~st.lost => st.device \o st.pending = w
    BY <1>1 DEF InDevice
  <2>2. (st.device \o st.pending) \o s = st.device \o (st.pending \o s)
    <3>1. PICK d \in Seq(Chars), q \in Seq(Chars) : d = st.device /\ q = st.pending
      BY <1>1
    <3>2. (d \o q) \o s = d \o (q \o s)
      BY JoinedTwice
    <3> QED BY <3>1, <3>2
  <2> QED BY <1>2, <1>5, <2>1, <2>2
<1>7. r.position = update_position(origin, w \o s)
  BY <1>1, <1>2, <1>5, ColumnOfBoth DEF Column, Kinds
<1>8. Told(r, w \o s)
  BY <1>5, <1>6, <1>7 DEF Told, InDevice
<1> QED BY <1>4, <1>8

(* A descriptor that took the first n characters of s. *)
LEMMA WriteFdTells ==
    ASSUME Kinds, kind = "fd", open, NEW st, NEW w \in Seq(Chars), Told(st, w), NEW s \in Seq(Chars),
           NEW n \in 0..Len(s)
    PROVE  Told(WriteFd(st, s, n), w \o s)
<1>1. /\ st \in Streams /\ InDevice(st, w) /\ st.position = update_position(origin, w)
      /\ st.pending = <<>> /\ st.device \in Seq(Chars) /\ st.position \in Nat /\ st.lost \in BOOLEAN
  BY DEF Told, Streams
<1>2. Len(s) \in Nat /\ n \in Nat /\ n <= Len(s)
  OBVIOUS
<1>3. PICK took \in Seq(Chars) : took = SubSeq(s, 1, n) /\ (n = Len(s) => took = s)
  <2>1. SubSeq(s, 1, n) \in Seq(Chars)
    BY <1>2
  <2>2. SubSeq(s, 1, Len(s)) = s
    OBVIOUS
  <2> QED BY <2>1, <2>2
<1>4. PICK more \in Seq(Chars), gone \in BOOLEAN, col \in Nat :
         more = st.device \o took /\ gone = (st.lost \/ n < Len(s)) /\ col = Column(st, s)
  <2>1. st.device \o took \in Seq(Chars) /\ Column(st, s) \in Nat /\ (st.lost \/ n < Len(s)) \in BOOLEAN
    BY <1>1, ColumnOfLittle DEF Column
  <2> QED BY <2>1
<1> DEFINE r1 == [st EXCEPT !.device = more]
           r2 == [r1 EXCEPT !.lost = gone]
           r == [r2 EXCEPT !.position = col]
<1>5. /\ r1 \in Streams /\ r1.device = more /\ r1.buffer = st.buffer /\ r1.pos = st.pos
      /\ r1.pending = st.pending /\ r1.held = st.held /\ r1.lost = st.lost
  BY <1>1 DEF Streams
<1>6. WriteFd(st, s, n) = r
  BY <1>1, <1>3, <1>4 DEF WriteFd
<1> HIDE DEF r1
<1>7. /\ r2 \in Streams /\ r2.device = more /\ r2.buffer = st.buffer /\ r2.pos = st.pos
      /\ r2.pending = st.pending /\ r2.held = st.held /\ r2.lost = gone
  BY <1>5 DEF Streams
<1> HIDE DEF r2
<1>8. /\ r \in Streams /\ r.device = more /\ r.buffer = st.buffer /\ r.pos = st.pos
      /\ r.pending = st.pending /\ r.held = st.held /\ r.lost = gone /\ r.position = col
  BY <1>7 DEF Streams
<1> HIDE DEF r
<1>9. ~r.lost => r.device \o r.pending = w \o s
  <2> SUFFICES ASSUME ~gone PROVE more \o <<>> = w \o s
    BY <1>1, <1>8
  <2>1. ~st.lost /\ took = s
    <3>1. ~(st.lost \/ n < Len(s))
      BY <1>4
    <3> QED BY <1>2, <1>3, <3>1
  <2>2. st.device \o <<>> = st.device
    BY <1>1
  <2>3. st.device = w
    BY <1>1, <2>1, <2>2 DEF InDevice
  <2> QED BY <1>4, <2>1, <2>3
<1>10. r.position = update_position(origin, w \o s)
  BY <1>1, <1>4, <1>8, ColumnOfBoth DEF Column, Kinds
<1>11. Told(r, w \o s)
  BY <1>1, <1>8, <1>9, <1>10 DEF Told, InDevice
<1> QED BY <1>6, <1>11

(* What is true of a stream and its text is true after a write, whichever  *)
(* stream it is and whatever its device takes.                             *)
LEMMA WriteTells ==
    ASSUME Kinds, alive, NEW st, NEW w \in Seq(Chars), Told(st, w), Writable(st), NEW s \in Seq(Chars),
           NEW st2 \in write(st, s)
    PROVE  Told(st2, Longer(w, s)) /\ Writable(st2)
<1>1. CASE kind = "string"
  <2>1. st2 = WriteString(st, s) /\ Longer(w, s) = w \o s
    BY <1>1 DEF write, Longer, Kinds
  <2> QED BY <1>1, <2>1, WriteStringTells
<1>2. CASE kind # "string" /\ ~open
  <2>1. st2 = st /\ Longer(w, s) = w
    BY <1>2 DEF write, Longer
  <2> QED BY <2>1
<1>3. CASE kind = "file" /\ open
  <2>1. st2 = WriteFile(st, s) /\ Longer(w, s) = w \o s
    BY <1>3 DEF write, Longer
  <2> QED BY <1>3, <2>1, WriteFileTells DEF Writable
<1>4. CASE kind = "fd" /\ open
  <2>1. Longer(w, s) = w \o s /\ \E n \in 0..Len(s) : st2 = WriteFd(st, s, n)
    BY <1>4 DEF write, Longer
  <2> QED BY <1>4, <2>1, WriteFdTells DEF Writable
<1> QED BY <1>1, <1>2, <1>3, <1>4 DEF Kinds

(* Streams that a call on st may have left, when s was written so far.     *)
Reached(S, w) == \A st \in S : Told(st, w) /\ Writable(st)

(* One write more. *)
LEMMA WritesTell ==
    ASSUME Kinds, alive, NEW S, NEW w \in Seq(Chars), Reached(S, w), NEW s \in Seq(Chars)
    PROVE  Reached(writes(S, s), Longer(w, s)) /\ Longer(w, s) \in Seq(Chars)
<1>1. ASSUME NEW st2 \in writes(S, s)
      PROVE  Told(st2, Longer(w, s)) /\ Writable(st2)
  <2>1. PICK st \in S : st2 \in write(st, s)
    BY DEF writes
  <2> QED BY <2>1, WriteTells DEF Reached
<1>2. Longer(w, s) \in Seq(Chars)
  BY DEF Longer
<1> QED BY <1>1, <1>2 DEF Reached

(* The column is 0 after a new line, as cr() sets it. *)
LEMMA NewlineTells ==
    ASSUME Kinds, alive, NEW S, NEW w \in Seq(Chars), Reached(S, w)
    PROVE  Reached(cr(S), Longer(w, <<Newline>>))
<1>1. Newline \in Chars /\ <<Newline>> \in Seq(Chars)
  BY DEF Chars
<1>2. Reached(writes(S, <<Newline>>), Longer(w, <<Newline>>))
  BY <1>1, WritesTell
<1>3. open => update_position(origin, Longer(w, <<Newline>>)) = 0
  <2>1. update_position(origin, w) \in Nat
    BY ColumnOfLittle DEF Kinds
  <2>2. update_position(origin, w \o <<Newline>>) = update_position(update_position(origin, w), <<Newline>>)
    BY <1>1, ColumnOfBoth DEF Kinds
  <2>3. update_position(update_position(origin, w), <<Newline>>) = Advance(update_position(origin, w), Newline)
    BY <1>1, <2>1, ColumnOfLittle
  <2> QED BY <2>2, <2>3 DEF Longer, Advance
<1>4. ASSUME NEW st, Told(st, Longer(w, <<Newline>>)), Writable(st)
      PROVE  Told([st EXCEPT !.position = 0], Longer(w, <<Newline>>)) /\ Writable([st EXCEPT !.position = 0])
  <2> DEFINE r == [st EXCEPT !.position = 0]
  <2>1. st \in Streams
    BY <1>4 DEF Told
  <2>2. /\ r \in Streams /\ r.buffer = st.buffer /\ r.pos = st.pos /\ r.position = 0
        /\ r.pending = st.pending /\ r.device = st.device /\ r.lost = st.lost /\ r.held = st.held
    BY <2>1 DEF Streams
  <2> HIDE DEF r
  <2>3. Told(r, Longer(w, <<Newline>>)) /\ Writable(r)
    BY <1>3, <1>4, <2>2 DEF Told, Writable, InBuffer, InDevice
  <2> QED BY <2>3 DEF r
<1> QED BY <1>2, <1>4 DEF cr, Reached

(* Writing two texts is writing both. *)
LEMMA LongerTwice ==
    ASSUME NEW w \in Seq(Chars), NEW s \in Seq(Chars), NEW t \in Seq(Chars)
    PROVE  Longer(Longer(w, s), t) = Longer(w, s \o t)
<1>1. (w \o s) \o t = w \o (s \o t)
  BY JoinedTwice
<1>2. CASE open
  BY <1>1, <1>2 DEF Longer
<1>3. CASE ~open
  BY <1>3 DEF Longer
<1> QED BY <1>2, <1>3

(* Blanks, and one blank more. *)
LEMMA OneMoreBlank ==
    ASSUME NEW n \in Nat
    PROVE  /\ Blanks(n) \in Seq(Chars) /\ Blanks(0) = <<>>
           /\ n > 0 => Blanks(n - 1) \in Seq(Chars) /\ Blanks(n - 1) \o <<Blank>> = Blanks(n)
<1>1. Blank \in Chars
  BY DEF Chars
<1>2. \A m \in Nat : Blanks(m) \in Seq(Chars) /\ Len(Blanks(m)) = m /\ \A i \in 1..m : Blanks(m)[i] = Blank
  BY <1>1 DEF Blanks
<1>3. Blanks(0) = <<>>
  BY <1>2
<1>4. ASSUME n > 0
      PROVE  Blanks(n - 1) \o <<Blank>> = Blanks(n)
  <2>1. PICK m \in Nat : m = n - 1 /\ n = m + 1
    <3>1. n - 1 \in Nat /\ n = n - 1 + 1
      BY <1>4
    <3> QED BY <3>1
  <2>2. PICK s \in Seq(Chars), t \in Seq(Chars), one \in Seq(Chars) :
           s = Blanks(m) /\ t = Blanks(n) /\ one = <<Blank>>
    <3>1. Blanks(m) \in Seq(Chars) /\ Blanks(n) \in Seq(Chars)
      BY <1>2
    <3>2. <<Blank>> \in Seq(Chars)
      BY <1>1
    <3> QED BY <3>1, <3>2
  <2>3. PICK u \in Seq(Chars) : u = s \o one
    <3>1. s \o one \in Seq(Chars)
      BY Joined
    <3> QED BY <3>1
  <2>4. Len(s) = m /\ Len(one) = 1 /\ one[1] = Blank /\ Len(t) = n
    BY <1>2, <2>2
  <2>5. /\ Len(u) = m + 1 /\ \A i \in 1..m : u[i] = s[i]
        /\ u[m + 1] = one[1]
    <3>1. /\ Len(u) = Len(s) + Len(one) /\ \A i \in 1..Len(s) : u[i] = s[i]
          /\ \A i \in 1..Len(one) : u[Len(s) + i] = one[i]
      BY <2>3, Joined
    <3> QED BY <2>4, <3>1
  <2>6. \A i \in 1..n : u[i] = t[i]
    <3>1. \A i \in 1..n : i \in 1..m \/ i = m + 1
      BY <2>1
    <3>2. \A i \in 1..m : u[i] = Blank
      BY <1>2, <2>2, <2>5
    <3>3. u[m + 1] = Blank
      BY <2>4, <2>5
    <3>4. \A i \in 1..n : t[i] = Blank
      BY <1>2, <2>2
    <3> QED BY <3>1, <3>2, <3>3, <3>4
  <2>7. u = t
    BY <2>1, <2>4, <2>5, <2>6
  <2> QED BY <2>1, <2>2, <2>3, <2>7
<1>5. n > 0 => n - 1 \in Nat
  OBVIOUS
<1> QED BY <1>2, <1>3, <1>4, <1>5

(* Blanks written one after the other. *)
LEMMA BlanksTell ==
    ASSUME Kinds, alive, Told(stream, wrote), Writable(stream), NEW n \in Nat
    PROVE  Reached(sp(n), Longer(wrote, Blanks(n)))
<1> DEFINE V == {st \in Streams : \E w \in Seq(Chars) : Told(st, w) /\ Writable(st)}
           f == [i \in 1..n |-> [X \in SUBSET V |-> writes(X, <<Blank>>)]]
           After(d) == [i \in 0..n |-> IF i = 0 THEN {stream} ELSE writes(d[i - 1], <<Blank>>)]
           after == CHOOSE d : d = After(d)
<1>1. /\ \A i \in 0..n : i = 0 \/ i \in 1..n
      /\ \A i \in 1..n : i - 1 \in 0..n /\ i \in 0..n /\ i # 0
      /\ 0 \in 0..n /\ n \in 0..n
  OBVIOUS
<1>2. <<Blank>> \in Seq(Chars) /\ wrote \in Seq(Chars)
  BY DEF Chars, Kinds
<1>3. \A st : (\E w \in Seq(Chars) : Told(st, w) /\ Writable(st)) => st \in V
  BY DEF Told
<1>4. ASSUME NEW X \in SUBSET V
      PROVE  writes(X, <<Blank>>) \in SUBSET V
  <2> SUFFICES ASSUME NEW st2 \in writes(X, <<Blank>>) PROVE st2 \in V
    OBVIOUS
  <2>1. PICK st \in X : st2 \in write(st, <<Blank>>)
    BY DEF writes
  <2>2. PICK w \in Seq(Chars) : Told(st, w) /\ Writable(st)
    OBVIOUS
  <2>3. Told(st2, Longer(w, <<Blank>>)) /\ Writable(st2)
    BY <1>2, <2>1, <2>2, WriteTells
  <2>4. Longer(w, <<Blank>>) \in Seq(Chars)
    BY <1>2 DEF Longer
  <2> QED BY <1>3, <2>3, <2>4
<1>5. {stream} \in SUBSET V
  BY <1>2, <1>3
<1> HIDE DEF V
<1>6. PICK d \in [0..n -> SUBSET V] : Steps(d, {stream}, f, n)
  <2>1. f \in [1..n -> [SUBSET V -> SUBSET V]]
    BY <1>4
  <2> HIDE DEF f
  <2> QED BY <1>5, <2>1, Iterated
<1>7. d = After(d)
  <2>1. \A i \in 1..n : d[i] = writes(d[i - 1], <<Blank>>)
    BY <1>1, <1>6 DEF Steps
  <2>2. \A i \in 0..n : d[i] = After(d)[i]
    BY <1>1, <1>6, <2>1 DEF Steps
  <2> QED BY <1>6, <2>2
<1>8. after = After(after)
  BY <1>7
<1>9. sp(n) = after[n]
  BY Zenon DEF sp
<1> HIDE DEF after
<1>10. after[0] = {stream} /\ \A i \in 1..n : after[i] = writes(after[i - 1], <<Blank>>)
  BY <1>1, <1>8
<1> DEFINE T == {i \in 0..n : Reached(after[i], Longer(wrote, Blanks(i)))}
<1>11. 0 \in T
  <2>1. Longer(wrote, Blanks(0)) = wrote
    <3>1. Blanks(0) = <<>> /\ wrote \o <<>> = wrote
      BY <1>2, OneMoreBlank
    <3> QED BY <3>1 DEF Longer
  <2> QED BY <1>1, <1>10, <2>1 DEF Reached
<1>12. ASSUME NEW i \in 1..n, i - 1 \in T
       PROVE  i \in T
  <2>1. i \in Nat /\ i > 0
    OBVIOUS
  <2>2. PICK s \in Seq(Chars) : s = Blanks(i - 1) /\ s \o <<Blank>> = Blanks(i)
    BY <2>1, OneMoreBlank
  <2>3. Reached(after[i - 1], Longer(wrote, s)) /\ Longer(wrote, s) \in Seq(Chars)
    BY <1>2, <1>12, <2>2 DEF Longer
  <2>4. Reached(after[i], Longer(Longer(wrote, s), <<Blank>>))
    <3>1. PICK x \in Seq(Chars) : x = Longer(wrote, s)
      BY <2>3
    <3>2. Reached(writes(after[i - 1], <<Blank>>), Longer(x, <<Blank>>))
      BY <1>2, <2>3, <3>1, WritesTell
    <3> QED BY <1>10, <3>1, <3>2
  <2>5. Longer(Longer(wrote, s), <<Blank>>) = Longer(wrote, Blanks(i))
    <3>1. PICK one \in Seq(Chars) : one = <<Blank>>
      BY <1>2
    <3>2. Longer(Longer(wrote, s), one) = Longer(wrote, s \o one)
      BY <1>2, LongerTwice
    <3> QED BY <2>2, <3>1, <3>2
  <2> QED BY <1>1, <2>4, <2>5
<1> HIDE DEF T
<1>13. \A i \in 0..n : i \in T
  BY <1>11, <1>12, AllNumbers
<1>14. n \in T
  BY <1>1, <1>13
<1> QED BY <1>9, <1>14 DEF T

-----------------------------------------------------------------------------
(* The calls *)

(* A call whose writes tell of all its text keeps the invariant; one that  *)
(* hangs changes nothing else.                                             *)
LEMMA CallKeeps ==
    ASSUME StreamInv, NEW s \in Seq(Chars), NEW S, Call(S, s),
           Writable(stream) => Reached(S, Longer(wrote, s)), indentation' \in Int
    PROVE  StreamInv'
<1>1. /\ alive /\ ~hung /\ Kinds /\ Told(stream, wrote)
      /\ kind' = kind /\ owns' = owns /\ open' = open /\ alive' = alive /\ origin' = origin
      /\ wrote \in Seq(Chars) /\ (~alive /\ owns => stream.pending = <<>>)
  BY DEF Call, Usable, StreamInv, Kinds
<1>2. CASE Hangs
  <2>1. hung' = TRUE /\ stream' = stream /\ wrote' = wrote
    BY <1>2 DEF Call
  <2> QED BY <1>1, <2>1 DEF StreamInv, Kinds, Told, InBuffer, InDevice
<1>3. CASE ~Hangs
  <2>1. stream' \in S /\ wrote' = Longer(wrote, s) /\ hung' = hung
    BY <1>3 DEF Call, Longer
  <2>2. Writable(stream)
    <3>1. Len(stream.buffer) \in Nat
      BY <1>1 DEF Told, Streams, Contents
    <3> QED BY <1>3, <3>1 DEF Hangs, Writable, buffer_size
  <2>3. Told(stream', wrote')
    BY <2>1, <2>2 DEF Reached
  <2>4. Told(stream, wrote)'
    BY <1>1, <2>3 DEF Told, InBuffer, InDevice
  <2>5. wrote' \in Seq(Chars)
    BY <1>1, <2>1 DEF Longer
  <2> QED BY <1>1, <2>1, <2>4, <2>5 DEF StreamInv, Kinds
<1> QED BY <1>2, <1>3

(* print, print_raw and put: one write. *)
LEMMA PrintKeeps ==
    ASSUME StreamInv, NEW s \in Strings, print(s) \/ print_raw(s)
    PROVE  StreamInv'
<1>1. s \in Seq(Chars)
  BY CharsAssumption
<1>2. Call(write(stream, s), s) /\ indentation' = indentation
  BY DEF print, print_raw
<1>3. alive /\ Kinds /\ Told(stream, wrote) /\ wrote \in Seq(Chars) /\ indentation' \in Int
  BY <1>2 DEF Call, Usable, StreamInv, Kinds
<1>4. Writable(stream) => Reached(write(stream, s), Longer(wrote, s))
  BY <1>1, <1>3, WriteTells DEF Reached
<1> QED BY <1>1, <1>2, <1>3, <1>4, CallKeeps

(* Ending the line. *)
LEMMA NewlineKeeps ==
    ASSUME StreamInv, Call(cr({stream}), <<Newline>>), indentation' \in Int
    PROVE  StreamInv'
<1>1. <<Newline>> \in Seq(Chars)
  BY DEF Chars
<1>2. alive /\ Kinds /\ Told(stream, wrote) /\ wrote \in Seq(Chars)
  BY DEF Call, Usable, StreamInv, Kinds
<1>3. Writable(stream) => Reached(cr({stream}), Longer(wrote, <<Newline>>))
  <2> SUFFICES ASSUME Writable(stream) PROVE Reached(cr({stream}), Longer(wrote, <<Newline>>))
    OBVIOUS
  <2>1. Reached({stream}, wrote)
    BY <1>2 DEF Reached
  <2> QED BY <1>2, <2>1, NewlineTells
<1> QED BY <1>1, <1>3, CallKeeps

(* print_raw_cr, and print_cr of a text that is not empty: two writes.     *)
LEMMA PrintCrKeeps ==
    ASSUME StreamInv, NEW s \in Strings, print_raw_cr(s)
    PROVE  StreamInv'
<1>1. s \in Seq(Chars) /\ <<Newline>> \in Seq(Chars) /\ Newline \in Chars
  BY CharsAssumption DEF Chars
<1>2. PICK t \in Seq(Chars) : t = Append(s, Newline) /\ t = s \o <<Newline>>
  <2>1. Append(s, Newline) \in Seq(Chars) /\ Append(s, Newline) = s \o <<Newline>>
    BY <1>1
  <2> QED BY <2>1
<1>3. Call(cr(write(stream, s)), t) /\ indentation' = indentation
  BY <1>2 DEF print_raw_cr
<1>4. alive /\ Kinds /\ Told(stream, wrote) /\ wrote \in Seq(Chars) /\ indentation' \in Int
  BY <1>3 DEF Call, Usable, StreamInv, Kinds
<1>5. Writable(stream) => Reached(cr(write(stream, s)), Longer(wrote, t))
  <2> SUFFICES ASSUME Writable(stream) PROVE Reached(cr(write(stream, s)), Longer(wrote, t))
    OBVIOUS
  <2>1. PICK w \in Seq(Chars) : w = Longer(wrote, s)
    <3>1. Longer(wrote, s) \in Seq(Chars)
      BY <1>1, <1>4 DEF Longer
    <3> QED BY <3>1
  <2>2. Reached(write(stream, s), w)
    BY <1>1, <1>4, <2>1, WriteTells DEF Reached
  <2>3. Reached(cr(write(stream, s)), Longer(w, <<Newline>>))
    BY <1>4, <2>2, NewlineTells
  <2>4. Longer(w, <<Newline>>) = Longer(wrote, t)
    <3>1. PICK one \in Seq(Chars) : one = <<Newline>>
      BY <1>1
    <3>2. Longer(Longer(wrote, s), one) = Longer(wrote, s \o one)
      BY <1>1, <1>4, LongerTwice
    <3> QED BY <1>2, <2>1, <3>1, <3>2
  <2> QED BY <2>3, <2>4
<1> QED BY <1>3, <1>4, <1>5, CallKeeps

(* fill_to and indent: a number of blanks. *)
LEMMA BlanksKeep ==
    ASSUME StreamInv, NEW n \in Nat, Call(sp(n), Blanks(n)), indentation' = indentation
    PROVE  StreamInv'
<1>1. Blanks(n) \in Seq(Chars)
  BY OneMoreBlank
<1>2. alive /\ Kinds /\ Told(stream, wrote) /\ indentation' \in Int
  BY DEF Call, Usable, StreamInv, Kinds
<1>3. Writable(stream) => Reached(sp(n), Longer(wrote, Blanks(n)))
  BY <1>2, BlanksTell
<1> QED BY <1>1, <1>2, <1>3, CallKeeps

(* fill_to writes as many blanks as are missing, if any are. *)
LEMMA FillKeeps ==
    ASSUME StreamInv, NEW col \in Int, fill_to(col)
    PROVE  StreamInv'
<1>1. PICK p \in Nat : p = stream.position
  BY DEF StreamInv, Told, Streams
<1>2. PICK need : /\ need = Max({col - p, 0}) /\ need > 0
                  /\ Call(sp(need), Blanks(need)) /\ indentation' = indentation
  BY <1>1 DEF fill_to
<1>3. need \in Nat
  <2> DEFINE T == {col - p, 0}
  <2>1. \E m \in T : \A k \in T : m >= k
    <3>1. col - p \in Int
      OBVIOUS
    <3>2. CASE col - p >= 0
      BY <3>1, <3>2
    <3>3. CASE ~(col - p >= 0)
      BY <3>1, <3>3
    <3> QED BY <3>2, <3>3
  <2>2. need \in T
    <3> HIDE DEF T
    <3>1. Max(T) \in T
      BY <2>1, Zenon DEF Max
    <3> QED BY <1>2, <3>1 DEF T
  <2> QED BY <1>2, <2>2
<1> QED BY <1>2, <1>3, BlanksKeep

(* Starting over: what the buffer holds is no text any more. *)
LEMMA ResetKeeps ==
    ASSUME StreamInv, reset
    PROVE  StreamInv'
<1> DEFINE r == [stream EXCEPT !.pos = 0]
<1>1. /\ kind = "string" /\ stream' = r /\ wrote' = <<>> /\ origin' = stream.position
      /\ kind' = kind /\ indentation' = indentation /\ owns' = owns /\ open' = open
      /\ alive' = alive /\ hung' = hung /\ alive
  BY DEF reset, Usable
<1>2. stream \in Streams /\ Told(stream, wrote) /\ Kinds
  BY DEF StreamInv, Told
<1>3. /\ r \in Streams /\ r.pos = 0 /\ r.buffer = stream.buffer /\ r.position = stream.position
      /\ r.pending = stream.pending /\ r.device = stream.device /\ r.lost = stream.lost
      /\ r.held = stream.held /\ stream.position \in Nat /\ Len(stream.buffer) \in Nat
  <2>1. stream.buffer \in Contents
    BY <1>2 DEF Streams
  <2>2. Len(stream.buffer) \in Nat
    BY <2>1 DEF Contents
  <2> QED BY <1>2, <2>2 DEF Streams
<1> HIDE DEF r
<1>4. PICK none \in Seq(Chars) : none = <<>> /\ Len(none) = 0
  <2>1. <<>> \in Seq(Chars) /\ Len(<<>>) = 0
    OBVIOUS
  <2> QED BY <2>1
<1>5. update_position(stream.position, none) = stream.position
  <2>1. PICK p \in Nat : p = stream.position
    BY <1>3
  <2> QED BY <1>4, <2>1, ColumnOfLittle
<1>6. InBuffer(r, none)
  <2>1. owns => Len(stream.buffer) > 0
    BY <1>1, <1>2 DEF Told, InBuffer
  <2>2. 1..r.pos = {}
    BY <1>3
  <2> QED BY <1>3, <1>4, <2>1, <2>2 DEF InBuffer
<1>7. Told(stream, wrote)'
  BY <1>1, <1>2, <1>3, <1>4, <1>5, <1>6 DEF Told, InBuffer
<1>8. Kinds'
  BY <1>1, <1>2, <1>3, <1>4 DEF Kinds
<1> QED BY <1>1, <1>7, <1>8 DEF StreamInv

(* Text is handed on to the device: first device and then pending are what *)
(* they were together.                                                     *)
LEMMA HandedOn ==
    ASSUME StreamInv, NEW d \in Seq(Chars), NEW q \in Seq(Chars),
           d \o q = stream.device \o stream.pending \/ stream'.lost \/ kind = "string",
           stream'.lost = stream.lost \/ stream'.lost = TRUE,
           stream.pending = <<>> => q = <<>>, stream' \in Streams,
           stream'.device = d, stream'.pending = q, stream'.buffer = stream.buffer, stream'.pos = stream.pos,
           stream'.position = stream.position, stream'.held = IF alive' /\ owns THEN 1 ELSE 0,
           alive' \in BOOLEAN, ~alive' /\ owns => q = <<>>,
           UNCHANGED <<kind, indentation, owns, open, hung, wrote, origin>>
    PROVE  StreamInv'
<1>1. Told(stream, wrote) /\ Kinds
  BY DEF StreamInv
<1>2. kind # "string" => InDevice(stream, wrote)'
  BY <1>1 DEF Told, InDevice
<1>3. kind = "string" => InBuffer(stream, wrote)'
  BY <1>1 DEF Told, InBuffer
<1>4. Told(stream, wrote)'
  BY <1>1, <1>2, <1>3 DEF Told
<1>5. Kinds'
  BY <1>1 DEF Kinds
<1> QED BY <1>4, <1>5 DEF StreamInv

(* r differs from st in its device and in what is held back and given back. *)
SameText(st, r, d, q, n) ==
    /\ r \in Streams /\ r.device = d /\ r.pending = q
    /\ r.buffer = st.buffer /\ r.pos = st.pos /\ r.position = st.position
    /\ r.lost = st.lost /\ r.held = n

(* A stream with this in its device, and that held back. *)
WithText(st, d, q) == [st EXCEPT !.device = d, !.pending = q]
LEMMA WithTextFields ==
    ASSUME NEW st \in Streams, NEW d \in Seq(Chars), NEW q \in Seq(Chars),
           NEW r, r = WithText(st, d, q)
    PROVE  /\ r \in Streams /\ r.device = d /\ r.pending = q
           /\ r.buffer = st.buffer /\ r.pos = st.pos /\ r.position = st.position
           /\ r.lost = st.lost /\ r.held = st.held
<1> DEFINE r1 == [st EXCEPT !.device = d]
           r2 == [r1 EXCEPT !.pending = q]
<1>1. /\ r1 \in Streams /\ r1.device = d /\ r1.pending = st.pending
      /\ r1.buffer = st.buffer /\ r1.pos = st.pos /\ r1.position = st.position
      /\ r1.lost = st.lost /\ r1.held = st.held
  BY DEF Streams
<1>2. r = r2
  BY DEF WithText
<1> HIDE DEF r1
<1>3. /\ r2 \in Streams /\ r2.device = d /\ r2.pending = q
      /\ r2.buffer = st.buffer /\ r2.pos = st.pos /\ r2.position = st.position
      /\ r2.lost = st.lost /\ r2.held = st.held
  BY <1>1 DEF Streams
<1> QED BY <1>2, <1>3

(* One that lost what was held back. *)
WithLoss(st, q, l) == [st EXCEPT !.pending = q, !.lost = l]
LEMMA WithLossFields ==
    ASSUME NEW st \in Streams, NEW q \in Seq(Chars), NEW l \in BOOLEAN,
           NEW r, r = WithLoss(st, q, l)
    PROVE  /\ r \in Streams /\ r.device = st.device /\ r.pending = q
           /\ r.buffer = st.buffer /\ r.pos = st.pos /\ r.position = st.position
           /\ r.lost = l /\ r.held = st.held
<1> DEFINE r1 == [st EXCEPT !.pending = q]
           r2 == [r1 EXCEPT !.lost = l]
<1>1. /\ r1 \in Streams /\ r1.device = st.device /\ r1.pending = q
      /\ r1.buffer = st.buffer /\ r1.pos = st.pos /\ r1.position = st.position
      /\ r1.lost = st.lost /\ r1.held = st.held
  BY DEF Streams
<1>2. r = r2
  BY DEF WithLoss
<1> HIDE DEF r1
<1>3. /\ r2 \in Streams /\ r2.device = st.device /\ r2.pending = q
      /\ r2.buffer = st.buffer /\ r2.pos = st.pos /\ r2.position = st.position
      /\ r2.lost = l /\ r2.held = st.held
  BY <1>1 DEF Streams
<1> QED BY <1>2, <1>3

(* One with another device. *)
WithDevice(st, d, l) == [st EXCEPT !.device = d, !.lost = l]
LEMMA WithDeviceFields ==
    ASSUME NEW st \in Streams, NEW d \in Seq(Chars), NEW l \in BOOLEAN,
           NEW r, r = WithDevice(st, d, l)
    PROVE  /\ r \in Streams /\ r.device = d /\ r.pending = st.pending
           /\ r.buffer = st.buffer /\ r.pos = st.pos /\ r.position = st.position
           /\ r.lost = l /\ r.held = st.held
<1> DEFINE r1 == [st EXCEPT !.device = d]
           r2 == [r1 EXCEPT !.lost = l]
<1>1. /\ r1 \in Streams /\ r1.device = d /\ r1.pending = st.pending
      /\ r1.buffer = st.buffer /\ r1.pos = st.pos /\ r1.position = st.position
      /\ r1.lost = st.lost /\ r1.held = st.held
  BY DEF Streams
<1>2. r = r2
  BY DEF WithDevice
<1> HIDE DEF r1
<1>3. /\ r2 \in Streams /\ r2.device = d /\ r2.pending = st.pending
      /\ r2.buffer = st.buffer /\ r2.pos = st.pos /\ r2.position = st.position
      /\ r2.lost = l /\ r2.held = st.held
  BY <1>1 DEF Streams
<1> QED BY <1>2, <1>3

(* One that gave something back, too. *)
WithHeld(st, d, q, n) == [st EXCEPT !.device = d, !.pending = q, !.held = n]
LEMMA WithHeldFields ==
    ASSUME NEW st \in Streams, NEW d \in Seq(Chars), NEW q \in Seq(Chars), NEW n \in Nat,
           NEW r, r = WithHeld(st, d, q, n)
    PROVE  /\ r \in Streams /\ r.device = d /\ r.pending = q
           /\ r.buffer = st.buffer /\ r.pos = st.pos /\ r.position = st.position
           /\ r.lost = st.lost /\ r.held = n
<1> DEFINE r1 == [st EXCEPT !.device = d]
           r2 == [r1 EXCEPT !.pending = q]
           r3 == [r2 EXCEPT !.held = n]
<1>1. /\ r1 \in Streams /\ r1.device = d /\ r1.pending = st.pending
      /\ r1.buffer = st.buffer /\ r1.pos = st.pos /\ r1.position = st.position
      /\ r1.lost = st.lost /\ r1.held = st.held
  BY DEF Streams
<1>2. r = r3
  BY DEF WithHeld
<1> HIDE DEF r1
<1>3. /\ r2 \in Streams /\ r2.device = d /\ r2.pending = q
      /\ r2.buffer = st.buffer /\ r2.pos = st.pos /\ r2.position = st.position
      /\ r2.lost = st.lost /\ r2.held = st.held
  BY <1>1 DEF Streams
<1> HIDE DEF r2
<1>4. /\ r3 \in Streams /\ r3.device = d /\ r3.pending = q
      /\ r3.buffer = st.buffer /\ r3.pos = st.pos /\ r3.position = st.position
      /\ r3.lost = st.lost /\ r3.held = n
  BY <1>3 DEF Streams
<1> QED BY <1>2, <1>4

(* The two in one. *)
LEMMA TextsSame ==
    /\ \A st \in Streams, d \in Seq(Chars), q \in Seq(Chars) :
          SameText(st, WithText(st, d, q), d, q, st.held)
    /\ \A st \in Streams, d \in Seq(Chars), q \in Seq(Chars), n \in Nat :
          SameText(st, WithHeld(st, d, q, n), d, q, n)
<1>1. ASSUME NEW st \in Streams, NEW d \in Seq(Chars), NEW q \in Seq(Chars)
      PROVE  SameText(st, WithText(st, d, q), d, q, st.held)
  BY WithTextFields DEF SameText
<1>2. ASSUME NEW st \in Streams, NEW d \in Seq(Chars), NEW q \in Seq(Chars), NEW n \in Nat
      PROVE  SameText(st, WithHeld(st, d, q, n), d, q, n)
  BY WithHeldFields DEF SameText
<1> QED BY <1>1, <1>2

(* fflush: all that was held back. *)
LEMMA FlushKeeps ==
    ASSUME StreamInv, flush
    PROVE  StreamInv'
<1>1. Told(stream, wrote) /\ Kinds /\ stream \in Streams /\ alive /\ stream.lost \in BOOLEAN
      /\ stream.device \in Seq(Chars) /\ stream.pending \in Seq(Chars)
  BY DEF flush, Usable, StreamInv, Told, Streams
<1>2. PICK d \in Seq(Chars), q \in Seq(Chars) : d = stream.device \o stream.pending /\ q = <<>> /\ d \o q = d
  <2>1. PICK d \in Seq(Chars) : d = stream.device \o stream.pending
    <3>1. stream.device \o stream.pending \in Seq(Chars)
      BY <1>1
    <3> QED BY <3>1
  <2>2. <<>> \in Seq(Chars) /\ d \o <<>> = d
    OBVIOUS
  <2> QED BY <2>1, <2>2
<1>3. /\ stream' = WithText(stream, d, q)
      /\ UNCHANGED <<kind, indentation, owns, open, alive, hung, wrote, origin>>
  BY <1>1, <1>2 DEF flush, WithText
<1>4. /\ stream' \in Streams /\ stream'.device = d /\ stream'.pending = q /\ stream'.buffer = stream.buffer
      /\ stream'.pos = stream.pos /\ stream'.position = stream.position /\ stream'.lost = stream.lost
      /\ stream'.held = stream.held
  <2>1. stream \in Streams /\ stream' = WithText(stream, d, q)
    BY <1>1, <1>3
  <2> QED BY <2>1, WithTextFields
<1>5. stream'.held = IF alive' /\ owns THEN 1 ELSE 0
  BY <1>1, <1>3, <1>4 DEF Told
<1> QED BY <1>1, <1>2, <1>3, <1>4, <1>5, HandedOn DEF Kinds

(* The C library hands on a part, at any time. *)
LEMMA TransferKeeps ==
    ASSUME StreamInv, Transfer
    PROVE  StreamInv'
<1>1. Told(stream, wrote) /\ Kinds /\ stream \in Streams /\ (~alive /\ owns => stream.pending = <<>>)
      /\ stream.device \in Seq(Chars) /\ stream.pending \in Seq(Chars)
  BY DEF StreamInv, Told, Streams
<1>2. PICK n \in 1..Len(stream.pending) :
         stream' = [stream EXCEPT !.device = stream.device \o SubSeq(stream.pending, 1, n),
                                  !.pending = SubSeq(stream.pending, n + 1, Len(stream.pending))]
  BY <1>1 DEF Transfer
<1>3. PICK dev \in Seq(Chars), held \in Seq(Chars), s \in Seq(Chars), q \in Seq(Chars) :
         /\ dev = stream.device /\ held = stream.pending
         /\ s = SubSeq(held, 1, n) /\ q = SubSeq(held, n + 1, Len(held)) /\ s \o q = held
  <2>1. PICK dev \in Seq(Chars), held \in Seq(Chars) : dev = stream.device /\ held = stream.pending
    BY <1>1
  <2>2. n \in 1..Len(held)
    BY <2>1
  <2>3. SubSeq(held, 1, n) \in Seq(Chars) /\ SubSeq(held, n + 1, Len(held)) \in Seq(Chars)
    BY <2>2
  <2>4. SubSeq(held, 1, n) \o SubSeq(held, n + 1, Len(held)) = held
    BY <2>2
  <2> QED BY <2>1, <2>3, <2>4
<1>4. PICK d \in Seq(Chars) : d = dev \o s
  <2>1. dev \o s \in Seq(Chars)
    OBVIOUS
  <2> QED BY <2>1
<1>5. d \o q = dev \o held
  <2>1. (dev \o s) \o q = dev \o (s \o q)
    BY Zenon, JoinedTwice
  <2> QED BY <1>3, <1>4, <2>1
<1>6. /\ stream' = WithText(stream, d, q)
      /\ UNCHANGED <<kind, indentation, owns, open, alive, hung, wrote, origin>>
  BY <1>2, <1>3, <1>4 DEF Transfer, WithText
<1>7. /\ stream' \in Streams /\ stream'.device = d /\ stream'.pending = q /\ stream'.buffer = stream.buffer
      /\ stream'.pos = stream.pos /\ stream'.position = stream.position /\ stream'.lost = stream.lost
      /\ stream'.held = stream.held
  <2>1. SameText(stream, WithText(stream, d, q), d, q, stream.held)
    BY <1>1, TextsSame, Zenon
  <2> QED BY <1>6, <2>1 DEF SameText
<1>8. stream'.held = IF alive' /\ owns THEN 1 ELSE 0
  BY <1>1, <1>6, <1>7 DEF Told
<1>9. stream.pending # <<>>
  BY <1>1
<1> QED BY <1>1, <1>3, <1>5, <1>6, <1>7, <1>8, <1>9, HandedOn DEF Kinds

(* The device fails while text is handed on. *)
LEMMA LoseKeeps ==
    ASSUME StreamInv, Lose
    PROVE  StreamInv'
<1>1. Told(stream, wrote) /\ Kinds /\ stream \in Streams /\ stream.device \in Seq(Chars)
  BY DEF StreamInv, Told, Streams
<1>2. PICK q \in Seq(Chars), l \in BOOLEAN : q = <<>> /\ l = TRUE
  <2>1. <<>> \in Seq(Chars) /\ TRUE \in BOOLEAN
    OBVIOUS
  <2> QED BY <2>1
<1>3. /\ stream' = WithLoss(stream, q, l) /\ stream.pending # <<>>
      /\ UNCHANGED <<kind, indentation, owns, open, alive, hung, wrote, origin>>
  BY <1>2 DEF Lose, WithLoss
<1>4. /\ stream' \in Streams /\ stream'.device = stream.device /\ stream'.pending = q
      /\ stream'.buffer = stream.buffer /\ stream'.pos = stream.pos /\ stream'.position = stream.position
      /\ stream'.lost = l /\ stream'.held = stream.held
  BY <1>1, <1>3, WithLossFields
<1>5. stream'.held = IF alive' /\ owns THEN 1 ELSE 0
  BY <1>1, <1>3, <1>4 DEF Told
<1> QED BY <1>1, <1>2, <1>3, <1>4, <1>5, HandedOn DEF Kinds

(* The destructor: fclose hands on what was held back. *)
LEMMA DestroyKeeps ==
    ASSUME StreamInv, Destroy
    PROVE  StreamInv'
<1>1. Told(stream, wrote) /\ Kinds /\ stream \in Streams /\ alive /\ stream.lost \in BOOLEAN
      /\ stream.device \in Seq(Chars) /\ stream.pending \in Seq(Chars)
  BY DEF Destroy, Usable, StreamInv, Told, Streams
<1>2. /\ alive' = FALSE /\ stream' = Destroyed(stream)
      /\ UNCHANGED <<kind, indentation, owns, open, hung, wrote, origin>>
  BY DEF Destroy
<1>3. CASE owns
  <2>1. PICK d \in Seq(Chars), q \in Seq(Chars) :
           d = stream.device \o stream.pending /\ q = <<>> /\ d \o q = d
    <3>1. PICK d \in Seq(Chars) : d = stream.device \o stream.pending
      <4>1. stream.device \o stream.pending \in Seq(Chars)
        BY <1>1
      <4> QED BY <4>1
    <3>2. <<>> \in Seq(Chars) /\ d \o <<>> = d
      OBVIOUS
    <3> QED BY <3>1, <3>2
  <2>2. stream.held = 1 /\ GivenBack(stream.held) = 0
    BY <1>1, <1>3 DEF Told, GivenBack
  <2>3. PICK n \in Nat : n = 0
    OBVIOUS
  <2>4. stream' = WithHeld(stream, d, q, n)
    BY <1>1, <1>2, <1>3, <2>1, <2>2, <2>3 DEF Destroyed, WithHeld
  <2>5. /\ stream' \in Streams /\ stream'.device = d /\ stream'.pending = q /\ stream'.buffer = stream.buffer
        /\ stream'.pos = stream.pos /\ stream'.position = stream.position /\ stream'.lost = stream.lost
        /\ stream'.held = n
    <3>1. SameText(stream, WithHeld(stream, d, q, n), d, q, n)
      BY <1>1, TextsSame, Zenon
    <3> QED BY <2>4, <3>1 DEF SameText
  <2>6. stream'.held = IF alive' /\ owns THEN 1 ELSE 0
    BY <1>2, <2>3, <2>5
  <2> QED BY <1>1, <1>2, <2>1, <2>5, <2>6, HandedOn DEF Kinds
<1>4. CASE ~owns
  <2>1. stream' = stream
    BY <1>2, <1>4 DEF Destroyed
  <2>2. stream'.held = IF alive' /\ owns THEN 1 ELSE 0
    BY <1>1, <1>2, <1>4, <2>1 DEF Told
  <2>3. PICK d \in Seq(Chars), q \in Seq(Chars) : d = stream.device /\ q = stream.pending
    BY <1>1
  <2> QED BY <1>1, <1>2, <1>4, <2>1, <2>2, <2>3, HandedOn DEF Kinds
<1> QED BY <1>3, <1>4

(* Another descriptor: what was written there, and lost there, counts.     *)
LEMMA SetFdKeeps ==
    ASSUME StreamInv, set_fd
    PROVE  StreamInv'
<1>1. Told(stream, wrote) /\ Kinds /\ stream \in Streams /\ alive /\ stream.position \in Nat
  BY DEF set_fd, Usable, StreamInv, Told, Streams
<1>2. PICK d \in Seq(Chars), l \in BOOLEAN : d = <<>> /\ l = FALSE /\ d \o <<>> = <<>>
  <2>1. <<>> \in Seq(Chars) /\ FALSE \in BOOLEAN /\ <<>> \o <<>> = <<>>
    OBVIOUS
  <2> QED BY <2>1
<1>3. /\ stream' = WithDevice(stream, d, l) /\ kind = "fd" /\ open' \in BOOLEAN
      /\ wrote' = d /\ origin' = stream.position
      /\ UNCHANGED <<kind, indentation, owns, alive, hung>>
  BY <1>2 DEF set_fd, WithDevice
<1>4. /\ stream' \in Streams /\ stream'.device = d /\ stream'.pending = stream.pending
      /\ stream'.buffer = stream.buffer /\ stream'.pos = stream.pos /\ stream'.position = stream.position
      /\ stream'.lost = l /\ stream'.held = stream.held
  BY <1>1, <1>3, WithDeviceFields
<1>5. update_position(stream.position, d) = stream.position
  <2>1. PICK p \in Nat : p = stream.position
    BY <1>1
  <2> QED BY <1>2, <2>1, ColumnOfLittle
<1>6. InDevice(stream, wrote)'
  BY <1>1, <1>2, <1>3, <1>4 DEF InDevice, Told
<1>7. Told(stream, wrote)'
  BY <1>1, <1>3, <1>4, <1>5, <1>6 DEF Told
<1>8. Kinds'
  BY <1>1, <1>3 DEF Kinds
<1> QED BY <1>1, <1>3, <1>7, <1>8 DEF StreamInv

(* inc_cr and dec_cr: the line ends, whatever the indentation becomes.     *)
LEMMA IncCrKeeps ==
    ASSUME StreamInv, NEW i \in Int, inc_cr(i)
    PROVE  StreamInv'
<1>1. Call(cr({stream}), <<Newline>>) /\ indentation' \in Int
  BY DEF inc_cr
<1> QED BY <1>1, NewlineKeeps

(* What leaves the stream and its text alone. *)
LEMMA SameStreamKeeps ==
    ASSUME StreamInv, indentation' \in Int,
           UNCHANGED <<kind, stream, owns, open, alive, hung, wrote, origin>>
    PROVE  StreamInv'
<1>1. Told(stream, wrote)'
  BY DEF StreamInv, Told, InBuffer, InDevice
<1>2. Kinds'
  BY DEF StreamInv, Kinds
<1> QED BY <1>1, <1>2 DEF StreamInv

-----------------------------------------------------------------------------
(* The specification keeps the invariant *)

(* Whatever class is constructed, over whatever buffer: no text, and the   *)
(* column it begins in.                                                    *)
LEMMA StreamInitially == Init => StreamInv
<1> SUFFICES ASSUME Init PROVE StreamInv
  OBVIOUS
<1>1. PICK n \in {0, OwnedSize} \cup FixedSizes :
         /\ stream = [buffer |-> [i \in 1..n |-> Raw], pos |-> 0, position |-> 0,
                      pending |-> <<>>, device |-> <<>>, lost |-> FALSE,
                      held |-> IF owns THEN 1 ELSE 0]
         /\ stringStream(n) \/ fileStream(n) \/ fdStream(n)
  BY DEF Init
<1>2. n \in Nat /\ OwnedSize > 0
  BY SizesAssumption
<1>3. /\ owns \in BOOLEAN /\ open \in BOOLEAN /\ indentation = 0 /\ alive = TRUE /\ hung = FALSE
      /\ origin = 0
  BY DEF Init
<1>4. PICK b \in Contents : b = [i \in 1..n |-> Raw] /\ Len(b) = n
  <2>1. [i \in 1..n |-> Raw] \in Contents /\ Len([i \in 1..n |-> Raw]) = n
    BY <1>2 DEF Contents
  <2> QED BY <2>1
<1>5. PICK none \in Seq(Chars) : none = <<>> /\ Len(none) = 0 /\ none \o none = none
  <2>1. <<>> \in Seq(Chars) /\ Len(<<>>) = 0 /\ <<>> \o <<>> = <<>>
    OBVIOUS
  <2> QED BY <2>1
<1>6. PICK h \in Nat : h = IF alive /\ owns THEN 1 ELSE 0
  BY <1>3
<1>7. stream = [buffer |-> b, pos |-> 0, position |-> 0,
                pending |-> none, device |-> none, lost |-> FALSE, held |-> h]
  BY <1>1, <1>3, <1>4, <1>5, <1>6
<1>8. /\ stream \in Streams
      /\ stream.buffer = b /\ stream.pos = 0 /\ stream.position = 0 /\ stream.pending = none
      /\ stream.device = none /\ stream.lost = FALSE /\ stream.held = h
  BY <1>7 DEF Streams
<1>9. wrote = none
  BY <1>5 DEF Init
<1>10. Kinds
  <2>1. /\ kind \in {"string", "file", "fd"}
        /\ kind = "string" => open
        /\ kind = "file" /\ owns => open
        /\ kind = "fd" => ~owns
    BY <1>1 DEF stringStream, fileStream, fdStream
  <2>2. {owns, open, alive, hung} \subseteq BOOLEAN
    BY <1>3
  <2>3. wrote \in Seq(Chars) /\ origin \in Nat /\ indentation \in Int
    BY <1>3, <1>9
  <2> QED BY <2>1, <2>2, <2>3 DEF Kinds
<1>11. kind = "string" => InBuffer(stream, wrote)
  <2>1. kind = "string" /\ owns => n > 0
    BY <1>1, <1>2 DEF stringStream, fileStream, fdStream
  <2>2. 1..stream.pos = {}
    BY <1>8
  <2> QED BY <1>2, <1>4, <1>5, <1>8, <1>9, <2>1, <2>2 DEF InBuffer
<1>12. update_position(origin, wrote) = 0
  <2>1. update_position(0, <<>>) = 0
    BY ColumnOfLittle
  <2> QED BY <1>3, <1>5, <1>9, <2>1
<1>13. Told(stream, wrote)
  BY <1>2, <1>4, <1>5, <1>6, <1>8, <1>9, <1>11, <1>12 DEF Told, InDevice
<1> QED BY <1>3, <1>10, <1>13 DEF StreamInv

(* Every step keeps it. *)
LEMMA StreamStepKeeps == StreamInv /\ [Next]_vars => StreamInv'
<1> SUFFICES ASSUME StreamInv, [Next]_vars PROVE StreamInv'
  OBVIOUS
<1>1. ASSUME NEW s \in Strings, print(s) \/ print_raw(s) \/ print_raw_cr(s)
      PROVE  StreamInv'
  BY <1>1, PrintKeeps, PrintCrKeeps
<1>2. ASSUME newline \/ bol PROVE StreamInv'
  <2>1. Call(cr({stream}), <<Newline>>) /\ indentation' = indentation
    BY <1>2 DEF newline, bol
  <2>2. indentation \in Int
    BY DEF StreamInv, Kinds
  <2> QED BY <2>1, <2>2, NewlineKeeps
<1>3. ASSUME NEW col \in 1..Bound, fill_to(col) PROVE StreamInv'
  <2>1. col \in Int
    OBVIOUS
  <2> QED BY <1>3, <2>1, FillKeeps
<1>4. ASSUME indent PROVE StreamInv'
  <2>1. PICK n \in Nat : n = indentation
    <3>1. indentation \in Int
      BY DEF StreamInv, Kinds
    <3>2. indentation > 0
      BY <1>4 DEF indent
    <3> QED BY <3>1, <3>2
  <2>2. Call(sp(n), Blanks(n)) /\ indentation' = indentation
    BY <1>4, <2>1 DEF indent
  <2> QED BY <2>2, BlanksKeep
<1>5. ASSUME NEW i \in -1..Bound, set_indentation(i) PROVE StreamInv'
  <2>1. indentation' \in Int
    BY <1>5 DEF set_indentation
  <2>2. UNCHANGED <<kind, stream, owns, open, alive, hung, wrote, origin>>
    BY <1>5 DEF set_indentation
  <2> QED BY <2>1, <2>2, SameStreamKeeps
<1>6. ASSUME NEW i \in {indentation - 1, indentation + 1} \cap -1..Bound, inc_cr(i)
      PROVE  StreamInv'
  <2>1. i \in Int
    OBVIOUS
  <2> QED BY <1>6, <2>1, IncCrKeeps
<1>7. ASSUME Halted \/ UNCHANGED vars PROVE StreamInv'
  <2>1. indentation' = indentation /\ UNCHANGED <<kind, stream, owns, open, alive, hung, wrote, origin>>
    BY <1>7 DEF Halted, vars
  <2>2. indentation \in Int
    BY DEF StreamInv, Kinds
  <2> QED BY <2>1, <2>2, SameStreamKeeps
<1> QED
  BY <1>1, <1>2, <1>3, <1>4, <1>5, <1>6, <1>7, ResetKeeps, FlushKeeps, SetFdKeeps, DestroyKeeps,
     TransferKeeps, LoseKeeps DEF Next

(* In every state, a stream is like the text that was written to it.       *)
THEOREM StreamInvariant == Spec => []StreamInv
BY StreamInitially, StreamStepKeeps, PTL DEF Spec

-----------------------------------------------------------------------------
(* What the invariant says *)

(* A stream's fields are what they can be, and its buffer always has room  *)
(* for one more character behind the text.                                 *)
THEOREM StreamsTyped == Spec => []TypeOK
<1>1. StreamInv => TypeOK
  BY DEF StreamInv, Told, Kinds, Streams, Contents, TypeOK, buffer_size
<1> QED BY <1>1, StreamInvariant, PTL

(* A string stream holds what was written since the last reset, in order,  *)
(* however often its buffer grew; one of fixed size holds the beginning of *)
(* it, as much as leaves room for a terminator.                            *)
THEOREM TextIsKept == Spec => []TextKept
<1>1. ASSUME StreamInv, kind = "string", alive
      PROVE  SubSeq(stream.buffer, 1, stream.pos) =
                IF owns THEN wrote ELSE SubSeq(wrote, 1, Min({Len(wrote), buffer_size - 1}))
  <2>1. /\ Told(stream, wrote) /\ InBuffer(stream, wrote) /\ wrote \in Seq(Chars)
        /\ stream.buffer \in Contents /\ stream.pos \in Nat /\ owns \in BOOLEAN
    BY <1>1 DEF StreamInv, Kinds, Told, Streams
  <2>2. PICK b \in Contents, w \in Seq(Chars), p \in Nat, n \in Nat, l \in Nat :
           b = stream.buffer /\ w = wrote /\ p = stream.pos /\ n = Len(b) /\ l = Len(w)
    BY <2>1 DEF Contents
  <2>3. /\ n = 0 => p = 0 /\ w = <<>>
        /\ owns => n > 0 /\ p = l
        /\ p <= l /\ (p = l \/ p = n - 1)
        /\ \A i \in 1..p : b[i] = w[i]
        /\ n > 0 => p < n
    BY <2>1, <2>2 DEF InBuffer, Told
  <2>4. SubSeq(b, 1, p) = SubSeq(w, 1, p)
    <3>1. p <= n /\ p <= l
      <4>1. n > 0 \/ n = 0
        OBVIOUS
      <4> QED BY <2>3, <4>1
    <3>2. SubSeq(b, 1, p) = [i \in 1..p |-> b[i]] /\ SubSeq(w, 1, p) = [i \in 1..p |-> w[i]]
      BY <2>2, <3>1 DEF Contents
    <3> QED BY <2>3, <3>2
  <2>5. CASE owns
    <3>1. SubSeq(w, 1, l) = w
      BY <2>2
    <3> QED BY <2>2, <2>3, <2>4, <2>5, <3>1
  <2>6. CASE ~owns /\ n = 0
    <3>1. w = <<>> /\ p = 0 /\ l = 0
      BY <2>2, <2>3, <2>6
    <3>2. SubSeq(w, 1, p) = <<>>
      BY <3>1
    <3>3. PICK m \in Int : m = Min({l, n - 1})
      <4> DEFINE T == {l, n - 1}
      <4>1. -1 \in T /\ \A k \in T : -1 <= k
        BY <2>6, <3>1
      <4>2. T \subseteq Int
        OBVIOUS
      <4>3. Min(T) \in T
        <5> HIDE DEF T
        <5> QED BY <4>1, Zenon DEF Min
      <4> QED BY <4>2, <4>3
    <3>4. SubSeq(w, 1, m) = <<>>
      <4>1. m \in {l, n - 1}
        <5> DEFINE T == {l, n - 1}
        <5>1. -1 \in T /\ \A k \in T : -1 <= k
          BY <2>6, <3>1
        <5>2. Min(T) \in T
          <6> HIDE DEF T
          <6> QED BY <5>1, Zenon DEF Min
        <5> QED BY <3>3, <5>2
      <4>2. m <= 0
        BY <2>6, <3>1, <4>1
      <4> QED BY <3>1, <4>2
    <3> QED BY <2>2, <2>4, <2>6, <3>2, <3>3, <3>4 DEF buffer_size
  <2>7. CASE ~owns /\ n > 0
    <3>1. PICK m \in Nat : m = n - 1
      BY <2>7
    <3>2. p <= l /\ p <= m /\ (p = l \/ p = m)
      BY <2>3, <2>7, <3>1
    <3>3. Min({l, m}) = p
      <4> DEFINE T == {l, m}
      <4>1. p \in T /\ (\A k \in T : p <= k) /\ T \subseteq Nat
        BY <3>2
      <4>2. Min(T) \in T /\ \A k \in T : Min(T) <= k
        <5> HIDE DEF T
        <5> QED BY <4>1, Zenon DEF Min
      <4>3. Min(T) \in Nat /\ Min(T) <= p /\ p <= Min(T)
        <5> HIDE DEF T
        <5> QED BY <4>1, <4>2
      <4>4. ASSUME NEW x \in Nat, x <= p, p <= x PROVE x = p
        BY <4>4
      <4> QED BY <4>3, <4>4
    <3> QED BY <2>2, <2>4, <2>7, <3>1, <3>3 DEF buffer_size
  <2>8. n = 0 \/ n > 0
    OBVIOUS
  <2> QED BY <2>5, <2>6, <2>7, <2>8
<1>2. StreamInv => TextKept
  BY <1>1 DEF TextKept
<1> QED BY <1>2, StreamInvariant, PTL

(* Of a stream that holds text: the copy that as_string makes, and the     *)
(* string that base() shows, end where the text does.                      *)
THEOREM TextsTerminated == Spec => []Terminated
<1>1. ASSUME StreamInv, stream.pos > 0
      PROVE  as_string[stream.pos + 1] = NUL
  <2>1. PICK b \in Contents, p \in Nat : b = stream.buffer /\ p = stream.pos
    <3>1. stream \in Streams
      BY <1>1 DEF StreamInv, Told
    <3> QED BY <3>1 DEF Streams
  <2>2. p > 0 /\ p < Len(b) /\ b[p + 1] = NUL
    BY <1>1, <2>1 DEF StreamInv, Told
  <2>3. SubSeq(b, 1, p + 1)[p + 1] = b[p + 1]
    BY <2>2 DEF Contents
  <2> QED BY <2>1, <2>2, <2>3 DEF as_string
<1>2. StreamInv => Terminated
  BY <1>1 DEF Terminated
<1> QED BY <1>2, StreamInvariant, PTL

(* _position is the column that the text leads to from where it began,     *)
(* whatever part of it the device took.                                    *)
THEOREM ColumnFollowsText == Spec => []PositionFollows
<1>1. StreamInv => PositionFollows
  BY DEF StreamInv, Told, PositionFollows
<1> QED BY <1>1, StreamInvariant, PTL

(* A device that fails nobody gets what was written, once and in order;    *)
(* and when the stream that opened it is gone, it got all of it.           *)
THEOREM DeviceGetsText == Spec => []Delivered
<1>1. StreamInv => Delivered
  BY DEF StreamInv, Told, InDevice, Delivered
<1> QED BY <1>1, StreamInvariant, PTL

(* A stream always has one buffer or file to give back, of those it made   *)
(* itself, until its destructor gave it back, once.                        *)
THEOREM BuffersGivenBack == Spec => []Released
<1>1. StreamInv => Released
  BY DEF StreamInv, Told, Released
<1> QED BY <1>1, StreamInvariant, PTL

=============================================================================
