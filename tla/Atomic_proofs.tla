--------------------------- MODULE Atomic_proofs ---------------------------
(***************************************************************************)
(* Theorems about Atomic, for any threads, word size and frames: the types *)
(* of the shared words and locals, the lock built on atomic_cas although   *)
(* it stores an address, the token that atomic_xchg hands on, and the      *)
(* tickets that atomic_add gives out.                                      *)
(***************************************************************************)
EXTENDS Atomic, TLAPS

USE DEF Word

(* The sum atomic_add leaves in the word is a word again. *)
LEMMA AddWraps ==
    ASSUME NEW w \in Word, NEW val \in Nat
    PROVE  atomic_add(w, val) \in Word
BY ModulusAssumption, SMT DEF atomic_add

(* Every shared word and every local of atomic.hpp's clients keeps its type. *)
THEOREM TypeCorrect == Spec => []TypeOK
<1>1. Init => TypeOK
    BY ModulusAssumption, DrawsAssumption, SMT DEF Init, TypeOK
<1>2. TypeOK /\ [Next]_vars => TypeOK'
    <2>1. SUFFICES ASSUME TypeOK, [Next]_vars PROVE TypeOK'
        OBVIOUS
    <2>2. CASE UNCHANGED vars
        BY <2>1, <2>2 DEF TypeOK, vars
    <2>3. ASSUME NEW t \in Threads, Look(t) PROVE TypeOK'
        BY <2>1, <2>3, SMT DEF TypeOK, Look
    <2>4. ASSUME NEW t \in Threads, TryLock(t) PROVE TypeOK'
        <3>1. PICK frame \in Frames :
                  /\ lock' = IF lock = 0 THEN frame ELSE lock
                  /\ swapped' = IF lock = 0 THEN <<1, lock'>> ELSE swapped
            BY <2>4 DEF TryLock, atomic_cas
        <3>2. frame \in Word /\ lock \in Word
            BY <2>1, FramesAssumption, ModulusAssumption, SMT DEF TypeOK
        <3>3. lock' \in {0} \cup Frames
            BY <2>1, <3>1 DEF TypeOK
        <3>4. swapped' \in {0, 1} \X Word
            BY <2>1, <3>1, <3>2 DEF TypeOK
        <3>5. local' \in [Threads -> Word]
            BY <2>1, <2>4, <3>2 DEF TypeOK, TryLock, cas_result
        <3>6. pc' \in [Threads -> {"idle", "looked", "trying", "locked", "drawing", "swapping"}]
            BY <2>1, <2>4 DEF TypeOK, TryLock
        <3> QED BY <2>1, <2>4, <3>3, <3>4, <3>5, <3>6 DEF TypeOK, TryLock
    <2>5. ASSUME NEW t \in Threads, ReturnCas(t) PROVE TypeOK'
        BY <2>1, <2>5, SMT DEF TypeOK, ReturnCas
    <2>6. ASSUME NEW t \in Threads, Unlock(t) PROVE TypeOK'
        BY <2>1, <2>6, SMT DEF TypeOK, Unlock, atomic_store
    <2>7. ASSUME NEW t \in Threads, Draw(t) PROVE TypeOK'
        <3>1. next' \in Word
            BY <2>1, <2>7, AddWraps DEF TypeOK, Draw
        <3>2. draws' \in 0..MaxDraws
            BY <2>1, <2>7, DrawsAssumption, ModulusAssumption, SMT DEF TypeOK, Draw
        <3> QED BY <2>1, <2>7, <3>1, <3>2, SMT DEF TypeOK, Draw
    <2>8. ASSUME NEW t \in Threads, ReturnAdd(t) PROVE TypeOK'
        BY <2>1, <2>8, SMT DEF TypeOK, ReturnAdd
    <2>9. ASSUME NEW t \in Threads, Swap(t) PROVE TypeOK'
        BY <2>1, <2>9, SMT DEF TypeOK, Swap, atomic_xchg, xchg_result
    <2>10. ASSUME NEW t \in Threads, ReturnXchg(t) PROVE TypeOK'
        BY <2>1, <2>10, SMT DEF TypeOK, ReturnXchg
    <2> QED BY <2>1, <2>2, <2>3, <2>4, <2>5, <2>6, <2>7, <2>8, <2>9, <2>10 DEF Next
<1> QED BY <1>1, <1>2, PTL DEF Spec

-----------------------------------------------------------------------------
(* The spin lock *)

(* What a step that is no step of the lock leaves as it was. *)
LEMMA OthersKeepHolding ==
    ASSUME TypeOK, NEW t \in Threads,
           Draw(t) \/ ReturnAdd(t) \/ Swap(t) \/ ReturnXchg(t)
    PROVE  lock' = lock /\ \A u \in Threads : Holds(u)' <=> Holds(u)
<1>1. lock' = lock
    BY DEF Draw, ReturnAdd, Swap, ReturnXchg
<1>2. \A u \in Threads \ {t} : pc'[u] = pc[u] /\ local'[u] = local[u]
    BY DEF TypeOK, Draw, ReturnAdd, Swap, ReturnXchg
<1>3. pc[t] \notin {"trying", "locked"} /\ pc'[t] \notin {"trying", "locked"}
    BY DEF TypeOK, Draw, ReturnAdd, Swap, ReturnXchg
<1> QED BY <1>1, <1>2, <1>3 DEF Holds

(* Though atomic_cas stores an address, no two threads ever have the lock, *)
(* and the word is 0 exactly while none has it.                            *)
THEOREM LockExcludes == Spec => []MutualExclusion
<1>1. Init => MutualExclusion
    BY DEF Init, MutualExclusion, Holds
<1>2. TypeOK /\ MutualExclusion /\ [Next]_vars => MutualExclusion'
    <2>1. SUFFICES ASSUME TypeOK, MutualExclusion, [Next]_vars PROVE MutualExclusion'
        OBVIOUS
    <2>2. CASE UNCHANGED vars
        BY <2>1, <2>2 DEF MutualExclusion, Holds, vars
    <2>3. ASSUME NEW t \in Threads, Look(t) PROVE MutualExclusion'
        <3>1. \A u \in Threads : Holds(u)' <=> Holds(u)
            BY <2>1, <2>3 DEF TypeOK, Look, Holds
        <3>2. lock' = lock
            BY <2>3 DEF Look
        <3> QED BY <2>1, <3>1, <3>2 DEF MutualExclusion
    <2>4. ASSUME NEW t \in Threads, TryLock(t) PROVE MutualExclusion'
        <3>1. ~Holds(t) /\ (Holds(t)' <=> lock = 0)
            BY <2>1, <2>4 DEF TypeOK, TryLock, Holds, cas_result
        <3>2. \A u \in Threads \ {t} : Holds(u)' <=> Holds(u)
            BY <2>1, <2>4 DEF TypeOK, TryLock, Holds
        <3>3. PICK frame \in Frames : lock' = IF lock = 0 THEN frame ELSE lock
            BY <2>4 DEF TryLock, atomic_cas
        <3>4. lock' # 0
            BY <3>3, FramesAssumption
        <3> QED BY <2>1, <3>1, <3>2, <3>4 DEF MutualExclusion
    <2>5. ASSUME NEW t \in Threads, ReturnCas(t) PROVE MutualExclusion'
        <3>1. \A u \in Threads : Holds(u)' <=> Holds(u)
            BY <2>1, <2>5 DEF TypeOK, ReturnCas, Holds
        <3>2. lock' = lock
            BY <2>5 DEF ReturnCas
        <3> QED BY <2>1, <3>1, <3>2 DEF MutualExclusion
    <2>6. ASSUME NEW t \in Threads, Unlock(t) PROVE MutualExclusion'
        <3>1. Holds(t) /\ ~Holds(t)'
            BY <2>1, <2>6 DEF TypeOK, Unlock, Holds
        <3>2. \A u \in Threads \ {t} : Holds(u)' <=> Holds(u)
            BY <2>1, <2>6 DEF TypeOK, Unlock, Holds
        <3>3. lock' = 0
            BY <2>6 DEF Unlock, atomic_store
        <3> QED BY <2>1, <3>1, <3>2, <3>3 DEF MutualExclusion
    <2>7. ASSUME NEW t \in Threads, Draw(t) \/ ReturnAdd(t) \/ Swap(t) \/ ReturnXchg(t)
          PROVE  MutualExclusion'
        BY <2>1, <2>7, OthersKeepHolding DEF MutualExclusion
    <2> QED BY <2>1, <2>2, <2>3, <2>4, <2>5, <2>6, <2>7 DEF Next
<1> QED BY <1>1, <1>2, TypeCorrect, PTL DEF Spec

-----------------------------------------------------------------------------
(* The token *)

(* Whatever threads exchange concurrently, the token is in exactly one     *)
(* place: in slot or in one thread's hand.                                 *)
THEOREM TokenStays == Spec => []TokenKept
<1>1. Init => TokenKept
    BY DEF Init, TokenKept, InHand
<1>2. TypeOK /\ TokenKept /\ [Next]_vars => TokenKept'
    <2>1. SUFFICES ASSUME TypeOK, TokenKept, [Next]_vars PROVE TokenKept'
        OBVIOUS
    <2>2. CASE UNCHANGED vars
        BY <2>1, <2>2 DEF TokenKept, InHand, vars
    <2>3. ASSUME NEW t \in Threads, Swap(t) PROVE TokenKept'
        <3>1. InHand(t) = slot' /\ InHand(t)' = slot
            BY <2>1, <2>3 DEF TypeOK, Swap, InHand, atomic_xchg, xchg_result
        <3>2. \A u \in Threads \ {t} : InHand(u)' = InHand(u)
            BY <2>1, <2>3 DEF TypeOK, Swap, InHand
        <3> QED BY <2>1, <3>1, <3>2 DEF TokenKept
    <2>4. ASSUME NEW t \in Threads,
                 \/ Look(t) \/ TryLock(t) \/ ReturnCas(t) \/ Unlock(t)
                 \/ Draw(t) \/ ReturnAdd(t) \/ ReturnXchg(t)
          PROVE  TokenKept'
        <3>1. slot' = slot
            BY <2>4 DEF Look, TryLock, ReturnCas, Unlock, Draw, ReturnAdd, ReturnXchg
        <3>2. \A u \in Threads : InHand(u)' = InHand(u)
            BY <2>1, <2>4 DEF TypeOK, InHand, Look, TryLock, ReturnCas, Unlock,
                              Draw, ReturnAdd, ReturnXchg
        <3> QED BY <2>1, <3>1, <3>2 DEF TokenKept
    <2> QED BY <2>1, <2>2, <2>3, <2>4 DEF Next
<1> QED BY <1>1, <1>2, TypeCorrect, PTL DEF Spec

-----------------------------------------------------------------------------
(* The tickets *)

(* How many tickets ago x was drawn, when that is fewer than a full turn.  *)
Back(x) == IF next > x THEN next - x ELSE next + Modulus - x

(* A ticket a thread still has was drawn within the last draws ones. *)
TicketsRecent == \A t \in Threads : Drawn(t) # None => Back(Drawn(t)) <= draws

(* Drawing takes every older ticket one further back. *)
LEMMA BackGrows ==
    ASSUME TypeOK, NEW x \in Word, next' = atomic_add(next, 1), x # next
    PROVE  Back(x)' = Back(x) + 1
<1>1. next \in Word
    BY DEF TypeOK
<1>2. next' = IF next = Modulus - 1 THEN 0 ELSE next + 1
    BY <1>1, ModulusAssumption, SMT DEF atomic_add
<1> QED BY <1>1, <1>2, ModulusAssumption, SMT DEF Back

(* As long as no more are drawn than a word has values, no two threads     *)
(* ever have the same ticket from atomic_add, through any wrap-around.     *)
THEOREM TicketsDiffer == Spec => []TicketsDistinct
<1> DEFINE Inv == TicketsDistinct /\ TicketsRecent
<1>1. Init => Inv
    BY DEF Init, TicketsDistinct, TicketsRecent, Drawn
<1>2. TypeOK /\ Inv /\ [Next]_vars => Inv'
    <2>1. SUFFICES ASSUME TypeOK, Inv, [Next]_vars PROVE Inv'
        OBVIOUS
    <2>2. CASE UNCHANGED vars
        BY <2>1, <2>2 DEF TicketsDistinct, TicketsRecent, Drawn, Back, vars
    <2>3. ASSUME NEW t \in Threads, Draw(t) PROVE Inv'
        <3>1. /\ Drawn(t)' = next
              /\ next' = atomic_add(next, 1)
              /\ draws' = draws + 1
              /\ draws < Modulus
            BY <2>1, <2>3, DrawsAssumption, ModulusAssumption, SMT DEF TypeOK, Draw, Drawn
        <3>2. \A u \in Threads \ {t} : Drawn(u)' = Drawn(u)
            BY <2>1, <2>3 DEF TypeOK, Draw, Drawn
        <3>3. \A u \in Threads \ {t} : Drawn(u) # None => Drawn(u) \in Word
            BY <2>1 DEF TypeOK, Drawn
        <3>4. next \in Word /\ draws \in Nat
            BY <2>1, SMT DEF TypeOK
        <3>5. Back(next) = Modulus
            BY <3>4, ModulusAssumption, SMT DEF Back
        <3>6. \A u \in Threads \ {t} : Drawn(u) # None => Drawn(u) # next
            BY <2>1, <3>1, <3>4, <3>5, ModulusAssumption, SMT DEF TicketsRecent
        <3>7. TicketsDistinct'
            BY <2>1, <3>1, <3>2, <3>6 DEF TicketsDistinct
        <3>8. ASSUME NEW u \in Threads, Drawn(u)' # None PROVE Back(Drawn(u))' <= draws'
            <4>1. CASE u = t
                <5>1. next' = IF next = Modulus - 1 THEN 0 ELSE next + 1
                    BY <3>1, <3>4, ModulusAssumption, SMT DEF atomic_add
                <5>2. Back(Drawn(u))' = 1
                    BY <3>1, <3>4, <4>1, <5>1, ModulusAssumption, SMT DEF Back
                <5> QED BY <3>1, <3>4, <5>2
            <4>2. CASE u # t
                <5>1. Drawn(u)' = Drawn(u) /\ Drawn(u) \in Word /\ Drawn(u) # next
                    BY <3>2, <3>3, <3>6, <3>8, <4>2
                <5>2. Back(Drawn(u))' = Back(Drawn(u)) + 1
                    BY <2>1, <3>1, <5>1, BackGrows DEF Back
                <5>3. Back(Drawn(u)) <= draws
                    BY <2>1, <3>8, <5>1 DEF TicketsRecent
                <5>4. Back(Drawn(u)) \in Int
                    BY <3>4, <5>1, ModulusAssumption, SMT DEF Back
                <5> QED BY <3>1, <3>4, <5>2, <5>3, <5>4
            <4> QED BY <4>1, <4>2
        <3> QED BY <3>7, <3>8 DEF TicketsRecent
    <2>4. ASSUME NEW t \in Threads,
                 \/ Look(t) \/ TryLock(t) \/ ReturnCas(t) \/ Unlock(t)
                 \/ ReturnAdd(t) \/ Swap(t) \/ ReturnXchg(t)
          PROVE  Inv'
        <3>1. next' = next /\ draws' = draws
            BY <2>4 DEF Look, TryLock, ReturnCas, Unlock, ReturnAdd, Swap, ReturnXchg
        <3>2. \A u \in Threads : Drawn(u)' = Drawn(u)
            BY <2>1, <2>4 DEF TypeOK, Drawn, Look, TryLock, ReturnCas, Unlock,
                              ReturnAdd, Swap, ReturnXchg
        <3> QED BY <2>1, <3>1, <3>2 DEF TicketsDistinct, TicketsRecent, Back
    <2> QED BY <2>1, <2>2, <2>3, <2>4 DEF Next
<1> QED BY <1>1, <1>2, TypeCorrect, PTL DEF Spec
=============================================================================
