------------------------------- MODULE Atomic -------------------------------
(***************************************************************************)
(* runtime/atomic.hpp: threads that share words through its operations.    *)
(* Each is one instruction of the builtin it wraps, then a return of what  *)
(* the instruction left in a local. The clients are the classical uses of  *)
(* the operations: a spin lock (cas, store), a ticket dispenser (add) and  *)
(* a token that is handed on (xchg); all of them look at words (load).     *)
(***************************************************************************)
EXTENDS Integers, FiniteSets

CONSTANTS
    Threads,
    Modulus,   \* the number of values a word has (2^32 or 2^64)
    Frames,    \* addresses a parameter can have, cut off to a word
    None,      \* a thread that holds no ticket
    MaxDraws   \* a bound on the tickets drawn

Word == 0 .. Modulus - 1

ASSUME ModulusAssumption == Modulus \in Nat /\ Modulus > 1
ASSUME FramesAssumption == Frames \subseteq Word \ {0}
ASSUME DrawsAssumption == MaxDraws \in 0..Modulus

VARIABLES
    lock, next, slot,  \* the shared words
    local,    \* what the thread's last instruction returned
    pc,       \* which call the thread is in
    ticket,   \* the ticket it drew last
    token,    \* the word it holds in exchange for slot
    draws,    \* history: how many tickets were drawn
    swapped   \* history: what the last successful cas was to store, and the word after it

vars == <<lock, next, slot, local, pc, ticket, token, draws, swapped>>

-----------------------------------------------------------------------------
(* The operations: the word after the instruction. What each but the store *)
(* returns is the word before it.                                          *)

atomic_load(w) == w
atomic_store(w, val) == val

(* atomic_cas passes &exchange_val where the builtin takes the value, so   *)
(* that the address of the parameter is stored.                            *)
atomic_cas(w, exchange_val, compare_val, frame) == IF w = compare_val THEN frame ELSE w
(* The builtin puts the word into compare_val. Mutant: into a copy of it.  *)
cas_result_Expected(w, compare_val) == compare_val
(* Mutant: what it says is the word it left.                               *)
cas_result_After(w, compare_val) == IF w = compare_val THEN 1 ELSE w
cas_result(w, compare_val) == w

(* Mutant: an addition that does not wrap around, but stays at the top.    *)
atomic_add_Saturating(w, val) == IF w + val \in Word THEN w + val ELSE Modulus - 1
(* Mutant: an addition in a wider type.                                    *)
atomic_add_Wider(w, val) == w + val
atomic_add(w, val) == (w + val) % Modulus

atomic_xchg(w, val) == val
(* Mutant: what is returned to the caller is what it passed.               *)
xchg_result_New(w, val) == val
xchg_result(w, val) == w

-----------------------------------------------------------------------------
(* Spin lock: wait until atomic_load(&lock) == 0, then acquire it with     *)
(* atomic_cas(&lock, 1, 0) == 0; atomic_store(&lock, 0) releases it.       *)

Look(t) ==
    /\ pc[t] = "idle"
    /\ atomic_load(lock) = 0
    /\ pc' = [pc EXCEPT ![t] = "looked"]
    /\ UNCHANGED <<lock, next, slot, local, ticket, token, draws, swapped>>

TryLock(t) ==
    /\ pc[t] = "looked"
    /\ \E frame \in Frames :
          /\ lock' = atomic_cas(lock, 1, 0, frame)
          /\ swapped' = IF lock = 0 THEN <<1, lock'>> ELSE swapped
    /\ local' = [local EXCEPT ![t] = cas_result(lock, 0)]
    /\ pc' = [pc EXCEPT ![t] = "trying"]
    /\ UNCHANGED <<next, slot, ticket, token, draws>>

ReturnCas(t) ==
    /\ pc[t] = "trying"
    /\ pc' = [pc EXCEPT ![t] = IF local[t] = 0 THEN "locked" ELSE "idle"]
    /\ UNCHANGED <<lock, next, slot, local, ticket, token, draws, swapped>>

Unlock(t) ==
    /\ pc[t] = "locked"
    /\ lock' = atomic_store(lock, 0)
    /\ pc' = [pc EXCEPT ![t] = "idle"]
    /\ UNCHANGED <<next, slot, local, ticket, token, draws, swapped>>

-----------------------------------------------------------------------------
(* Ticket dispenser: atomic_add(&next, 1) *)

Draw(t) ==
    /\ pc[t] = "idle"
    /\ draws < MaxDraws
    /\ next' = atomic_add(next, 1)
    /\ local' = [local EXCEPT ![t] = next]
    /\ pc' = [pc EXCEPT ![t] = "drawing"]
    /\ draws' = draws + 1
    /\ UNCHANGED <<lock, slot, ticket, token, swapped>>

ReturnAdd(t) ==
    /\ pc[t] = "drawing"
    /\ ticket' = [ticket EXCEPT ![t] = local[t]]
    /\ pc' = [pc EXCEPT ![t] = "idle"]
    /\ UNCHANGED <<lock, next, slot, local, token, draws, swapped>>

-----------------------------------------------------------------------------
(* Token: atomic_xchg(&slot, the word the thread holds) *)

Swap(t) ==
    /\ pc[t] = "idle"
    /\ slot' = atomic_xchg(slot, token[t])
    /\ local' = [local EXCEPT ![t] = xchg_result(slot, token[t])]
    /\ pc' = [pc EXCEPT ![t] = "swapping"]
    /\ UNCHANGED <<lock, next, ticket, token, draws, swapped>>

ReturnXchg(t) ==
    /\ pc[t] = "swapping"
    /\ token' = [token EXCEPT ![t] = local[t]]
    /\ pc' = [pc EXCEPT ![t] = "idle"]
    /\ UNCHANGED <<lock, next, slot, local, ticket, draws, swapped>>

-----------------------------------------------------------------------------
Init ==
    /\ lock = 0
    /\ next \in Word
    /\ slot = 1
    /\ local = [t \in Threads |-> 0]
    /\ pc = [t \in Threads |-> "idle"]
    /\ ticket = [t \in Threads |-> None]
    /\ token = [t \in Threads |-> 0]
    /\ draws = 0
    /\ swapped = <<0, 0>>

Next == \E t \in Threads :
    \/ Look(t) \/ TryLock(t) \/ ReturnCas(t) \/ Unlock(t)
    \/ Draw(t) \/ ReturnAdd(t)
    \/ Swap(t) \/ ReturnXchg(t)

Spec == Init /\ [][Next]_vars

-----------------------------------------------------------------------------
(* Properties *)

(* Type invariant. *)
TypeOK ==
    /\ lock \in {0} \cup Frames /\ next \in Word /\ slot \in Word
    /\ local \in [Threads -> Word]
    /\ pc \in [Threads -> {"idle", "looked", "trying", "locked", "drawing", "swapping"}]
    /\ ticket \in [Threads -> Word \cup {None}]
    /\ token \in [Threads -> Word]
    /\ draws \in 0..MaxDraws
    /\ swapped \in {0, 1} \X Word

(* A thread that has the lock, also while its atomic_cas still returns.    *)
Holds(t) == pc[t] = "locked" \/ (pc[t] = "trying" /\ local[t] = 0)

(* The word says whether some thread has the lock, and never two have it,  *)
(* although atomic_cas does not store the value it was given: an address   *)
(* is not 0, and losers are told the word they lost against.               *)
MutualExclusion ==
    /\ \A t, u \in Threads : Holds(t) /\ Holds(u) => t = u
    /\ lock = 0 <=> \A t \in Threads : ~Holds(t)

(* The number a thread drew last, or is about to be given. *)
Drawn(t) == IF pc[t] = "drawing" THEN local[t] ELSE ticket[t]

(* No two threads have the same ticket, even when the counter wraps around *)
(* between them, as long as no more were drawn than a word has values.      *)
TicketsDistinct ==
    \A t, u \in Threads : Drawn(t) = Drawn(u) /\ Drawn(t) # None => t = u

(* The word a thread has, or is about to be given. *)
InHand(t) == IF pc[t] = "swapping" THEN local[t] ELSE token[t]

(* The token is neither lost nor copied: either it lies in slot, or one    *)
(* thread has it.                                                          *)
TokenKept ==
    /\ \A t \in Threads : InHand(t) = 1 => slot # 1
    /\ \A t, u \in Threads : InHand(t) = 1 /\ InHand(u) = 1 => t = u
    /\ slot = 1 \/ \E t \in Threads : InHand(t) = 1

(* A successful atomic_cas leaves exchange_val in the word (v1.1.md, "the  *)
(* implementation of CAS is semantically correct").                        *)
CasStoresExchangeValue == swapped[2] = swapped[1]
=============================================================================
