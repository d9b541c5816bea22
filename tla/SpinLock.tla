------------------------------ MODULE SpinLock ------------------------------
(***************************************************************************)
(* Threads that take turns on data whose fields the code reads and writes  *)
(* one at a time, under the spin lock of Atomic. A thread that has the     *)
(* lock does one operation, in one or several steps, and releases it.      *)
(***************************************************************************)
EXTENDS Integers, FiniteSets

CONSTANTS
    Threads,
    Frames,      \* addresses of atomic_cas's parameter, cut off to a word
    LockModulus  \* the number of values the lock's word has

ASSUME LockAssumption == 0 \notin Frames

VARIABLES
    lock, local, pc, swapped,  \* as in Atomic
    done                       \* whether the thread's operation is over

lockVars == <<lock, local, pc, swapped, done>>

(* Atomic, without its counter and its token. *)
L == INSTANCE Atomic WITH
        Modulus <- LockModulus, None <- "none", MaxDraws <- 0,
        next <- 0, slot <- 0, draws <- 0,
        ticket <- [t \in Threads |-> "none"], token <- [t \in Threads |-> 0]

LockInit ==
    /\ lock = 0
    /\ local = [t \in Threads |-> 0]
    /\ pc = [t \in Threads |-> "idle"]
    /\ swapped = <<0, 0>>
    /\ done = [t \in Threads |-> FALSE]

(* A thread begins to wait when it sees the lock free; seeing it taken, it *)
(* looks again.                                                            *)
Start(t) == L!Look(t) /\ UNCHANGED done
Spin(t) ==
    /\ pc[t] = "idle"
    /\ L!atomic_load(lock) # 0
    /\ UNCHANGED lockVars

Acquire(t) == (L!TryLock(t) \/ L!ReturnCas(t)) /\ UNCHANGED done

(* Guards and effects of the steps of an operation. *)
Working(t) == pc[t] = "locked" /\ ~done[t]
Quiet == \A t \in Threads : pc[t] = "idle"
Continue == UNCHANGED lockVars
Finish(t) ==
    /\ done' = [done EXCEPT ![t] = TRUE]
    /\ UNCHANGED <<lock, local, pc, swapped>>

Release(t) ==
    /\ done[t]
    /\ L!Unlock(t)
    /\ done' = [done EXCEPT ![t] = FALSE]

LockTypeOK ==
    /\ lock \in {0} \cup Frames
    /\ local \in [Threads -> {0} \cup Frames]
    /\ pc \in [Threads -> {"idle", "looked", "trying", "locked"}]
    /\ swapped \in {0, 1} \X ({0} \cup Frames)
    /\ done \in [Threads -> BOOLEAN]
    /\ \A t \in Threads : done[t] => pc[t] = "locked"

(* Whoever takes the lock gives it back: no thread is told that it lost    *)
(* an atomic_cas it won, and no operation under the lock blocks. Assumes   *)
(* that a thread inside an operation keeps running.                        *)
LockComesFree == lock # 0 ~> lock = 0
=============================================================================
