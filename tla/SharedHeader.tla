---------------------------- MODULE SharedHeader ----------------------------
(***************************************************************************)
(* The header of an object several threads use. Until it is shared, its    *)
(* creator calls set_mark as it likes (ObjectHeader). From then on a       *)
(* thread changes the header under the spin lock: mark(), a decision on    *)
(* the word it was given, set_mark().                                      *)
(*                                                                         *)
(* The clients are those the layout of the mark word is made for: an       *)
(* identity hash that is computed on demand, locks that displace the word, *)
(* a bias that has no room for a hash, a mark of the garbage collector.    *)
(***************************************************************************)
EXTENDS ObjectHeader, SpinLock

CONSTANTS
    NoWord,   \* a thread that has not read the mark
    RecordOf  \* the address of a thread's lock record and monitor

ASSUME RecordAssumption ==
    RecordOf \in [Threads -> Addresses(2)] /\ \A w \in Word : w # NoWord

VARIABLES
    stage,     \* whether there is an object, and whether it is shared
    seen,      \* the word that mark() gave a thread
    told,      \* the hash a thread was told last, {} if none
    displaced  \* what a thread keeps of the header while it is locked or marked

headerVars == <<mark, meant, stage, seen, told, displaced>>

HeaderInit ==
    /\ Init
    /\ stage = "none"
    /\ seen = [t \in Threads |-> NoWord]
    /\ told = [t \in Threads |-> {}]
    /\ displaced = [t \in Threads |-> {}]

-----------------------------------------------------------------------------
(* Before it is shared. No other thread knows the object, so it does not   *)
(* matter when its creator does this: both are done between operations.    *)

Prepare ==
    /\ stage = "fresh" /\ Quiet
    /\ Next
    /\ UNCHANGED <<stage, seen, told, displaced>>

Share ==
    /\ stage = "fresh" /\ Quiet
    /\ markWord_is_unlocked(mark) \/ has_bias_pattern(mark)
    /\ stage' = "shared"
    /\ UNCHANGED <<mark, meant, seen, told, displaced>>

-----------------------------------------------------------------------------
(* One operation on the shared header *)

ReadMark(t) ==
    /\ stage = "shared"
    /\ Working(t)
    /\ seen[t] = NoWord
    /\ seen' = [seen EXCEPT ![t] = mark]
    /\ Continue
    /\ UNCHANGED <<mark, meant, stage, told, displaced>>

(* The operation's last step. *)
Decide(t) ==
    /\ Working(t)
    /\ seen[t] # NoWord
    /\ seen' = [seen EXCEPT ![t] = NoWord]
    /\ Finish(t)
    /\ UNCHANGED stage

(* The hash of an unlocked object: the one it has, or a new one. *)
GetHash(t) ==
    /\ Decide(t)
    /\ markWord_is_unlocked(seen[t])
    /\ \/ /\ markWord_hash(seen[t]) # {}
          /\ told' = [told EXCEPT ![t] = markWord_hash(seen[t])]
          /\ UNCHANGED <<mark, meant>>
       \/ /\ markWord_hash(seen[t]) = {}
          /\ \E h \in (SUBSET Mask(HashBits)) \ {{}} :
                SetHash(seen[t], h) /\ told' = [told EXCEPT ![t] = h]
    /\ UNCHANGED displaced

(* A lock, or the collector's mark, takes the place of an unlocked word,   *)
(* which the thread keeps together with what it means, and puts back.      *)
Displace(t) ==
    /\ Decide(t)
    /\ markWord_is_unlocked(seen[t])
    /\ Lock(RecordOf[t]) \/ Inflate(RecordOf[t]) \/ GcMark
    /\ displaced' = [displaced EXCEPT ![t] = {[word |-> seen[t], header |-> meant]}]
    /\ UNCHANGED told

Restore(t) ==
    /\ Decide(t)
    /\ \E d \in displaced[t] : set_mark(d.word, d.header)
    /\ displaced' = [displaced EXCEPT ![t] = {}]
    /\ UNCHANGED told

(* Only an object without a hash is biased. *)
SetBias(t) ==
    /\ Decide(t)
    /\ markWord_is_unlocked(seen[t]) /\ markWord_hash(seen[t]) = {}
    /\ \E p \in Addresses(ThreadAlign), e \in SUBSET Mask(EpochBits) : Bias(p, {}, e)
    /\ UNCHANGED <<told, displaced>>

RevokeBias(t) ==
    /\ Decide(t)
    /\ has_bias_pattern(seen[t])
    /\ Unlock
    /\ UNCHANGED <<told, displaced>>

LeaveAsIs(t) == Decide(t) /\ UNCHANGED <<mark, meant, told, displaced>>

HeaderStep(t) ==
    \/ ReadMark(t)
    \/ GetHash(t) \/ Displace(t) \/ Restore(t)
    \/ SetBias(t) \/ RevokeBias(t)
    \/ LeaveAsIs(t)

-----------------------------------------------------------------------------
(* Properties *)

HeaderTypeOK ==
    /\ TypeOK
    /\ stage \in {"none", "fresh", "shared"}
    /\ seen \in [Threads -> Word \cup {NoWord}]
    /\ told \in [Threads -> SUBSET Mask(HashBits)]
    /\ \A t \in Threads : \A d \in displaced[t] : d.word \in Word

(* Once a thread was told the object's hash, every thread is told the      *)
(* same, whatever was locked, biased, marked and restored in between: it   *)
(* is in the header, or in the word that displaced it.                     *)
HashAgreed ==
    \A t \in Threads : told[t] # {} =>
        /\ \A u \in Threads : told[u] \in {{}, told[t]}
        /\ markWord_is_unlocked(mark) => markWord_hash(mark) = told[t]
        /\ \A u \in Threads : \A d \in displaced[u] : markWord_hash(d.word) = told[t]
        /\ ~has_bias_pattern(mark)

(* The header of a shared object is locked or marked exactly while one     *)
(* thread keeps the word it displaced, an unlocked one, and a lock's word  *)
(* leads to that thread's record.                                          *)
DisplacedKept ==
    stage = "shared" =>
        /\ is_locked(mark) <=> \E t \in Threads : displaced[t] # {}
        /\ \A t \in Threads : \A d \in displaced[t] :
              /\ markWord_is_unlocked(d.word)
              /\ is_marked(mark) \/ mark \ monitor_value = RecordOf[t]
              /\ \A u \in Threads \ {t} : displaced[u] = {}
=============================================================================
