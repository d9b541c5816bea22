-------------------------- MODULE ScopedAllocator --------------------------
(***************************************************************************)
(* What an Arena and a ResourceArea promise their client, with no chunk,   *)
(* no _hwm and no pointer arithmetic: the bytes a handle owns are its own  *)
(* until it gives them up or the scope that took them ends, and nobody     *)
(* else's call touches them.                                               *)
(***************************************************************************)
EXTENDS Integers

CONSTANT Handles

VARIABLES
    bytes,   \* the set of addresses each handle owns
    birth,   \* how many scopes were open when a handle took its bytes
    depth,   \* how many scopes are open
    intact,  \* no owned byte was ever overwritten by another handle's call
    alive    \* the process has not died

absVars == <<bytes, birth, depth, intact, alive>>

(* One call on handle h: its bytes are taken, moved, resized or given up.  *)
(* Bytes that are newly owned belong to the innermost scope, and a block   *)
(* is resized only in the scope that took it.                              *)
Place(h) ==
    /\ alive = TRUE /\ UNCHANGED alive
    /\ \A g \in Handles \ {h} :
          /\ bytes'[g] = bytes[g] /\ birth'[g] = birth[g]
          /\ bytes'[h] \cap bytes[g] = {}
    /\ bytes'[h] \subseteq bytes[h] \/ birth'[h] = depth
    /\ bytes[h] = {} \/ bytes'[h] = {} \/ birth'[h] = birth[h]
    /\ UNCHANGED <<depth, intact>>

Open ==
    /\ alive = TRUE /\ UNCHANGED alive
    /\ depth' = depth + 1
    /\ UNCHANGED <<bytes, birth, intact>>

(* Everything taken since the scope was opened is released, nothing else;  *)
(* the scope itself ends, or is emptied and stays open.                    *)
Close ==
    /\ alive = TRUE /\ UNCHANGED alive
    /\ depth > 0
    /\ depth' \in {depth - 1, depth}
    /\ \A h \in Handles :
          IF bytes[h] # {} /\ birth[h] = depth
          THEN bytes'[h] = {}
          ELSE bytes'[h] = bytes[h] /\ birth'[h] = birth[h]
    /\ UNCHANGED intact

(* Everything is released, with no scope open. *)
Clear ==
    /\ alive = TRUE /\ UNCHANGED alive
    /\ depth = 0
    /\ \A h \in Handles : bytes'[h] = {}
    /\ UNCHANGED <<depth, intact>>

(* Dying is allowed, and takes nothing from anyone. *)
Die == alive = TRUE /\ alive' = FALSE /\ UNCHANGED <<bytes, birth, depth, intact>>

AbsInit ==
    /\ \A h \in Handles : bytes[h] = {}
    /\ \A h \in Handles : birth[h] = 0
    /\ depth = 0
    /\ intact = TRUE
    /\ alive = TRUE

AbsNext == (\E h \in Handles : Place(h)) \/ Open \/ Close \/ Clear \/ Die

AbsSpec == AbsInit /\ [][AbsNext]_absVars
=============================================================================
