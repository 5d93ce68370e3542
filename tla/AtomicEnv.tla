------------------------------ MODULE AtomicEnv ------------------------------
(***************************************************************************)
(* What the firmware environment promises to its user, without flash,      *)
(* sectors or checksums: there is one stored environment; an update request*)
(* either takes effect as a whole or not at all, whatever is interrupted;  *)
(* a request that reports success has taken effect.  Lossy = TRUE is the   *)
(* weaker promise of a single environment sector, whose content may fall   *)
(* back to the default environment while an update is in progress.         *)
(***************************************************************************)
EXTENDS Integers

CONSTANTS Names, Vals, NoVal, Default, None, Lossy

VARIABLES
    store,   \* the environment a reader is given
    op,      \* the update in progress: None, or the environment to store
    rc       \* what the last finished update returned: 0 or -1

vars == <<store, op, rc>>

Init == store = Default /\ op = None /\ rc = 0

Begin == /\ op = None
         /\ \E n \in Names, v \in Vals \cup {NoVal} : 
                op' = [store EXCEPT ![n] = v]
         /\ UNCHANGED <<store, rc>>

(* The single point at which the new environment replaces the old one.     *)
Commit == /\ op # None
          /\ store' = op
          /\ UNCHANGED <<op, rc>>

Lose == /\ Lossy /\ op # None
        /\ store' = Default
        /\ UNCHANGED <<op, rc>>

(* An interrupted update may still take effect, or lose the environment, as*)
(* it ends; a finished one has taken effect.                               *)
Finish == /\ op # None
          /\ op' = None
          /\ \/ /\ rc' = 0
                /\ store = op
                /\ store' = store
             \/ /\ rc' = -1
                /\ \/ store' = store
                   \/ Lossy /\ store' = Default

(* A request refused before anything is written.                           *)
Refuse == op = None /\ rc' = -1 /\ UNCHANGED <<store, op>>

Next == Begin \/ Commit \/ Lose \/ Finish \/ Refuse

Spec == Init /\ [][Next]_vars
=============================================================================
