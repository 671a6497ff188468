------------------------------ MODULE MCVTimer -----------------------------
(***************************************************************************)
(* Virtual timers for model checking, and the refinement: the active queue *)
(* with its differences implements timers that each count for themselves,  *)
(* and the expired queue the set of those whose action is to be run.       *)
(***************************************************************************)
EXTENDS VTimer, TLC

(* The timers whose action is to be run are those of the expired queue.    *)
Pending == {v \in VT : InExp(v)}

Timers == INSTANCE CountdownTimers WITH left <- due, pending <- Pending

(* The delta queue implements independent countdown timers: starting,      *)
(* stopping or expiring one never changes when another expires, and none   *)
(* is overlooked at the tick it is due.                                    *)
ImplementsTimers == Timers!Spec

Symm == Permutations(VT)
=============================================================================
