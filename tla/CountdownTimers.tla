-------------------------- MODULE CountdownTimers --------------------------
(***************************************************************************)
(* What the virtual timers promise: every active timer counts the clock    *)
(* ticks since it was started on its own, expires at the tick that brings  *)
(* its count to zero, not before and not after, and then waits for its     *)
(* action to be run.                                                       *)
(***************************************************************************)
EXTENDS Integers

CONSTANTS VT, Periods, Off

VARIABLES
  left,       \* the ticks a timer has left, or Off
  pending     \* the timers whose action is to be run

Init == left = [v \in VT |-> Off] /\ pending = {}

Start(v, per) ==
  /\ left[v] = Off /\ v \notin pending
  /\ left' = [left EXCEPT ![v] = per]
  /\ UNCHANGED pending

Cancel(v) == left[v] > 0 /\ left' = [left EXCEPT ![v] = Off] /\ UNCHANGED pending

(* The clock cannot tick again before the timers that are due expired.     *)
Tick ==
  /\ \A v \in VT : left[v] # 0
  /\ left' = [v \in VT |-> IF left[v] = Off THEN Off ELSE left[v] - 1]
  /\ UNCHANGED pending

Expire(v) ==
  /\ left[v] = 0
  /\ left' = [left EXCEPT ![v] = Off]
  /\ pending' = pending \cup {v}

Run(v) == v \in pending /\ pending' = pending \ {v} /\ UNCHANGED left

Next == \/ Tick
        \/ \E v \in VT : \/ Cancel(v) \/ Expire(v) \/ Run(v)
                         \/ \E per \in Periods : Start(v, per)

Spec == Init /\ [][Next]_<<left, pending>>
=============================================================================
