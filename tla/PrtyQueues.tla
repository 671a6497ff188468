---------------------------- MODULE PrtyQueues -----------------------------
(***************************************************************************)
(* Operators on priority queues: a function from priorities to sequences   *)
(* of objects, where 0 is the highest priority.  The ready queue of the    *)
(* real-time processes, the processes waiting on a semaphore, the expired  *)
(* virtual timers and the deferred interrupts are all kept in such queues, *)
(* implemented by the plist_t of mrtlib.c (see PriorityList).              *)
(***************************************************************************)
EXTENDS Naturals, Sequences, FiniteSets

CONSTANT NR_PRTY    \* MRT_NR_PRTY, the number of priorities

ASSUME PrtyAssumption == NR_PRTY \in Nat \ {0}

Prty == 0 .. NR_PRTY - 1

QEmpty == [p \in Prty |-> << >>]

QPositions(q, p, l) == {i \in 1 .. Len(q[p]) : q[p][i] = l}

QHas(q, l) == \E p \in Prty : QPositions(q, p, l) # {}

QAppend(q, p, l) == [q EXCEPT ![p] = Append(@, l)]

QPrepend(q, p, l) == [q EXCEPT ![p] = <<l>> \o @]

QRemove(q, p, l) ==
  LET i == CHOOSE i \in QPositions(q, p, l) : TRUE
  IN  [q EXCEPT ![p] = SubSeq(@, 1, i - 1) \o SubSeq(@, i + 1, Len(@))]

QIsEmpty(q) == \A p \in Prty : q[p] = << >>

(* The highest priority that has an object.                                *)
QTop(q) == CHOOSE p \in Prty : /\ q[p] # << >>
                               /\ \A r \in Prty : q[r] # << >> => p <= r

(* The oldest object of the highest priority that has one.                 *)
QHighest(q) == Head(q[QTop(q)])
=============================================================================
