--------------------------- MODULE PriorityQueue ---------------------------
(***************************************************************************)
(* What the kernel's priority lists promise to their users: one first-in   *)
(* first-out sequence of objects per priority, to which a free object can  *)
(* be added at either end and from which any object can be taken.          *)
(* PriorityList shows that the linked lists of mrtlib.c implement it.      *)
(***************************************************************************)
EXTENDS PrtyQueues

CONSTANT Link      \* the objects that can be queued

VARIABLE queue

Init == queue = QEmpty

AppendLink(l, p) == ~QHas(queue, l) /\ queue' = QAppend(queue, p, l)

PrependLink(l, p) == ~QHas(queue, l) /\ queue' = QPrepend(queue, p, l)

RemoveLink(l, p) == QPositions(queue, p, l) # {} /\ queue' = QRemove(queue, p, l)

Next == \E l \in Link, p \in Prty :
          AppendLink(l, p) \/ PrependLink(l, p) \/ RemoveLink(l, p)

Spec == Init /\ [][Next]_queue
=============================================================================
