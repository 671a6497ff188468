--------------------------- MODULE MCPriorityList --------------------------
(* PriorityList against the specification it implements.                   *)
EXTENDS PriorityList

PQ == INSTANCE PriorityQueue WITH queue <- Walk

(* The linked lists implement the priority queue: walking the next         *)
(* pointers from first for inQ objects gives, after any calls of           *)
(* MRT_plist_app, _ins and _rmv, the queue that the same calls produce on  *)
(* plain sequences.                                                        *)
ImplementsQueue == PQ!Init /\ [][UNCHANGED vars \/ PQ!Next]_Walk
=============================================================================
