---------------------------- MODULE Semaphores -----------------------------
(***************************************************************************)
(* What the real-time semaphores promise to processes: a semaphore has     *)
(* credits, a process takes one or waits when there is none, and whoever   *)
(* gives one back hands it to a waiting process if there is one.  The      *)
(* credits change in no other way while the semaphore exists.  RTSem shows *)
(* that mrtsem.c, with one signed counter for credits and waiting          *)
(* processes, implements it as long as the kernel does not panic.          *)
(***************************************************************************)
EXTENDS Naturals

CONSTANTS Proc, Sem

VARIABLES
  exists,     \* the semaphores that are allocated
  credit,     \* the processes that may still pass
  waiting     \* the processes that wait

Init == exists = {} /\ credit = [s \in Sem |-> 0] /\ waiting = [s \in Sem |-> {}]

Create(s) ==
  /\ s \notin exists /\ exists' = exists \cup {s}
  /\ credit'[s] \in Nat /\ credit' = [credit EXCEPT ![s] = credit'[s]]
  /\ UNCHANGED waiting

Destroy(s) ==
  /\ s \in exists /\ waiting[s] = {}
  /\ exists' = exists \ {s}
  /\ credit' = [credit EXCEPT ![s] = 0]
  /\ UNCHANGED waiting

Take(s) ==
  /\ s \in exists /\ credit[s] > 0
  /\ credit' = [credit EXCEPT ![s] = @ - 1]
  /\ UNCHANGED <<exists, waiting>>

Wait(s, p) ==
  /\ s \in exists /\ credit[s] = 0 /\ \A t \in Sem : p \notin waiting[t]
  /\ waiting' = [waiting EXCEPT ![s] = @ \cup {p}]
  /\ UNCHANGED <<exists, credit>>

Give(s) ==
  /\ s \in exists /\ waiting[s] = {}
  /\ credit' = [credit EXCEPT ![s] = @ + 1]
  /\ UNCHANGED <<exists, waiting>>

(* A waiting process gets the credit that is given back, or gives up.      *)
Leave(s, p) ==
  /\ p \in waiting[s]
  /\ waiting' = [waiting EXCEPT ![s] = @ \ {p}]
  /\ UNCHANGED <<exists, credit>>

Next == \E s \in Sem :
  \/ Create(s) \/ Destroy(s) \/ Take(s) \/ Give(s)
  \/ \E p \in Proc : Wait(s, p) \/ Leave(s, p)

Spec == Init /\ [][Next]_<<exists, credit, waiting>>
=============================================================================
