------------------------------ MODULE MCRTSem ------------------------------
(***************************************************************************)
(* The real-time semaphores for model checking, the attributes they are    *)
(* asked for with, and the refinement: one signed counter per semaphore    *)
(* stands for its credits when positive.                                   *)
(***************************************************************************)
EXTENDS RTSem, TLC

Exists == {s \in Sem : owner[s] # NoProc}

Credit == [s \in Sem |-> IF value[s] > 0 THEN value[s] ELSE 0]

Waiting == [s \in Sem |-> {p \in Proc : down[p] /\ psem[p] = s}]

Abstract == INSTANCE Semaphores WITH
  exists <- Exists, credit <- Credit, waiting <- Waiting

(* MRT_semup, MRT_semdown, timeouts and owners that leave implement the    *)
(* abstract semaphores: the credits of an allocated semaphore change by    *)
(* one and only when one is taken or given back, nobody waits while there  *)
(* is one, and a credit is kept only if no process waits for it.           *)
ImplementsSemaphores == Abstract!Spec

Symm == Permutations(Proc) \cup Permutations(Sem)

Lowest == -3

TimedLowest == -2

Counting(f, n) == [flags |-> f, value |-> n]

(* Counting semaphores in first-in first-out order and in the order of     *)
(* priorities, a mutex, and a mutex that has to be refused.                *)
PlainAttrs == {Counting({}, 0), Counting({"PRTYORDER"}, 2), Counting({"PRTYORDER", "MUTEX"}, 1),
               Counting({"MUTEX"}, 2)}

TimedAttrs == {Counting({}, 0), Counting({"PRTYORDER", "MUTEX"}, 1)}

InheritAttrs == {Counting({"PRTYORDER", "PRTYINHERIT", "MUTEX"}, 1)}
=============================================================================
