----------------------------- MODULE MCRTSemAll ----------------------------
(***************************************************************************)
(* The real-time semaphores in four instances, one of which is chosen at   *)
(* the start: "plain", "timed", "leave" and "inherit".  The constants of   *)
(* "plain" are those of this module.                                       *)
(***************************************************************************)
EXTENDS MCRTSem

VARIABLE conf

Timed == INSTANCE RTSem WITH
  BasePrty <- {1}, SemAttrs <- TimedAttrs, Timeouts <- {"TIMED"}, Sleeping <- FALSE,
  MinValue <- TimedLowest, MaxValue <- 1

Leave == INSTANCE RTSem WITH
  SemAttrs <- TimedAttrs, Timeouts <- {"FOREVER"}, Sleeping <- FALSE, Leaving <- TRUE,
  MinValue <- TimedLowest, MaxValue <- 1

Inherit == INSTANCE RTSem WITH
  BasePrty <- {1, 2, 3}, SemAttrs <- InheritAttrs, Timeouts <- {"FOREVER"}, BPIP <- TRUE

AllInit == Init /\ conf \in {"plain", "timed", "leave", "inherit"}

(* Bound: only one semaphore is allocated.                                 *)
OneSem == \E s \in Sem : \A t \in Sem \ {s} : owner'[t] = NoProc /\ flags'[t] = {}

(* Bound: with two semaphores only one process waits for each.             *)
OneSemOrWaiter == OneSem \/ \A s \in Sem : value'[s] >= -1

AllNext ==
  \/ conf = "plain" /\ Next /\ UNCHANGED conf
  \/ conf = "timed" /\ Timed!Next /\ OneSemOrWaiter /\ UNCHANGED conf
  \/ conf = "leave" /\ Leave!Next /\ UNCHANGED conf
  \/ conf = "inherit" /\ Inherit!Next /\ OneSem /\ UNCHANGED conf

(* Nobody waits on a semaphore whose value lets others pass, even after    *)
(* timeouts and after its owner has left.  Without timeouts and with       *)
(* nobody leaving, a negative value counts the waiting processes, so that  *)
(* MRT_semup always finds the process its test of the value promises, no   *)
(* panic is reached and no list is corrupted.                              *)
PlainWaitersCounted ==
  /\ NobodyOvertaken
  /\ conf = "plain" => WaitersCounted /\ NoFault

(* With SEM_PRTYORDER and without inheritance the process that gets the    *)
(* semaphore is as urgent as any that waits for it (MRT_sproc_pick).       *)
PlainMostUrgentFirst ==
  [][\A s \in Sem, w \in Proc :
       conf = "plain" /\ Granted(s, w) /\ "PRTYORDER" \in flags[s]
         => \A q \in Waiters(s) : prio[w] <= prio[q]]_vars

(* With priority inheritance the process that has the mutex is as urgent   *)
(* as any that waits for it (MRT_inherit, and MRT_semup's choice of the    *)
(* next one), and whatever MRT_disinherit reads, no process ends up less   *)
(* urgent than it asked to be.                                             *)
InheritOutranksWaiters ==
  conf = "inherit" => Inherit!CarrierOutranksWaiters /\ Inherit!NeverBelowBase
=============================================================================
