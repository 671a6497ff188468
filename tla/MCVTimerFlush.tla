--------------------------- MODULE MCVTimerFlush ---------------------------
(***************************************************************************)
(* Virtual timers of several priorities, with interrupt handlers in the    *)
(* flush or, if it is quiet, without; which one is chosen at the start.    *)
(***************************************************************************)
EXTENDS MCVTimer

VARIABLE quiet

AllInit == Init /\ quiet \in BOOLEAN

AllNext == Next /\ (quiet => pc' # "irq") /\ UNCHANGED quiet

AllSpec == AllInit /\ [][AllNext]_<<vars, quiet>> /\ Fairness

(* When no handler runs in between, MRT_flush_int leaves no expired timer  *)
(* that is as urgent as the process that runs next.                        *)
QuietFlushRunsAll == quiet => FlushRunsAll
=============================================================================
