------------------------------ MODULE MCRTIrq ------------------------------
(***************************************************************************)
(* Instances of RTIrq for TLC.                                             *)
(***************************************************************************)
EXTENDS RTIrq

CONSTANTS disk, line, soft

(* A line of a MINIX driver, an urgent real-time line, and a soft          *)
(* interrupt; the handlers send messages and may keep their line masked.   *)
Plain ==
  [prio |-> [d \in Irq |-> CASE d = disk -> 3 [] d = line -> 1 [] d = soft -> 2],
   rt |-> {line, soft}, td |-> {soft}, soft |-> {soft}, keeps |-> {disk},
   ist |-> [d \in Irq |-> IF d = line THEN 1 ELSE 0], procs |-> {1, 2}, timers |-> {},
   prtymask |-> FALSE, minix |-> {}]

(* All lines are timer driven, and timers wake processes up.               *)
TimerDriven == [Plain EXCEPT !.td = Irq, !.timers = {1, 2}]

(* The controller is masked by priority, MINIX disables interrupts, and    *)
(* all handlers want their lines enabled.                                  *)
Locked == [Plain EXCEPT !.prtymask = TRUE, !.keeps = {}, !.minix = {"lock"}]

(* The same, and MINIX disables and enables lines instead.                 *)
Control == [Locked EXCEPT !.minix = {"ctl"}]

MCConfs == {Plain, TimerDriven, Locked, Control}
=============================================================================
