------------------------------- MODULE RTIrq -------------------------------
(***************************************************************************)
(* Interrupt descriptors (mrtirq.c).  An interrupt that is less urgent     *)
(* than what runs is queued and its line stays masked; the flush, on the   *)
(* way back to what was interrupted, runs the handlers of the queue that   *)
(* are urgent enough.  Handlers run with interrupts enabled, so that they  *)
(* nest.  MINIX disables its own interrupts virtually (lock and unlock).   *)
(*                                                                         *)
(* Code with interrupts disabled is one step up to the next handler.  The  *)
(* stack of the kernel is a sequence of frames: handlers ("H"), the flush  *)
(* ("F") and the loop of unlock ("U").                                     *)
(***************************************************************************)
EXTENDS PrtyQueues, Integers

CONSTANTS Irq,        \* the descriptors, hard and soft
          Confs       \* the configurations, one of which is chosen

VARIABLES conf, k

vars == <<conf, k>>

PRILOWEST == NR_PRTY - 1

Least(S) == CHOOSE x \in S : \A y \in S : x <= y

Conf ==
  [prio : [Irq -> Prty],           \* priority of the descriptors
   rt : SUBSET Irq,                \* MRT_RTIRQ
   td : SUBSET Irq,                \* MRT_TDIRQ, timer driven
   soft : SUBSET Irq,              \* MRT_SOFTIRQ
   keeps : SUBSET Irq,             \* handlers that may return MRT_IRQ_DISABLED
   ist : [Irq -> Prty],             \* priority of the task MRT_ISTMSG sends to, or 0
   procs : SUBSET Prty,            \* real-time processes, by priority
   timers : SUBSET Prty,           \* those that timers wake up
   prtymask : BOOLEAN,             \* MRT_PRTYMASK
   minix : SUBSET {"lock", "ctl"}] \* what MINIX drivers call

ASSUME IrqAssumption ==
  /\ IsFiniteSet(Irq)
  /\ \A c \in Confs : c \in Conf /\ c.soft \subseteq c.td \cap c.rt /\ PRILOWEST \notin c.procs

Hard == Irq \ conf.soft

(* MRT_irqd_rst, MRT_irqQ_init and the end of MRT_restart; MINIX runs.     *)
Init ==
  /\ conf \in Confs
  /\ k = [flags |-> [d \in Irq |-> {}], irqQ |-> QEmpty, mnxQ |-> << >>,
          newint |-> FALSE, mcli |-> FALSE, needsched |-> FALSE,
          line |-> {}, virtual |-> {}, real |-> {}, pic |-> {},
          exp |-> {}, expP |-> {}, ready |-> {}, cur |-> PRILOWEST, lvl |-> PRILOWEST,
          stack |-> << >>, fault |-> "none"]

-----------------------------------------------------------------------------
Fail(s, f) == IF s.fault = "none" THEN [s EXCEPT !.fault = f] ELSE s

Top(s) == s.stack[Len(s.stack)]

Push(s, f) == [s EXCEPT !.stack = Append(@, f)]

Pop(s) == [s EXCEPT !.stack = SubSeq(@, 1, Len(@) - 1)]

InQ(s) == {d \in Irq : QHas(s.irqQ, d)}

(* Whether the processor takes interrupts: a process or a handler runs.    *)
Enabled == k.stack # << >> => Top(k).kind = "H"

User == k.stack = << >>

(* MRT_si.mask[p]: the lines that are not masked at priority p.            *)
Mask(p) == {d \in Hard : conf.prio[d] <= p}

MRT_prtylvl_set(s, p) ==
  [s EXCEPT !.lvl = p, !.pic = IF conf.prtymask THEN (Hard \ Mask(p)) \cup s.real ELSE @]

MRT_set_irq(s, d) == [s EXCEPT !.real = @ \ {d}, !.pic = @ \ {d}]

MRT_reset_irq(s, d) == [s EXCEPT !.real = @ \cup {d}, !.pic = @ \cup {d}]

(* MRT_pick_proc.                                                          *)
MRT_pick_proc(s) ==
  LET p == Least(s.ready \cup {PRILOWEST})
  IN  MRT_prtylvl_set([s EXCEPT !.cur = p, !.needsched = FALSE], p)

(* MRT_irqd_enQ: a MINIX descriptor waits for MINIX if MINIX has disabled  *)
(* it, and has no flag for that.                                           *)
MRT_irqd_enQ(s, d) ==
  LET u == [s EXCEPT !.newint = TRUE]
  IN  IF "ENQUEUED" \in s.flags[d] THEN s
      ELSE IF d \notin conf.rt /\ (d \in s.virtual \/ s.mcli)
      THEN IF \E i \in 1 .. Len(s.mnxQ) : s.mnxQ[i] = d THEN Fail(u, "link")
           ELSE [u EXCEPT !.mnxQ = Append(@, d)]
      ELSE [u EXCEPT !.flags[d] = @ \cup {"ENQUEUED"}, !.irqQ = QAppend(@, conf.prio[d], d)]

(* Mutant: a descriptor stays queued.                                      *)
MRT_irqd_deQ_Not(s, d) == s

(* MRT_irqd_deQ.                                                           *)
MRT_irqd_deQ(s, d) ==
  IF "ENQUEUED" \notin s.flags[d] THEN Fail(s, "panic")
  ELSE [s EXCEPT !.irqQ = QRemove(@, conf.prio[d], d), !.flags[d] = @ \ {"ENQUEUED"}]

(* MRT_do_handler up to the handler, for "dispatch", "flush" or "unlock".  *)
MRT_do_handler(s, d, why) ==
  Push(MRT_prtylvl_set(s, conf.prio[d]),
       [kind |-> "H", d |-> d, lvl |-> s.lvl, real |-> s.real, why |-> why])

(* restart: the flush, unless one is going on.  MRT_FLUSHLCK is set while  *)
(* there is a frame of the flush.                                          *)
Restart(s) ==
  IF \/ \E i \in 1 .. Len(s.stack) : s.stack[i].kind = "F"
     \/ QIsEmpty(s.irqQ) /\ s.exp = {} /\ s.expP = {}
  THEN s
  ELSE Push([s EXCEPT !.newint = FALSE], [kind |-> "F", p |-> 1, timers |-> TRUE])

-----------------------------------------------------------------------------
(* A device raises its line.                                               *)
Raise(d) ==
  /\ k.fault = "none" /\ d \in Hard \ k.line
  /\ k' = [k EXCEPT !.line = @ \cup {d}]
  /\ UNCHANGED conf

(* MRT_IRQ_dispatch for a timer driven line: it is remembered.             *)
DispatchTD(s, d) == MRT_set_irq([s EXCEPT !.flags[d] = @ \cup {"TDTRIGGER"}], d)

(* Mutant: the handler runs, whatever it interrupts.                       *)
Dispatch_Any(s, d) ==
  IF d \notin conf.rt /\ s.mcli THEN Restart(MRT_irqd_enQ(s, d)) ELSE MRT_do_handler(s, d, "dispatch")

(* Mutant: the line of a deferred interrupt is enabled.                    *)
Dispatch_Enable(s, d) ==
  IF \/ conf.prio[d] > s.lvl
     \/ d \notin conf.rt /\ s.mcli
  THEN Restart(MRT_set_irq(MRT_irqd_enQ(s, d), d))
  ELSE MRT_do_handler(s, d, "dispatch")

(* MRT_IRQ_dispatch for other lines but the clock.                         *)
Dispatch(s, d) ==
  IF \/ conf.prio[d] > s.lvl
     \/ d \notin conf.rt /\ s.mcli
  THEN Restart(MRT_irqd_enQ(s, d))
  ELSE MRT_do_handler(s, d, "dispatch")

MRT_IRQ_dispatch(d) ==
  LET s == MRT_reset_irq([k EXCEPT !.line = @ \ {d}], d)
  IN  /\ k.fault = "none" /\ Enabled /\ d \in k.line \ k.pic
      /\ k' = IF d \in conf.td THEN Restart(DispatchTD(s, d)) ELSE Dispatch(s, d)
      /\ UNCHANGED conf

(* MRT_IRQ_dispatch for the clock: the timer of a descriptor or of a       *)
(* process expires.                                                        *)
TickIrq(d) ==
  /\ k.fault = "none" /\ Enabled /\ d \in conf.td \ k.exp
  /\ k' = Restart([k EXCEPT !.exp = @ \cup {d}])
  /\ UNCHANGED conf

TickProc(p) ==
  /\ k.fault = "none" /\ Enabled /\ p \in conf.timers \ (k.ready \cup k.expP)
  /\ k' = Restart([k EXCEPT !.expP = @ \cup {p}])
  /\ UNCHANGED conf

(* What MRT_do_handler does after the handler has returned ret.            *)
Restore(s, f, ret) ==
  LET real == IF ret = "ENABLED" THEN f.real \ {f.d} ELSE f.real
      u == [s EXCEPT !.real = real,
                     !.pic = IF ret = "ENABLED" /\ ~conf.prtymask THEN real ELSE @]
  IN  [MRT_prtylvl_set(u, f.lvl) EXCEPT
         !.flags[f.d] = IF f.d \in conf.td THEN @ \ {"TDTRIGGER"} ELSE @,
         !.ready = IF conf.ist[f.d] # 0 THEN @ \cup {conf.ist[f.d]} ELSE @]

(* A handler returns.  Dispatch enables its line, whatever it returned;    *)
(* the flush takes it out of the queue.                                    *)
HandlerEnd(ret) ==
  LET f == Top(k)
      s == Restore(Pop(k), f, ret)
  IN  /\ k.fault = "none" /\ ~User /\ Top(k).kind = "H"
      /\ ret = "DISABLED" => f.d \in conf.keeps
      /\ k' = CASE f.why = "dispatch" -> Restart(MRT_set_irq(IF s.needsched THEN MRT_pick_proc(s) ELSE s, f.d))
                [] f.why = "flush" -> MRT_irqd_deQ(s, f.d)
                [] f.why = "unlock" -> s
      /\ UNCHANGED conf

-----------------------------------------------------------------------------
(* MRT_vtimer_flush(p): MRT_act_irqtrig of the descriptors and             *)
(* MRT_act_wakeup of the process whose timers of priority p expired.       *)
MRT_vtimer_flush(s, p) ==
  LET due == {d \in s.exp : conf.prio[d] = p}
      trig == {d \in due : d \in conf.soft \/ "TDTRIGGER" \in s.flags[d]}
      u == [s EXCEPT !.exp = @ \ due, !.expP = @ \ {p},
                     !.ready = IF p \in s.expP THEN @ \cup {p} ELSE @,
                     !.needsched = @ \/ p \in s.expP]
      enQ[D \in SUBSET trig] ==
        IF D = {} THEN u ELSE LET d == CHOOSE d \in D : TRUE IN MRT_irqd_enQ(enQ[D \ {d}], d)
  IN  enQ[trig]

(* Mutant: the loop leaves out the level of what runs.                     *)
FlushEnds_Strict(s, p) == p >= s.lvl \/ (QIsEmpty(s.irqQ) /\ s.exp = {} /\ s.expP = {})

(* The condition on which the loop of MRT_flush_int ends.                  *)
FlushEnds(s, p) == p > s.lvl \/ (QIsEmpty(s.irqQ) /\ s.exp = {} /\ s.expP = {})

(* Where the loop goes on after priority p.                                *)
FlushFrom(s, p) == IF s.newint THEN 1 ELSE p + 1

(* The next piece of MRT_flush_int, which ends before a handler.           *)
MRT_flush_int ==
  LET f == Top(k)
      n == Len(k.stack)
      timers == [MRT_vtimer_flush(k, f.p) EXCEPT !.stack[n].timers = FALSE]
      sched == IF k.needsched THEN MRT_pick_proc(k) ELSE k
      next == [sched EXCEPT !.stack[n] = [kind |-> "F", p |-> FlushFrom(k, f.p), timers |-> TRUE],
                            !.newint = FALSE]
  IN  /\ k.fault = "none" /\ ~User /\ f.kind = "F"
      /\ k' = IF ~f.timers
              THEN IF k.irqQ[f.p] # << >> THEN MRT_do_handler(k, k.irqQ[f.p][1], "flush") ELSE next
              ELSE IF FlushEnds(k, f.p) THEN Pop(k)
              ELSE timers
      /\ UNCHANGED conf

-----------------------------------------------------------------------------
(* lock and unlock of MINIX in real-time mode.                             *)
lock ==
  /\ k.fault = "none" /\ User /\ "lock" \in conf.minix /\ k.cur = PRILOWEST /\ ~k.mcli
  /\ k' = [k EXCEPT !.mcli = TRUE]
  /\ UNCHANGED conf

unlock ==
  /\ k.fault = "none" /\ User /\ "lock" \in conf.minix /\ k.cur = PRILOWEST /\ k.mcli
  /\ k' = Push([k EXCEPT !.mcli = FALSE], [kind |-> "U"])
  /\ UNCHANGED conf

(* Its loop over the descriptors that have waited.                         *)
UnlockNext ==
  /\ k.fault = "none" /\ ~User /\ Top(k).kind = "U"
  /\ k' = IF k.mnxQ = << >> THEN Pop(k)
          ELSE MRT_do_handler([k EXCEPT !.mnxQ = Tail(@)], Head(k.mnxQ), "unlock")
  /\ UNCHANGED conf

(* enable_irq and disable_irq of a driver.  Both unmask the line.          *)
enable_irq(d) ==
  /\ k.fault = "none" /\ User /\ "ctl" \in conf.minix /\ k.cur = PRILOWEST /\ d \in k.virtual
  /\ LET s == [k EXCEPT !.virtual = @ \ {d}]
     IN  k' = IF d \in conf.rt THEN s ELSE MRT_set_irq(s, d)
  /\ UNCHANGED conf

disable_irq(d) ==
  /\ k.fault = "none" /\ User /\ "ctl" \in conf.minix /\ k.cur = PRILOWEST /\ d \in Hard \ k.virtual
  /\ LET s == [k EXCEPT !.virtual = @ \cup {d}]
     IN  k' = IF d \in conf.rt THEN s ELSE MRT_set_irq(s, d)
  /\ UNCHANGED conf

-----------------------------------------------------------------------------
(* A kernel call makes a real-time process ready, or the running one       *)
(* blocks; the scheduler runs, and restart.                                *)
Ready(p) ==
  /\ k.fault = "none" /\ User /\ p \in conf.procs \ (k.ready \cup k.expP)
  /\ k' = Restart(MRT_pick_proc([k EXCEPT !.ready = @ \cup {p}]))
  /\ UNCHANGED conf

Block ==
  /\ k.fault = "none" /\ User /\ k.cur \in k.ready
  /\ k' = Restart(MRT_pick_proc([k EXCEPT !.ready = @ \ {k.cur}]))
  /\ UNCHANGED conf

KernelStep ==
  \/ \E ret \in {"ENABLED", "DISABLED"} : HandlerEnd(ret)
  \/ MRT_flush_int \/ UnlockNext

Next ==
  \/ \E d \in Irq : \/ Raise(d) \/ MRT_IRQ_dispatch(d) \/ TickIrq(d)
                    \/ enable_irq(d) \/ disable_irq(d)
  \/ \E p \in Prty : TickProc(p) \/ Ready(p)
  \/ Block \/ lock \/ unlock
  \/ KernelStep

Spec == Init /\ [][Next]_vars

(* Handlers return, code of the kernel goes on, real-time processes block  *)
(* in the end, and so do drivers that have disabled interrupts.            *)
FairSpec == Spec /\ WF_vars(KernelStep) /\ WF_vars(Block) /\ WF_vars(unlock)

-----------------------------------------------------------------------------
Frame == [kind : {"H"}, d : Irq, lvl : Prty, real : SUBSET Irq, why : {"dispatch", "flush", "unlock"}]
         \cup [kind : {"F"}, p : 1 .. NR_PRTY, timers : BOOLEAN] \cup [kind : {"U"}]

(* Type invariant.                                                         *)
TypeOK ==
  /\ k.flags \in [Irq -> SUBSET {"ENQUEUED", "TDTRIGGER"}]
  /\ \A p \in Prty : \A i \in 1 .. Len(k.irqQ[p]) : k.irqQ[p][i] \in Irq
  /\ \A i \in 1 .. Len(k.mnxQ) : k.mnxQ[i] \in Irq
  /\ k.line \subseteq Hard /\ k.virtual \subseteq Hard
  /\ k.real \subseteq Irq /\ k.pic \subseteq Irq
  /\ k.lvl \in Prty /\ k.cur \in Prty /\ k.ready \subseteq Prty
  /\ \A i \in 1 .. Len(k.stack) : k.stack[i] \in Frame

Handlers == {i \in 1 .. Len(k.stack) : k.stack[i].kind = "H"}

(* A handler interrupts only handlers that are not more urgent.            *)
UrgentOnTop ==
  \A i, j \in Handlers : j < i => conf.prio[k.stack[i].d] <= conf.prio[k.stack[j].d]

(* A handler interrupts a process only if it is at least as urgent as that *)
(* process.                                                                *)
ProcessOutranked ==
  [][\A d \in Irq : User /\ k'.stack # << >> /\ k'.stack[1].kind = "H" /\ k'.stack[1].d = d
                      => conf.prio[d] <= k.cur]_vars

(* Descriptors are queued once, and the flag says so.                      *)
QueuedOnce ==
  /\ k.fault = "none"
  /\ \A d \in Irq : "ENQUEUED" \in k.flags[d] <=> d \in InQ(k)
  /\ \A i, j \in 1 .. Len(k.mnxQ) : k.mnxQ[i] = k.mnxQ[j] => i = j

(* While a process runs, no deferred interrupt is left that is at least as *)
(* urgent.  (A timer may be: VTimer has the run that shows it.)            *)
NoneDueLeft == User => \A d \in InQ(k) : conf.prio[d] > k.cur

(* While a process runs, the level is the priority of that process.        *)
LevelOfProcess == User => k.lvl = k.cur

Waits(d) == d \in InQ(k) \/ \E i \in 1 .. Len(k.mnxQ) : k.mnxQ[i] = d

(* A line whose interrupt waits for its handler is masked.                 *)
WaitingMasked == conf.prtymask => \A d \in Hard \ conf.td : Waits(d) => d \in k.pic

(* While a process runs, a line is masked only if its interrupt waits, is  *)
(* less urgent than the process, or its handler wants it masked.           *)
MaskedWaits == User => \A d \in k.pic \ conf.keeps : Waits(d) \/ conf.prio[d] > k.cur

(* Interrupts are served by priority: a handler is interrupted by more     *)
(* urgent ones only, and the flush leaves neither a due interrupt behind   *)
(* nor a level that is not the one of the process it returns to, whatever  *)
(* nested handlers and the scheduler did in between (MRT_do_handler,       *)
(* MRT_flush_int, MRT_pick_proc).                                          *)
UrgentFirst == TypeOK /\ UrgentOnTop /\ NoneDueLeft /\ LevelOfProcess

(* A deferred interrupt is queued once and its line is masked as long as   *)
(* it waits; no line stays masked for nothing (MRT_irqd_enQ, MRT_irqd_deQ, *)
(* MRT_do_handler, lock and unlock of MINIX).                              *)
MaskedIffWaiting == QueuedOnce /\ WaitingMasked /\ MaskedWaits

(* When devices, timers and processes are quiet from some time on, the     *)
(* flush ends, every deferred interrupt is served for good and MINIX goes  *)
(* on; so are those that waited for MINIX where it is lock that made them  *)
(* wait.  (After disable_irq they wait for an unlock that need not come.)  *)
Settles ==
  <>[][KernelStep \/ Block \/ unlock]_vars
    => <>[](User /\ InQ(k) = {} /\ ("lock" \in conf.minix => k.mnxQ = << >>))
=============================================================================
