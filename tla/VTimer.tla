------------------------------- MODULE VTimer ------------------------------
(***************************************************************************)
(* The virtual timers of mrtvt.c and the part of the interrupt code that   *)
(* drives them: the pool of free descriptors, the active queue ordered by  *)
(* expiration and kept as differences (nextexp), the clock handler that    *)
(* moves expired timers to the expired queue, and the flush that runs      *)
(* their actions on the way back to a process.                             *)
(*                                                                         *)
(* All of it runs with interrupts disabled, except the interrupt handlers  *)
(* that the flush calls (pc = "irq").  The loops of the code are steps of  *)
(* their own here, and pc keeps every other operation out until the loop   *)
(* is over.                                                                *)
(*                                                                         *)
(* The kernel uses timers in three ways only: to trigger a timer driven    *)
(* interrupt (MRT_restart: no limit, active from the start), to end a wait *)
(* (MRT_ACT_SNDTO, RCVFR, SNDRCV and DOWN: "TIMEOUT") and to end a sleep   *)
(* (MRT_ACT_WAKEUP).  The last two use the timer every real-time process   *)
(* owns (ipcvt), with limit 1.                                             *)
(***************************************************************************)
EXTENDS PrtyQueues, DeltaQueue

CONSTANTS
  NoVT,      \* no descriptor
  Periods,   \* the periods and timeouts asked for
  Handling,  \* whether the flush runs interrupt handlers
  Waits      \* what processes use their timers for, a part of {"TIMEOUT", "WAKEUP"}

ASSUME VTAssumption ==
  /\ IsFiniteSet(VT) /\ NoVT \notin VT
  /\ Periods \subseteq Nat \ {0}
  /\ Handling \in BOOLEAN
  /\ Waits \subseteq {"TIMEOUT", "WAKEUP"}

VARIABLES
  freeQ,                    \* MRT_st.freeQ
  list, earliest, maxper,   \* MRT_st.actQ
  expQ,                     \* MRT_st.expQ
  flags, period, limit, action, priority, expired, nextexp,  \* MRT_vtimer_t
  prtylvl, needsched, newint,   \* MRT_sv.prtylvl, MRT_NEEDSCHED, MRT_NEWINT
  pc,                       \* what the kernel is doing
  ret,                      \* where MRT_vtimer_ins or MRT_clock_handler returns
  pvt, plnext, ticksum,     \* locals of MRT_vtimer_ins
  p,                        \* local of MRT_flush_int
  fault,                    \* how memory was corrupted; from then on nothing is known
  due                       \* auxiliary: the ticks every active timer has left

desc == <<flags, period, limit, action, priority, expired>>
actQ == <<list, earliest, maxper, nextexp, due>>
insvars == <<pvt, plnext, ticksum>>
sched == <<prtylvl, needsched, newint>>
control == <<pc, ret, p>>
vars == <<freeQ, actQ, expQ, desc, sched, control, insvars, fault>>

PRILOWEST == NR_PRTY - 1

(* The priorities of timers: MRT_setpattr and MRT_setiattr refuse 0.       *)
TimerPrty == 1 .. PRILOWEST

(* Bound: no limit is above 1, so that expired saturates there.            *)
ExpiredMax == 1

(* MRT_timerQ_init.                                                        *)
MRT_timerQ_init ==
  list = << >> /\ earliest = 0 /\ maxper = 0 /\ expQ = QEmpty

(* MRT_vtimer_init: every descriptor is reset, which marks it VT_ALLOC,    *)
(* and appended to the free queue.  expired is static and starts at 0.     *)
MRT_vtimer_init ==
  /\ freeQ \in {s \in [1 .. Cardinality(VT) -> VT] : \A i, j \in DOMAIN s : s[i] = s[j] => i = j}
  /\ flags = [v \in VT |-> "VT_ALLOC"]
  /\ period = [v \in VT |-> 0]
  /\ limit = [v \in VT |-> 0]
  /\ action = [v \in VT |-> "NONE"]
  /\ priority = [v \in VT |-> PRILOWEST]
  /\ expired = [v \in VT |-> 0]
  /\ nextexp = [v \in VT |-> 0]

Init ==
  /\ MRT_timerQ_init /\ MRT_vtimer_init
  /\ due = [v \in VT |-> Off]
  /\ prtylvl = PRILOWEST /\ needsched = FALSE /\ newint = FALSE
  /\ pc = "user" /\ ret = "user" /\ p = 1
  /\ pvt = NoVT /\ plnext = 0 /\ ticksum = 0
  /\ fault = "none"

-----------------------------------------------------------------------------
(* The kernel is at pc, and nothing was corrupted so far.                  *)
At(s) == fault = "none" /\ pc = s

InFree(v) == \E i \in 1 .. Len(freeQ) : freeQ[i] = v

InAct(v) == \E i \in 1 .. Len(list) : list[i] = v

InExp(v) == QHas(expQ, v)

Ipc(v) == ~InFree(v) /\ action[v] # "IRQTRIG"

(* Resetting the link of a timer that waits in expQ: alone in its list its *)
(* pointers are NULL anyway, with a neighbour the list is cut.             *)
ResetLink(v) ==
  fault' = IF \E q \in Prty : QPositions(expQ, q, v) # {} /\ Len(expQ[q]) > 1
           THEN "link" ELSE fault

(* Linking a timer into another list while it is in expQ.                  *)
LinkAgain(v) == fault' = IF InExp(v) THEN "link" ELSE fault

(* Reading link.this of a timer of the active queue.  MRT_sleep has set    *)
(* the one of its timer to the address of the pointer rp->ipcvt instead of *)
(* the timer.                                                              *)
ReadThis(v) == fault' = IF action[v] = "WAKEUP" THEN "this" ELSE fault

(* Back to the process (restart), which flushes if a timer has expired, or *)
(* to the interrupt handler that was running.                              *)
Return(to) ==
  IF to = "user"
  THEN /\ pc' = IF QIsEmpty(expQ) THEN "user" ELSE "flush"
       /\ p' = 1
  ELSE pc' = to /\ UNCHANGED p

-----------------------------------------------------------------------------
(* MRT_vtimer_rmv(list[i]): the only, the first, the last, a middle timer. *)
(* nextexp of a timer that is not in the queue is not read, and reset here.*)
MRT_vtimer_rmv(i) ==
  LET v == list[i]
      n == Len(list)
  IN  /\ list' = SeqRemove(list, i)
      /\ due' = [due EXCEPT ![v] = Off]
      /\ \/ /\ n = 1
            /\ earliest' = 0 /\ maxper' = 0
            /\ nextexp' = [nextexp EXCEPT ![v] = 0]
         \/ /\ n > 1 /\ i = 1
            /\ earliest' = earliest + nextexp[v]
            /\ maxper' = maxper - nextexp[v]
            /\ nextexp' = [nextexp EXCEPT ![v] = 0]
         \/ /\ i > 1 /\ i = n
            /\ maxper' = maxper - nextexp[list[i - 1]]
            /\ nextexp' = [nextexp EXCEPT ![v] = 0]
            /\ UNCHANGED earliest
         \/ /\ i > 1 /\ i < n
            /\ nextexp' = [nextexp EXCEPT ![list[i - 1]] = @ + nextexp[v], ![v] = 0]
            /\ UNCHANGED <<earliest, maxper>>

(* The removal of an active timer by its address: MRT_vtimer_rmv looks at  *)
(* the timer before it, unless it is the first.                            *)
Unlink(v) ==
  \E i \in 1 .. Len(list) :
    /\ list[i] = v
    /\ MRT_vtimer_rmv(i)
    /\ IF i > 1 THEN ReadThis(list[i - 1]) ELSE UNCHANGED fault

(* MRT_vtimer_stop.  A timer in expQ carries VT_ALLOC, VT_EXPIREDQ is      *)
(* never set: the switch leaves the timer where it is.                     *)
MRT_vtimer_stop(v) ==
  /\ flags' = [flags EXCEPT ![v] = "VT_ALLOC"]
  /\ \/ /\ flags[v] = "VT_ACTIVEQ"
        /\ Unlink(v)
     \/ /\ flags[v] # "VT_ACTIVEQ"
        /\ ResetLink(v)
        /\ UNCHANGED actQ

(* VTALLOC: MRT_vtimer_alloc with acceptable arguments and a free timer.   *)
MRT_vtimer_alloc(per, act, pty) ==
  LET v == Head(freeQ)
  IN  /\ freeQ' = Tail(freeQ)
      /\ period' = [period EXCEPT ![v] = per]
      /\ limit' = [limit EXCEPT ![v] = 0]
      /\ action' = [action EXCEPT ![v] = act]
      /\ priority' = [priority EXCEPT ![v] = pty]

(* rtk_set2rt gives a process the timer for its waits and sleeps.          *)
AllocIpc(pty) ==
  /\ At("user") /\ freeQ # << >>
  /\ MRT_vtimer_alloc(1, "NONE", pty)
  /\ flags' = [flags EXCEPT ![Head(freeQ)] = "VT_ALLOC"]
  /\ Return("user")
  /\ UNCHANGED <<actQ, expQ, expired, sched, insvars, ret, fault>>

(* MRT_restart gives a timer driven interrupt its timer and starts it;     *)
(* MRT_vtimer_ins marks it VT_ACTIVEQ first.                               *)
AllocIrq(per, pty) ==
  /\ At("user") /\ freeQ # << >>
  /\ MRT_vtimer_alloc(per, "IRQTRIG", pty)
  /\ flags' = [flags EXCEPT ![Head(freeQ)] = "VT_ACTIVEQ"]
  /\ pc' = "ins" /\ ret' = "user" /\ pvt' = Head(freeQ)
  /\ UNCHANGED <<actQ, expQ, expired, sched, plnext, ticksum, p, fault>>

(* VTSET by a process that starts to wait or to sleep.                     *)
VTSET(v, per, act, pty) ==
  /\ At("user") /\ Ipc(v) /\ ~InAct(v)
  /\ period' = [period EXCEPT ![v] = per]
  /\ limit' = [limit EXCEPT ![v] = 1]
  /\ action' = [action EXCEPT ![v] = act]
  /\ priority' = [priority EXCEPT ![v] = pty]
  /\ flags' = [flags EXCEPT ![v] = "VT_ACTIVEQ"]
  /\ LinkAgain(v)
  /\ pc' = "ins" /\ ret' = "user" /\ pvt' = v
  /\ UNCHANGED <<freeQ, actQ, expQ, expired, sched, plnext, ticksum, p>>

(* The wait or the sleep ends before the timeout: MRT_semup, MRT_wakeup,   *)
(* MRT_ksend (also called by interrupt handlers) and the rtk_ calls.       *)
Stop(v) ==
  /\ (At("user") \/ At("irq")) /\ Ipc(v)
  /\ MRT_vtimer_stop(v)
  /\ Return(pc)
  /\ UNCHANGED <<freeQ, expQ, period, limit, action, priority, expired, sched, insvars, ret>>

(* Mutant: the timer is freed while it is in the active queue.             *)
MRT_vtimer_free_NoStop(v) ==
  /\ At("user") /\ Ipc(v)
  /\ LinkAgain(v)
  /\ period' = [period EXCEPT ![v] = 0]
  /\ limit' = [limit EXCEPT ![v] = 0]
  /\ action' = [action EXCEPT ![v] = "NONE"]
  /\ priority' = [priority EXCEPT ![v] = PRILOWEST]
  /\ flags' = [flags EXCEPT ![v] = "VT_FREEQ"]
  /\ freeQ' = Append(freeQ, v)
  /\ Return("user")
  /\ UNCHANGED <<actQ, expQ, expired, sched, insvars, ret>>

(* MRT_vtimer_free, from MRT_set2nrt: MRT_vtimer_stop, MRT_vtimer_rst and  *)
(* back to the free queue.  expired keeps its value.                       *)
MRT_vtimer_free(v) ==
  /\ At("user") /\ Ipc(v)
  /\ \/ /\ flags[v] = "VT_ACTIVEQ"
        /\ Unlink(v)
     \/ /\ flags[v] # "VT_ACTIVEQ"
        /\ LinkAgain(v)
        /\ UNCHANGED actQ
  /\ period' = [period EXCEPT ![v] = 0]
  /\ limit' = [limit EXCEPT ![v] = 0]
  /\ action' = [action EXCEPT ![v] = "NONE"]
  /\ priority' = [priority EXCEPT ![v] = PRILOWEST]
  /\ flags' = [flags EXCEPT ![v] = "VT_FREEQ"]
  /\ freeQ' = Append(freeQ, v)
  /\ Return("user")
  /\ UNCHANGED <<expQ, expired, sched, insvars, ret>>

(* MRT_pick_proc sets the priority level of the process it picked.         *)
MRT_prtylvl_set(q) ==
  /\ At("user")
  /\ prtylvl' = q /\ needsched' = FALSE
  /\ Return("user")
  /\ UNCHANGED <<newint, freeQ, actQ, expQ, desc, insvars, ret, fault>>

-----------------------------------------------------------------------------
(* MRT_vtimer_ins: into an empty queue, first, last, or after a scan for   *)
(* the first timer that expires later.                                     *)
InsReturn ==
  /\ due' = [due EXCEPT ![pvt] = period[pvt]]
  /\ pvt' = NoVT /\ plnext' = 0 /\ ticksum' = 0
  /\ Return(ret) /\ ret' = "user"
  /\ UNCHANGED <<freeQ, expQ, desc, sched>>

InsEmpty ==
  /\ At("ins") /\ list = << >>
  /\ earliest' = period[pvt] /\ maxper' = 0
  /\ nextexp' = [nextexp EXCEPT ![pvt] = 0]
  /\ list' = <<pvt>>
  /\ InsReturn /\ UNCHANGED fault

InsFirst ==
  /\ At("ins") /\ list # << >> /\ earliest > period[pvt]
  /\ nextexp' = [nextexp EXCEPT ![pvt] = earliest - period[pvt]]
  /\ maxper' = maxper + (earliest - period[pvt])
  /\ earliest' = period[pvt]
  /\ list' = <<pvt>> \o list
  /\ InsReturn /\ UNCHANGED fault

InsLast ==
  /\ At("ins") /\ list # << >> /\ earliest <= period[pvt]
  /\ maxper + earliest <= period[pvt]
  /\ nextexp' = [nextexp EXCEPT ![list[Len(list)]] = period[pvt] - (maxper + earliest),
                                ![pvt] = 0]
  /\ maxper' = period[pvt] - earliest
  /\ list' = Append(list, pvt)
  /\ ReadThis(list[Len(list)])
  /\ UNCHANGED earliest
  /\ InsReturn

InsMiddle ==
  /\ At("ins") /\ list # << >> /\ earliest <= period[pvt]
  /\ maxper + earliest > period[pvt]
  /\ pc' = "scan" /\ ticksum' = earliest /\ plnext' = 1
  /\ UNCHANGED <<freeQ, actQ, expQ, desc, sched, pvt, ret, p, fault>>

ScanMore == ticksum <= period[pvt] /\ plnext < Len(list)

ScanStep ==
  /\ At("scan") /\ ScanMore
  /\ ticksum' = ticksum + nextexp[list[plnext]]
  /\ plnext' = plnext + 1
  /\ ReadThis(list[plnext])
  /\ UNCHANGED <<freeQ, actQ, expQ, desc, sched, control, pvt>>

(* Mutant: the difference of the timer before is not reduced.              *)
ScanInsert_KeepPrev ==
  /\ At("scan") /\ ~ScanMore
  /\ nextexp' = [nextexp EXCEPT ![pvt] = ticksum - period[pvt]]
  /\ list' = SeqInsert(list, plnext, pvt)
  /\ UNCHANGED <<earliest, maxper, fault>>
  /\ InsReturn

ScanInsert ==
  /\ At("scan") /\ ~ScanMore
  /\ LET n == ticksum - period[pvt]
     IN  nextexp' = [nextexp EXCEPT ![pvt] = n, ![list[plnext - 1]] = @ - n]
  /\ list' = SeqInsert(list, plnext, pvt)
  /\ UNCHANGED <<earliest, maxper, fault>>
  /\ InsReturn

-----------------------------------------------------------------------------
(* MRT_IRQ_dispatch for the clock, with the timer in periodic mode.        *)
Tick ==
  /\ (At("user") \/ At("irq")) /\ list # << >>
  /\ earliest' = earliest - 1
  /\ due' = [v \in VT |-> IF due[v] = Off THEN Off ELSE due[v] - 1]
  /\ IF earliest = 1 THEN pc' = "clock" /\ ret' = pc /\ UNCHANGED p
                     ELSE Return(pc) /\ UNCHANGED ret
  /\ UNCHANGED <<freeQ, list, maxper, nextexp, expQ, desc, sched, insvars, fault>>

(* MRT_clock_handler: every timer that is due goes from the active to the  *)
(* expired queue.                                                          *)
ClockExpire ==
  /\ At("clock") /\ list # << >> /\ earliest = 0
  /\ MRT_vtimer_rmv(1)
  /\ LET v == list[1]
     IN  /\ flags' = [flags EXCEPT ![v] = "VT_ALLOC"]
         /\ expQ' = QAppend(expQ, priority[v], v)
         /\ ReadThis(v)
  /\ UNCHANGED <<freeQ, period, limit, action, priority, expired, sched, control, insvars>>

(* Mutant: one timer is expired, others that are due at the same tick are  *)
(* left for the next one.                                                  *)
ClockReturn_First ==
  /\ At("clock") /\ ~QIsEmpty(expQ)
  /\ Return(ret) /\ ret' = "user"
  /\ UNCHANGED <<freeQ, actQ, expQ, desc, sched, insvars, fault>>

ClockReturn ==
  /\ At("clock") /\ (list = << >> \/ earliest # 0)
  /\ Return(ret) /\ ret' = "user"
  /\ UNCHANGED <<freeQ, actQ, expQ, desc, sched, insvars, fault>>

-----------------------------------------------------------------------------
(* MRT_flush_int.  Its loop also goes on while deferred interrupts are     *)
(* queued; those are not modelled here, and there may be some at any time. *)
FlushList ==
  /\ At("flush") /\ p <= prtylvl
  /\ pc' = "list"
  /\ UNCHANGED <<freeQ, actQ, expQ, desc, sched, insvars, ret, p, fault>>

(* Mutant: the running priority itself is not flushed.                     *)
FlushReturn_Above ==
  /\ At("flush") /\ (p >= prtylvl \/ QIsEmpty(expQ))
  /\ pc' = "user" /\ p' = 1
  /\ UNCHANGED <<freeQ, actQ, expQ, desc, sched, insvars, ret, fault>>

FlushReturn ==
  /\ At("flush") /\ (p > prtylvl \/ QIsEmpty(expQ))
  /\ pc' = "user" /\ p' = 1
  /\ UNCHANGED <<freeQ, actQ, expQ, desc, sched, insvars, ret, fault>>

(* Mutant: the timer stays in the expired queue.                           *)
MRT_vtimer_run_Keep ==
  /\ At("list") /\ expQ[p] # << >>
  /\ LET v == Head(expQ[p])
     IN  /\ expired' = [expired EXCEPT ![v] = IF @ = ExpiredMax THEN @ ELSE @ + 1]
         /\ IF expired'[v] < limit[v] \/ limit[v] = 0
            THEN /\ pc' = "ins" /\ ret' = "list" /\ pvt' = v
                 /\ flags' = [flags EXCEPT ![v] = "VT_ACTIVEQ"]
            ELSE UNCHANGED <<pc, ret, pvt, flags>>
         /\ IF action[v] = "IRQTRIG"
            THEN newint' \in {newint, TRUE} /\ UNCHANGED needsched
            ELSE needsched' \in {needsched, TRUE} /\ UNCHANGED newint
  /\ UNCHANGED <<freeQ, actQ, expQ, period, limit, action, priority, prtylvl, p, plnext, ticksum, fault>>

(* MRT_vtimer_flush(p) and MRT_vtimer_run for the first timer of the list. *)
(* Its action returns CONTINUE.  A timeout may ask for the scheduler, and  *)
(* MRT_act_irqtrig defers an interrupt unless it is disabled or queued.    *)
MRT_vtimer_run ==
  /\ At("list") /\ expQ[p] # << >>
  /\ LET v == Head(expQ[p])
     IN  /\ expQ' = QRemove(expQ, priority[v], v)
         /\ expired' = [expired EXCEPT ![v] = IF @ = ExpiredMax THEN @ ELSE @ + 1]
         /\ IF expired'[v] < limit[v] \/ limit[v] = 0
            THEN /\ pc' = "ins" /\ ret' = "list" /\ pvt' = v
                 /\ flags' = [flags EXCEPT ![v] = "VT_ACTIVEQ"]
            ELSE UNCHANGED <<pc, ret, pvt, flags>>
         /\ IF action[v] = "IRQTRIG"
            THEN newint' \in {newint, TRUE} /\ UNCHANGED needsched
            ELSE needsched' \in {needsched, TRUE} /\ UNCHANGED newint
  /\ UNCHANGED <<freeQ, actQ, period, limit, action, priority, prtylvl, p, plnext, ticksum, fault>>

(* MRT_irqd_flush(p) runs the handlers of the deferred interrupts of this  *)
(* priority, if any, with interrupts enabled; others may be deferred then. *)
Handlers ==
  /\ Handling
  /\ At("list") /\ expQ[p] = << >>
  /\ pc' = "irq"
  /\ needsched' \in {needsched, TRUE} /\ newint' \in {newint, TRUE}
  /\ UNCHANGED <<freeQ, actQ, expQ, desc, prtylvl, insvars, ret, p, fault>>

(* The rest of the loop's body.  The loop starts again if an interrupt was *)
(* deferred meanwhile; the clock does not count as one.                    *)
NextPrty ==
  /\ \/ At("list") /\ expQ[p] = << >>
     \/ At("irq")
  /\ IF needsched THEN prtylvl' \in Prty ELSE UNCHANGED prtylvl
  /\ p' = IF newint THEN 1 ELSE p + 1
  /\ pc' = "flush"
  /\ needsched' = FALSE /\ newint' = FALSE
  /\ UNCHANGED <<freeQ, actQ, expQ, desc, insvars, ret, fault>>

-----------------------------------------------------------------------------
InsStep == InsEmpty \/ InsFirst \/ InsLast \/ InsMiddle \/ ScanStep \/ ScanInsert

ClockStep == ClockExpire \/ ClockReturn

FlushStep == FlushList \/ FlushReturn \/ MRT_vtimer_run \/ NextPrty

Request ==
  \/ \E pty \in TimerPrty : AllocIpc(pty) \/ \E per \in Periods : AllocIrq(per, pty)
  \/ \E v \in VT : \/ Stop(v)
                   \/ MRT_vtimer_free(v)
                   \/ \E per \in Periods, act \in Waits, pty \in TimerPrty : VTSET(v, per, act, pty)
  \/ \E q \in Prty : MRT_prtylvl_set(q)

(* After a fault nothing is specified; the model stops there.              *)
Halted == fault # "none" /\ UNCHANGED vars

Next == Request \/ Tick \/ InsStep \/ ClockStep \/ FlushStep \/ Handlers \/ Halted

(* The kernel finishes what it started, and the clock keeps ticking: a     *)
(* tick that comes while interrupts are disabled stays pending.            *)
Fairness == /\ WF_vars(InsStep \/ ClockStep \/ FlushStep)
            /\ SF_vars(Tick)

Spec == Init /\ [][Next]_vars /\ Fairness

-----------------------------------------------------------------------------
(* Type invariant.  MRT_vtimer_ins and MRT_vtimer_rmv never bring          *)
(* earliest, maxper or a nextexp below zero.                               *)
TypeOK ==
  /\ freeQ \in Seq(VT) /\ list \in Seq(VT)
  /\ expQ \in [Prty -> Seq(VT)]
  /\ earliest \in Nat /\ maxper \in Nat
  /\ nextexp \in [VT -> Nat]
  /\ due \in [VT -> Nat \cup {Off}]
  /\ flags \in [VT -> {"VT_ALLOC", "VT_FREEQ", "VT_ACTIVEQ"}]
  /\ period \in [VT -> {0, 1} \cup Periods]
  /\ limit \in [VT -> {0, 1}]
  /\ action \in [VT -> {"NONE", "IRQTRIG", "TIMEOUT", "WAKEUP"}]
  /\ priority \in [VT -> Prty]
  /\ expired \in [VT -> 0 .. ExpiredMax]
  /\ prtylvl \in Prty /\ needsched \in BOOLEAN /\ newint \in BOOLEAN
  /\ pc \in {"user", "ins", "scan", "clock", "flush", "list", "irq"}
  /\ ret \in {"user", "irq", "list"}
  /\ pvt \in VT \cup {NoVT} /\ plnext \in Nat /\ ticksum \in Nat
  /\ p \in 1 .. NR_PRTY
  /\ fault \in {"none", "link", "this"}

(* The differences the active queue keeps add up to the ticks every timer  *)
(* has left: earliest for the first, the sum of the nextexp before it for  *)
(* any other, earliest + maxper for the last.  So MRT_vtimer_ins puts a    *)
(* timer in its place, and no insertion or removal moves another timer's   *)
(* expiration.                                                             *)
DeltaExact ==
  list # << >> =>
    /\ due[list[1]] = earliest
    /\ \A i \in 1 .. Len(list) - 1 : due[list[i + 1]] = due[list[i]] + nextexp[list[i]]
    /\ due[list[Len(list)]] = earliest + maxper

(* A timer is in one queue at most, and there once.  The timers marked     *)
(* VT_ACTIVEQ are those of the active queue and the one being inserted.    *)
OnePlace ==
  /\ \A i, j \in 1 .. Len(freeQ) : freeQ[i] = freeQ[j] => i = j
  /\ \A i, j \in 1 .. Len(list) : list[i] = list[j] => i = j
  /\ \A v \in VT :
       /\ ~(InFree(v) /\ InAct(v))
       /\ ~(InAct(v) /\ InExp(v))
       /\ fault = "none" => ~(InFree(v) /\ InExp(v))
       /\ flags[v] = "VT_ACTIVEQ" <=> InAct(v) \/ v = pvt
       /\ InAct(v) => v # pvt
  /\ \A q \in Prty : \A i, j \in 1 .. Len(expQ[q]) : expQ[q][i] = expQ[q][j] => i = j

(* Every expired timer waits in the list of its own priority, where        *)
(* MRT_vtimer_run looks for it to remove it.                               *)
QueuedAtOwnPrty ==
  fault = "none" =>
    \A q \in Prty : \A i \in 1 .. Len(expQ[q]) : priority[expQ[q][i]] = q

(* When a process runs, no expired timer of its priority or a higher one   *)
(* is left: MRT_flush_int ran them all.                                    *)
FlushRunsAll ==
  pc = "user" => \A q \in 1 .. prtylvl : expQ[q] = << >>

(* Unless interrupts keep the flush busy for ever, every kernel operation  *)
(* ends and a process runs again: the scan, the clock handler's loop and   *)
(* the flush's loops, which reinserts periodic timers as it goes, end.     *)
KernelReturns ==
  <>[](pc # "irq") => (pc # "user" ~> (pc = "user" \/ fault # "none"))

(* Every active timer expires or is stopped, whatever timers are started   *)
(* and stopped in the meantime.                                            *)
TimersEnd ==
  \A v \in VT : InAct(v) ~> (~InAct(v) \/ fault # "none")

(* Every kernel operation ends, and every active timer: the loops of       *)
(* MRT_vtimer_ins, MRT_clock_handler and MRT_flush_int do not feed         *)
(* themselves or each other.                                               *)
Progress == KernelReturns /\ TimersEnd
=============================================================================
