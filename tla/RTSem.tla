------------------------------- MODULE RTSem -------------------------------
(***************************************************************************)
(* The real-time semaphores of mrtsem.c with the scheduler of mrtproc.c,   *)
(* priority inheritance (mrtlib.c), the timeout of a wait (mrtvt.c) and    *)
(* the calls by which processes enter and leave real-time mode.            *)
(*                                                                         *)
(* An RT-kernel call runs with interrupts disabled and ends by picking the *)
(* process to run; it is one step.  MRT_set2nrt is several, of which       *)
(* nothing else can see the middle (pc).  A timeout is what VTimer makes   *)
(* of it: the timer expires at some tick, and its action runs on the way   *)
(* back to a process, as soon as none more urgent than the timer is left.  *)
(*                                                                         *)
(* Not here: messages (their queues are empty), periodic processes, the    *)
(* limit on schedulings, and leaving by signal or exit.                    *)
(***************************************************************************)
EXTENDS PrtyQueues, Integers

CONSTANTS
  Proc, Sem, NoProc, NoSem,
  BasePrty,   \* the priorities processes ask for
  SemAttrs,   \* the attributes semaphores are asked for with, [flags, value]
  Timeouts,   \* a part of {"NOWAIT", "FOREVER", "TIMED"}
  Sleeping,   \* whether processes sleep
  Leaving,    \* whether processes leave real-time mode
  BPIP,       \* the system flag MRT_BPIP
  StaleRp,    \* what MRT_disinherit can find in its uninitialised rp
  MinValue, MaxValue    \* bounds on the value of a semaphore

ASSUME SemAssumption ==
  /\ IsFiniteSet(Proc) /\ NoProc \notin Proc /\ NoSem \notin Sem
  /\ BasePrty \subseteq Prty \ {0}
  /\ SemAttrs \subseteq [flags : SUBSET {"PRTYORDER", "PRTYINHERIT", "MUTEX"}, value : Nat]
  /\ Timeouts \subseteq {"NOWAIT", "FOREVER", "TIMED"}
  /\ Sleeping \in BOOLEAN /\ Leaving \in BOOLEAN /\ BPIP \in BOOLEAN
  /\ StaleRp \subseteq {"own", "any", "fault"} /\ StaleRp # {}
  /\ MinValue \in Int /\ MaxValue \in Nat

VARIABLES
  rt, prio, base, down, asleep, psem, slockL,  \* proc: MRT_P_REALTIME, rt.priority, rt.baseprty,
                                        \* MRT_SEM_DOWN, MRT_P_SLEEP, psem, slockL
  timer, tprty, tsem,                   \* its ipcvt: where it is, priority, param
  rdyQ, cur,                            \* MRT_sp.rdyQ, proc_ptr (NoProc: a MINIX process)
  owner, value, flags, carrier, waitQ,  \* MRT_sem_t, with plist as waitQ
  pc,                                   \* where MRT_set2nrt is
  flushed,                              \* the timer list flushed with MRT_NEEDSCHED set, or 0
  fault,                                \* a panic or a corruption, after which nothing is known
  holds                                 \* auxiliary: the mutexes every process was granted

wait == <<down, psem, waitQ>>
timers == <<timer, tprty, tsem>>
semattr == <<owner, flags>>
locks == <<slockL, carrier, holds>>
procattr == <<rt, base, asleep>>
control == <<pc, flushed>>
vars == <<procattr, prio, wait, locks, timers, rdyQ, cur, semattr, value, control, fault>>

PRILOWEST == NR_PRTY - 1

Min2(a, b) == IF a < b THEN a ELSE b

(* MRT_pattr_rst, MRT_sem_rst and MRT_rdyQ_init.                           *)
Init ==
  /\ rt = [p \in Proc |-> FALSE]
  /\ prio = [p \in Proc |-> PRILOWEST] /\ base = [p \in Proc |-> PRILOWEST]
  /\ down = [p \in Proc |-> FALSE] /\ asleep = [p \in Proc |-> FALSE] /\ psem = [p \in Proc |-> NoSem]
  /\ slockL = [p \in Proc |-> << >>] /\ holds = [p \in Proc |-> {}]
  /\ timer = [p \in Proc |-> "idle"]
  /\ tprty = [p \in Proc |-> PRILOWEST] /\ tsem = [p \in Proc |-> NoSem]
  /\ rdyQ = QEmpty /\ cur = NoProc
  /\ owner = [s \in Sem |-> NoProc] /\ value = [s \in Sem |-> 0]
  /\ flags = [s \in Sem |-> {}] /\ carrier = [s \in Sem |-> NoProc]
  /\ waitQ = [s \in Sem |-> QEmpty]
  /\ pc = "user" /\ flushed = 0 /\ fault = "none"

-----------------------------------------------------------------------------
(* MRT_sv.prtylvl, set by MRT_pick_proc.                                   *)
Prtylvl == IF cur = NoProc THEN PRILOWEST ELSE prio[cur]

(* MRT_pick_proc.                                                          *)
MRT_pick_proc(q) == IF QIsEmpty(q) THEN NoProc ELSE QHighest(q)

(* An expired timer that the flush runs before a process continues.        *)
Due(p) == timer[p] = "expired" /\ tprty[p] <= Prtylvl

(* A process is running: no kernel call, no flush.                         *)
User == fault = "none" /\ pc = "user" /\ flushed = 0 /\ \A p \in Proc : ~Due(p)

Mutex(s) == "MUTEX" \in flags[s]

Locked(p, s) == \E i \in 1 .. Len(slockL[p]) : slockL[p][i] = s

(* The list of a process after the link of mutex s was taken out of it.    *)
Unlocked(p, s) ==
  LET i == CHOOSE i \in 1 .. Len(slockL[p]) : slockL[p][i] = s
  IN  SubSeq(slockL[p], 1, i - 1) \o SubSeq(slockL[p], i + 1, Len(slockL[p]))

(* Mutant: the flag SEM_PRTYORDER is not looked at.                        *)
WaitPrty_Fifo(s, p) == 0

(* MRT_sproc_app and MRT_sproc_rmv: the list a process waits in.           *)
WaitPrty(s, p) == IF "PRTYORDER" \in flags[s] THEN prio[p] ELSE 0

Queued(s, p) == QPositions(waitQ[s], WaitPrty(s, p), p) # {}

Waiters(s) == {p \in Proc : QHas(waitQ[s], p)}

Fault(f) ==
  /\ fault' = f
  /\ UNCHANGED <<prio, wait, locks, timers, rdyQ, value>>

(* MRT_vtimer_stop(rp->ipcvt).  A timer that has expired is not taken out  *)
(* of the expired queue; only its link is reset, which cuts a list it      *)
(* shares with another timer.                                              *)
MRT_vtimer_stop(p) ==
  /\ timer' = [timer EXCEPT ![p] = IF @ = "active" THEN "idle" ELSE @]
  /\ fault' = IF /\ timer[p] = "expired"
                 /\ \E q \in Proc \ {p} : timer[q] = "expired" /\ tprty[q] = tprty[p]
              THEN "link" ELSE fault

-----------------------------------------------------------------------------
(* MRT_is_rtready.                                                         *)
Ready(p) == ~down[p] /\ ~asleep[p]

(* MRT_inherit(prty, c): from the carrier along the processes that each    *)
(* wait for the next, as far as they are less urgent than prty.            *)
Blocker(p) == IF p # NoProc /\ down[p] THEN carrier[psem[p]] ELSE NoProc

(* Mutant: a carrier that is ready is not raised.                          *)
Raised_Blocked(prty, c) == {p \in Proc \cap {c} : prty < prio[p] /\ ~Ready(p)}

Raised(prty, c) ==
  LET chain[n \in 0 .. Cardinality(Proc)] ==
        IF n = 0 THEN c
        ELSE IF chain[n - 1] # NoProc /\ prty < prio[chain[n - 1]]
             THEN Blocker(chain[n - 1]) ELSE NoProc
  IN  {p \in Proc : prty < prio[p] /\ \E n \in DOMAIN chain : chain[n] = p}

(* Whoever is raised and ready moves to the front of its new ready list.   *)
MRT_inherit(prty, c, q) ==
  LET up == IF BPIP THEN Raised(prty, c) ELSE {}
  IN  /\ prio' = [p \in Proc |-> IF p \in up THEN prty ELSE prio[p]]
      /\ IF \E p \in up : Ready(p)
         THEN \E p \in up : Ready(p) /\ rdyQ' = QPrepend(QRemove(q, prio[p], p), prty, p)
         ELSE rdyQ' = q

(* Whether MRT_semup(s) with a process waiting gets past the tests before  *)
(* MRT_disinherit and the one at its start.                                *)
Disinherit(s) == BPIP /\ {"MUTEX", "PRTYINHERIT"} \subseteq flags[s]

(* MRT_disinherit: the highest priority waiting for a mutex of the process *)
(* that rp happens to denote.  The code means the caller's ("own"), whose  *)
(* mutexes but s are those left.                                           *)
SemPrty(s) ==
  IF Disinherit(s)
  THEN (IF "any" \in StaleRp THEN Prty ELSE {})
       \cup (IF "own" \in StaleRp
             THEN LET left == {t \in Sem \ {s} : Locked(cur, t) /\ ~QIsEmpty(waitQ[t])}
                      prties == {prio[QHighest(waitQ[t])] : t \in left} \cup {PRILOWEST}
                  IN  {CHOOSE r \in prties : \A r2 \in prties : r <= r2}
             ELSE {})
  ELSE {PRILOWEST}

(* The priority is changed unless the result is the base priority.         *)
Disinherits(sem_prty) == Min2(sem_prty, base[cur]) # base[cur]

MRT_disinherit(sem_prty, w) ==
  LET pr == Min2(sem_prty, base[cur])
      q  == IF Disinherits(sem_prty)
            THEN QPrepend(QRemove(rdyQ, prio[cur], cur), pr, cur) ELSE rdyQ
  IN  /\ prio' = IF Disinherits(sem_prty) THEN [prio EXCEPT ![cur] = pr] ELSE prio
      /\ rdyQ' = QAppend(q, prio[w], w)

-----------------------------------------------------------------------------
(* MRT_semup with a process waiting: the semaphore goes to the first one.  *)
Pass(s, w) ==
  /\ waitQ' = [waitQ EXCEPT ![s] = QRemove(@, WaitPrty(s, w), w)]
  /\ psem' = [psem EXCEPT ![w] = NoSem]
  /\ down' = [down EXCEPT ![w] = FALSE]
  /\ MRT_vtimer_stop(w)
  /\ IF Mutex(s)
     THEN /\ slockL' = [slockL EXCEPT ![cur] = Unlocked(cur, s), ![w] = Append(@, s)]
          /\ carrier' = [carrier EXCEPT ![s] = w]
          /\ holds' = [holds EXCEPT ![cur] = @ \ {s}, ![w] = @ \cup {s}]
     ELSE UNCHANGED locks
  /\ \E sem_prty \in SemPrty(s) : MRT_disinherit(sem_prty, w)
  /\ value' = [value EXCEPT ![s] = @ + 1]
  /\ UNCHANGED <<tprty, tsem>>

(* Before that the lists are looked at.  In MRT_set2nrt the message queue  *)
(* of the caller is gone before its mutexes are given back, and            *)
(* MRT_disinherit follows the null pointer.                                *)
HandOver(s, w) ==
  \/ ~Queued(s, w) /\ Fault("link")
  \/ Queued(s, w) /\ Mutex(s) /\ ~Locked(cur, s) /\ Fault("lock")
  \/ /\ Queued(s, w) /\ Locked(cur, s)
     /\ "fault" \in StaleRp /\ Disinherit(s)
     /\ Fault("wild")
  \/ Queued(s, w) /\ Locked(cur, s) /\ Disinherit(s) /\ pc # "user" /\ Fault("null")
  \/ /\ Queued(s, w) /\ (Mutex(s) => Locked(cur, s))
     /\ ~(Disinherit(s) /\ pc # "user")
     /\ Pass(s, w)

(* Mutant: the mutex stays in the list of its last carrier.                *)
Unlock_NoList(s) ==
  /\ carrier' = [carrier EXCEPT ![s] = NoProc]
  /\ holds' = [holds EXCEPT ![cur] = @ \ {s}]
  /\ value' = [value EXCEPT ![s] = @ + 1]
  /\ UNCHANGED <<slockL, prio, wait, timers, rdyQ, fault>>

(* MRT_semup of a mutex nobody waits for.                                  *)
Unlock(s) ==
  \/ ~Locked(cur, s) /\ Fault("lock")
  \/ /\ Locked(cur, s)
     /\ slockL' = [slockL EXCEPT ![cur] = Unlocked(cur, s)]
     /\ carrier' = [carrier EXCEPT ![s] = NoProc]
     /\ holds' = [holds EXCEPT ![cur] = @ \ {s}]
     /\ value' = [value EXCEPT ![s] = @ + 1]
     /\ UNCHANGED <<prio, wait, timers, rdyQ, fault>>

Raise(s) ==
  /\ value' = [value EXCEPT ![s] = @ + 1]
  /\ UNCHANGED <<prio, wait, locks, timers, rdyQ, fault>>

(* Mutant: nobody is woken up.                                             *)
MRT_semup_NoWake(s) ==
  \/ value[s] = 0 /\ Mutex(s) /\ Unlock(s)
  \/ ~(value[s] = 0 /\ Mutex(s)) /\ Raise(s)

MRT_semup(s) ==
  \/ value[s] < 0 /\ QIsEmpty(waitQ[s]) /\ Fault("panic_up")
  \/ value[s] < 0 /\ ~QIsEmpty(waitQ[s]) /\ HandOver(s, QHighest(waitQ[s]))
  \/ value[s] = 0 /\ Mutex(s) /\ Unlock(s)
  \/ value[s] >= 0 /\ ~(value[s] = 0 /\ Mutex(s)) /\ Raise(s)

(* rtk_semup by the running process.  Processes give back only mutexes     *)
(* they were granted.                                                      *)
rtk_semup(s) ==
  /\ User /\ cur # NoProc /\ owner[s] # NoProc
  /\ Mutex(s) => s \in holds[cur]
  /\ value[s] < MaxValue
  /\ MRT_semup(s)
  /\ cur' = MRT_pick_proc(rdyQ')
  /\ UNCHANGED <<procattr, semattr, control>>

-----------------------------------------------------------------------------
(* Mutant: the value is tested for being negative only.                    *)
Take_Zero(s) ==
  /\ value[s] >= 0
  /\ IF value[s] = 1 /\ Mutex(s)
     THEN /\ carrier' = [carrier EXCEPT ![s] = cur]
          /\ slockL' = [slockL EXCEPT ![cur] = Append(@, s)]
          /\ holds' = [holds EXCEPT ![cur] = @ \cup {s}]
     ELSE UNCHANGED locks
  /\ value' = [value EXCEPT ![s] = @ - 1]
  /\ UNCHANGED <<prio, wait, timers, rdyQ, fault>>

(* MRT_semdown of a semaphore with credits.                                *)
Take(s) ==
  /\ value[s] > 0
  /\ IF value[s] = 1 /\ Mutex(s)
     THEN /\ carrier' = [carrier EXCEPT ![s] = cur]
          /\ slockL' = [slockL EXCEPT ![cur] = Append(@, s)]
          /\ holds' = [holds EXCEPT ![cur] = @ \cup {s}]
     ELSE UNCHANGED locks
  /\ value' = [value EXCEPT ![s] = @ - 1]
  /\ UNCHANGED <<prio, wait, timers, rdyQ, fault>>

(* MRT_semdown of a semaphore without: the caller waits, with a timeout or *)
(* without.                                                                *)
Enqueue(s, t) ==
  /\ IF t = "TIMED"
     THEN /\ timer' = [timer EXCEPT ![cur] = "active"]
          /\ tprty' = [tprty EXCEPT ![cur] = prio[cur]]
          /\ tsem' = [tsem EXCEPT ![cur] = s]
     ELSE UNCHANGED timers
  /\ down' = [down EXCEPT ![cur] = TRUE]
  /\ psem' = [psem EXCEPT ![cur] = s]
  /\ waitQ' = [waitQ EXCEPT ![s] = QAppend(@, WaitPrty(s, cur), cur)]
  /\ LET q == QRemove(rdyQ, prio[cur], cur)
     IN  IF "PRTYINHERIT" \in flags[s]
         THEN MRT_inherit(prio[cur], carrier[s], q)
         ELSE rdyQ' = q /\ UNCHANGED prio
  /\ value' = [value EXCEPT ![s] = @ - 1]
  /\ UNCHANGED <<locks, fault>>

(* Starting a timer that is still in the expired queue links it twice;     *)
(* inheritance follows a null carrier.                                     *)
Block(s, t) ==
  /\ value[s] <= 0 /\ t # "NOWAIT"
  /\ \/ t = "TIMED" /\ timer[cur] = "expired" /\ Fault("link")
     \/ /\ "PRTYINHERIT" \in flags[s] /\ BPIP /\ carrier[s] = NoProc
        /\ Fault("null")
     \/ /\ ~(t = "TIMED" /\ timer[cur] = "expired")
        /\ ~("PRTYINHERIT" \in flags[s] /\ BPIP /\ carrier[s] = NoProc)
        /\ Enqueue(s, t)

(* The error returns: a free semaphore, or no credit and MRT_NOWAIT.       *)
Refused(s, t) ==
  /\ owner[s] = NoProc \/ (value[s] <= 0 /\ t = "NOWAIT")
  /\ UNCHANGED <<prio, wait, locks, timers, rdyQ, value, fault>>

MRT_semdown(s, t) ==
  \/ Refused(s, t)
  \/ owner[s] # NoProc /\ (Take(s) \/ Block(s, t))

(* rtk_semdown by the running process, and lock_pick_proc of rtk_call.     *)
(* Processes do not ask for a mutex they have.                             *)
rtk_semdown(s, t) ==
  /\ User /\ cur # NoProc
  /\ s \notin holds[cur]
  /\ value[s] > MinValue
  /\ MRT_semdown(s, t)
  /\ cur' = MRT_pick_proc(rdyQ')
  /\ UNCHANGED <<procattr, semattr, control>>
-----------------------------------------------------------------------------
(* rtk_sleep with MRT_FOREVER; see VTimer for what a timed sleep does.     *)
rtk_sleep ==
  /\ Sleeping /\ User /\ cur # NoProc
  /\ asleep' = [asleep EXCEPT ![cur] = TRUE]
  /\ rdyQ' = QRemove(rdyQ, prio[cur], cur)
  /\ cur' = MRT_pick_proc(rdyQ')
  /\ UNCHANGED <<rt, base, prio, wait, locks, timers, semattr, value, control, fault>>

(* Mutant: the flag MRT_P_SLEEP is not tested.                             *)
rtk_wakeup_NoTest(p) ==
  /\ User /\ cur # NoProc /\ rt[p]
  /\ MRT_vtimer_stop(p)
  /\ asleep' = [asleep EXCEPT ![p] = FALSE]
  /\ rdyQ' = QAppend(rdyQ, prio[p], p)
  /\ cur' = MRT_pick_proc(rdyQ')
  /\ UNCHANGED <<rt, base, prio, wait, locks, tprty, tsem, semattr, value, control>>

(* rtk_wakeup: MRT_wakeup stops the timer before it looks whether the      *)
(* process sleeps.                                                         *)
rtk_wakeup(p) ==
  /\ User /\ cur # NoProc /\ rt[p]
  /\ MRT_vtimer_stop(p)
  /\ asleep' = [asleep EXCEPT ![p] = FALSE]
  /\ rdyQ' = IF asleep[p] THEN QAppend(rdyQ, prio[p], p) ELSE rdyQ
  /\ cur' = MRT_pick_proc(rdyQ')
  /\ UNCHANGED <<rt, base, prio, wait, locks, tprty, tsem, semattr, value, control>>

-----------------------------------------------------------------------------
(* The clock: a timer is due, and MRT_clock_handler moves it to the        *)
(* expired queue.                                                          *)
Expire(p) ==
  /\ User /\ timer[p] = "active"
  /\ timer' = [timer EXCEPT ![p] = "expired"]
  /\ UNCHANGED <<procattr, prio, wait, locks, tprty, tsem, rdyQ, cur, semattr, value, control, fault>>

(* MRT_act_down, run by the flush: the list of the highest priority first, *)
(* and to its end.  value, psem and inherited priorities stay as they are. *)
MRT_act_down(p) ==
  /\ fault = "none" /\ pc = "user" /\ Due(p)
  /\ \/ flushed = tprty[p]
     \/ flushed = 0 /\ \A q \in Proc : Due(q) => tprty[p] <= tprty[q]
  /\ timer' = [timer EXCEPT ![p] = "idle"]
  /\ \/ /\ Queued(tsem[p], p)
        /\ waitQ' = [waitQ EXCEPT ![tsem[p]] = QRemove(@, WaitPrty(tsem[p], p), p)]
        /\ down' = [down EXCEPT ![p] = FALSE]
        /\ rdyQ' = QAppend(rdyQ, prio[p], p)
        /\ flushed' = tprty[p]
        /\ UNCHANGED fault
     \/ /\ ~Queued(tsem[p], p)
        /\ fault' = IF QIsEmpty(waitQ[tsem[p]]) THEN "panic_rmv" ELSE "link"
        /\ UNCHANGED <<waitQ, down, rdyQ, flushed>>
  /\ UNCHANGED <<procattr, prio, psem, locks, tprty, tsem, cur, semattr, value, pc>>

(* MRT_flush_int picks a process once the list is empty.                   *)
FlushSched ==
  /\ fault = "none" /\ flushed # 0
  /\ \A p \in Proc : timer[p] = "expired" => tprty[p] # flushed
  /\ flushed' = 0
  /\ cur' = MRT_pick_proc(rdyQ)
  /\ UNCHANGED <<procattr, prio, wait, locks, timers, rdyQ, semattr, value, pc, fault>>

-----------------------------------------------------------------------------
(* rtk_set2nrt by the running process: it leaves the ready queue and frees *)
(* its timer,                                                              *)
MRT_set2nrt ==
  /\ Leaving /\ User /\ cur # NoProc
  /\ rdyQ' = QRemove(rdyQ, prio[cur], cur)
  /\ timer' = [timer EXCEPT ![cur] = "idle"]
  /\ fault' = IF timer[cur] = "expired" THEN "link" ELSE fault
  /\ pc' = "unlock"
  /\ UNCHANGED <<procattr, prio, wait, locks, tprty, tsem, cur, semattr, value, flushed>>

(* gives back the mutexes it locked,                                       *)
MRT_sem_unlock ==
  /\ fault = "none" /\ pc = "unlock"
  /\ \/ /\ slockL[cur] # << >>
        /\ MRT_semup(Head(slockL[cur]))
        /\ UNCHANGED pc
     \/ /\ slockL[cur] = << >>
        /\ pc' = "empty"
        /\ UNCHANGED <<prio, wait, locks, timers, rdyQ, value, fault>>
  /\ UNCHANGED <<procattr, cur, semattr, flushed>>

(* wakes up whoever waits on its semaphores, in any order here, without    *)
(* changing their values,                                                  *)
MRT_sem_empty(s) ==
  /\ fault = "none" /\ pc = "empty"
  /\ owner[s] = cur /\ ~QIsEmpty(waitQ[s])
  /\ LET w == QHighest(waitQ[s])
     IN  \/ ~Queued(s, w) /\ Fault("link")
         \/ /\ Queued(s, w)
            /\ waitQ' = [waitQ EXCEPT ![s] = QRemove(@, WaitPrty(s, w), w)]
            /\ MRT_vtimer_stop(w)
            /\ psem' = [psem EXCEPT ![w] = NoSem]
            /\ down' = [down EXCEPT ![w] = FALSE]
            /\ rdyQ' = QAppend(rdyQ, prio[w], w)
            /\ UNCHANGED <<prio, locks, tprty, tsem, value>>
  /\ UNCHANGED <<procattr, cur, semattr, control>>

(* and is a MINIX process again.                                           *)
Left ==
  /\ fault = "none" /\ pc = "empty"
  /\ \A s \in Sem : owner[s] = cur => QIsEmpty(waitQ[s])
  /\ rt' = [rt EXCEPT ![cur] = FALSE]
  /\ cur' = MRT_pick_proc(rdyQ)
  /\ pc' = "user"
  /\ UNCHANGED <<base, asleep, prio, wait, locks, timers, rdyQ, semattr, value, flushed, fault>>

-----------------------------------------------------------------------------
(* MINIX processes run when no real-time process is ready.                 *)
Minix(p) == User /\ cur = NoProc /\ ~rt[p]

MRT_setpattr(p, b) ==
  /\ Minix(p)
  /\ base' = [base EXCEPT ![p] = b]
  /\ prio' = [prio EXCEPT ![p] = b]
  /\ UNCHANGED <<rt, asleep, wait, locks, timers, rdyQ, cur, semattr, value, control, fault>>

(* With a timer and a message queue free for it.                           *)
rtk_set2rt(p) ==
  /\ Minix(p)
  /\ rt' = [rt EXCEPT ![p] = TRUE]
  /\ rdyQ' = QAppend(rdyQ, prio[p], p)
  /\ cur' = MRT_pick_proc(rdyQ')
  /\ UNCHANGED <<base, asleep, prio, wait, locks, timers, semattr, value, control, fault>>

(* The checks of MRT_semalloc: for PRTYINHERIT one of two flags will do.   *)
Acceptable(a) ==
  /\ "MUTEX" \in a.flags => a.value <= 1
  /\ "PRTYINHERIT" \in a.flags => a.flags \cap {"MUTEX", "PRTYORDER"} # {}

MRT_semalloc(p, s, a) ==
  /\ Minix(p) /\ owner[s] = NoProc /\ Acceptable(a)
  /\ owner' = [owner EXCEPT ![s] = p]
  /\ flags' = [flags EXCEPT ![s] = a.flags]
  /\ value' = [value EXCEPT ![s] = a.value]
  /\ UNCHANGED <<procattr, prio, wait, locks, timers, rdyQ, cur, control, fault>>

(* Only a semaphore nobody waits for or holds is given back.               *)
MRT_semfree(p, s) ==
  /\ Minix(p) /\ owner[s] = p
  /\ Waiters(s) = {} /\ \A q \in Proc : s \notin holds[q]
  /\ owner' = [owner EXCEPT ![s] = NoProc]
  /\ flags' = [flags EXCEPT ![s] = {}]
  /\ value' = [value EXCEPT ![s] = 0]
  /\ carrier' = [carrier EXCEPT ![s] = NoProc]
  /\ UNCHANGED <<procattr, prio, wait, slockL, holds, timers, rdyQ, cur, control, fault>>

-----------------------------------------------------------------------------
(* After a fault nothing is specified; the model stops there.              *)
Halted == fault # "none" /\ UNCHANGED vars

Next ==
  \/ \E s \in Sem : \/ rtk_semup(s) \/ MRT_sem_empty(s)
                    \/ \E t \in Timeouts : rtk_semdown(s, t)
  \/ \E p \in Proc : \/ Expire(p) \/ MRT_act_down(p) \/ rtk_set2rt(p) \/ rtk_wakeup(p)
                     \/ \E b \in BasePrty : MRT_setpattr(p, b)
                     \/ \E s \in Sem : \/ MRT_semfree(p, s)
                                       \/ \E a \in SemAttrs : MRT_semalloc(p, s, a)
  \/ rtk_sleep \/ FlushSched \/ MRT_set2nrt \/ MRT_sem_unlock \/ Left
  \/ Halted

Spec == Init /\ [][Next]_vars

-----------------------------------------------------------------------------
(* Type invariant.  The value of a mutex never goes above 1, which takes   *)
(* the check of MRT_semalloc and the bookkeeping of MRT_semup.             *)
TypeOK ==
  /\ rt \in [Proc -> BOOLEAN] /\ prio \in [Proc -> Prty] /\ base \in [Proc -> Prty]
  /\ down \in [Proc -> BOOLEAN] /\ asleep \in [Proc -> BOOLEAN] /\ psem \in [Proc -> Sem \cup {NoSem}]
  /\ slockL \in [Proc -> Seq(Sem)] /\ holds \in [Proc -> SUBSET Sem]
  /\ timer \in [Proc -> {"idle", "active", "expired"}]
  /\ tprty \in [Proc -> Prty] /\ tsem \in [Proc -> Sem \cup {NoSem}]
  /\ rdyQ \in [Prty -> Seq(Proc)] /\ cur \in Proc \cup {NoProc}
  /\ owner \in [Sem -> Proc \cup {NoProc}] /\ value \in [Sem -> Int]
  /\ \A s \in Sem : Mutex(s) => value[s] <= 1
  /\ flags \in [Sem -> SUBSET {"PRTYORDER", "PRTYINHERIT", "MUTEX"}]
  /\ carrier \in [Sem -> Proc \cup {NoProc}]
  /\ waitQ \in [Sem -> [Prty -> Seq(Proc)]]
  /\ pc \in {"user", "unlock", "empty"} /\ flushed \in Prty
  /\ fault \in {"none", "link", "lock", "null", "wild", "panic_up", "panic_rmv"}

(* A negative value counts the waiting processes, so that MRT_semup always *)
(* finds the process its test of the value promises.                       *)
WaitersCounted ==
  \A s \in Sem : Cardinality(Waiters(s)) = IF value[s] < 0 THEN -value[s] ELSE 0

(* Even after timeouts, and after the owner of a semaphore has left, there *)
(* are never more processes waiting than the value says: nobody waits on a *)
(* semaphore whose value lets others pass.                                 *)
NobodyOvertaken ==
  \A s \in Sem : Waiters(s) # {} => value[s] <= -Cardinality(Waiters(s))

(* Where a process is queued, and where its state says it is: in the ready *)
(* queue, or in the queue of the semaphore it waits for.                   *)
Places(p) ==
  {x \in (Sem \cup {NoSem}) \X Prty \X (1 .. Cardinality(Proc)) :
     x[3] \in QPositions(IF x[1] = NoSem THEN rdyQ ELSE waitQ[x[1]], x[2], p)}

Home(p) == IF down[p] THEN <<psem[p], WaitPrty(psem[p], p)>> ELSE <<NoSem, prio[p]>>

(* Every ready process is in the ready queue and every waiting one in the  *)
(* queue of its semaphore, once, in the list where MRT_rdyQ_rmv and        *)
(* MRT_sproc_rmv look for it, and nowhere else: the one link a process has *)
(* is never in two lists.                                                  *)
OneQueue ==
  fault = "none" =>
    \A p \in Proc :
      IF rt[p] /\ ~asleep[p] /\ ~(pc # "user" /\ p = cur)
      THEN \E i \in 1 .. Cardinality(Proc) : Places(p) = {Home(p) \o <<i>>}
      ELSE Places(p) = {}

(* Whenever a process runs, it is the one that has been ready for longest  *)
(* of the highest priority that is ready; a MINIX process runs only if no  *)
(* real-time process is.                                                   *)
HighestRuns == User => cur = IF QIsEmpty(rdyQ) THEN NoProc ELSE QHighest(rdyQ)

(* Every process is in the one queue its state calls for and the most      *)
(* urgent ready one runs, through waits, wakeups, timeouts and processes   *)
(* that leave (MRT_rdyQ_app, MRT_sproc_app, MRT_sched).                    *)
Scheduled == TypeOK /\ OneQueue /\ HighestRuns

(* A mutex was granted to one process at most, and the kernel's records    *)
(* say to which: the carrier is the process that was granted the mutex,    *)
(* and the mutex is in the list of that process and of no other.           *)
GrantedToCarrier ==
  fault = "none" =>
    \A s \in Sem, p \in Proc :
      Mutex(s) => /\ s \in holds[p] <=> carrier[s] = p
                  /\ Locked(p, s) <=> carrier[s] = p
                  /\ carrier[s] = p => value[s] <= 0

(* The assertion of MRT_semup: the value is negative only if some process  *)
(* waits ("MRT_semup: value<0 but any process waiting on semaphore").      *)
UpFindsWaiter == fault # "panic_up"

(* Nothing goes wrong: no panic, no list is corrupted, no null or          *)
(* uninitialised pointer is followed.                                      *)
NoFault == fault = "none"

(* MRT_semup hands the semaphore over from s to w.                         *)
Granted(s, w) == down[w] /\ psem[w] = s /\ ~down'[w] /\ value'[s] > value[s]

(* With SEM_PRTYORDER the process that gets the semaphore is as urgent as  *)
(* any that waits for it (MRT_sproc_pick: "Pick the highest priority       *)
(* waiting process from the semaphore waiting queue").                     *)
MostUrgentFirst ==
  [][\A s \in Sem, w \in Proc :
       Granted(s, w) /\ "PRTYORDER" \in flags[s]
         => \A q \in Waiters(s) : prio[w] <= prio[q]]_vars

(* With priority inheritance the process that has the mutex is as urgent   *)
(* as any that waits for it: MRT_inherit raises the carrier, and MRT_semup *)
(* chooses the next one so that no other waiting process outranks it.      *)
CarrierOutranksWaiters ==
  fault = "none" /\ BPIP =>
    \A s \in Sem : {"MUTEX", "PRTYORDER", "PRTYINHERIT"} \subseteq flags[s]
      => \A q \in Waiters(s) : prio[carrier[s]] <= prio[q]

(* Whatever MRT_disinherit reads, inheritance leaves no process less       *)
(* urgent than it asked to be.                                             *)
NeverBelowBase == \A p \in Proc : prio[p] <= base[p]

=============================================================================
