---------------------------- MODULE RTSemProofs ----------------------------
(***************************************************************************)
(* The theorems about the real-time semaphores: mutexes, overtaking, base  *)
(* priorities and the refinement of the abstract semaphores, and what      *)
(* holds besides without inheritance, timeouts or processes that leave.    *)
(***************************************************************************)
EXTENDS RTSemSteps

-----------------------------------------------------------------------------
(* Without inheritance a priority changes only outside real-time mode, so  *)
(* that a process waits in the list where MRT_sproc_rmv looks for it.      *)
WaitPlace(s) == [p \in Proc |-> WaitPrty(s, p)]

PlainWait == \A s \in Sem : Fits(waitQ[s], Blocked(s), WaitPlace(s))

PlainPrty == \A p \in Proc : prio[p] # 0 /\ tprty[p] # 0

PlainRun == fault = "none" /\ pc = "user" /\ flushed = 0 => cur = MRT_pick_proc(rdyQ)

PlainInv == PlainWait /\ PlainPrty /\ PlainRun

LEMMA WaitPlaceType ==
  ASSUME TypeOK, NEW s
  PROVE  WaitPlace(s) \in [Proc -> Prty] /\ \A p \in Proc : WaitPlace(s)[p] = WaitPrty(s, p)
BY Zenon, WaitPrtyType DEF WaitPlace

LEMMA PlainWaitSame ==
  ASSUME PlainWait, UNCHANGED waitQ,
         \A s \in Sem : Blocked(s)' = Blocked(s) /\ (Blocked(s) = {} \/ flags'[s] = flags[s]),
         \A s \in Sem : \A p \in Blocked(s) : prio'[p] = prio[p]
  PROVE  PlainWait'
<1> SUFFICES ASSUME NEW s \in Sem PROVE Fits(waitQ'[s], Blocked(s)', WaitPlace(s)')
  BY Zenon DEF PlainWait
<1>1. Fits(waitQ[s], Blocked(s), WaitPlace(s))
  BY Zenon DEF PlainWait
<1>2. \A p \in Blocked(s) : WaitPlace(s)'[p] = WaitPlace(s)[p]
  BY Zenon DEF WaitPlace, WaitPrty, Blocked
<1>3. Fits(waitQ[s], Blocked(s), WaitPlace(s)')
  BY Zenon, <1>1, <1>2, FitsOther
<1>4. QED
  BY Zenon, <1>3

LEMMA PlainWaitWake ==
  ASSUME TypeOK, PlainWait, NEW s \in Sem, NEW w \in Proc, w \in Blocked(s),
         waitQ' = [waitQ EXCEPT ![s] = QRemove(waitQ[s], WaitPrty(s, w), w)],
         Blocked(s)' = Blocked(s) \ {w}, \A t \in Sem : t # s => Blocked(t)' = Blocked(t),
         UNCHANGED <<prio, flags>>
  PROVE  PlainWait'
<1>1. waitQ'[s] = QRemove(waitQ[s], WaitPrty(s, w), w) /\ \A t \in Sem : t # s => waitQ'[t] = waitQ[t]
  BY Zenon DEF TypeOK
<1>2. \A t \in Sem : WaitPlace(t)' = WaitPlace(t)
  BY Zenon DEF WaitPlace, WaitPrty
<1>3. Fits(QRemove(waitQ[s], WaitPlace(s)[w], w), Blocked(s) \ {w}, WaitPlace(s))
  <2>1. Blocked(s) \in SUBSET Proc /\ WaitPlace(s) \in [Proc -> Prty]
    BY Zenon, WaitPlaceType DEF Blocked
  <2>2. QED
    BY Zenon, <2>1, FitsRemove DEF PlainWait
<1>4. Fits(waitQ'[s], Blocked(s)', WaitPlace(s)')
  BY Zenon, <1>1, <1>2, <1>3, WaitPlaceType
<1>5. \A t \in Sem : t # s => Fits(waitQ'[t], Blocked(t)', WaitPlace(t)')
  BY Zenon, <1>1, <1>2 DEF PlainWait
<1>6. QED
  BY Zenon, <1>4, <1>5 DEF PlainWait

LEMMA PlainWaitEnqueue ==
  ASSUME TypeOK, PlainWait, NEW s \in Sem, NEW c \in Proc, c \notin Blocked(s),
         waitQ' = [waitQ EXCEPT ![s] = QAppend(waitQ[s], WaitPrty(s, c), c)],
         Blocked(s)' = Blocked(s) \cup {c}, \A t \in Sem : t # s => Blocked(t)' = Blocked(t),
         UNCHANGED <<prio, flags>>
  PROVE  PlainWait'
<1>1. waitQ'[s] = QAppend(waitQ[s], WaitPrty(s, c), c) /\ \A t \in Sem : t # s => waitQ'[t] = waitQ[t]
  BY Zenon DEF TypeOK
<1>2. \A t \in Sem : WaitPlace(t)' = WaitPlace(t)
  BY Zenon DEF WaitPlace, WaitPrty
<1>3. Fits(QAppend(waitQ[s], WaitPlace(s)[c], c), Blocked(s) \cup {c}, WaitPlace(s))
  <2>1. Blocked(s) \in SUBSET Proc /\ WaitPlace(s) \in [Proc -> Prty]
    BY Zenon, WaitPlaceType DEF Blocked
  <2>2. QED
    BY Zenon, <2>1, FitsAppend DEF PlainWait
<1>4. Fits(waitQ'[s], Blocked(s)', WaitPlace(s)')
  BY Zenon, <1>1, <1>2, <1>3, WaitPlaceType
<1>5. \A t \in Sem : t # s => Fits(waitQ'[t], Blocked(t)', WaitPlace(t)')
  BY Zenon, <1>1, <1>2 DEF PlainWait
<1>6. QED
  BY Zenon, <1>4, <1>5 DEF PlainWait

(* Who is first in the queue of a semaphore is where it is looked for, and *)
(* nobody there is in a higher list.                                       *)
LEMMA PlainFirst ==
  ASSUME Basics, TypeOK, PlainWait, NEW s \in Sem, ~QIsEmpty(waitQ[s])
  PROVE  /\ QHighest(waitQ[s]) \in Blocked(s) /\ Queued(s, QHighest(waitQ[s]))
         /\ \A q \in Blocked(s) : WaitPrty(s, QHighest(waitQ[s])) <= WaitPrty(s, q)
<1> DEFINE w == QHighest(waitQ[s])
           t == QTop(waitQ[s])
<1>1. Fits(waitQ[s], Blocked(s), WaitPlace(s)) /\ waitQ[s] \in Queues(Proc)
  BY Zenon DEF PlainWait, Fits
<1>2. t \in Prty /\ w \in QMembers(waitQ[s], t) /\ w \in Proc
  BY <1>1, QHighestFacts DEF Basics
<1>3. \A r \in Prty : QMembers(waitQ[s], r) # {} => t <= r
  BY <1>1, QHighestFacts DEF Basics
<1> HIDE DEF w, t
<1>4. w \in Blocked(s) /\ t = WaitPrty(s, w)
  BY Zenon, <1>1, <1>2, WaitPlaceType DEF Fits
<1>5. \A q \in Blocked(s) : WaitPrty(s, q) \in Prty /\ q \in QMembers(waitQ[s], WaitPrty(s, q))
  BY <1>1, WaitPlaceType DEF Fits, Blocked
<1>6. Queued(s, w)
  BY Zenon, <1>2, <1>4, QMembership DEF Queued
<1>7. \A q \in Blocked(s) : WaitPrty(s, w) <= WaitPrty(s, q)
  BY Zenon, <1>3, <1>4, <1>5
<1>8. QED
  BY Zenon, <1>4, <1>6, <1>7 DEF w

LEMMA PassPlain ==
  ASSUME Basics, IInv, ~BPIP, NEW s \in Sem, cur \in Proc, NEW w, Pass(s, w)
  PROVE  prio' = prio
<1>1. PICK r \in SemPrty(s) : MRT_disinherit(r, w)
  BY Zenon DEF Pass
<1>2. r = PRILOWEST
  BY Zenon, SemPrtyType DEF Disinherit
<1>3. base[cur] \in Prty
  BY Zenon DEF IInv, TypeOK
<1>4. r \in Nat /\ base[cur] \in Nat /\ base[cur] <= r
  BY Zenon, <1>2, <1>3, Consts
<1>5. ~Disinherits(r)
  BY <1>4 DEF Disinherits, Min2
<1>6. QED
  BY Zenon, <1>1, <1>5 DEF MRT_disinherit

LEMMA SemupPlain ==
  ASSUME Basics, IInv, ~BPIP, PlainWait, NEW s \in Sem, cur \in Proc, MRT_semup(s), UNCHANGED <<owner, flags>>
  PROVE  PlainWait' /\ prio' = prio /\ tprty' = tprty
<1>1. CASE UNCHANGED <<prio, wait, timers>>
  <2>1. UNCHANGED waitQ /\ tprty' = tprty /\ \A t \in Sem : Blocked(t)' = Blocked(t)
    BY Zenon, <1>1 DEF wait, timers, Blocked
  <2>2. QED
    BY Zenon, <1>1, <2>1, PlainWaitSame
<1>2. CASE ~QIsEmpty(waitQ[s]) /\ Pass(s, QHighest(waitQ[s]))
  <2>1. PICK w \in Proc : w = QHighest(waitQ[s]) /\ w \in Blocked(s) /\ Queued(s, w)
    BY Zenon, <1>2, PlainFirst DEF IInv, Blocked
  <2>2. Pass(s, w)
    BY Zenon, <1>2, <2>1
  <2>3. waitQ \in [Sem -> Queues(Proc)] /\ value \in [Sem -> Int]
    BY Zenon DEF IInv, TypeOK, Queues
  <2>4. waitQ' = [waitQ EXCEPT ![s] = QRemove(@, WaitPrty(s, w), w)] /\ value' = [value EXCEPT ![s] = @ + 1]
    BY Zenon, <2>2 DEF Pass
  <2>5. /\ waitQ' = [waitQ EXCEPT ![s] = QRemove(waitQ[s], WaitPrty(s, w), w)]
        /\ value' = [value EXCEPT ![s] = value[s] + 1]
    BY Zenon, <2>3, <2>4
  <2>6. /\ psem' = [psem EXCEPT ![w] = NoSem] /\ down' = [down EXCEPT ![w] = FALSE]
        /\ tprty' = tprty
    BY Zenon, <2>2 DEF Pass
  <2>7. Blocked(s)' = Blocked(s) \ {w} /\ \A t \in Sem : t # s => Blocked(t)' = Blocked(t)
    BY Zenon, <2>1, <2>5, <2>6, WakeWait
  <2>8. prio' = prio
    BY Zenon, <2>2, PassPlain
  <2>9. QED
    BY Zenon, <2>1, <2>5, <2>6, <2>7, <2>8, PlainWaitWake DEF IInv
<1>3. QED
  BY Zenon, <1>1, <1>2 DEF MRT_semup, HandOver, Unlock, Raise, Fault

LEMMA SemdownPlain ==
  ASSUME Basics, IInv, ~BPIP, PlainWait, PlainPrty, NEW s \in Sem, NEW t, cur \in Proc, ~down[cur],
         MRT_semdown(s, t), UNCHANGED <<owner, flags>>
  PROVE  PlainWait' /\ PlainPrty' /\ prio' = prio
<1>1. CASE UNCHANGED <<prio, wait, timers>>
  <2>1. UNCHANGED waitQ /\ tprty' = tprty /\ \A x \in Sem : Blocked(x)' = Blocked(x)
    BY Zenon, <1>1 DEF wait, timers, Blocked
  <2>2. PlainWait'
    BY Zenon, <1>1, <2>1, PlainWaitSame
  <2>3. QED
    BY Zenon, <1>1, <2>1, <2>2 DEF PlainPrty
<1>2. CASE owner[s] # NoProc /\ value[s] <= 0 /\ Enqueue(s, t)
  <2>1. waitQ \in [Sem -> Queues(Proc)] /\ value \in [Sem -> Int] /\ tprty \in [Proc -> Prty] /\ prio \in [Proc -> Prty]
    BY Zenon DEF IInv, TypeOK, Queues
  <2>2. /\ waitQ' = [waitQ EXCEPT ![s] = QAppend(waitQ[s], WaitPrty(s, cur), cur)]
        /\ down' = [down EXCEPT ![cur] = TRUE]
        /\ psem' = [psem EXCEPT ![cur] = s]
        /\ value' = [value EXCEPT ![s] = value[s] - 1]
    BY Zenon, <1>2, <2>1 DEF Enqueue
  <2>3. Blocked(s)' = Blocked(s) \cup {cur} /\ \A x \in Sem : x # s => Blocked(x)' = Blocked(x)
    BY Zenon, <1>2, <2>2, EnqueueWait
  <2>4. prio' = prio
    <3>1. CASE "PRTYINHERIT" \in flags[s]
      <4>1. prio' = [p \in Proc |-> prio[p]]
        BY Zenon, <1>2, <3>1 DEF Enqueue, MRT_inherit
      <4>2. QED
        BY Zenon, <2>1, <4>1
    <3>2. CASE "PRTYINHERIT" \notin flags[s]
      BY Zenon, <1>2, <3>2 DEF Enqueue
    <3>3. QED
      BY Zenon, <3>1, <3>2
  <2>5. cur \notin Blocked(s)
    BY Zenon DEF Blocked
  <2>6. PICK c \in Proc : c = cur
    BY Zenon
  <2>7. PlainWait'
    BY Zenon, <2>2, <2>3, <2>4, <2>5, <2>6, PlainWaitEnqueue DEF IInv
  <2>8. tprty' = tprty \/ tprty' = [tprty EXCEPT ![cur] = prio[cur]]
    BY Zenon, <1>2 DEF Enqueue, timers
  <2>9. PlainPrty'
    BY Zenon, <2>1, <2>4, <2>8 DEF PlainPrty
  <2>10. QED
    BY Zenon, <2>4, <2>7, <2>9
<1>3. QED
  BY Zenon, <1>1, <1>2 DEF MRT_semdown, Refused, Take, Block, Fault

LEMMA PlainStep ==
  ASSUME Basics, ~BPIP, IInv, PlainInv, [Next]_vars
  PROVE  PlainInv'
<1>1. PlainWait /\ PlainPrty /\ PlainRun /\ TypeOK
  BY Zenon DEF PlainInv, IInv
<1>2. ASSUME UNCHANGED <<waitQ, down, psem, flags, prio>> PROVE PlainWait'
  <2>1. \A s \in Sem : Blocked(s)' = Blocked(s)
    BY Zenon, <1>2 DEF Blocked
  <2>2. QED
    BY Zenon, <1>1, <1>2, <2>1, PlainWaitSame
<1>3. ASSUME UNCHANGED <<prio, tprty>> PROVE PlainPrty'
  BY Zenon, <1>1, <1>3 DEF PlainPrty
<1>4. ASSUME cur' = MRT_pick_proc(rdyQ') PROVE PlainRun'
  BY Zenon, <1>4 DEF PlainRun, MRT_pick_proc
<1>5. ASSUME UNCHANGED <<fault, pc, flushed, cur, rdyQ>> PROVE PlainRun'
  BY Zenon, <1>1, <1>5 DEF PlainRun, MRT_pick_proc
<1>6. ASSUME pc' # "user" PROVE PlainRun'
  BY Zenon, <1>6 DEF PlainRun
<1>7. ASSUME NEW s \in Sem, rtk_semup(s) PROVE PlainInv'
  <2>1. /\ User /\ cur # NoProc /\ MRT_semup(s) /\ cur' = MRT_pick_proc(rdyQ')
        /\ UNCHANGED <<owner, flags>>
    BY Zenon, <1>7 DEF rtk_semup, semattr
  <2>2. cur \in Proc
    BY Zenon, <2>1, RunningFacts
  <2>3. PlainWait' /\ prio' = prio /\ tprty' = tprty
    BY Zenon, <1>1, <2>1, <2>2, SemupPlain
  <2>4. QED
    BY Zenon, <1>3, <1>4, <2>1, <2>3 DEF PlainInv
<1>8. ASSUME NEW s \in Sem, NEW t \in Timeouts, rtk_semdown(s, t) PROVE PlainInv'
  <2>1. /\ User /\ cur # NoProc /\ MRT_semdown(s, t) /\ cur' = MRT_pick_proc(rdyQ')
        /\ UNCHANGED <<owner, flags>>
    BY Zenon, <1>8 DEF rtk_semdown, semattr
  <2>2. cur \in Proc /\ ~down[cur]
    BY Zenon, <2>1, RunningFacts DEF Runnable
  <2>3. PlainWait' /\ PlainPrty'
    BY Zenon, <1>1, <2>1, <2>2, SemdownPlain
  <2>4. QED
    BY Zenon, <1>4, <2>1, <2>3 DEF PlainInv
<1>9. ASSUME MRT_sem_unlock PROVE PlainInv'
  <2>1. pc = "unlock" /\ pc' # "user" /\ UNCHANGED <<owner, flags>>
    BY Zenon, <1>9 DEF MRT_sem_unlock, semattr
  <2>2. cur \in Proc
    BY Zenon, <2>1 DEF IInv, ProcInv, TypeOK
  <2>3. CASE slockL[cur] # << >> /\ MRT_semup(Head(slockL[cur]))
    <3>1. PICK s \in Sem : s = Head(slockL[cur])
      <4>1. slockL[cur] \in Seq(Sem)
        BY Zenon, <1>1, <2>2 DEF TypeOK
      <4>2. Members(slockL[cur]) \subseteq Sem
        BY <4>1 DEF Members
      <4>3. QED
        BY Zenon, <2>3, <4>1, <4>2, HeadMember
    <3>2. PlainWait' /\ prio' = prio /\ tprty' = tprty
      BY Zenon, <1>1, <2>1, <2>2, <2>3, <3>1, SemupPlain
    <3>3. QED
      BY Zenon, <1>3, <1>6, <2>1, <3>2 DEF PlainInv
  <2>4. CASE UNCHANGED <<prio, wait, timers>>
    BY Zenon, <1>2, <1>3, <1>6, <2>1, <2>4 DEF PlainInv, wait, timers
  <2>5. QED
    BY Zenon, <1>9, <2>3, <2>4 DEF MRT_sem_unlock
<1>10. ASSUME NEW s \in Sem, MRT_sem_empty(s) PROVE PlainInv'
  <2>1. pc = "empty" /\ pc' = pc /\ ~QIsEmpty(waitQ[s]) /\ UNCHANGED <<owner, flags>>
    BY Zenon, <1>10 DEF MRT_sem_empty, semattr, control
  <2>2. CASE Fault("link")
    BY Zenon, <1>2, <1>3, <1>6, <2>1, <2>2 DEF PlainInv, Fault, wait, timers
  <2>3. PICK w \in Proc : w = QHighest(waitQ[s]) /\ w \in Blocked(s) /\ Queued(s, w)
    BY Zenon, <1>1, <2>1, PlainFirst DEF Blocked
  <2>4. CASE /\ waitQ' = [waitQ EXCEPT ![s] = QRemove(@, WaitPrty(s, w), w)]
             /\ psem' = [psem EXCEPT ![w] = NoSem]
             /\ down' = [down EXCEPT ![w] = FALSE]
             /\ UNCHANGED <<prio, tprty, value>>
    <3>1. waitQ' = [waitQ EXCEPT ![s] = QRemove(waitQ[s], WaitPrty(s, w), w)]
      BY Zenon, <1>1, <2>4 DEF TypeOK
    <3>2. Blocked(s)' = Blocked(s) \ {w} /\ \A t \in Sem : t # s => Blocked(t)' = Blocked(t)
      BY Zenon, <2>1, <2>3, <2>4, <3>1, WakeWait
    <3>3. PlainWait'
      BY Zenon, <1>1, <2>1, <2>3, <2>4, <3>1, <3>2, PlainWaitWake
    <3>4. QED
      BY Zenon, <1>3, <1>6, <2>1, <2>4, <3>3 DEF PlainInv
  <2>5. QED
    BY Zenon, <1>10, <2>2, <2>3, <2>4 DEF MRT_sem_empty
<1>11. ASSUME NEW p \in Proc, MRT_act_down(p) PROVE PlainInv'
  <2>1. /\ UNCHANGED <<prio, psem, tprty, owner, flags, value, cur>> /\ timer[p] = "expired"
    BY Zenon, <1>11 DEF MRT_act_down, semattr, Due
  <2>2. PICK s \in Sem : s = tsem[p]
    BY Zenon, <2>1 DEF IInv, ProcInv
  <2>3. CASE /\ Queued(s, p)
             /\ waitQ' = [waitQ EXCEPT ![s] = QRemove(@, WaitPrty(s, p), p)]
             /\ down' = [down EXCEPT ![p] = FALSE]
             /\ flushed' = tprty[p]
    <3>1. waitQ' = [waitQ EXCEPT ![s] = QRemove(waitQ[s], WaitPrty(s, p), p)]
      BY Zenon, <1>1, <2>3 DEF TypeOK
    <3>2. p \in Blocked(s) /\ Blocked(s)' = Blocked(s) \ {p} /\ \A t \in Sem : t # s => Blocked(t)' = Blocked(t)
      BY Zenon, <2>1, <2>3, <3>1, WakeWait
    <3>3. PlainWait'
      BY Zenon, <1>1, <2>1, <3>1, <3>2, PlainWaitWake
    <3>4. PlainRun'
      BY Zenon, <1>1, <2>3 DEF PlainRun, PlainPrty
    <3>5. QED
      BY Zenon, <1>3, <2>1, <3>3, <3>4 DEF PlainInv
  <2>4. CASE UNCHANGED <<waitQ, down>> /\ fault' \in {"panic_rmv", "link"}
    <3>1. PlainRun'
      BY Zenon, <2>4 DEF PlainRun
    <3>2. QED
      BY Zenon, <1>2, <1>3, <2>1, <2>4, <3>1 DEF PlainInv
  <2>5. QED
    BY Zenon, <1>11, <2>2, <2>3, <2>4 DEF MRT_act_down
<1>12. ASSUME NEW p \in Proc, NEW b \in BasePrty, MRT_setpattr(p, b) PROVE PlainInv'
  <2>1. /\ ~rt[p] /\ prio' = [prio EXCEPT ![p] = b] /\ UNCHANGED <<down, psem, waitQ, tprty, flags>>
        /\ UNCHANGED <<fault, pc, flushed, cur, rdyQ>>
    BY Zenon, <1>12 DEF MRT_setpattr, Minix, wait, timers, semattr, control
  <2>2. b # 0
    BY Zenon, SemAssumption
  <2>3. \A x \in Proc : x # p => prio'[x] = prio[x]
    BY Zenon, <1>1, <2>1 DEF TypeOK
  <2>4. \A s \in Sem : Blocked(s)' = Blocked(s) /\ p \notin Blocked(s) /\ Blocked(s) \subseteq Proc
    BY Zenon, <2>1 DEF Blocked, IInv, ProcInv
  <2>5. PlainWait'
    BY Zenon, <1>1, <2>1, <2>3, <2>4, PlainWaitSame
  <2>6. PlainPrty'
    BY Zenon, <1>1, <2>1, <2>2 DEF PlainPrty, TypeOK
  <2>7. QED
    BY Zenon, <1>5, <2>1, <2>5, <2>6 DEF PlainInv
<1>13. ASSUME NEW p \in Proc, NEW s \in Sem,
              MRT_semfree(p, s) \/ \E a \in SemAttrs : MRT_semalloc(p, s, a)
       PROVE  PlainInv'
  <2>1. /\ owner[s] = NoProc \/ Waiters(s) = {}
        /\ UNCHANGED <<down, psem, waitQ, tprty, prio, fault, pc, flushed, cur, rdyQ>>
        /\ \E f : flags' = [flags EXCEPT ![s] = f]
    BY Zenon, <1>13 DEF MRT_semfree, MRT_semalloc, wait, timers, control
  <2>2. Blocked(s) = {}
    BY Zenon, <2>1, WaitersBlocked DEF IInv, WaitInv
  <2>3. \A t \in Sem : Blocked(t)' = Blocked(t) /\ (Blocked(t) = {} \/ flags'[t] = flags[t])
    BY <1>1, <2>1, <2>2 DEF Blocked, TypeOK
  <2>4. PlainWait'
    BY Zenon, <1>1, <2>1, <2>3, PlainWaitSame
  <2>5. QED
    BY Zenon, <1>3, <1>5, <2>1, <2>4 DEF PlainInv
<1>14. ASSUME NEW p \in Proc, rtk_set2rt(p) \/ rtk_wakeup(p) PROVE PlainInv'
  BY Zenon, <1>2, <1>3, <1>4, <1>14 DEF PlainInv, rtk_set2rt, rtk_wakeup, wait, timers, semattr
<1>15. ASSUME NEW p \in Proc, Expire(p) PROVE PlainInv'
  BY Zenon, <1>2, <1>3, <1>5, <1>15 DEF PlainInv, Expire, wait, semattr, control
<1>16. CASE rtk_sleep
  BY Zenon, <1>2, <1>3, <1>4, <1>16 DEF PlainInv, rtk_sleep, wait, timers, semattr
<1>17. CASE FlushSched \/ Left
  BY Zenon, <1>2, <1>3, <1>4, <1>17 DEF PlainInv, FlushSched, Left, wait, timers, semattr
<1>18. CASE MRT_set2nrt
  BY Zenon, <1>2, <1>3, <1>6, <1>18 DEF PlainInv, MRT_set2nrt, wait, semattr
<1>19. CASE Halted \/ UNCHANGED vars
  BY Zenon, <1>2, <1>3, <1>5, <1>19 DEF PlainInv, Halted, vars, wait, timers, semattr, control
<1>20. QED
  BY Zenon, <1>7, <1>8, <1>9, <1>10, <1>11, <1>12, <1>13, <1>14, <1>15, <1>16, <1>17, <1>18, <1>19 DEF Next

-----------------------------------------------------------------------------
(* The one position of a process in a queue.                               *)
LEMMA FitsPositions ==
  ASSUME Basics, NEW q, NEW R \in SUBSET Proc, NEW pl \in [Proc -> Prty], Fits(q, R, pl), NEW p \in Proc
  PROVE  /\ p \notin R => \A r \in Prty : QPositions(q, r, p) = {}
         /\ p \in R => \E i \in 1 .. Cardinality(Proc) :
                         \A r \in Prty, j \in 1 .. Cardinality(Proc) :
                           j \in QPositions(q, r, p) <=> r = pl[p] /\ j = i
<1>1. \A r \in Prty : QPositions(q, r, p) # {} <=> p \in R /\ r = pl[p]
  BY Zenon, QMembership DEF Fits
<1>2. ASSUME p \in R
      PROVE  \E i \in 1 .. Cardinality(Proc) :
                \A r \in Prty, j \in 1 .. Cardinality(Proc) :
                  j \in QPositions(q, r, p) <=> r = pl[p] /\ j = i
  <2>1. pl[p] \in Prty /\ q[pl[p]] \in Seq(Proc) /\ Once(q[pl[p]])
    BY Zenon DEF Fits, Queues, QOnce
  <2>2. PICK i \in QPositions(q, pl[p], p) : TRUE
    BY Zenon, <1>1, <1>2, <2>1
  <2>3. Len(q[pl[p]]) <= Cardinality(Proc) /\ Len(q[pl[p]]) \in Nat
    BY <2>1 DEF Basics
  <2>4. Cardinality(Proc) \in Nat
    BY Zenon DEF Basics
  <2>5. i \in 1 .. Len(q[pl[p]]) /\ i \in 1 .. Cardinality(Proc)
    BY <2>2, <2>3, <2>4 DEF QPositions
  <2>6. \A j : j \in QPositions(q, pl[p], p) <=> j = i
    BY Zenon, <2>1, <2>2 DEF QPositions, Once
  <2>7. \A r \in Prty : r # pl[p] => QPositions(q, r, p) = {}
    BY Zenon, <1>1
  <2>8. QED
    BY Zenon, <2>5, <2>6, <2>7
<1>3. QED
  BY Zenon, <1>1, <1>2

LEMMA PairAppend ==
  ASSUME NEW a, NEW b, NEW c
  PROVE  <<a, b>> \o <<c>> = <<a, b, c>>
<1> DEFINE S == {a, b, c}
           x == <<a, b>>
           y == <<c>>
           z == <<a, b, c>>
<1>1. x \in Seq(S) /\ y \in Seq(S) /\ z \in Seq(S)
  OBVIOUS
<1>2. Len(x) = 2 /\ Len(y) = 1 /\ Len(z) = 3 /\ x[1] = a /\ x[2] = b /\ y[1] = c /\ z[1] = a /\ z[2] = b /\ z[3] = c
  BY Zenon
<1> HIDE DEF S, x, y, z
<1>3. /\ x \o y \in Seq(S) /\ Len(x \o y) = Len(x) + Len(y)
      /\ \A i \in 1 .. Len(x) + Len(y) : (x \o y)[i] = IF i <= Len(x) THEN x[i] ELSE y[i - Len(x)]
  BY <1>1
<1> DEFINE w == x \o y
<1> HIDE DEF w
<1>4. w \in Seq(S) /\ Len(w) = 3 /\ \A i \in 1 .. 3 : w[i] = IF i <= 2 THEN x[i] ELSE y[i - 2]
  BY <1>2, <1>3 DEF w
<1>5. w = z
  BY <1>1, <1>2, <1>4
<1>6. QED
  BY Zenon, <1>5 DEF w, x, y, z

LEMMA PlacesOne ==
  ASSUME NEW p, NEW h \in Sem \cup {NoSem}, NEW r0 \in Prty, NEW i \in 1 .. Cardinality(Proc),
         \A y \in Sem \cup {NoSem}, r \in Prty, j \in 1 .. Cardinality(Proc) :
           j \in QPositions(IF y = NoSem THEN rdyQ ELSE waitQ[y], r, p) <=> y = h /\ r = r0 /\ j = i
  PROVE  Places(p) = {<<h, r0, i>>}
BY DEF Places

LEMMA PlacesNone ==
  ASSUME NEW p,
         \A y \in Sem \cup {NoSem}, r \in Prty, j \in 1 .. Cardinality(Proc) :
           j \notin QPositions(IF y = NoSem THEN rdyQ ELSE waitQ[y], r, p)
  PROVE  Places(p) = {}
BY Zenon DEF Places

LEMMA OneQueueHolds ==
  ASSUME Basics, IInv, PlainWait
  PROVE  OneQueue
<1> SUFFICES ASSUME NEW p \in Proc
             PROVE  IF rt[p] /\ ~asleep[p] /\ ~(pc # "user" /\ p = cur)
                    THEN \E i \in 1 .. Cardinality(Proc) : Places(p) = {Home(p) \o <<i>>}
                    ELSE Places(p) = {}
  BY Zenon DEF OneQueue
<1>1. /\ Fits(rdyQ, Runnable, prio) /\ Runnable \in SUBSET Proc /\ prio \in [Proc -> Prty]
      /\ TypeOK /\ NoSem \notin Sem
  BY Zenon, Consts DEF IInv, RdyInv, Runnable, TypeOK
<1>2. \A s \in Sem : /\ Fits(waitQ[s], Blocked(s), WaitPlace(s)) /\ Blocked(s) \in SUBSET Proc
                     /\ WaitPlace(s) \in [Proc -> Prty] /\ WaitPlace(s)[p] = WaitPrty(s, p)
  BY Zenon, <1>1, WaitPlaceType DEF PlainWait, Blocked
<1>3. p \notin Runnable => \A r \in Prty : QPositions(rdyQ, r, p) = {}
  BY Zenon, <1>1, FitsPositions
<1>4. \A s \in Sem : p \notin Blocked(s) => \A r \in Prty : QPositions(waitQ[s], r, p) = {}
  BY Zenon, <1>2, FitsPositions
<1>5. CASE p \in Runnable
  <2>1. ~down[p] /\ \A s \in Sem : p \notin Blocked(s)
    BY Zenon, <1>5 DEF Runnable, Blocked
  <2>2. PICK i \in 1 .. Cardinality(Proc) :
          \A r \in Prty, j \in 1 .. Cardinality(Proc) :
            j \in QPositions(rdyQ, r, p) <=> r = prio[p] /\ j = i
    BY <1>1, <1>5, FitsPositions
  <2>3. prio[p] \in Prty
    BY Zenon, <1>1
  <2>4. Places(p) = {<<NoSem, prio[p], i>>}
    BY Zenon, <1>1, <1>4, <2>1, <2>2, <2>3, PlacesOne
  <2>5. Home(p) \o <<i>> = <<NoSem, prio[p], i>>
    BY Zenon, <2>1, PairAppend DEF Home
  <2>6. QED
    BY Zenon, <1>5, <2>4, <2>5 DEF Runnable
<1>6. CASE down[p]
  <2>1. rt[p] /\ ~asleep[p] /\ p # cur /\ p \notin Runnable
    BY <1>1, <1>6, Consts DEF IInv, ProcInv, Runnable, TypeOK
  <2>2. PICK s \in Sem : s = psem[p] /\ p \in Blocked(s) /\ \A t \in Sem : t # s => p \notin Blocked(t)
    BY Zenon, <1>6 DEF IInv, WaitInv, Blocked
  <2>3. PICK i \in 1 .. Cardinality(Proc) :
          \A r \in Prty, j \in 1 .. Cardinality(Proc) :
            j \in QPositions(waitQ[s], r, p) <=> r = WaitPrty(s, p) /\ j = i
    <3>1. /\ Fits(waitQ[s], Blocked(s), WaitPlace(s)) /\ Blocked(s) \in SUBSET Proc
          /\ WaitPlace(s) \in [Proc -> Prty] /\ WaitPlace(s)[p] = WaitPrty(s, p)
      BY Zenon, <1>2
    <3>2. QED
      BY <2>2, <3>1, FitsPositions
  <2>4. WaitPrty(s, p) \in Prty
    BY Zenon, <1>1, WaitPrtyType
  <2>5. Places(p) = {<<s, WaitPrty(s, p), i>>}
    <3>1. s \in Sem \cup {NoSem} /\ s # NoSem
      BY Zenon, <1>1
    <3>2. ASSUME NEW y \in Sem \cup {NoSem}, NEW r \in Prty, NEW j \in 1 .. Cardinality(Proc)
          PROVE  j \in QPositions(IF y = NoSem THEN rdyQ ELSE waitQ[y], r, p)
                   <=> y = s /\ r = WaitPrty(s, p) /\ j = i
      <4>1. CASE y = NoSem
        BY Zenon, <1>3, <2>1, <3>1, <4>1
      <4>2. CASE y # NoSem /\ y # s
        BY Zenon, <1>4, <2>2, <4>2
      <4>3. CASE y = s
        BY Zenon, <2>3, <3>1, <4>3
      <4>4. QED
        BY Zenon, <4>1, <4>2, <4>3
    <3>3. QED
      BY Zenon, <2>4, <3>1, <3>2, PlacesOne
  <2>6. Home(p) \o <<i>> = <<s, WaitPrty(s, p), i>>
    BY Zenon, <1>6, <2>2, PairAppend DEF Home
  <2>7. QED
    BY Zenon, <2>1, <2>5, <2>6
<1>7. CASE p \notin Runnable /\ ~down[p]
  <2>1. \A s \in Sem : p \notin Blocked(s)
    BY Zenon, <1>7 DEF Blocked
  <2>2. Places(p) = {}
    BY Zenon, <1>1, <1>3, <1>4, <1>7, <2>1, PlacesNone
  <2>3. QED
    BY Zenon, <1>7, <2>2 DEF Runnable
<1>8. QED
  BY Zenon, <1>5, <1>6, <1>7

-----------------------------------------------------------------------------
(* Who gets a semaphore was the first of those that waited for it.         *)
LEMMA GrantedFirst ==
  ASSUME IInv, [Next]_vars, NEW s \in Sem, NEW w \in Proc, Granted(s, w)
  PROVE  ~QIsEmpty(waitQ[s]) /\ w = QHighest(waitQ[s])
<1>1. /\ w \in Blocked(s) /\ ~down'[w] /\ down[w] /\ value'[s] > value[s] /\ value[s] \in Int
      /\ owner[s] # NoProc /\ Waiters(s) # {}
  BY WaitersBlocked DEF Granted, Blocked, IInv, TypeOK, WaitInv
<1>2. ASSUME NEW t \in Sem, MRT_semup(t) PROVE ~QIsEmpty(waitQ[s]) /\ w = QHighest(waitQ[s])
  <2>1. CASE UNCHANGED down
    BY Zenon, <1>1, <2>1
  <2>2. CASE ~QIsEmpty(waitQ[t]) /\ Pass(t, QHighest(waitQ[t]))
    <3>1. PICK h : h = QHighest(waitQ[t]) /\ Pass(t, h)
      BY Zenon, <2>2
    <3>2. down' = [down EXCEPT ![h] = FALSE] /\ value' = [value EXCEPT ![t] = value[t] + 1]
      BY Zenon, <3>1 DEF Pass, IInv, TypeOK
    <3>3. t = s
      BY <1>1, <3>2 DEF IInv, TypeOK
    <3>4. w = h
      BY Zenon, <1>1, <3>2 DEF IInv, TypeOK
    <3>5. QED
      BY Zenon, <2>2, <3>1, <3>3, <3>4
  <2>3. QED
    BY Zenon, <1>2, <2>1, <2>2 DEF MRT_semup, HandOver, Unlock, Raise, Fault, wait
<1>3. ASSUME NEW t \in Sem, NEW m, MRT_semdown(t, m) PROVE FALSE
  <2>1. UNCHANGED down \/ down' = [down EXCEPT ![cur] = TRUE]
    BY Zenon, <1>3 DEF MRT_semdown, Refused, Take, Block, Enqueue, Fault, wait
  <2>2. QED
    BY Zenon, <1>1, <2>1 DEF IInv, TypeOK
<1>4. UNCHANGED value => FALSE
  BY <1>1
<1>5. UNCHANGED down => FALSE
  BY Zenon, <1>1
<1>6. ASSUME NEW t \in Sem, rtk_semup(t) PROVE ~QIsEmpty(waitQ[s]) /\ w = QHighest(waitQ[s])
  BY Zenon, <1>2, <1>6 DEF rtk_semup
<1>7. ASSUME NEW t \in Sem, NEW m, rtk_semdown(t, m) PROVE FALSE
  BY Zenon, <1>3, <1>7 DEF rtk_semdown
<1>8. ASSUME NEW t \in Sem, MRT_sem_empty(t) PROVE FALSE
  BY Zenon, <1>4, <1>8 DEF MRT_sem_empty, Fault
<1>9. CASE MRT_sem_unlock
  <2>1. cur \in Proc
    BY Zenon, <1>9 DEF MRT_sem_unlock, IInv, ProcInv, TypeOK
  <2>2. slockL[cur] \in Seq(Sem)
    BY Zenon, <2>1 DEF IInv, TypeOK
  <2>3. CASE slockL[cur] # << >> /\ MRT_semup(Head(slockL[cur]))
    <3>1. Head(slockL[cur]) \in Sem
      BY <2>2, <2>3
    <3>2. QED
      BY Zenon, <1>2, <2>3, <3>1
  <2>4. QED
    BY Zenon, <1>4, <1>9, <2>3 DEF MRT_sem_unlock
<1>10. ASSUME NEW p \in Proc, MRT_act_down(p) PROVE FALSE
  BY Zenon, <1>4, <1>10 DEF MRT_act_down
<1>11. ASSUME NEW p \in Proc, Expire(p) \/ rtk_set2rt(p) \/ rtk_wakeup(p) \/ \E b \in BasePrty : MRT_setpattr(p, b)
       PROVE  FALSE
  BY Zenon, <1>4, <1>11 DEF Expire, rtk_set2rt, rtk_wakeup, MRT_setpattr
<1>12. ASSUME NEW p \in Proc, NEW t \in Sem, MRT_semfree(p, t) \/ \E a \in SemAttrs : MRT_semalloc(p, t, a)
       PROVE  FALSE
  BY Zenon, <1>5, <1>12 DEF MRT_semfree, MRT_semalloc, wait
<1>13. CASE rtk_sleep \/ FlushSched \/ MRT_set2nrt \/ Left \/ Halted \/ UNCHANGED vars
  BY Zenon, <1>4, <1>13 DEF rtk_sleep, FlushSched, MRT_set2nrt, Left, Halted, vars
<1>14. QED
  BY Zenon, <1>6, <1>7, <1>8, <1>9, <1>10, <1>11, <1>12, <1>13 DEF Next

-----------------------------------------------------------------------------
(* Without timeouts and with nobody leaving.                               *)
Calm ==
  /\ \A s \in Sem : Cardinality(Blocked(s)) = IF value[s] < 0 THEN -value[s] ELSE 0
  /\ \A p \in Proc : timer[p] = "idle"
  /\ pc = "user" /\ flushed = 0 /\ fault = "none"

(* How the count of a semaphore changes with its waiting processes.        *)
LEMMA CountKeeps ==
  ASSUME TypeOK, Calm, NEW s \in Sem,
         \A t \in Sem : t # s => Blocked(t)' = Blocked(t) /\ value'[t] = value[t],
         Cardinality(Blocked(s)') = IF value'[s] < 0 THEN -value'[s] ELSE 0
  PROVE  \A t \in Sem : Cardinality(Blocked(t)') = IF value'[t] < 0 THEN -value'[t] ELSE 0
BY Zenon DEF Calm

LEMMA SemupCalm ==
  ASSUME Basics, IInv, PlainWait, ~BPIP, Calm, NEW s \in Sem, cur \in Proc, Mutex(s) => s \in holds[cur],
         MRT_semup(s), UNCHANGED <<owner, flags, pc, flushed>>
  PROVE  Calm'
<1>1. value \in [Sem -> Int] /\ timer \in [Proc -> {"idle", "active", "expired"}]
  BY Zenon DEF IInv, TypeOK
<1>2. value[s] < 0 => ~QIsEmpty(waitQ[s])
  <2> SUFFICES ASSUME value[s] < 0, QIsEmpty(waitQ[s]) PROVE FALSE
    BY Zenon
  <2>1. Blocked(s) = {}
    <3>1. Has(waitQ[s], Blocked(s)) /\ Blocked(s) \in SUBSET Proc
      BY Zenon DEF IInv, WaitInv, Blocked
    <3>2. QED
      BY Zenon, <3>1, HasHighest
  <2>2. Cardinality(Blocked(s)) = 0
    BY Zenon, <2>1, BlockedCounted
  <2>3. QED
    BY <1>1, <2>2 DEF Calm
<1>3. Mutex(s) => Locked(cur, s)
  <2>1. slockL[cur] \in Seq(Sem)
    BY Zenon DEF IInv, TypeOK
  <2>2. QED
    BY <2>1 DEF IInv, MutexInv, Locked, Members
<1>4. ~Disinherit(s)
  BY Zenon DEF Disinherit
<1>5. CASE value[s] < 0
  <2>1. PICK w \in Proc : w = QHighest(waitQ[s]) /\ w \in Blocked(s) /\ Queued(s, w)
    BY Zenon, <1>2, <1>5, PlainFirst DEF IInv, Blocked
  <2>2. HandOver(s, w)
    BY <1>1, <1>2, <1>5, <2>1 DEF MRT_semup
  <2>3. Pass(s, w)
    BY Zenon, <1>3, <1>4, <2>1, <2>2 DEF HandOver
  <2>4. /\ waitQ' = [waitQ EXCEPT ![s] = QRemove(waitQ[s], WaitPrty(s, w), w)]
        /\ value' = [value EXCEPT ![s] = value[s] + 1]
        /\ psem' = [psem EXCEPT ![w] = NoSem] /\ down' = [down EXCEPT ![w] = FALSE]
        /\ MRT_vtimer_stop(w)
    <3>1. waitQ \in [Sem -> [Prty -> Seq(Proc)]]
      BY Zenon DEF IInv, TypeOK
    <3>2. /\ waitQ' = [waitQ EXCEPT ![s] = QRemove(@, WaitPrty(s, w), w)]
          /\ value' = [value EXCEPT ![s] = @ + 1]
          /\ psem' = [psem EXCEPT ![w] = NoSem] /\ down' = [down EXCEPT ![w] = FALSE]
          /\ MRT_vtimer_stop(w)
      BY Zenon, <2>3 DEF Pass
    <3>3. QED
      BY Zenon, <1>1, <3>1, <3>2
  <2>5. Blocked(s)' = Blocked(s) \ {w} /\ \A t \in Sem : t # s => Blocked(t)' = Blocked(t)
    BY Zenon, <2>1, <2>4, WakeWait
  <2>6. timer' = timer /\ fault' = fault
    BY Zenon, <1>1, <2>1, <2>4 DEF MRT_vtimer_stop, Calm
  <2>7. Cardinality(Blocked(s)) = -value[s] /\ value[s] \in Int
    BY Zenon, <1>1, <1>5 DEF Calm
  <2>8. Cardinality(Blocked(s)') = -(value[s] + 1) /\ value'[s] = value[s] + 1
    BY <1>1, <2>1, <2>4, <2>5, <2>7, BlockedCounted
  <2>9. \A t \in Sem : t # s => value'[t] = value[t]
    BY Zenon, <1>1, <2>4
  <2>10. Cardinality(Blocked(s)') = IF value'[s] < 0 THEN -value'[s] ELSE 0
    BY <1>5, <2>7, <2>8
  <2>11. \A t \in Sem : Cardinality(Blocked(t)') = IF value'[t] < 0 THEN -value'[t] ELSE 0
    BY Zenon, <2>5, <2>9, <2>10, CountKeeps DEF IInv
  <2>12. QED
    BY Zenon, <2>6, <2>11 DEF Calm
<1>6. CASE value[s] >= 0
  <2>1. Unlock(s) \/ Raise(s)
    BY <1>1, <1>6 DEF MRT_semup
  <2>2. value' = [value EXCEPT ![s] = value[s] + 1] /\ UNCHANGED <<wait, timers, fault>>
    <3>1. CASE Raise(s)
      BY Zenon, <1>1, <3>1 DEF Raise
    <3>2. CASE value[s] = 0 /\ Mutex(s) /\ Unlock(s)
      BY Zenon, <1>1, <1>3, <3>2 DEF Unlock
    <3>3. QED
      BY <1>1, <1>6, <3>1, <3>2 DEF MRT_semup
  <2>3. \A t \in Sem : Blocked(t)' = Blocked(t)
    BY Zenon, <2>2 DEF Blocked, wait
  <2>4. value'[s] = value[s] + 1 /\ value[s] \in Int /\ \A t \in Sem : t # s => value'[t] = value[t]
    BY Zenon, <1>1, <2>2
  <2>5. Cardinality(Blocked(s)) = 0
    BY <1>6, <2>4 DEF Calm
  <2>6. Cardinality(Blocked(s)') = IF value'[s] < 0 THEN -value'[s] ELSE 0
    BY <1>6, <2>3, <2>4, <2>5
  <2>7. \A t \in Sem : Cardinality(Blocked(t)') = IF value'[t] < 0 THEN -value'[t] ELSE 0
    BY Zenon, <2>3, <2>4, <2>6, CountKeeps DEF IInv
  <2>8. QED
    BY Zenon, <2>2, <2>7 DEF Calm, timers
<1>7. QED
  BY <1>1, <1>5, <1>6

LEMMA SemdownCalm ==
  ASSUME Basics, IInv, ~BPIP, Calm, NEW s \in Sem, NEW m \in Timeouts, "TIMED" \notin Timeouts, cur \in Proc, ~down[cur],
         MRT_semdown(s, m), UNCHANGED <<owner, flags, pc, flushed>>
  PROVE  Calm'
<1>1. value \in [Sem -> Int] /\ waitQ \in [Sem -> [Prty -> Seq(Proc)]] /\ m # "TIMED"
  BY Zenon DEF IInv, TypeOK
<1>2. CASE Refused(s, m)
  <2>1. \A t \in Sem : Blocked(t)' = Blocked(t)
    BY Zenon, <1>2 DEF Refused, Blocked, wait
  <2>2. QED
    BY Zenon, <1>2, <2>1 DEF Refused, Calm, timers
<1>3. CASE Take(s)
  <2>1. value[s] > 0 /\ value' = [value EXCEPT ![s] = value[s] - 1] /\ UNCHANGED <<wait, timers, fault>>
    BY Zenon, <1>1, <1>3 DEF Take
  <2>2. \A t \in Sem : Blocked(t)' = Blocked(t)
    BY Zenon, <2>1 DEF Blocked, wait
  <2>3. value'[s] = value[s] - 1 /\ value[s] \in Int /\ \A t \in Sem : t # s => value'[t] = value[t]
    BY Zenon, <1>1, <2>1
  <2>4. Cardinality(Blocked(s)) = 0
    BY <2>1, <2>3 DEF Calm
  <2>5. Cardinality(Blocked(s)') = IF value'[s] < 0 THEN -value'[s] ELSE 0
    BY <2>1, <2>2, <2>3, <2>4
  <2>6. \A t \in Sem : Cardinality(Blocked(t)') = IF value'[t] < 0 THEN -value'[t] ELSE 0
    BY Zenon, <2>2, <2>3, <2>5, CountKeeps DEF IInv
  <2>7. QED
    BY Zenon, <2>1, <2>6 DEF Calm, timers
<1>4. CASE owner[s] # NoProc /\ value[s] <= 0 /\ Enqueue(s, m)
  <2>1. /\ waitQ' = [waitQ EXCEPT ![s] = QAppend(waitQ[s], WaitPrty(s, cur), cur)]
        /\ down' = [down EXCEPT ![cur] = TRUE]
        /\ psem' = [psem EXCEPT ![cur] = s]
        /\ value' = [value EXCEPT ![s] = value[s] - 1]
        /\ UNCHANGED <<timers, fault>>
    BY Zenon, <1>1, <1>4 DEF Enqueue
  <2>2. Blocked(s)' = Blocked(s) \cup {cur} /\ \A t \in Sem : t # s => Blocked(t)' = Blocked(t)
    BY Zenon, <1>4, <2>1, EnqueueWait
  <2>3. value'[s] = value[s] - 1 /\ value[s] \in Int /\ \A t \in Sem : t # s => value'[t] = value[t]
    BY Zenon, <1>1, <2>1
  <2>4. cur \notin Blocked(s)
    BY Zenon DEF Blocked
  <2>5. Cardinality(Blocked(s)) = -value[s]
    BY <1>4, <2>3 DEF Calm
  <2>6. Cardinality(Blocked(s)') = -value[s] + 1
    BY Zenon, <2>2, <2>4, <2>5, BlockedCounted
  <2>7. Cardinality(Blocked(s)') = IF value'[s] < 0 THEN -value'[s] ELSE 0
    BY <1>4, <2>3, <2>6
  <2>8. \A t \in Sem : Cardinality(Blocked(t)') = IF value'[t] < 0 THEN -value'[t] ELSE 0
    BY Zenon, <2>2, <2>3, <2>7, CountKeeps DEF IInv
  <2>9. QED
    BY Zenon, <2>1, <2>8 DEF Calm, timers
<1>5. QED
  BY Zenon, <1>1, <1>2, <1>3, <1>4 DEF MRT_semdown, Block

LEMMA CalmStep ==
  ASSUME Basics, IInv, PlainWait, ~BPIP, "TIMED" \notin Timeouts, ~Leaving, Calm, [Next]_vars
  PROVE  Calm'
<1>1. pc = "user" /\ flushed = 0 /\ fault = "none" /\ \A p \in Proc : timer[p] = "idle"
  BY Zenon DEF Calm
<1>2. ASSUME UNCHANGED <<down, psem, value, timer, pc, flushed, fault>> PROVE Calm'
  BY Zenon, <1>2 DEF Calm, Blocked
<1>3. ASSUME NEW s \in Sem, rtk_semup(s) PROVE Calm'
  <2>1. User /\ cur # NoProc
    BY Zenon, <1>3 DEF rtk_semup
  <2>2. cur \in Proc
    BY Zenon, <2>1, RunningFacts
  <2>3. QED
    BY Zenon, <1>3, <2>2, SemupCalm DEF rtk_semup, semattr, control
<1>4. ASSUME NEW s \in Sem, NEW m \in Timeouts, rtk_semdown(s, m) PROVE Calm'
  <2>1. User /\ cur # NoProc
    BY Zenon, <1>4 DEF rtk_semdown
  <2>2. cur \in Proc /\ ~down[cur]
    BY Zenon, <2>1, RunningFacts DEF Runnable
  <2>3. QED
    BY Zenon, <1>4, <2>2, SemdownCalm DEF rtk_semdown, semattr, control
<1>5. ASSUME NEW p \in Proc, rtk_wakeup(p) PROVE Calm'
  <2>1. MRT_vtimer_stop(p) /\ UNCHANGED <<wait, value, control>>
    BY Zenon, <1>5 DEF rtk_wakeup
  <2>2. timer' = timer /\ fault' = fault
    BY Zenon, <1>1, <2>1 DEF MRT_vtimer_stop, IInv, TypeOK
  <2>3. QED
    BY Zenon, <1>2, <2>1, <2>2 DEF wait, control
<1>6. ASSUME NEW p \in Proc, NEW s \in Sem, MRT_semfree(p, s) \/ \E a \in SemAttrs : MRT_semalloc(p, s, a)
      PROVE  Calm'
  <2>1. /\ owner[s] = NoProc \/ Waiters(s) = {}
        /\ UNCHANGED <<down, psem, timer, fault, pc, flushed>>
        /\ \E n \in Nat : value' = [value EXCEPT ![s] = n]
    BY Zenon, <1>6, SemAssumption DEF MRT_semfree, MRT_semalloc, wait, timers, control
  <2>2. Blocked(s) = {} /\ \A t \in Sem : Blocked(t)' = Blocked(t)
    BY Zenon, <2>1, WaitersBlocked DEF IInv, WaitInv, Blocked
  <2>3. value'[s] \in Nat /\ \A t \in Sem : t # s => value'[t] = value[t]
    BY Zenon, <2>1 DEF IInv, TypeOK
  <2>4. Cardinality(Blocked(s)') = 0
    BY Zenon, <2>2, BlockedCounted
  <2>5. Cardinality(Blocked(s)') = IF value'[s] < 0 THEN -value'[s] ELSE 0
    BY <2>3, <2>4
  <2>6. \A t \in Sem : Cardinality(Blocked(t)') = IF value'[t] < 0 THEN -value'[t] ELSE 0
    BY Zenon, <2>2, <2>3, <2>5, CountKeeps DEF IInv
  <2>7. QED
    BY Zenon, <2>1, <2>6 DEF Calm
<1>7. ASSUME NEW p \in Proc, NEW b \in BasePrty, MRT_setpattr(p, b) PROVE Calm'
  BY Zenon, <1>2, <1>7 DEF MRT_setpattr, wait, timers, control
<1>8. ASSUME NEW p \in Proc, rtk_set2rt(p) PROVE Calm'
  BY Zenon, <1>2, <1>8 DEF rtk_set2rt, wait, timers, control
<1>9. ASSUME NEW p \in Proc PROVE ~Expire(p) /\ ~MRT_act_down(p)
  BY Zenon, <1>1 DEF Expire, MRT_act_down, Due
<1>10. ~FlushSched /\ ~MRT_set2nrt /\ ~MRT_sem_unlock /\ ~Left /\ \A s \in Sem : ~MRT_sem_empty(s)
  BY Zenon, <1>1 DEF FlushSched, MRT_set2nrt, MRT_sem_unlock, Left, MRT_sem_empty
<1>11. CASE rtk_sleep
  BY Zenon, <1>2, <1>11 DEF rtk_sleep, wait, timers, control
<1>12. CASE Halted \/ UNCHANGED vars
  BY Zenon, <1>2, <1>12 DEF Halted, vars, wait, timers, control
<1>13. QED
  BY Zenon, <1>3, <1>4, <1>5, <1>6, <1>7, <1>8, <1>9, <1>10, <1>11, <1>12 DEF Next

-----------------------------------------------------------------------------
(* What the invariants say of the states that the theorems below are about.*)
LEMMA InvGives == IInv => GrantedToCarrier /\ NobodyOvertaken
<1> SUFFICES ASSUME IInv PROVE GrantedToCarrier /\ NobodyOvertaken
  BY Zenon
<1>1. GrantedToCarrier
  BY Zenon, LockedMember, Consts DEF IInv, MutexInv, GrantedToCarrier
<1>2. NobodyOvertaken
  BY Zenon, WaitersBlocked DEF IInv, CountInv, NobodyOvertaken
<1>3. QED
  BY Zenon, <1>1, <1>2

LEMMA BaseInit == Init => NeverBelowBase
BY Consts DEF Init, NeverBelowBase

LEMMA AbstractInit == Init => Abstract!Init
<1> SUFFICES ASSUME Init PROVE Abstract!Init
  OBVIOUS
<1>1. \A s \in Sem : Blocked(s) = {}
  BY DEF Init, Blocked
<1>2. Exists = {} /\ Credit = [s \in Sem |-> 0] /\ Waiting = [s \in Sem |-> {}]
  BY <1>1, AbstractState DEF Init, Exists
<1>3. QED
  BY <1>2 DEF Abstract!Init

LEMMA PlainInit ==
  ASSUME NR_PRTY > 1, Init
  PROVE  PlainInv
<1>1. /\ QEmpty \in Queues(Proc) /\ QOnce(QEmpty) /\ \A r \in Prty : QMembers(QEmpty, r) = {}
      /\ QIsEmpty(QEmpty)
  BY QEmptyFacts, QIsEmptyFacts
<1>2. PlainWait
  BY <1>1 DEF Init, PlainWait, Fits, Blocked
<1>3. PlainPrty
  BY PrtyAssumption DEF Init, PlainPrty, PRILOWEST
<1>4. PlainRun
  BY <1>1 DEF Init, PlainRun, MRT_pick_proc
<1>5. QED
  BY <1>2, <1>3, <1>4 DEF PlainInv

LEMMA PlainGives ==
  ASSUME Basics, IInv, PlainInv
  PROVE  Scheduled
<1>1. OneQueue
  BY OneQueueHolds DEF PlainInv
<1>2. HighestRuns
  BY DEF PlainInv, PlainRun, HighestRuns, User, MRT_pick_proc
<1>3. QED
  BY <1>1, <1>2 DEF Scheduled, IInv

LEMMA UrgentStep ==
  ASSUME Basics, IInv, PlainInv, [Next]_vars, NEW s \in Sem, NEW w \in Proc, Granted(s, w),
         "PRTYORDER" \in flags[s], NEW q \in Waiters(s)
  PROVE  prio[w] <= prio[q]
<1>1. ~QIsEmpty(waitQ[s]) /\ w = QHighest(waitQ[s])
  BY GrantedFirst
<1>2. q \in Blocked(s)
  BY WaitersBlocked DEF IInv, WaitInv
<1>3. WaitPrty(s, w) <= WaitPrty(s, q)
  BY <1>1, <1>2, PlainFirst DEF IInv, PlainInv
<1>4. QED
  BY <1>3 DEF WaitPrty

LEMMA CalmInit ==
  ASSUME Basics, Init
  PROVE  Calm
<1>1. \A s \in Sem : Blocked(s) = {} /\ value[s] = 0
  BY DEF Init, Blocked
<1>2. \A s \in Sem : Cardinality(Blocked(s)) = 0
  BY <1>1, BlockedCounted
<1>3. QED
  BY <1>1, <1>2 DEF Init, Calm

LEMMA CalmGives ==
  ASSUME IInv, Calm
  PROVE  WaitersCounted /\ NoFault
<1>1. \A s \in Sem : Waiters(s) = Blocked(s)
  BY WaitersBlocked DEF IInv, WaitInv
<1>2. QED
  BY <1>1 DEF WaitersCounted, NoFault, Calm

-----------------------------------------------------------------------------
(* The library's theories of well-founded relations and of finite sets.    *)
INSTANCE WellFoundedInduction

INSTANCE FiniteSetTheorems

LEMMA NatWellOrdered == WellOrdered
<1> SUFFICES ASSUME NEW N \in SUBSET Nat, N # {}
             PROVE  \E m \in N : \A n \in N : m <= n
  BY Zenon DEF WellOrdered
<1>1. PICK m \in N : \A n \in N : ~(<<n, m>> \in OpToRel(<, Nat))
  BY Zenon, NatLessThanWellFounded, WFMin
<1>2. \A n \in N : ~(n < m)
  BY Zenon, <1>1 DEF OpToRel
<1>3. QED
  BY <1>2

(* A list in which no process is twice is no longer than there are         *)
(* processes.                                                              *)
LEMMA ListBound ==
  ASSUME NEW l \in Seq(Proc), Once(l)
  PROVE  Len(l) <= Cardinality(Proc)
<1>1. Len(l) \in Nat /\ l \in [1 .. Len(l) -> Proc]
  OBVIOUS
<1>2. l \in Injection(1 .. Len(l), Proc)
  BY Zenon, <1>1 DEF Once, Injection, IsInjective
<1>3. Cardinality(1 .. Len(l)) <= Cardinality(Proc)
  BY Zenon, <1>2, Consts, FS_Injection
<1>4. Cardinality(1 .. Len(l)) = Len(l)
  BY <1>1, FS_Interval
<1>5. QED
  BY Zenon, <1>3, <1>4

LEMMA BasicsHold == Basics
<1>1. IsFiniteSet(Proc)
  BY Zenon, Consts
<1>2. ASSUME NEW S \in SUBSET Proc
      PROVE  /\ Cardinality(S) \in Nat /\ (Cardinality(S) = 0 <=> S = {})
             /\ \A p \in Proc \ S : Cardinality(S \cup {p}) = Cardinality(S) + 1
             /\ \A p \in S : Cardinality(S \ {p}) = Cardinality(S) - 1
  <2>1. IsFiniteSet(S)
    BY Zenon, <1>1, FS_Subset
  <2>2. QED
    BY Zenon, <2>1, FS_CardinalityType, FS_EmptySet, FS_AddElement, FS_RemoveElement
<1>3. QED
  BY Zenon, <1>2, NatWellOrdered, ListBound DEF Basics

-----------------------------------------------------------------------------
(* Every reachable state satisfies the invariant.                          *)
THEOREM SemInvariant == Spec => []IInv
<1>1. IInv /\ [Next]_vars => IInv'
  BY Zenon, BasicsHold, NextHolds
<1>2. QED
  BY InitHolds, <1>1, PTL DEF Spec

(* A mutex is granted to one process at a time, and the carrier, the lists *)
(* of locked mutexes and the value say to which (MRT_semup, MRT_semdown,   *)
(* MRT_sem_unlock), for any processes, flags, timeouts and inheritance.    *)
THEOREM MutexGranted == Spec => []GrantedToCarrier
BY InvGives, SemInvariant, PTL

(* There are never more processes waiting on a semaphore than its value    *)
(* says, whatever times out and whoever leaves, so nobody passes a process *)
(* that waits (MRT_semdown tests the value only).                          *)
THEOREM NotOvertaken == Spec => []NobodyOvertaken
BY InvGives, SemInvariant, PTL

(* Whatever MRT_disinherit reads, inheritance leaves no process less       *)
(* urgent than it asked to be.                                             *)
THEOREM BaseKept == Spec => []NeverBelowBase
<1>1. IInv /\ NeverBelowBase /\ [Next]_vars => NeverBelowBase'
  BY BasicsHold, BaseStep
<1>2. QED
  BY <1>1, BaseInit, SemInvariant, PTL DEF Spec

(* The semaphores of the kernel implement the abstract ones: credits are   *)
(* only taken and given back, a process waits only where there is none and *)
(* keeps its place until it is granted one, times out or the owner leaves. *)
THEOREM SemaphoresImplemented == Spec => ImplementsSemaphores
<1>1. IInv /\ [Next]_vars => Abstract!Next \/ UNCHANGED <<Exists, Credit, Waiting>>
  BY BasicsHold, AbstractStep
<1>2. QED
  BY <1>1, AbstractInit, SemInvariant, PTL DEF Spec, ImplementsSemaphores, Abstract!Spec

(* Without inheritance a process that waits is in the list where           *)
(* MRT_sproc_rmv looks for it, and who runs was picked from the ready      *)
(* queue as it is.                                                         *)
THEOREM PlainInvariant ==
  ASSUME ~BPIP, NR_PRTY > 1
  PROVE  Spec => []PlainInv
<1>1. Init => PlainInv
  BY PlainInit
<1>2. IInv /\ PlainInv /\ [Next]_vars => PlainInv'
  BY BasicsHold, PlainStep
<1>3. QED
  BY <1>1, <1>2, SemInvariant, PTL DEF Spec

(* Without inheritance every process is in the one queue that its state    *)
(* calls for, in the list where the kernel looks for it, and the process   *)
(* that runs is the first of the highest list of ready processes.          *)
THEOREM PlainScheduled ==
  ASSUME ~BPIP, NR_PRTY > 1
  PROVE  Spec => []Scheduled
<1>1. IInv /\ PlainInv => Scheduled
  BY BasicsHold, PlainGives
<1>2. Spec => []PlainInv
  BY PlainInvariant
<1>3. QED
  BY <1>1, <1>2, SemInvariant, PTL

(* Without inheritance, whoever gets a semaphore with SEM_PRTYORDER is as  *)
(* urgent as any process that waits for it: MRT_sproc_pick looks at the    *)
(* lists of a queue from the highest priority down, and every process is   *)
(* in the list of its own priority.                                        *)
THEOREM PlainUrgentFirst ==
  ASSUME ~BPIP, NR_PRTY > 1
  PROVE  Spec => MostUrgentFirst
<1>1. IInv /\ PlainInv /\ [Next]_vars
        => [\A s \in Sem, w \in Proc :
              Granted(s, w) /\ "PRTYORDER" \in flags[s]
                => \A q \in Waiters(s) : prio[w] <= prio[q]]_vars
  BY BasicsHold, UrgentStep
<1>2. Spec => []PlainInv
  BY PlainInvariant
<1>3. QED
  BY <1>1, <1>2, SemInvariant, PTL DEF Spec, MostUrgentFirst

(* Without inheritance, timeouts and processes that leave, a negative      *)
(* value counts the waiting processes, so that MRT_semup finds the process *)
(* its test of the value promises; no panic is reached, no list is         *)
(* corrupted and no null pointer followed.                                 *)
THEOREM PlainCounted ==
  ASSUME ~BPIP, NR_PRTY > 1, "TIMED" \notin Timeouts, ~Leaving
  PROVE  Spec => [](WaitersCounted /\ NoFault)
<1>1. Init => Calm
  BY BasicsHold, CalmInit
<1>2. IInv /\ PlainInv /\ Calm /\ [Next]_vars => Calm'
  BY BasicsHold, CalmStep DEF PlainInv
<1>3. IInv /\ Calm => WaitersCounted /\ NoFault
  BY CalmGives
<1>4. Spec => []PlainInv
  BY PlainInvariant
<1>5. QED
  BY <1>1, <1>2, <1>3, <1>4, SemInvariant, PTL DEF Spec
=============================================================================
