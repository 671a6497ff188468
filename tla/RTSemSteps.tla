---------------------------- MODULE RTSemSteps -----------------------------
(***************************************************************************)
(* The invariant of the real-time semaphores holds at first, every step    *)
(* keeps it, and no step takes a process below its base priority.          *)
(***************************************************************************)
EXTENDS RTSemFacts

(* The invariant holds at first and is kept by every action.               *)
LEMMA InitHolds == Init => IInv
<1> SUFFICES ASSUME Init PROVE IInv
  BY Zenon
<1>1. QEmpty \in Queues(Proc) /\ QOnce(QEmpty) /\ \A r \in Prty : QMembers(QEmpty, r) = {}
  BY Zenon, QEmptyFacts
<1>2. TypeOK
  BY <1>1, Consts, TypeSplit DEF Init, TypeSem, TypeRest, MutexBound, Mutex
<1>3. RdyInv
  BY Zenon, <1>1 DEF Init, RdyInv, Fits, Runnable
<1>4. WaitInv
  BY Zenon, <1>1 DEF Init, WaitInv, Has, Blocked
<1>5. ProcInv
  BY Zenon DEF Init, ProcInv
<1>6. MutexInv
  <2>1. Once(<< >>) /\ Members(<< >>) = {}
    BY DEF Once, Members
  <2>2. QED
    BY Zenon, <2>1, Consts DEF Init, MutexInv
<1>7. CountInv
  BY Zenon DEF Init, CountInv, Blocked
<1>8. QED
  BY Zenon, <1>2, <1>3, <1>4, <1>5, <1>6, <1>7 DEF IInv

(* The process that is picked is ready.                                    *)
LEMMA PickedReady ==
  ASSUME Basics, pc' = "user", RdyInv', prio' \in [Proc -> Prty], cur' = MRT_pick_proc(rdyQ')
  PROVE  /\ cur' \in Proc \cup {NoProc}
         /\ cur' # NoProc => cur' \in Proc /\ rt'[cur'] /\ ~down'[cur'] /\ ~asleep'[cur']
<1>1. Runnable' \in SUBSET Proc
  BY Zenon DEF Runnable
<1>2. cur' \in Proc \cup {NoProc} /\ (cur' = NoProc \/ cur' \in Runnable')
  BY Zenon, <1>1, PickFacts DEF RdyInv
<1>3. QED
  BY Zenon, <1>2 DEF Runnable

LEMMA rtk_semupStep ==
  ASSUME Basics, IInv, NEW s \in Sem, rtk_semup(s)
  PROVE  IInv'
<1>1. /\ User /\ cur # NoProc /\ owner[s] # NoProc /\ (Mutex(s) => s \in holds[cur])
      /\ MRT_semup(s) /\ cur' = MRT_pick_proc(rdyQ')
      /\ UNCHANGED <<rt, base, asleep, owner, flags, pc, flushed, procattr, semattr>>
  BY Zenon DEF rtk_semup, procattr, semattr, control
<1>2. cur \in Proc /\ pc = "user"
  BY Zenon, <1>1, RunningFacts
<1>3. SemupKeeps
  BY Zenon, <1>1, <1>2, SemupStep
<1>4. Runnable' = RunnableBut(down')
  BY Zenon, <1>1, <1>2 DEF Runnable, RunnableBut
<1>5. RdyInv' /\ prio' \in [Proc -> Prty]
  BY Zenon, <1>3, <1>4 DEF SemupKeeps, RdyInv, TypeSem
<1>6. /\ cur' \in Proc \cup {NoProc}
      /\ cur' # NoProc => cur' \in Proc /\ rt'[cur'] /\ ~down'[cur'] /\ ~asleep'[cur']
  BY Zenon, <1>1, <1>2, <1>5, PickedReady
<1>7. TypeOK'
  <2>1. TypeRest'
    BY Zenon, <1>1, <1>6, TypeSplit DEF TypeRest, IInv
  <2>2. QED
    BY Zenon, <1>3, <2>1, TypeJoin DEF SemupKeeps
<1>8. ProcInv'
  BY Zenon, <1>1, <1>2, <1>3, <1>6 DEF IInv, ProcInv, SemupKeeps
<1>9. QED
  BY Zenon, <1>3, <1>5, <1>7, <1>8 DEF IInv, SemupKeeps

(* MRT_semdown of a semaphore with credits.                                *)
LEMMA TakeStep ==
  ASSUME Basics, IInv, NEW s \in Sem, cur \in Proc, rt[cur], owner[s] # NoProc, s \notin holds[cur],
         Take(s), UNCHANGED <<procattr, semattr>>
  PROVE  TypeSem' /\ MutexBound' /\ WaitInv' /\ MutexInv' /\ CountInv'
<1>1. TypeSem /\ TypeRest /\ MutexBound
  BY Zenon, TypeSplit DEF IInv
<1>2. UNCHANGED <<rt, asleep, base, owner, flags, prio, down, psem, waitQ, timer, tprty, tsem, rdyQ, fault>>
  BY Zenon DEF Take, wait, timers, procattr, semattr
<1>3. value[s] \in Int /\ value[s] > 0
  BY Zenon, <1>1 DEF Take, TypeSem
<1>4. /\ value' \in [Sem -> Int] /\ value'[s] = value[s] - 1
      /\ \A t \in Sem : t # s => value'[t] = value[t]
  BY <1>1 DEF Take, TypeSem
<1>5. carrier[s] = NoProc
  BY <1>3 DEF IInv, MutexInv
<1>6. MutexBound'
  BY <1>1, <1>2, <1>3, <1>4 DEF MutexBound, Mutex
<1>7. Blocked(s) = {}
  <2>2. Cardinality(Blocked(s)) \in Nat
    BY Zenon, BlockedCounted
  <2>3. QED
    BY <1>3, <2>2 DEF IInv, CountInv
<1>8. WaitInv' /\ CountInv'
  <2>1. \A t \in Sem : Blocked(t)' = Blocked(t)
    BY Zenon, <1>2 DEF Blocked
  <2>2. WaitInv'
    BY Zenon, <1>2, <2>1 DEF IInv, WaitInv
  <2>3. CountInv'
    BY Zenon, <1>4, <1>7, <2>1 DEF IInv, CountInv
  <2>4. QED
    BY Zenon, <2>2, <2>3
<1>9. /\ MutexInv' /\ slockL' \in [Proc -> Seq(Sem)] /\ holds' \in [Proc -> SUBSET Sem]
      /\ carrier' \in [Sem -> Proc \cup {NoProc}]
  <2>1. CASE ~(value[s] = 1 /\ Mutex(s))
    <3>1. UNCHANGED <<slockL, carrier, holds>>
      BY Zenon, <2>1 DEF Take, locks
    <3>2. MutexInv'
      BY <1>2, <1>4, <1>5, <3>1 DEF IInv, MutexInv, Mutex
    <3>3. QED
      BY Zenon, <1>1, <3>1, <3>2 DEF TypeSem
  <2>2. CASE value[s] = 1 /\ Mutex(s)
    <3>1. /\ carrier' = [carrier EXCEPT ![s] = cur]
          /\ slockL' = [slockL EXCEPT ![cur] = Append(@, s)]
          /\ holds' = [holds EXCEPT ![cur] = @ \cup {s}]
      BY Zenon, <2>2 DEF Take
    <3> DEFINE b == Append(slockL[cur], s)
    <3>2. slockL[cur] \in Seq(Sem) /\ Once(slockL[cur]) /\ s \notin Members(slockL[cur])
      BY <1>1, <1>5, Consts DEF TypeSem, IInv, MutexInv
    <3>3. b \in Seq(Sem) /\ Once(b) /\ Members(b) = Members(slockL[cur]) \cup {s}
      BY <3>2, AppendMembers
    <3>4. slockL' = [slockL EXCEPT ![cur] = b]
      BY Zenon, <1>1, <3>1 DEF TypeSem
    <3> HIDE DEF b
    <3>5. /\ slockL' \in [Proc -> Seq(Sem)] /\ slockL'[cur] = b
          /\ \A p \in Proc : p # cur => slockL'[p] = slockL[p]
      BY Zenon, <1>1, <3>3, <3>4 DEF TypeSem
    <3>6. /\ holds' \in [Proc -> SUBSET Sem] /\ holds'[cur] = holds[cur] \cup {s}
          /\ \A p \in Proc : p # cur => holds'[p] = holds[p]
      BY Zenon, <1>1, <3>1 DEF TypeSem
    <3>7. /\ carrier' \in [Sem -> Proc \cup {NoProc}] /\ carrier'[s] = cur
          /\ \A t \in Sem : t # s => carrier'[t] = carrier[t]
      BY Zenon, <1>1, <3>1 DEF TypeSem
    <3>8. \A p \in Proc : Once(slockL'[p])
      BY Zenon, <3>3, <3>5 DEF IInv, MutexInv
    <3>9. ASSUME NEW t \in Sem, NEW p \in Proc
          PROVE  (t \in holds'[p] <=> carrier'[t] = p) /\ (t \in Members(slockL'[p]) <=> carrier'[t] = p)
      <4>1. (t \in holds[p] <=> carrier[t] = p) /\ (t \in Members(slockL[p]) <=> carrier[t] = p)
        BY Zenon DEF IInv, MutexInv
      <4>2. carrier[s] # p /\ carrier'[t] = IF t = s THEN cur ELSE carrier[t]
        BY Zenon, <1>5, <3>7, Consts
      <4>3. t \in holds'[p] <=> carrier'[t] = p
        <5>1. CASE p = cur
          BY Zenon, <3>6, <4>1, <4>2, <5>1
        <5>2. CASE p # cur
          BY Zenon, <3>6, <4>1, <4>2, <5>2
        <5>3. QED
          BY Zenon, <5>1, <5>2
      <4>4. t \in Members(slockL'[p]) <=> carrier'[t] = p
        <5>1. CASE p = cur
          BY Zenon, <3>3, <3>5, <4>1, <4>2, <5>1
        <5>2. CASE p # cur
          BY Zenon, <3>5, <4>1, <4>2, <5>2
        <5>3. QED
          BY Zenon, <5>1, <5>2
      <4>5. QED
        BY Zenon, <4>3, <4>4
    <3>10. ASSUME NEW t \in Sem, carrier'[t] # NoProc
           PROVE  (Mutex(t) /\ value[t] <= 0 /\ owner[t] # NoProc /\ rt[carrier[t]])'
      BY <1>2, <1>4, <2>2, <3>7, <3>10 DEF IInv, MutexInv, Mutex
    <3>11. MutexInv'
      BY Zenon, <3>8, <3>9, <3>10 DEF MutexInv
    <3>12. QED
      BY Zenon, <3>5, <3>6, <3>7, <3>11
  <2>3. QED
    BY Zenon, <2>1, <2>2
<1>10. TypeSem'
  BY Zenon, <1>1, <1>2, <1>4, <1>9 DEF TypeSem
<1>11. QED
  BY Zenon, <1>6, <1>8, <1>9, <1>10
(* A call that ends by picking a process keeps the invariant if it keeps   *)
(* the parts of it.                                                        *)
LEMMA CallEnds ==
  ASSUME Basics, IInv, pc = "user", flushed = 0, UNCHANGED <<rt, base, asleep, owner, flags, pc, flushed>>,
         cur' = MRT_pick_proc(rdyQ'),
         TypeSem', MutexBound', RdyInv', WaitInv', MutexInv', CountInv',
         \A p \in Proc : down'[p] => rt[p] /\ ~asleep[p],
         \A p \in Proc : timer'[p] # "idle" => tsem'[p] \in Sem
  PROVE  IInv'
<1>1. prio' \in [Proc -> Prty]
  BY Zenon DEF TypeSem
<1>2. /\ cur' \in Proc \cup {NoProc}
      /\ cur' # NoProc => cur' \in Proc /\ rt'[cur'] /\ ~down'[cur'] /\ ~asleep'[cur']
  BY Zenon, <1>1, PickedReady
<1>3. TypeRest'
  BY Zenon, <1>2, TypeSplit DEF TypeRest, IInv
<1>4. ProcInv'
  BY Zenon, <1>2 DEF IInv, ProcInv
<1>5. QED
  BY Zenon, <1>3, <1>4, TypeJoin DEF IInv

LEMMA EnqueueStep ==
  ASSUME Basics, IInv, NEW s \in Sem, NEW t, cur \in Runnable, pc = "user", pc' = pc, owner[s] # NoProc,
         value[s] <= 0, Enqueue(s, t), UNCHANGED <<procattr, semattr>>
  PROVE  /\ TypeSem' /\ MutexBound' /\ RdyInv' /\ WaitInv' /\ MutexInv' /\ CountInv'
         /\ \A p \in Proc : down'[p] => rt[p] /\ ~asleep[p]
         /\ \A p \in Proc : timer'[p] # "idle" => tsem'[p] \in Sem
<1>1. TypeSem /\ TypeRest /\ MutexBound /\ cur \in Proc /\ rt[cur] /\ ~asleep[cur]
  BY Zenon, TypeSplit DEF IInv, Runnable
<1>2. UNCHANGED <<rt, asleep, base, owner, flags, slockL, carrier, holds, fault>>
  BY Zenon DEF Enqueue, locks, procattr, semattr
<1>3. /\ waitQ' = [waitQ EXCEPT ![s] = QAppend(waitQ[s], WaitPrty(s, cur), cur)]
      /\ down' = [down EXCEPT ![cur] = TRUE]
      /\ psem' = [psem EXCEPT ![cur] = s]
      /\ value' = [value EXCEPT ![s] = value[s] - 1]
  BY Zenon, <1>1 DEF Enqueue, TypeSem
<1>4. /\ WaitInv' /\ CountInv'
      /\ waitQ' \in [Sem -> Queues(Proc)] /\ down' \in [Proc -> BOOLEAN]
      /\ psem' \in [Proc -> Sem \cup {NoSem}] /\ value' \in [Sem -> Int]
  BY Zenon, <1>1, <1>2, <1>3, EnqueueWait
<1>5. Fits(rdyQ', Runnable \ {cur}, prio') /\ prio' \in [Proc -> Prty]
  <2>1. CASE "PRTYINHERIT" \in flags[s]
    <3>1. MRT_inherit(prio[cur], carrier[s], QRemove(rdyQ, prio[cur], cur))
      BY Zenon, <2>1 DEF Enqueue
    <3>2. QED
      BY Zenon, <3>1, InheritReady
  <2>2. CASE "PRTYINHERIT" \notin flags[s]
    <3>1. rdyQ' = QRemove(rdyQ, prio[cur], cur) /\ prio' = prio
      BY Zenon, <2>2 DEF Enqueue
    <3>2. Runnable \in SUBSET Proc /\ prio \in [Proc -> Prty] /\ Fits(rdyQ, Runnable, prio)
      BY Zenon, <1>1 DEF Runnable, TypeSem, IInv, RdyInv
    <3>3. QED
      BY Zenon, <3>1, <3>2, FitsRemove
  <2>3. QED
    BY Zenon, <2>1, <2>2
<1>6. Runnable' = Runnable \ {cur}
  BY Zenon, <1>1, <1>2, <1>3 DEF Runnable, TypeSem
<1>7. RdyInv' /\ rdyQ' \in Queues(Proc)
  BY Zenon, <1>5, <1>6 DEF RdyInv, Fits
<1>8. value'[s] = value[s] - 1 /\ value[s] \in Int /\ \A x \in Sem : x # s => value'[x] = value[x]
  BY Zenon, <1>1, <1>3 DEF TypeSem
<1>9. MutexInv'
  <2>1. \A x \in Sem : carrier[x] # NoProc => value'[x] <= 0
    BY <1>8 DEF IInv, MutexInv
  <2>2. QED
    BY Zenon, <1>2, <2>1 DEF IInv, MutexInv, Mutex
<1>10. MutexBound'
  <2>1. \A x \in Sem : value'[x] <= 1 \/ value'[x] = value[x]
    BY <1>8
  <2>2. QED
    BY Zenon, <1>1, <1>2, <2>1 DEF MutexBound, Mutex
<1>11. /\ timer' \in [Proc -> {"idle", "active", "expired"}]
       /\ tprty' \in [Proc -> Prty] /\ tsem' \in [Proc -> Sem \cup {NoSem}]
       /\ \A p \in Proc : timer'[p] # "idle" => tsem'[p] \in Sem
  <2>1. CASE t = "TIMED"
    <3>1. /\ timer' = [timer EXCEPT ![cur] = "active"] /\ tprty' = [tprty EXCEPT ![cur] = prio[cur]]
          /\ tsem' = [tsem EXCEPT ![cur] = s]
      BY Zenon, <2>1 DEF Enqueue
    <3>2. QED
      BY Zenon, <1>1, <3>1 DEF TypeSem, IInv, ProcInv
  <2>2. CASE t # "TIMED"
    <3>1. UNCHANGED <<timer, tprty, tsem>>
      BY Zenon, <2>2 DEF Enqueue, timers
    <3>2. QED
      BY Zenon, <1>1, <3>1 DEF TypeSem, IInv, ProcInv
  <2>3. QED
    BY Zenon, <2>1, <2>2
<1>12. TypeSem'
  BY Zenon, <1>1, <1>2, <1>4, <1>5, <1>7, <1>11 DEF TypeSem
<1>13. \A p \in Proc : down'[p] => rt[p] /\ ~asleep[p]
  BY Zenon, <1>1, <1>3 DEF TypeSem, IInv, ProcInv
<1>14. QED
  BY Zenon, <1>4, <1>7, <1>9, <1>10, <1>11, <1>12, <1>13

LEMMA rtk_semdownStep ==
  ASSUME Basics, IInv, NEW s \in Sem, NEW t, rtk_semdown(s, t)
  PROVE  IInv'
<1>1. /\ User /\ cur # NoProc /\ s \notin holds[cur]
      /\ MRT_semdown(s, t) /\ cur' = MRT_pick_proc(rdyQ')
      /\ UNCHANGED <<rt, base, asleep, owner, flags, pc, flushed, procattr, semattr>>
  BY Zenon DEF rtk_semdown, procattr, semattr, control
<1>2. cur \in Proc /\ cur \in Runnable /\ pc = "user" /\ rt[cur] /\ flushed = 0
  BY Zenon, <1>1, RunningFacts DEF User
<1>3. \A p \in Proc : (down[p] => rt[p] /\ ~asleep[p]) /\ (timer[p] # "idle" => tsem[p] \in Sem)
  BY Zenon DEF IInv, ProcInv
<1>4. CASE Refused(s, t) \/ Fault("link") \/ Fault("null")
  <2>1. UNCHANGED <<prio, down, psem, waitQ, slockL, carrier, holds, timer, tprty, tsem, rdyQ, value>>
    BY Zenon, <1>4 DEF Refused, Fault, wait, locks, timers
  <2>2. fault' \in {fault, "link", "null"}
    BY Zenon, <1>4 DEF Refused, Fault
  <2>3. TypeSem' /\ MutexBound'
    BY Zenon, <1>1, <2>1, <2>2, TypeSplit DEF IInv, TypeSem, MutexBound, Mutex
  <2>4. Runnable' = Runnable /\ \A x \in Sem : Blocked(x)' = Blocked(x)
    BY Zenon, <1>1, <1>2, <2>1 DEF Runnable, Blocked
  <2>5. RdyInv' /\ WaitInv' /\ CountInv'
    BY Zenon, <1>1, <2>1, <2>4 DEF IInv, RdyInv, WaitInv, CountInv
  <2>6. MutexInv'
    BY Zenon, <1>1, <2>1 DEF IInv, MutexInv, Mutex
  <2>7. QED
    BY Zenon, <1>1, <1>2, <1>3, <2>1, <2>3, <2>5, <2>6, CallEnds
<1>5. CASE owner[s] # NoProc /\ Take(s)
  <2>1. TypeSem' /\ MutexBound' /\ WaitInv' /\ MutexInv' /\ CountInv'
    BY Zenon, <1>1, <1>2, <1>5, TakeStep
  <2>2. UNCHANGED <<prio, down, psem, waitQ, timer, tprty, tsem, rdyQ>>
    BY Zenon, <1>5 DEF Take, wait, timers
  <2>3. Runnable' = Runnable
    BY Zenon, <1>1, <1>2, <2>2 DEF Runnable
  <2>4. RdyInv'
    BY Zenon, <2>2, <2>3 DEF IInv, RdyInv
  <2>5. QED
    BY Zenon, <1>1, <1>2, <1>3, <2>1, <2>2, <2>4, CallEnds
<1>6. CASE owner[s] # NoProc /\ value[s] <= 0 /\ Enqueue(s, t)
  <2>1. /\ TypeSem' /\ MutexBound' /\ RdyInv' /\ WaitInv' /\ MutexInv' /\ CountInv'
        /\ \A p \in Proc : down'[p] => rt[p] /\ ~asleep[p]
        /\ \A p \in Proc : timer'[p] # "idle" => tsem'[p] \in Sem
    BY Zenon, <1>1, <1>2, <1>6, EnqueueStep
  <2>2. QED
    BY Zenon, <1>1, <1>2, <2>1, CallEnds
<1>7. QED
  BY Zenon, <1>1, <1>4, <1>5, <1>6 DEF MRT_semdown, Block
-----------------------------------------------------------------------------
LEMMA rtk_sleepStep ==
  ASSUME Basics, IInv, rtk_sleep
  PROVE  IInv'
<1>1. /\ User /\ cur # NoProc /\ asleep' = [asleep EXCEPT ![cur] = TRUE]
      /\ rdyQ' = QRemove(rdyQ, prio[cur], cur) /\ cur' = MRT_pick_proc(rdyQ')
      /\ UNCHANGED <<rt, base, prio, down, psem, waitQ, slockL, carrier, holds, timer, tprty, tsem>>
      /\ UNCHANGED <<owner, flags, value, pc, flushed, fault>>
  BY Zenon DEF rtk_sleep, wait, locks, timers, semattr, control
<1>2. cur \in Proc /\ cur \in Runnable /\ pc = "user" /\ rt[cur] /\ flushed = 0 /\ ~down[cur]
  BY Zenon, <1>1, RunningFacts DEF User, Runnable
<1>3. TypeSem /\ TypeRest /\ MutexBound
  BY Zenon, TypeSplit DEF IInv
<1>4. Runnable' = Runnable \ {cur}
  BY Zenon, <1>1, <1>2, <1>3 DEF Runnable, TypeRest
<1>5. Fits(rdyQ', Runnable \ {cur}, prio)
  <2>1. Runnable \in SUBSET Proc /\ prio \in [Proc -> Prty] /\ Fits(rdyQ, Runnable, prio)
    BY Zenon, <1>3 DEF Runnable, TypeSem, IInv, RdyInv
  <2>2. QED
    BY Zenon, <1>1, <1>2, <2>1, FitsRemove
<1>6. RdyInv' /\ rdyQ' \in Queues(Proc)
  BY Zenon, <1>1, <1>4, <1>5 DEF RdyInv, Fits
<1>7. TypeSem' /\ MutexBound'
  BY Zenon, <1>1, <1>3, <1>6 DEF TypeSem, MutexBound, Mutex
<1>8. \A x \in Sem : Blocked(x)' = Blocked(x)
  BY Zenon, <1>1 DEF Blocked
<1>9. WaitInv' /\ CountInv'
  BY Zenon, <1>1, <1>8 DEF IInv, WaitInv, CountInv
<1>10. MutexInv'
  BY Zenon, <1>1 DEF IInv, MutexInv, Mutex
<1>11. /\ cur' \in Proc \cup {NoProc}
       /\ cur' # NoProc => cur' \in Proc /\ rt'[cur'] /\ ~down'[cur'] /\ ~asleep'[cur']
  <2>1. prio' \in [Proc -> Prty] /\ pc' = "user"
    BY Zenon, <1>1, <1>2, <1>3 DEF TypeSem
  <2>2. QED
    BY Zenon, <1>1, <1>6, <2>1, PickedReady
<1>12. TypeRest'
  BY Zenon, <1>1, <1>3, <1>11 DEF TypeRest
<1>13. ProcInv'
  <2>1. \A p \in Proc : asleep'[p] => asleep[p] \/ p = cur
    BY Zenon, <1>1, <1>3 DEF TypeRest
  <2>2. QED
    BY Zenon, <1>1, <1>2, <1>11, <2>1 DEF IInv, ProcInv
<1>14. QED
  BY Zenon, <1>6, <1>7, <1>9, <1>10, <1>12, <1>13, TypeJoin DEF IInv

LEMMA rtk_wakeupStep ==
  ASSUME Basics, IInv, NEW p \in Proc, rtk_wakeup(p)
  PROVE  IInv'
<1>1. /\ User /\ rt[p] /\ MRT_vtimer_stop(p) /\ asleep' = [asleep EXCEPT ![p] = FALSE]
      /\ rdyQ' = (IF asleep[p] THEN QAppend(rdyQ, prio[p], p) ELSE rdyQ)
      /\ cur' = MRT_pick_proc(rdyQ')
      /\ UNCHANGED <<rt, base, prio, down, psem, waitQ, slockL, carrier, holds, tprty, tsem>>
      /\ UNCHANGED <<owner, flags, value, pc, flushed>>
  BY Zenon DEF rtk_wakeup, wait, locks, semattr, control
<1>2. pc = "user" /\ flushed = 0
  BY Zenon, <1>1 DEF User
<1>3. TypeSem /\ TypeRest /\ MutexBound
  BY Zenon, TypeSplit DEF IInv
<1>4. RdyInv'
  <2>1. Runnable \in SUBSET Proc /\ prio \in [Proc -> Prty] /\ Fits(rdyQ, Runnable, prio)
    BY Zenon, <1>3 DEF Runnable, TypeSem, IInv, RdyInv
  <2>2. CASE asleep[p]
    <3>1. ~down[p] /\ p \notin Runnable
      BY Zenon, <2>2 DEF IInv, ProcInv, Runnable
    <3>2. Runnable' = Runnable \cup {p}
      BY Zenon, <1>1, <1>2, <1>3, <3>1 DEF Runnable, TypeRest
    <3>3. Fits(rdyQ', Runnable \cup {p}, prio)
      BY Zenon, <1>1, <2>1, <2>2, <3>1, FitsAppend
    <3>4. QED
      BY Zenon, <1>1, <3>2, <3>3 DEF RdyInv
  <2>3. CASE ~asleep[p]
    <3>1. asleep' = asleep
      BY Zenon, <1>1, <1>3, <2>3 DEF TypeRest
    <3>2. Runnable' = Runnable
      BY Zenon, <1>1, <1>2, <3>1 DEF Runnable
    <3>3. QED
      BY Zenon, <1>1, <2>1, <2>3, <3>2 DEF RdyInv
  <2>4. QED
    BY Zenon, <2>2, <2>3
<1>5. rdyQ' \in Queues(Proc)
  BY Zenon, <1>4 DEF RdyInv, Fits
<1>6. /\ timer' \in [Proc -> {"idle", "active", "expired"}]
      /\ fault' \in {"none", "link", "lock", "null", "wild", "panic_up", "panic_rmv"}
      /\ \A q \in Proc : timer'[q] # "idle" => timer[q] # "idle"
  BY Zenon, <1>1, <1>3, StopFacts
<1>7. TypeSem' /\ MutexBound'
  BY Zenon, <1>1, <1>3, <1>5, <1>6 DEF TypeSem, MutexBound, Mutex
<1>8. \A x \in Sem : Blocked(x)' = Blocked(x)
  BY Zenon, <1>1 DEF Blocked
<1>9. WaitInv' /\ CountInv'
  BY Zenon, <1>1, <1>8 DEF IInv, WaitInv, CountInv
<1>10. MutexInv'
  BY Zenon, <1>1 DEF IInv, MutexInv, Mutex
<1>11. /\ cur' \in Proc \cup {NoProc}
       /\ cur' # NoProc => cur' \in Proc /\ rt'[cur'] /\ ~down'[cur'] /\ ~asleep'[cur']
  <2>1. prio' \in [Proc -> Prty] /\ pc' = "user"
    BY Zenon, <1>1, <1>2, <1>3 DEF TypeSem
  <2>2. QED
    BY Zenon, <1>1, <1>4, <2>1, PickedReady
<1>12. TypeRest'
  BY Zenon, <1>1, <1>3, <1>11 DEF TypeRest
<1>13. ProcInv'
  <2>1. \A q \in Proc : asleep'[q] => asleep[q]
    BY Zenon, <1>1, <1>3 DEF TypeRest
  <2>2. QED
    BY Zenon, <1>1, <1>2, <1>6, <1>11, <2>1 DEF IInv, ProcInv
<1>14. QED
  BY Zenon, <1>4, <1>7, <1>9, <1>10, <1>12, <1>13, TypeJoin DEF IInv

LEMMA ExpireStep ==
  ASSUME IInv, NEW p \in Proc, Expire(p)
  PROVE  IInv'
<1>1. /\ User /\ timer[p] = "active" /\ timer' = [timer EXCEPT ![p] = "expired"]
      /\ UNCHANGED <<rt, base, asleep, prio, down, psem, waitQ, slockL, carrier, holds, tprty, tsem>>
      /\ UNCHANGED <<rdyQ, cur, owner, flags, value, pc, flushed, fault>>
  BY Zenon DEF Expire, wait, locks, semattr, control, procattr
<1>2. TypeOK'
  BY Zenon, <1>1 DEF IInv, TypeOK, Mutex
<1>3. Runnable' = Runnable /\ \A x \in Sem : Blocked(x)' = Blocked(x)
  BY Zenon, <1>1 DEF Runnable, Blocked
<1>4. RdyInv' /\ WaitInv' /\ CountInv'
  BY Zenon, <1>1, <1>3 DEF IInv, RdyInv, WaitInv, CountInv
<1>5. MutexInv'
  BY Zenon, <1>1 DEF IInv, MutexInv, Mutex
<1>6. ProcInv'
  <2>1. \A q \in Proc : timer'[q] # "idle" => timer[q] # "idle"
    BY Zenon, <1>1 DEF IInv, TypeOK
  <2>2. QED
    BY Zenon, <1>1, <2>1 DEF IInv, ProcInv
<1>7. QED
  BY Zenon, <1>2, <1>4, <1>5, <1>6 DEF IInv

LEMMA MRT_act_downStep ==
  ASSUME Basics, IInv, NEW p \in Proc, MRT_act_down(p)
  PROVE  IInv'
<1>1. /\ pc = "user" /\ timer[p] = "expired" /\ timer' = [timer EXCEPT ![p] = "idle"]
      /\ UNCHANGED <<rt, base, asleep, prio, psem, slockL, carrier, holds, tprty, tsem>>
      /\ UNCHANGED <<cur, owner, flags, value, pc>>
  BY Zenon DEF MRT_act_down, Due, locks, semattr, procattr
<1>2. TypeSem /\ TypeRest /\ MutexBound /\ tsem[p] \in Sem
  BY Zenon, <1>1, TypeSplit DEF IInv, ProcInv
<1> DEFINE s == tsem[p]
<1>3. CASE Queued(s, p)
  <2>1. /\ waitQ' = [waitQ EXCEPT ![s] = QRemove(@, WaitPrty(s, p), p)]
        /\ down' = [down EXCEPT ![p] = FALSE] /\ rdyQ' = QAppend(rdyQ, prio[p], p)
        /\ flushed' = tprty[p] /\ fault' = fault
    BY Zenon, <1>3 DEF MRT_act_down
  <2> HIDE DEF s
  <2>2. waitQ' = [waitQ EXCEPT ![s] = QRemove(waitQ[s], WaitPrty(s, p), p)] /\ s \in Sem
    BY Zenon, <1>2, <2>1 DEF TypeSem, s
  <2>3. /\ p \in Blocked(s) /\ WaitInv' /\ CountInv'
        /\ waitQ' \in [Sem -> Queues(Proc)] /\ down' \in [Proc -> BOOLEAN]
    BY Zenon, <1>1, <1>3, <2>1, <2>2, WakeWait
  <2>4. down[p] /\ rt[p] /\ ~asleep[p] /\ p \notin Runnable
    BY Zenon, <2>3 DEF Blocked, IInv, ProcInv, Runnable
  <2>5. Runnable' = Runnable \cup {p}
    BY Zenon, <1>1, <1>2, <2>1, <2>4 DEF Runnable, TypeSem
  <2>6. Fits(rdyQ', Runnable \cup {p}, prio)
    <3>1. Runnable \in SUBSET Proc /\ prio \in [Proc -> Prty] /\ Fits(rdyQ, Runnable, prio)
      BY Zenon, <1>2 DEF Runnable, TypeSem, IInv, RdyInv
    <3>2. QED
      BY Zenon, <2>1, <2>4, <3>1, FitsAppend
  <2>7. RdyInv' /\ rdyQ' \in Queues(Proc)
    BY Zenon, <1>1, <2>5, <2>6 DEF RdyInv, Fits
  <2>8. TypeSem' /\ MutexBound'
    BY Zenon, <1>1, <1>2, <2>1, <2>3, <2>7 DEF TypeSem, MutexBound, Mutex
  <2>9. TypeRest'
    BY Zenon, <1>1, <1>2, <2>1 DEF TypeRest, TypeSem
  <2>10. MutexInv'
    BY Zenon, <1>1 DEF IInv, MutexInv, Mutex
  <2>11. \A q \in Proc : (down'[q] => down[q]) /\ (timer'[q] # "idle" => timer[q] # "idle")
    BY Zenon, <1>1, <1>2, <2>1 DEF TypeSem
  <2>12. cur \in Proc \cup {NoProc}
    BY Zenon, <1>2 DEF TypeRest
  <2>13. ProcInv'
    BY Zenon, <1>1, <2>11, <2>12 DEF IInv, ProcInv
  <2>14. QED
    BY Zenon, <2>3, <2>7, <2>8, <2>9, <2>10, <2>13, TypeJoin DEF IInv
<1>4. CASE ~Queued(s, p)
  <2>1. UNCHANGED <<waitQ, down, rdyQ, flushed>> /\ fault' \in {"panic_rmv", "link"}
    BY Zenon, <1>4 DEF MRT_act_down
  <2>2. TypeSem' /\ MutexBound'
    BY Zenon, <1>1, <1>2, <2>1 DEF TypeSem, MutexBound, Mutex
  <2>3. TypeRest'
    BY Zenon, <1>1, <1>2, <2>1 DEF TypeRest
  <2>4. Runnable' = Runnable /\ \A x \in Sem : Blocked(x)' = Blocked(x)
    BY Zenon, <1>1, <2>1 DEF Runnable, Blocked
  <2>5. RdyInv' /\ WaitInv' /\ CountInv'
    BY Zenon, <1>1, <2>1, <2>4 DEF IInv, RdyInv, WaitInv, CountInv
  <2>6. MutexInv'
    BY Zenon, <1>1 DEF IInv, MutexInv, Mutex
  <2>7. \A q \in Proc : timer'[q] # "idle" => timer[q] # "idle"
    BY Zenon, <1>1, <1>2 DEF TypeSem
  <2>8. ProcInv'
    BY Zenon, <1>1, <2>1, <2>7 DEF IInv, ProcInv
  <2>9. QED
    BY Zenon, <2>2, <2>3, <2>5, <2>6, <2>8, TypeJoin DEF IInv
<1>5. QED
  BY Zenon, <1>3, <1>4

LEMMA FlushSchedStep ==
  ASSUME Basics, IInv, FlushSched
  PROVE  IInv'
<1>1. /\ flushed # 0 /\ flushed' = 0 /\ cur' = MRT_pick_proc(rdyQ)
      /\ UNCHANGED <<rt, base, asleep, prio, down, psem, waitQ, slockL, carrier, holds>>
      /\ UNCHANGED <<timer, tprty, tsem, rdyQ, owner, flags, value, pc, fault>>
  BY Zenon DEF FlushSched, wait, locks, timers, semattr, procattr
<1>2. pc = "user" /\ TypeSem /\ TypeRest /\ MutexBound
  BY Zenon, <1>1, TypeSplit DEF IInv, ProcInv
<1>3. Runnable' = Runnable /\ \A x \in Sem : Blocked(x)' = Blocked(x)
  BY Zenon, <1>1, <1>2 DEF Runnable, Blocked
<1>4. RdyInv' /\ WaitInv' /\ CountInv'
  BY Zenon, <1>1, <1>3 DEF IInv, RdyInv, WaitInv, CountInv
<1>5. MutexInv'
  BY Zenon, <1>1 DEF IInv, MutexInv, Mutex
<1>6. /\ cur' \in Proc \cup {NoProc}
      /\ cur' # NoProc => cur' \in Proc /\ rt'[cur'] /\ ~down'[cur'] /\ ~asleep'[cur']
  <2>1. prio' \in [Proc -> Prty] /\ pc' = "user" /\ cur' = MRT_pick_proc(rdyQ')
    BY Zenon, <1>1, <1>2 DEF TypeSem
  <2>2. QED
    BY Zenon, <1>4, <2>1, PickedReady
<1>7. TypeSem' /\ MutexBound'
  BY Zenon, <1>1, <1>2 DEF TypeSem, MutexBound, Mutex
<1>8. TypeRest'
  BY Zenon, <1>1, <1>2, <1>6, Consts DEF TypeRest
<1>9. ProcInv'
  BY Zenon, <1>1, <1>2, <1>6 DEF IInv, ProcInv
<1>10. QED
  BY Zenon, <1>4, <1>5, <1>7, <1>8, <1>9, TypeJoin DEF IInv
-----------------------------------------------------------------------------
LEMMA MRT_set2nrtStep ==
  ASSUME IInv, MRT_set2nrt
  PROVE  IInv'
<1>1. /\ User /\ cur # NoProc /\ rdyQ' = QRemove(rdyQ, prio[cur], cur)
      /\ timer' = [timer EXCEPT ![cur] = "idle"] /\ fault' \in {"link", fault} /\ pc' = "unlock"
      /\ UNCHANGED <<rt, base, asleep, prio, down, psem, waitQ, slockL, carrier, holds>>
      /\ UNCHANGED <<tprty, tsem, cur, owner, flags, value, flushed>>
  BY Zenon DEF MRT_set2nrt, wait, locks, semattr, procattr
<1>2. cur \in Proc /\ cur \in Runnable /\ pc = "user" /\ flushed = 0
  BY Zenon, <1>1, RunningFacts DEF User
<1>3. TypeSem /\ TypeRest /\ MutexBound
  BY Zenon, TypeSplit DEF IInv
<1>4. Runnable' = Runnable \ {cur} /\ \A x \in Sem : Blocked(x)' = Blocked(x)
  BY Zenon, <1>1, <1>2 DEF Runnable, Blocked
<1>5. Fits(rdyQ', Runnable \ {cur}, prio)
  <2>1. Runnable \in SUBSET Proc /\ prio \in [Proc -> Prty] /\ Fits(rdyQ, Runnable, prio)
    BY Zenon, <1>3 DEF Runnable, TypeSem, IInv, RdyInv
  <2>2. QED
    BY Zenon, <1>1, <1>2, <2>1, FitsRemove
<1>6. RdyInv' /\ rdyQ' \in Queues(Proc)
  BY Zenon, <1>1, <1>4, <1>5 DEF RdyInv, Fits
<1>7. TypeSem' /\ MutexBound'
  BY Zenon, <1>1, <1>3, <1>6 DEF TypeSem, MutexBound, Mutex
<1>8. TypeRest'
  BY Zenon, <1>1, <1>3 DEF TypeRest
<1>9. WaitInv' /\ CountInv'
  BY Zenon, <1>1, <1>4 DEF IInv, WaitInv, CountInv
<1>10. MutexInv'
  BY Zenon, <1>1 DEF IInv, MutexInv, Mutex
<1>11. ProcInv'
  <2>1. \A q \in Proc : timer'[q] # "idle" => timer[q] # "idle"
    BY Zenon, <1>1, <1>3 DEF TypeSem
  <2>2. QED
    BY Zenon, <1>1, <1>2, <2>1 DEF IInv, ProcInv
<1>12. QED
  BY Zenon, <1>6, <1>7, <1>8, <1>9, <1>10, <1>11, TypeJoin DEF IInv

LEMMA MRT_sem_unlockStep ==
  ASSUME Basics, IInv, MRT_sem_unlock
  PROVE  IInv'
<1>1. /\ pc = "unlock"
      /\ UNCHANGED <<rt, base, asleep, cur, owner, flags, flushed, procattr, semattr>>
  BY Zenon DEF MRT_sem_unlock, semattr, procattr
<1>2. TypeSem /\ TypeRest /\ MutexBound
  BY Zenon, TypeSplit DEF IInv
<1>3. cur \in Proc /\ flushed = 0 /\ ~down[cur]
  BY Zenon, <1>1, <1>2 DEF IInv, ProcInv, TypeRest
<1>4. CASE /\ slockL[cur] # << >> /\ MRT_semup(Head(slockL[cur]))
           /\ UNCHANGED pc
  <2> DEFINE s == Head(slockL[cur])
  <2>1. s \in Members(slockL[cur]) /\ s \in Sem
    <3>1. slockL[cur] \in Seq(Sem)
      BY Zenon, <1>2, <1>3 DEF TypeSem
    <3>2. QED
      BY <1>4, <3>1, HeadMember
  <2>2. MRT_semup(s)
    BY Zenon, <1>4
  <2> HIDE DEF s
  <2>3. s \in holds[cur] /\ owner[s] # NoProc
    BY <1>3, <2>1, Consts DEF IInv, MutexInv
  <2>4. SemupKeeps
    BY Zenon, <1>1, <1>3, <2>1, <2>2, <2>3, SemupStep
  <2>5. Runnable' = RunnableBut(down')
    BY Zenon, <1>1, <1>4 DEF Runnable, RunnableBut
  <2>6. RdyInv'
    BY Zenon, <2>4, <2>5 DEF SemupKeeps, RdyInv
  <2>7. TypeRest'
    BY Zenon, <1>1, <1>2, <1>4 DEF TypeRest
  <2>8. ProcInv'
    BY Zenon, <1>1, <1>3, <1>4, <2>4 DEF IInv, ProcInv, SemupKeeps
  <2>9. QED
    BY Zenon, <2>4, <2>6, <2>7, <2>8, TypeJoin DEF IInv, SemupKeeps
<1>5. CASE /\ slockL[cur] = << >> /\ pc' = "empty"
           /\ UNCHANGED <<prio, wait, locks, timers, rdyQ, value, fault>>
  <2>1. UNCHANGED <<prio, down, psem, waitQ, slockL, carrier, holds, timer, tprty, tsem, rdyQ, value, fault>>
    BY Zenon, <1>5 DEF wait, locks, timers
  <2>2. TypeOK'
    BY Zenon, <1>1, <1>5, <2>1 DEF IInv, TypeOK, Mutex
  <2>3. Runnable' = Runnable /\ \A x \in Sem : Blocked(x)' = Blocked(x)
    BY Zenon, <1>1, <1>5, <2>1 DEF Runnable, Blocked
  <2>4. RdyInv' /\ WaitInv' /\ CountInv'
    BY Zenon, <1>1, <2>1, <2>3 DEF IInv, RdyInv, WaitInv, CountInv
  <2>5. MutexInv'
    BY Zenon, <1>1, <2>1 DEF IInv, MutexInv, Mutex
  <2>6. ProcInv'
    BY Zenon, <1>1, <1>5, <2>1 DEF IInv, ProcInv
  <2>7. QED
    BY Zenon, <2>2, <2>4, <2>5, <2>6 DEF IInv
<1>6. QED
  BY Zenon, <1>4, <1>5 DEF MRT_sem_unlock

LEMMA MRT_sem_emptyStep ==
  ASSUME Basics, IInv, NEW s \in Sem, MRT_sem_empty(s)
  PROVE  IInv'
<1>1. /\ pc = "empty" /\ ~QIsEmpty(waitQ[s])
      /\ UNCHANGED <<rt, base, asleep, cur, owner, flags, pc, flushed, procattr, semattr>>
  BY Zenon DEF MRT_sem_empty, semattr, procattr, control
<1>2. TypeSem /\ TypeRest /\ MutexBound
  BY Zenon, TypeSplit DEF IInv
<1>3. cur \in Proc /\ ~down[cur] /\ cur # NoProc
  BY Zenon, <1>1, <1>2 DEF IInv, ProcInv, TypeRest
<1> DEFINE w == QHighest(waitQ[s])
<1>4. w \in Proc
  <2>1. Blocked(s) \in SUBSET Proc /\ Has(waitQ[s], Blocked(s))
    BY Zenon DEF Blocked, IInv, WaitInv
  <2>2. QED
    BY Zenon, <1>1, <2>1, HasHighest
<1>5. CASE ~Queued(s, w) /\ Fault("link")
  <2>1. SemupKeeps
    BY Zenon, <1>1, <1>5, FaultKeeps
  <2>2. UNCHANGED <<down, slockL>>
    BY Zenon, <1>5 DEF Fault, wait, locks
  <2>3. Runnable' = RunnableBut(down')
    BY Zenon, <1>1 DEF Runnable, RunnableBut
  <2>4. RdyInv'
    BY Zenon, <2>1, <2>3 DEF SemupKeeps, RdyInv
  <2>5. TypeRest'
    BY Zenon, <1>1, <1>2 DEF TypeRest
  <2>6. ProcInv'
    BY Zenon, <1>1, <1>3, <2>1, <2>2 DEF IInv, ProcInv, SemupKeeps
  <2>7. QED
    BY Zenon, <2>1, <2>4, <2>5, <2>6, TypeJoin DEF IInv, SemupKeeps
<1>6. CASE /\ Queued(s, w)
           /\ waitQ' = [waitQ EXCEPT ![s] = QRemove(@, WaitPrty(s, w), w)]
           /\ MRT_vtimer_stop(w)
           /\ psem' = [psem EXCEPT ![w] = NoSem]
           /\ down' = [down EXCEPT ![w] = FALSE]
           /\ rdyQ' = QAppend(rdyQ, prio[w], w)
           /\ UNCHANGED <<prio, locks, tprty, tsem, value>>
  <2> HIDE DEF w
  <2>1. waitQ' = [waitQ EXCEPT ![s] = QRemove(waitQ[s], WaitPrty(s, w), w)]
    BY Zenon, <1>2, <1>6 DEF TypeSem
  <2>2. UNCHANGED <<prio, slockL, carrier, holds, tprty, tsem, value>>
    BY Zenon, <1>6 DEF locks
  <2>3. /\ w \in Blocked(s) /\ WaitInv' /\ CountInv'
        /\ waitQ' \in [Sem -> Queues(Proc)] /\ down' \in [Proc -> BOOLEAN]
        /\ psem' \in [Proc -> Sem \cup {NoSem}]
    BY Zenon, <1>1, <1>4, <1>6, <2>1, <2>2, WakeWait
  <2>4. down[w] /\ rt[w] /\ ~asleep[w] /\ w # cur /\ w \notin Runnable
    BY Zenon, <1>3, <1>4, <2>3 DEF Blocked, IInv, ProcInv, Runnable
  <2>5. Runnable' = Runnable \cup {w}
    BY <1>1, <1>2, <1>4, <1>6, <2>4 DEF Runnable, TypeSem
  <2>6. Fits(rdyQ', Runnable \cup {w}, prio)
    <3>1. Runnable \in SUBSET Proc /\ prio \in [Proc -> Prty] /\ Fits(rdyQ, Runnable, prio)
      BY Zenon, <1>2 DEF Runnable, TypeSem, IInv, RdyInv
    <3>2. QED
      BY Zenon, <1>4, <1>6, <2>4, <3>1, FitsAppend
  <2>7. RdyInv' /\ rdyQ' \in Queues(Proc)
    BY Zenon, <2>2, <2>5, <2>6 DEF RdyInv, Fits
  <2>8. /\ timer' \in [Proc -> {"idle", "active", "expired"}]
        /\ fault' \in {"none", "link", "lock", "null", "wild", "panic_up", "panic_rmv"}
        /\ \A q \in Proc : timer'[q] # "idle" => timer[q] # "idle"
    BY Zenon, <1>2, <1>4, <1>6, StopFacts
  <2>9. TypeSem' /\ MutexBound'
    BY Zenon, <1>1, <1>2, <2>2, <2>3, <2>7, <2>8 DEF TypeSem, MutexBound, Mutex
  <2>10. TypeRest'
    BY Zenon, <1>1, <1>2 DEF TypeRest
  <2>11. MutexInv'
    BY Zenon, <1>1, <2>2 DEF IInv, MutexInv, Mutex
  <2>12. \A q \in Proc : down'[q] => down[q]
    BY Zenon, <1>2, <1>6 DEF TypeSem
  <2>13. ProcInv'
    BY Zenon, <1>1, <1>3, <2>2, <2>8, <2>12 DEF IInv, ProcInv
  <2>14. QED
    BY Zenon, <2>3, <2>7, <2>9, <2>10, <2>11, <2>13, TypeJoin DEF IInv
<1>7. QED
  BY Zenon, <1>5, <1>6 DEF MRT_sem_empty

LEMMA LeftStep ==
  ASSUME Basics, IInv, Left
  PROVE  IInv'
<1>1. /\ pc = "empty" /\ rt' = [rt EXCEPT ![cur] = FALSE] /\ cur' = MRT_pick_proc(rdyQ)
      /\ pc' = "user"
      /\ UNCHANGED <<base, asleep, prio, down, psem, waitQ, slockL, carrier, holds>>
      /\ UNCHANGED <<timer, tprty, tsem, rdyQ, owner, flags, value, flushed, fault>>
  BY Zenon DEF Left, wait, locks, timers, semattr
<1>2. TypeSem /\ TypeRest /\ MutexBound
  BY Zenon, TypeSplit DEF IInv
<1>3. cur \in Proc /\ flushed = 0 /\ ~down[cur] /\ ~asleep[cur] /\ slockL[cur] = << >>
  BY Zenon, <1>1, <1>2 DEF IInv, ProcInv, TypeRest
<1>4. /\ rt' \in [Proc -> BOOLEAN] /\ ~rt'[cur]
      /\ \A p \in Proc : p # cur => rt'[p] = rt[p]
  BY Zenon, <1>1, <1>2, <1>3 DEF TypeRest
<1>5. Runnable' = Runnable /\ \A x \in Sem : Blocked(x)' = Blocked(x)
  BY Zenon, <1>1, <1>4 DEF Runnable, Blocked
<1>6. RdyInv' /\ WaitInv' /\ CountInv'
  BY Zenon, <1>1, <1>5 DEF IInv, RdyInv, WaitInv, CountInv
<1>7. MutexInv'
  <2>1. \A x \in Sem : carrier[x] # cur
    <3>1. Members(slockL[cur]) = {}
      BY <1>3 DEF Members
    <3>2. QED
      BY Zenon, <1>3, <3>1 DEF IInv, MutexInv
  <2>2. ASSUME NEW x \in Sem, carrier[x] # NoProc PROVE rt'[carrier[x]]
    <3>1. carrier[x] \in Proc /\ rt[carrier[x]]
      BY Zenon, <1>2, <2>2 DEF IInv, MutexInv, TypeSem
    <3>2. QED
      BY Zenon, <1>4, <2>1, <3>1
  <2>3. QED
    BY Zenon, <1>1, <2>2 DEF IInv, MutexInv, Mutex
<1>8. /\ cur' \in Proc \cup {NoProc}
      /\ cur' # NoProc => cur' \in Proc /\ rt'[cur'] /\ ~down'[cur'] /\ ~asleep'[cur']
  <2>1. prio' \in [Proc -> Prty] /\ pc' = "user" /\ cur' = MRT_pick_proc(rdyQ')
    BY Zenon, <1>1, <1>2 DEF TypeSem
  <2>2. QED
    BY Zenon, <1>6, <2>1, PickedReady
<1>9. TypeSem' /\ MutexBound'
  BY Zenon, <1>1, <1>2 DEF TypeSem, MutexBound, Mutex
<1>10. TypeRest'
  BY Zenon, <1>1, <1>2, <1>4, <1>8 DEF TypeRest
<1>11. ProcInv'
  BY Zenon, <1>1, <1>3, <1>4, <1>8 DEF IInv, ProcInv
<1>12. QED
  BY Zenon, <1>6, <1>7, <1>9, <1>10, <1>11, TypeJoin DEF IInv
-----------------------------------------------------------------------------
(* MINIX processes run, so no real-time process does.                      *)
LEMMA MRT_setpattrStep ==
  ASSUME IInv, NEW p \in Proc, NEW b \in BasePrty, MRT_setpattr(p, b)
  PROVE  IInv'
<1>1. /\ User /\ cur = NoProc /\ ~rt[p]
      /\ base' = [base EXCEPT ![p] = b] /\ prio' = [prio EXCEPT ![p] = b]
      /\ UNCHANGED <<rt, asleep, down, psem, waitQ, slockL, carrier, holds, timer, tprty, tsem>>
      /\ UNCHANGED <<rdyQ, cur, owner, flags, value, pc, flushed, fault>>
  BY Zenon DEF MRT_setpattr, Minix, wait, locks, timers, semattr, control
<1>2. TypeSem /\ TypeRest /\ MutexBound
  BY Zenon, TypeSplit DEF IInv
<1>3. b \in Prty
  BY Zenon, SemAssumption
<1>4. prio' \in [Proc -> Prty] /\ base' \in [Proc -> Prty] /\ \A x \in Proc : x # p => prio'[x] = prio[x]
  BY Zenon, <1>1, <1>2, <1>3 DEF TypeSem, TypeRest
<1>5. Runnable' = Runnable /\ p \notin Runnable /\ \A x \in Sem : Blocked(x)' = Blocked(x)
  BY Zenon, <1>1 DEF Runnable, Blocked
<1>6. Fits(rdyQ, Runnable, prio')
  <2>1. Fits(rdyQ, Runnable, prio) /\ \A x \in Runnable : prio'[x] = prio[x]
    BY Zenon, <1>4, <1>5 DEF IInv, RdyInv, Runnable
  <2>2. QED
    BY Zenon, <2>1, FitsOther
<1>7. RdyInv'
  BY Zenon, <1>1, <1>5, <1>6 DEF RdyInv
<1>8. WaitInv' /\ CountInv'
  BY Zenon, <1>1, <1>5 DEF IInv, WaitInv, CountInv
<1>9. MutexInv'
  BY Zenon, <1>1 DEF IInv, MutexInv, Mutex
<1>10. TypeSem' /\ MutexBound' /\ TypeRest'
  BY Zenon, <1>1, <1>2, <1>4 DEF TypeSem, MutexBound, Mutex, TypeRest
<1>11. ProcInv'
  BY Zenon, <1>1 DEF IInv, ProcInv
<1>12. QED
  BY Zenon, <1>7, <1>8, <1>9, <1>10, <1>11, TypeJoin DEF IInv

LEMMA rtk_set2rtStep ==
  ASSUME Basics, IInv, NEW p \in Proc, rtk_set2rt(p)
  PROVE  IInv'
<1>1. /\ User /\ ~rt[p] /\ rt' = [rt EXCEPT ![p] = TRUE]
      /\ rdyQ' = QAppend(rdyQ, prio[p], p) /\ cur' = MRT_pick_proc(rdyQ')
      /\ UNCHANGED <<base, asleep, prio, down, psem, waitQ, slockL, carrier, holds>>
      /\ UNCHANGED <<timer, tprty, tsem, owner, flags, value, pc, flushed, fault>>
  BY Zenon DEF rtk_set2rt, Minix, wait, locks, timers, semattr, control
<1>2. TypeSem /\ TypeRest /\ MutexBound /\ pc = "user" /\ flushed = 0
  BY Zenon, <1>1, TypeSplit DEF IInv, User
<1>3. ~down[p] /\ ~asleep[p] /\ p \notin Runnable
  BY Zenon, <1>1 DEF IInv, ProcInv, Runnable
<1>4. rt' \in [Proc -> BOOLEAN] /\ rt'[p] /\ \A x \in Proc : x # p => rt'[x] = rt[x]
  BY Zenon, <1>1, <1>2 DEF TypeRest
<1>5. Runnable' = Runnable \cup {p} /\ \A x \in Sem : Blocked(x)' = Blocked(x)
  BY Zenon, <1>1, <1>2, <1>3, <1>4 DEF Runnable, Blocked
<1>6. Fits(rdyQ', Runnable \cup {p}, prio)
  <2>1. Runnable \in SUBSET Proc /\ prio \in [Proc -> Prty] /\ Fits(rdyQ, Runnable, prio)
    BY Zenon, <1>2 DEF Runnable, TypeSem, IInv, RdyInv
  <2>2. QED
    BY Zenon, <1>1, <1>3, <2>1, FitsAppend
<1>7. RdyInv' /\ rdyQ' \in Queues(Proc)
  BY Zenon, <1>1, <1>5, <1>6 DEF RdyInv, Fits
<1>8. WaitInv' /\ CountInv'
  BY Zenon, <1>1, <1>5 DEF IInv, WaitInv, CountInv
<1>9. MutexInv'
  <2>1. ASSUME NEW x \in Sem, carrier[x] # NoProc PROVE rt'[carrier[x]]
    <3>1. carrier[x] \in Proc /\ rt[carrier[x]]
      BY Zenon, <1>2, <2>1 DEF IInv, MutexInv, TypeSem
    <3>2. QED
      BY Zenon, <1>4, <3>1
  <2>2. QED
    BY Zenon, <1>1, <2>1 DEF IInv, MutexInv, Mutex
<1>10. /\ cur' \in Proc \cup {NoProc}
       /\ cur' # NoProc => cur' \in Proc /\ rt'[cur'] /\ ~down'[cur'] /\ ~asleep'[cur']
  <2>1. prio' \in [Proc -> Prty] /\ pc' = "user"
    BY Zenon, <1>1, <1>2 DEF TypeSem
  <2>2. QED
    BY Zenon, <1>1, <1>7, <2>1, PickedReady
<1>11. TypeSem' /\ MutexBound'
  BY Zenon, <1>1, <1>2, <1>7 DEF TypeSem, MutexBound, Mutex
<1>12. TypeRest'
  BY Zenon, <1>1, <1>2, <1>4, <1>10 DEF TypeRest
<1>13. ProcInv'
  BY Zenon, <1>1, <1>2, <1>4, <1>10 DEF IInv, ProcInv
<1>14. QED
  BY Zenon, <1>7, <1>8, <1>9, <1>11, <1>12, <1>13, TypeJoin DEF IInv

LEMMA MRT_semallocStep ==
  ASSUME IInv, NEW p \in Proc, NEW s \in Sem, NEW a \in SemAttrs, MRT_semalloc(p, s, a)
  PROVE  IInv'
<1>1. /\ cur = NoProc /\ owner[s] = NoProc /\ Acceptable(a)
      /\ owner' = [owner EXCEPT ![s] = p] /\ flags' = [flags EXCEPT ![s] = a.flags]
      /\ value' = [value EXCEPT ![s] = a.value]
      /\ UNCHANGED <<rt, base, asleep, prio, down, psem, waitQ, slockL, carrier, holds, timer, tprty, tsem>>
      /\ UNCHANGED <<rdyQ, cur, pc, flushed, fault>>
  BY Zenon DEF MRT_semalloc, Minix, procattr, wait, locks, timers, control
<1>2. TypeSem /\ TypeRest /\ MutexBound
  BY Zenon, TypeSplit DEF IInv
<1>3. a.flags \in SUBSET {"PRTYORDER", "PRTYINHERIT", "MUTEX"} /\ a.value \in Nat
  <2>1. a \in [flags : SUBSET {"PRTYORDER", "PRTYINHERIT", "MUTEX"}, value : Nat]
    BY Zenon, SemAssumption
  <2>2. QED
    BY Zenon, <2>1
<1>4. Blocked(s) = {} /\ carrier[s] = NoProc
  BY Zenon, <1>1 DEF IInv, WaitInv, MutexInv
<1>5. /\ owner' \in [Sem -> Proc \cup {NoProc}] /\ value' \in [Sem -> Int]
      /\ flags' \in [Sem -> SUBSET {"PRTYORDER", "PRTYINHERIT", "MUTEX"}]
      /\ owner'[s] = p /\ value'[s] = a.value /\ flags'[s] = a.flags
      /\ \A x \in Sem : x # s => owner'[x] = owner[x] /\ value'[x] = value[x] /\ flags'[x] = flags[x]
  BY <1>1, <1>2, <1>3 DEF TypeSem, TypeRest
<1>6. Runnable' = Runnable /\ \A x \in Sem : Blocked(x)' = Blocked(x)
  BY Zenon, <1>1 DEF Runnable, Blocked
<1>7. RdyInv'
  BY Zenon, <1>1, <1>6 DEF IInv, RdyInv
<1>8. WaitInv'
  BY <1>1, <1>4, <1>5, <1>6 DEF IInv, WaitInv
<1>9. CountInv'
  BY Zenon, <1>4, <1>5, <1>6 DEF IInv, CountInv
<1>10. MutexInv'
  BY <1>1, <1>4, <1>5 DEF IInv, MutexInv, Mutex
<1>11. MutexBound'
  BY Zenon, <1>1, <1>2, <1>5 DEF MutexBound, Mutex, Acceptable
<1>12. TypeSem' /\ TypeRest'
  BY Zenon, <1>1, <1>2, <1>5 DEF TypeSem, TypeRest
<1>13. ProcInv'
  BY Zenon, <1>1 DEF IInv, ProcInv
<1>14. QED
  BY Zenon, <1>7, <1>8, <1>9, <1>10, <1>11, <1>12, <1>13, TypeJoin DEF IInv

LEMMA MRT_semfreeStep ==
  ASSUME IInv, NEW p \in Proc, NEW s \in Sem, MRT_semfree(p, s)
  PROVE  IInv'
<1>1. /\ cur = NoProc /\ Waiters(s) = {} /\ (\A q \in Proc : s \notin holds[q])
      /\ owner' = [owner EXCEPT ![s] = NoProc] /\ flags' = [flags EXCEPT ![s] = {}]
      /\ value' = [value EXCEPT ![s] = 0] /\ carrier' = [carrier EXCEPT ![s] = NoProc]
      /\ UNCHANGED <<rt, base, asleep, prio, down, psem, waitQ, slockL, holds, timer, tprty, tsem>>
      /\ UNCHANGED <<rdyQ, cur, pc, flushed, fault>>
  BY Zenon DEF MRT_semfree, Minix, procattr, wait, timers, control
<1>2. TypeSem /\ TypeRest /\ MutexBound
  BY Zenon, TypeSplit DEF IInv
<1>3. Blocked(s) = {}
  BY Zenon, <1>1, WaitersBlocked DEF IInv
<1>4. carrier[s] = NoProc
  BY Zenon, <1>1, <1>2 DEF IInv, MutexInv, TypeSem
<1>5. carrier' = carrier
  BY Zenon, <1>1, <1>2, <1>4 DEF TypeSem
<1>6. /\ owner' \in [Sem -> Proc \cup {NoProc}] /\ value' \in [Sem -> Int]
      /\ flags' \in [Sem -> SUBSET {"PRTYORDER", "PRTYINHERIT", "MUTEX"}]
      /\ value'[s] = 0 /\ flags'[s] = {}
      /\ \A x \in Sem : x # s => owner'[x] = owner[x] /\ value'[x] = value[x] /\ flags'[x] = flags[x]
  BY <1>1, <1>2 DEF TypeSem, TypeRest
<1>7. Runnable' = Runnable /\ \A x \in Sem : Blocked(x)' = Blocked(x)
  BY Zenon, <1>1 DEF Runnable, Blocked
<1>8. RdyInv'
  BY Zenon, <1>1, <1>7 DEF IInv, RdyInv
<1>9. WaitInv'
  <2>1. \A x \in Sem : Has(waitQ'[x], Blocked(x)')
    BY Zenon, <1>1, <1>7 DEF IInv, WaitInv
  <2>2. \A x \in Sem : owner'[x] = NoProc => Blocked(x)' = {}
    BY Zenon, <1>3, <1>6, <1>7 DEF IInv, WaitInv
  <2>3. QED
    BY Zenon, <1>1, <2>1, <2>2 DEF IInv, WaitInv
<1>10. CountInv'
  BY Zenon, <1>3, <1>6, <1>7 DEF IInv, CountInv
<1>11. MutexInv'
  BY <1>1, <1>4, <1>5, <1>6 DEF IInv, MutexInv, Mutex
<1>12. MutexBound'
  BY Zenon, <1>2, <1>6 DEF MutexBound, Mutex
<1>13. TypeSem' /\ TypeRest'
  BY Zenon, <1>1, <1>2, <1>5, <1>6 DEF TypeSem, TypeRest
<1>14. ProcInv'
  BY Zenon, <1>1 DEF IInv, ProcInv
<1>15. QED
  BY Zenon, <1>8, <1>9, <1>10, <1>11, <1>12, <1>13, <1>14, TypeJoin DEF IInv

LEMMA StutterHolds ==
  ASSUME IInv, UNCHANGED vars
  PROVE  IInv'
<1>1. /\ UNCHANGED <<rt, base, asleep, prio, down, psem, waitQ, slockL, carrier, holds, timer, tprty, tsem>>
      /\ UNCHANGED <<rdyQ, cur, owner, flags, value, pc, flushed, fault>>
  BY Zenon DEF vars, procattr, wait, locks, timers, semattr, control
<1>2. TypeOK'
  BY Zenon, <1>1 DEF IInv, TypeOK, Mutex
<1>3. Runnable' = Runnable /\ \A x \in Sem : Blocked(x)' = Blocked(x)
  BY Zenon, <1>1 DEF Runnable, Blocked
<1>4. RdyInv' /\ WaitInv' /\ CountInv'
  BY Zenon, <1>1, <1>3 DEF IInv, RdyInv, WaitInv, CountInv
<1>5. MutexInv' /\ ProcInv'
  BY Zenon, <1>1 DEF IInv, MutexInv, Mutex, ProcInv
<1>6. QED
  BY Zenon, <1>2, <1>4, <1>5 DEF IInv

LEMMA NextHolds ==
  ASSUME Basics, IInv, [Next]_vars
  PROVE  IInv'
<1>1. ASSUME NEW s \in Sem, rtk_semup(s) PROVE IInv'
  BY Zenon, <1>1, rtk_semupStep
<1>2. ASSUME NEW s \in Sem, MRT_sem_empty(s) PROVE IInv'
  BY Zenon, <1>2, MRT_sem_emptyStep
<1>3. ASSUME NEW s \in Sem, NEW t \in Timeouts, rtk_semdown(s, t) PROVE IInv'
  BY Zenon, <1>3, rtk_semdownStep
<1>4. ASSUME NEW p \in Proc, Expire(p) \/ MRT_act_down(p) \/ rtk_set2rt(p) \/ rtk_wakeup(p) PROVE IInv'
  BY Zenon, <1>4, ExpireStep, MRT_act_downStep, rtk_set2rtStep, rtk_wakeupStep
<1>5. ASSUME NEW p \in Proc, NEW b \in BasePrty, MRT_setpattr(p, b) PROVE IInv'
  BY Zenon, <1>5, MRT_setpattrStep
<1>6. ASSUME NEW p \in Proc, NEW s \in Sem, MRT_semfree(p, s) PROVE IInv'
  BY Zenon, <1>6, MRT_semfreeStep
<1>7. ASSUME NEW p \in Proc, NEW s \in Sem, NEW a \in SemAttrs, MRT_semalloc(p, s, a) PROVE IInv'
  BY Zenon, <1>7, MRT_semallocStep
<1>8. ASSUME rtk_sleep \/ FlushSched \/ MRT_set2nrt \/ MRT_sem_unlock \/ Left PROVE IInv'
  BY Zenon, <1>8, rtk_sleepStep, FlushSchedStep, MRT_set2nrtStep, MRT_sem_unlockStep, LeftStep
<1>9. ASSUME Halted \/ UNCHANGED vars PROVE IInv'
  BY Zenon, <1>9, StutterHolds DEF Halted
<1>10. QED
  BY Zenon, <1>1, <1>2, <1>3, <1>4, <1>5, <1>6, <1>7, <1>8, <1>9 DEF Next

(* No step takes a process below its base priority.                        *)
LEMMA BaseStep ==
  ASSUME Basics, IInv, NeverBelowBase, [Next]_vars
  PROVE  NeverBelowBase'
<1>1. prio \in [Proc -> Prty] /\ base \in [Proc -> Prty] /\ Prty \subseteq Nat
  BY Zenon, Consts DEF IInv, TypeOK
<1>2. ASSUME UNCHANGED <<prio, base>> PROVE NeverBelowBase'
  BY Zenon, <1>2 DEF NeverBelowBase
<1>3. ASSUME NEW s \in Sem, MRT_semup(s), cur \in Proc, UNCHANGED base PROVE NeverBelowBase'
  <2>1. CASE UNCHANGED prio
    BY Zenon, <1>2, <1>3, <2>1
  <2>2. ASSUME NEW w, Pass(s, w) PROVE NeverBelowBase'
    <3>1. PICK r \in SemPrty(s) : MRT_disinherit(r, w)
      BY Zenon, <2>2 DEF Pass
    <3>2. r \in Prty
      BY Zenon, <1>3, <3>1, SemPrtyType
    <3>3. Min2(r, base[cur]) <= base[cur]
      <4>1. r \in Nat /\ base[cur] \in Nat
        BY Zenon, <1>1, <1>3, <3>2
      <4>2. QED
        BY <4>1 DEF Min2
    <3>4. prio' = prio \/ prio' = [prio EXCEPT ![cur] = Min2(r, base[cur])]
      BY Zenon, <3>1 DEF MRT_disinherit
    <3>5. QED
      BY Zenon, <1>1, <1>3, <3>3, <3>4 DEF NeverBelowBase
  <2>3. QED
    BY Zenon, <1>3, <2>1, <2>2 DEF MRT_semup, HandOver, Unlock, Raise, Fault
<1>4. ASSUME NEW s \in Sem, rtk_semup(s) PROVE NeverBelowBase'
  <2>1. User /\ cur # NoProc
    BY Zenon, <1>4 DEF rtk_semup
  <2>2. cur \in Proc
    BY Zenon, <2>1, RunningFacts
  <2>3. QED
    BY Zenon, <1>3, <1>4, <2>2 DEF rtk_semup, procattr
<1>5. ASSUME NEW s \in Sem, NEW m \in Timeouts, rtk_semdown(s, m) PROVE NeverBelowBase'
  <2>1. UNCHANGED base /\ User /\ cur # NoProc
    BY Zenon, <1>5 DEF rtk_semdown, procattr
  <2>2. cur \in Proc
    BY Zenon, <2>1, RunningFacts
  <2>3. UNCHANGED prio \/ MRT_inherit(prio[cur], carrier[s], QRemove(rdyQ, prio[cur], cur))
    BY Zenon, <1>5 DEF rtk_semdown, MRT_semdown, Refused, Take, Block, Enqueue, Fault
  <2>4. \A p \in Proc : prio'[p] = prio[p] \/ (prio'[p] = prio[cur] /\ prio[cur] < prio[p])
    BY Zenon, <2>3 DEF MRT_inherit, Raised
  <2>5. \A p \in Proc : prio[p] \in Nat /\ base[p] \in Nat
    BY Zenon, <1>1
  <2>6. QED
    BY <2>1, <2>2, <2>4, <2>5 DEF NeverBelowBase
<1>6. CASE MRT_sem_unlock
  <2>1. cur \in Proc /\ UNCHANGED base
    BY Zenon, <1>6 DEF MRT_sem_unlock, IInv, ProcInv, TypeOK, procattr
  <2>2. slockL[cur] \in Seq(Sem)
    BY Zenon, <2>1 DEF IInv, TypeOK
  <2>3. CASE slockL[cur] # << >> /\ MRT_semup(Head(slockL[cur]))
    <3>1. Head(slockL[cur]) \in Sem
      BY <2>2, <2>3
    <3>2. QED
      BY Zenon, <1>3, <2>1, <2>3, <3>1
  <2>4. QED
    BY Zenon, <1>2, <1>6, <2>1, <2>3 DEF MRT_sem_unlock
<1>7. ASSUME NEW p \in Proc, NEW b \in BasePrty, MRT_setpattr(p, b) PROVE NeverBelowBase'
  <2>1. b \in Nat
    BY Zenon, <1>1, SemAssumption
  <2>2. QED
    BY <1>1, <1>7, <2>1 DEF NeverBelowBase, MRT_setpattr
<1>8. ASSUME NEW s \in Sem, MRT_sem_empty(s) PROVE NeverBelowBase'
  BY Zenon, <1>2, <1>8 DEF MRT_sem_empty, Fault, procattr
<1>9. ASSUME NEW p \in Proc, NEW s \in Sem, MRT_semfree(p, s) \/ \E a \in SemAttrs : MRT_semalloc(p, s, a)
      PROVE  NeverBelowBase'
  BY Zenon, <1>2, <1>9 DEF MRT_semfree, MRT_semalloc, procattr
<1>10. ASSUME NEW p \in Proc, Expire(p) \/ MRT_act_down(p) \/ rtk_set2rt(p) \/ rtk_wakeup(p)
       PROVE  NeverBelowBase'
  BY Zenon, <1>2, <1>10 DEF Expire, MRT_act_down, rtk_set2rt, rtk_wakeup, procattr
<1>11. CASE rtk_sleep \/ FlushSched \/ MRT_set2nrt \/ Left
  BY Zenon, <1>2, <1>11 DEF rtk_sleep, FlushSched, MRT_set2nrt, Left, procattr
<1>12. CASE Halted \/ UNCHANGED vars
  BY Zenon, <1>2, <1>12 DEF Halted, vars, procattr
<1>13. QED
  BY Zenon, <1>4, <1>5, <1>6, <1>7, <1>8, <1>9, <1>10, <1>11, <1>12 DEF Next
=============================================================================
