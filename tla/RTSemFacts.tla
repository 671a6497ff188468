---------------------------- MODULE RTSemFacts -----------------------------
(***************************************************************************)
(* Facts about the operators of the real-time semaphores and the invariant *)
(* that their proofs rest on, for any processes, semaphores, priorities and *)
(* attributes.                                                             *)
(***************************************************************************)
EXTENDS MCRTSem, PrtyQueueProofs

(* What the lemmas use of the natural numbers and of finite sets.  It is   *)
(* proved in RTSemProofs, after the steps, whose proofs get by without the *)
(* theories it comes from.                                                 *)
Basics ==
  /\ WellOrdered
  /\ \A S \in SUBSET Proc :
       /\ Cardinality(S) \in Nat /\ (Cardinality(S) = 0 <=> S = {})
       /\ \A p \in Proc \ S : Cardinality(S \cup {p}) = Cardinality(S) + 1
       /\ \A p \in S : Cardinality(S \ {p}) = Cardinality(S) - 1
  /\ \A l \in Seq(Proc) : Once(l) => Len(l) <= Cardinality(Proc)

-----------------------------------------------------------------------------
(* A queue q has exactly the processes of R, each once, in the list pl[p]. *)
Fits(q, R, pl) ==
  /\ q \in Queues(Proc) /\ QOnce(q)
  /\ \A r \in Prty, p \in Proc : p \in QMembers(q, r) <=> p \in R /\ r = pl[p]

(* The same, in whatever list.                                             *)
Has(q, R) ==
  /\ q \in Queues(Proc) /\ QOnce(q)
  /\ \A p \in Proc : p \in R <=> \E r \in Prty : p \in QMembers(q, r)
  /\ \A r, t \in Prty, p \in Proc : p \in QMembers(q, r) /\ p \in QMembers(q, t) => r = t

-----------------------------------------------------------------------------
(* How the ready queue and the set of ready processes change together.     *)
LEMMA FitsAppend ==
  ASSUME NEW q, NEW R \in SUBSET Proc, NEW pl \in [Proc -> Prty], Fits(q, R, pl),
         NEW x \in Proc, x \notin R
  PROVE  Fits(QAppend(q, pl[x], x), R \cup {x}, pl)
<1>1. q \in Queues(Proc) /\ QOnce(q) /\ pl[x] \in Prty
  BY Zenon DEF Fits
<1>2. \A r \in Prty : x \notin QMembers(q, r)
  BY Zenon DEF Fits
<1>3. /\ QAppend(q, pl[x], x) \in Queues(Proc) /\ QOnce(QAppend(q, pl[x], x))
      /\ QMembers(QAppend(q, pl[x], x), pl[x]) = QMembers(q, pl[x]) \cup {x}
      /\ \A t \in Prty : t # pl[x] => QMembers(QAppend(q, pl[x], x), t) = QMembers(q, t)
  BY <1>1, <1>2, QAppendFacts
<1>4. QED
  BY Zenon, <1>2, <1>3 DEF Fits

LEMMA FitsPrepend ==
  ASSUME NEW q, NEW R \in SUBSET Proc, NEW pl \in [Proc -> Prty], Fits(q, R, pl),
         NEW x \in Proc, x \notin R
  PROVE  Fits(QPrepend(q, pl[x], x), R \cup {x}, pl)
<1>1. q \in Queues(Proc) /\ QOnce(q) /\ pl[x] \in Prty
  BY Zenon DEF Fits
<1>2. \A r \in Prty : x \notin QMembers(q, r)
  BY Zenon DEF Fits
<1>3. /\ QPrepend(q, pl[x], x) \in Queues(Proc) /\ QOnce(QPrepend(q, pl[x], x))
      /\ QMembers(QPrepend(q, pl[x], x), pl[x]) = QMembers(q, pl[x]) \cup {x}
      /\ \A t \in Prty : t # pl[x] => QMembers(QPrepend(q, pl[x], x), t) = QMembers(q, t)
  BY <1>1, <1>2, QPrependFacts
<1>4. QED
  BY Zenon, <1>2, <1>3 DEF Fits

LEMMA FitsRemove ==
  ASSUME NEW q, NEW R \in SUBSET Proc, NEW pl \in [Proc -> Prty], Fits(q, R, pl), NEW x \in R
  PROVE  Fits(QRemove(q, pl[x], x), R \ {x}, pl)
<1>1. q \in Queues(Proc) /\ QOnce(q) /\ pl[x] \in Prty /\ x \in QMembers(q, pl[x])
  BY Zenon DEF Fits
<1>2. /\ QRemove(q, pl[x], x) \in Queues(Proc) /\ QOnce(QRemove(q, pl[x], x))
      /\ QMembers(QRemove(q, pl[x], x), pl[x]) = QMembers(q, pl[x]) \ {x}
      /\ \A t \in Prty : t # pl[x] => QMembers(QRemove(q, pl[x], x), t) = QMembers(q, t)
  BY <1>1, QRemoveFacts
<1>3. QED
  BY Zenon, <1>2 DEF Fits

(* The places of processes that are not in the queue do not matter.        *)
LEMMA FitsOther ==
  ASSUME NEW q, NEW R, NEW pl, NEW pl2, Fits(q, R, pl), \A x \in R : pl2[x] = pl[x]
  PROVE  Fits(q, R, pl2)
BY Zenon DEF Fits

(* MRT_pick_proc picks a ready process, and one of the highest priority.   *)
LEMMA PickFacts ==
  ASSUME Basics, NEW q, NEW R \in SUBSET Proc, NEW pl \in [Proc -> Prty], Fits(q, R, pl)
  PROVE  /\ MRT_pick_proc(q) = NoProc \/ MRT_pick_proc(q) \in R
         /\ MRT_pick_proc(q) \in Proc \cup {NoProc}
         /\ QIsEmpty(q) <=> R = {}
<1>1. q \in Queues(Proc)
  BY Zenon DEF Fits
<1>2. CASE QIsEmpty(q)
  <2>1. \A r \in Prty : QMembers(q, r) = {}
    BY Zenon, <1>1, <1>2, QIsEmptyFacts
  <2>2. R = {}
    BY Zenon, <2>1 DEF Fits
  <2>3. QED
    BY Zenon, <1>2, <2>2 DEF MRT_pick_proc
<1>3. CASE ~QIsEmpty(q)
  <2>1. QTop(q) \in Prty /\ QHighest(q) \in QMembers(q, QTop(q)) /\ QHighest(q) \in Proc
    BY Zenon, <1>1, <1>3, QHighestFacts DEF Basics
  <2>2. QHighest(q) \in R
    BY Zenon, <2>1 DEF Fits
  <2>3. QED
    BY Zenon, <1>3, <2>1, <2>2 DEF MRT_pick_proc
<1>4. QED
  BY Zenon, <1>2, <1>3

(* How the queue of a semaphore and the set of its waiting processes do.   *)
LEMMA HasAppend ==
  ASSUME NEW q, NEW R \in SUBSET Proc, Has(q, R), NEW r \in Prty, NEW x \in Proc, x \notin R
  PROVE  Has(QAppend(q, r, x), R \cup {x})
<1>1. q \in Queues(Proc) /\ QOnce(q)
  BY Zenon DEF Has
<1>2. \A t \in Prty : x \notin QMembers(q, t)
  BY Zenon DEF Has
<1>3. /\ QAppend(q, r, x) \in Queues(Proc) /\ QOnce(QAppend(q, r, x))
      /\ QMembers(QAppend(q, r, x), r) = QMembers(q, r) \cup {x}
      /\ \A t \in Prty : t # r => QMembers(QAppend(q, r, x), t) = QMembers(q, t)
  BY <1>1, <1>2, QAppendFacts
<1> DEFINE n == QAppend(q, r, x)
<1>4. \A t \in Prty, y \in Proc : y \in QMembers(n, t) <=> y \in QMembers(q, t) \/ (y = x /\ t = r)
  BY Zenon, <1>3
<1> HIDE DEF n
<1>5. \A y \in Proc : y \in R \cup {x} <=> \E t \in Prty : y \in QMembers(n, t)
  BY Zenon, <1>4 DEF Has
<1>6. \A t, u \in Prty, y \in Proc : y \in QMembers(n, t) /\ y \in QMembers(n, u) => t = u
  BY <1>2, <1>4 DEF Has
<1>7. QED
  BY Zenon, <1>3, <1>5, <1>6 DEF Has, n

LEMMA HasRemove ==
  ASSUME NEW q, NEW R \in SUBSET Proc, Has(q, R), NEW r \in Prty, NEW x \in QMembers(q, r)
  PROVE  Has(QRemove(q, r, x), R \ {x}) /\ x \in R
<1>1. q \in Queues(Proc) /\ QOnce(q)
  BY Zenon DEF Has
<1>2. x \in Proc /\ x \in R /\ \A t \in Prty : x \in QMembers(q, t) => t = r
  BY Zenon, <1>1, QMembersType DEF Has
<1>3. /\ QRemove(q, r, x) \in Queues(Proc) /\ QOnce(QRemove(q, r, x))
      /\ QMembers(QRemove(q, r, x), r) = QMembers(q, r) \ {x}
      /\ \A t \in Prty : t # r => QMembers(QRemove(q, r, x), t) = QMembers(q, t)
  BY <1>1, QRemoveFacts
<1> DEFINE n == QRemove(q, r, x)
<1>4. \A t \in Prty, y \in Proc : y \in QMembers(n, t) <=> y \in QMembers(q, t) /\ y # x
  BY Zenon, <1>2, <1>3
<1> HIDE DEF n
<1>5. \A y \in Proc : y \in R \ {x} <=> \E t \in Prty : y \in QMembers(n, t)
  BY Zenon, <1>4 DEF Has
<1>6. \A t, u \in Prty, y \in Proc : y \in QMembers(n, t) /\ y \in QMembers(n, u) => t = u
  BY Zenon, <1>4 DEF Has
<1>7. QED
  BY Zenon, <1>2, <1>3, <1>5, <1>6 DEF Has, n

(* QHighest of a queue that is not empty is one of its processes.          *)
LEMMA HasHighest ==
  ASSUME Basics, NEW q, NEW R \in SUBSET Proc, Has(q, R)
  PROVE  /\ QIsEmpty(q) <=> R = {}
         /\ ~QIsEmpty(q) => QHighest(q) \in R /\ QHighest(q) \in Proc
<1>1. q \in Queues(Proc)
  BY Zenon DEF Has
<1>2. QIsEmpty(q) <=> \A r \in Prty : QMembers(q, r) = {}
  BY Zenon, <1>1, QIsEmptyFacts
<1>3. \A r \in Prty : QMembers(q, r) \subseteq Proc
  BY Zenon, <1>1, QMembersType
<1>4. QIsEmpty(q) <=> R = {}
  BY Zenon, <1>2, <1>3 DEF Has
<1>5. ASSUME ~QIsEmpty(q) PROVE QHighest(q) \in R /\ QHighest(q) \in Proc
  <2>1. QTop(q) \in Prty /\ QHighest(q) \in QMembers(q, QTop(q)) /\ QHighest(q) \in Proc
    BY Zenon, <1>1, <1>5, QHighestFacts DEF Basics
  <2>2. QED
    BY Zenon, <2>1 DEF Has
<1>6. QED
  BY Zenon, <1>4, <1>5

-----------------------------------------------------------------------------
(* The inductive invariant.  The processes that belong in the ready queue, *)
(* and those that wait on a semaphore.                                     *)
Runnable == {p \in Proc : rt[p] /\ ~down[p] /\ ~asleep[p] /\ ~(pc # "user" /\ p = cur)}

Blocked(s) == {p \in Proc : down[p] /\ psem[p] = s}

RdyInv == Fits(rdyQ, Runnable, prio)

WaitInv ==
  /\ \A s \in Sem : Has(waitQ[s], Blocked(s))
  /\ \A p \in Proc : down[p] => psem[p] \in Sem
  /\ \A s \in Sem : owner[s] = NoProc => Blocked(s) = {}

(* What a process can be at a time, and where the kernel can be.           *)
ProcInv ==
  /\ \A p \in Proc : (down[p] \/ asleep[p] => rt[p]) /\ ~(down[p] /\ asleep[p])
  /\ cur # NoProc => rt[cur] /\ ~down[cur] /\ ~asleep[cur]
  /\ pc # "user" => cur # NoProc /\ flushed = 0
  /\ pc = "empty" => slockL[cur] = << >>
  /\ \A p \in Proc : timer[p] # "idle" => tsem[p] \in Sem

(* The three records of who has a mutex agree.                             *)
MutexInv ==
  /\ \A p \in Proc : Once(slockL[p])
  /\ \A s \in Sem, p \in Proc : /\ s \in holds[p] <=> carrier[s] = p
                                /\ s \in Members(slockL[p]) <=> carrier[s] = p
  /\ \A s \in Sem : carrier[s] # NoProc =>
       Mutex(s) /\ value[s] <= 0 /\ owner[s] # NoProc /\ rt[carrier[s]]

CountInv ==
  \A s \in Sem : Blocked(s) # {} => value[s] <= -Cardinality(Blocked(s))

IInv == TypeOK /\ RdyInv /\ WaitInv /\ ProcInv /\ MutexInv /\ CountInv

-----------------------------------------------------------------------------
(* The two halves of the type invariant: what the operations on semaphores *)
(* change, and what they leave alone.                                      *)
TypeSem ==
  /\ prio \in [Proc -> Prty] /\ down \in [Proc -> BOOLEAN] /\ psem \in [Proc -> Sem \cup {NoSem}]
  /\ slockL \in [Proc -> Seq(Sem)] /\ holds \in [Proc -> SUBSET Sem]
  /\ timer \in [Proc -> {"idle", "active", "expired"}]
  /\ tprty \in [Proc -> Prty] /\ tsem \in [Proc -> Sem \cup {NoSem}]
  /\ rdyQ \in Queues(Proc) /\ value \in [Sem -> Int]
  /\ carrier \in [Sem -> Proc \cup {NoProc}]
  /\ waitQ \in [Sem -> Queues(Proc)]
  /\ fault \in {"none", "link", "lock", "null", "wild", "panic_up", "panic_rmv"}

TypeRest ==
  /\ rt \in [Proc -> BOOLEAN] /\ base \in [Proc -> Prty] /\ asleep \in [Proc -> BOOLEAN]
  /\ cur \in Proc \cup {NoProc}
  /\ owner \in [Sem -> Proc \cup {NoProc}]
  /\ flags \in [Sem -> SUBSET {"PRTYORDER", "PRTYINHERIT", "MUTEX"}]
  /\ pc \in {"user", "unlock", "empty"} /\ flushed \in Prty

MutexBound == \A s \in Sem : Mutex(s) => value[s] <= 1

LEMMA TypeSplit == TypeOK <=> TypeSem /\ TypeRest /\ MutexBound
BY Zenon DEF TypeOK, TypeSem, TypeRest, MutexBound, Queues

LEMMA TypeJoin == TypeSem' /\ TypeRest' /\ MutexBound' => TypeOK'
BY Zenon DEF TypeOK, TypeSem, TypeRest, MutexBound, Queues

LEMMA Consts ==
  /\ NoProc \notin Proc /\ NoSem \notin Sem /\ IsFiniteSet(Proc)
  /\ PRILOWEST \in Prty /\ 0 \in Prty /\ Prty \subseteq Nat
  /\ \A r \in Prty : r <= PRILOWEST
<1>1. NoProc \notin Proc /\ NoSem \notin Sem /\ IsFiniteSet(Proc)
  BY Zenon, SemAssumption
<1>2. QED
  BY <1>1, PrtyAssumption DEF PRILOWEST, Prty

(* The processes that wait can be counted.                                 *)
LEMMA BlockedCounted ==
  ASSUME Basics, NEW s
  PROVE  /\ Cardinality(Blocked(s)) \in Nat
         /\ \A w \in Blocked(s) : Cardinality(Blocked(s) \ {w}) = Cardinality(Blocked(s)) - 1
         /\ \A w \in Proc \ Blocked(s) : Cardinality(Blocked(s) \cup {w}) = Cardinality(Blocked(s)) + 1
         /\ Cardinality(Blocked(s)) = 0 <=> Blocked(s) = {}
<1>1. Blocked(s) \in SUBSET Proc
  BY Zenon DEF Blocked
<1>2. QED
  BY Zenon, <1>1 DEF Basics

(* The place where a process waits is a priority.                          *)
LEMMA WaitPrtyType ==
  ASSUME TypeOK, NEW s, NEW p \in Proc
  PROVE  WaitPrty(s, p) \in Prty
<1>1. prio[p] \in Prty
  BY Zenon DEF TypeOK
<1>2. QED
  BY Zenon, <1>1, Consts DEF WaitPrty

(* A process leaves the queue of the semaphore it waits on.                *)
LEMMA WakeWait ==
  ASSUME Basics, IInv, NEW s \in Sem, NEW w \in Proc, Queued(s, w),
         waitQ' = [waitQ EXCEPT ![s] = QRemove(waitQ[s], WaitPrty(s, w), w)],
         down' = [down EXCEPT ![w] = FALSE],
         psem' = psem \/ psem' = [psem EXCEPT ![w] = NoSem],
         value' = value \/ value' = [value EXCEPT ![s] = value[s] + 1],
         UNCHANGED owner
  PROVE  /\ w \in Blocked(s)
         /\ WaitInv' /\ CountInv'
         /\ waitQ' \in [Sem -> Queues(Proc)] /\ down' \in [Proc -> BOOLEAN]
         /\ psem' \in [Proc -> Sem \cup {NoSem}] /\ value' \in [Sem -> Int]
         /\ Blocked(s)' = Blocked(s) \ {w} /\ \A t \in Sem : t # s => Blocked(t)' = Blocked(t)
<1>1. TypeSem /\ Has(waitQ[s], Blocked(s)) /\ WaitPrty(s, w) \in Prty
  BY Zenon, TypeSplit, WaitPrtyType DEF IInv, WaitInv
<1>2. w \in QMembers(waitQ[s], WaitPrty(s, w))
  BY Zenon, <1>1, QMembership DEF Queued
<1>3. Blocked(s) \in SUBSET Proc
  BY Zenon DEF Blocked
<1>4. Has(QRemove(waitQ[s], WaitPrty(s, w), w), Blocked(s) \ {w}) /\ w \in Blocked(s)
  BY Zenon, <1>1, <1>2, <1>3, HasRemove
<1>5. waitQ \in [Sem -> Queues(Proc)] /\ QRemove(waitQ[s], WaitPrty(s, w), w) \in Queues(Proc)
  BY Zenon, <1>1, <1>4 DEF Has, TypeSem
<1>6. /\ waitQ' \in [Sem -> Queues(Proc)] /\ down' \in [Proc -> BOOLEAN]
      /\ psem' \in [Proc -> Sem \cup {NoSem}]
      /\ waitQ'[s] = QRemove(waitQ[s], WaitPrty(s, w), w)
      /\ \A t \in Sem : t # s => waitQ'[t] = waitQ[t]
  BY Zenon, <1>1, <1>5 DEF TypeSem
<1>7. /\ ~down'[w] /\ \A p \in Proc : p # w => down'[p] = down[p] /\ psem'[p] = psem[p]
  BY Zenon, <1>1 DEF TypeSem
<1>8. Blocked(s)' = Blocked(s) \ {w}
  BY Zenon, <1>7 DEF Blocked
<1>9. ASSUME NEW t \in Sem, t # s PROVE Blocked(t)' = Blocked(t)
  <2>1. w \notin Blocked(t)
    BY Zenon, <1>4, <1>9 DEF Blocked
  <2>2. QED
    BY Zenon, <2>1, <1>7 DEF Blocked
<1>10. WaitInv'
  <2>1. \A t \in Sem : Has(waitQ'[t], Blocked(t)')
    BY <1>4, <1>6, <1>8, <1>9 DEF IInv, WaitInv
  <2>2. \A p \in Proc : down'[p] => psem'[p] \in Sem
    BY Zenon, <1>7 DEF IInv, WaitInv
  <2>3. \A t \in Sem : owner'[t] = NoProc => Blocked(t)' = {}
    BY Zenon, <1>8, <1>9 DEF IInv, WaitInv
  <2>4. QED
    BY Zenon, <2>1, <2>2, <2>3 DEF WaitInv
<1>11. value' \in [Sem -> Int] /\ value'[s] <= value[s] + 1 /\ \A t \in Sem : t # s => value'[t] = value[t]
  BY <1>1 DEF TypeSem
<1>12. CountInv'
  <2>2. Cardinality(Blocked(s) \ {w}) = Cardinality(Blocked(s)) - 1 /\ Cardinality(Blocked(s)) \in Nat
    BY Zenon, <1>4, BlockedCounted
  <2>3. value[s] <= -Cardinality(Blocked(s)) /\ value[s] \in Int /\ value'[s] \in Int
    BY Zenon, <1>1, <1>4, <1>11 DEF IInv, CountInv, TypeSem
  <2>4. value'[s] <= -Cardinality(Blocked(s)')
    BY <2>2, <2>3, <1>8, <1>11
  <2>5. QED
    BY Zenon, <2>4, <1>9, <1>11 DEF IInv, CountInv
<1>13. QED
  BY Zenon, <1>4, <1>6, <1>8, <1>9, <1>10, <1>11, <1>12
(* The running process enters the queue of a semaphore.                    *)
LEMMA EnqueueWait ==
  ASSUME Basics, IInv, NEW s \in Sem, cur \in Proc, owner[s] # NoProc, value[s] <= 0,
         waitQ' = [waitQ EXCEPT ![s] = QAppend(waitQ[s], WaitPrty(s, cur), cur)],
         down' = [down EXCEPT ![cur] = TRUE],
         psem' = [psem EXCEPT ![cur] = s],
         value' = [value EXCEPT ![s] = value[s] - 1],
         UNCHANGED owner
  PROVE  /\ WaitInv' /\ CountInv'
         /\ waitQ' \in [Sem -> Queues(Proc)] /\ down' \in [Proc -> BOOLEAN]
         /\ psem' \in [Proc -> Sem \cup {NoSem}] /\ value' \in [Sem -> Int]
         /\ Blocked(s)' = Blocked(s) \cup {cur} /\ \A t \in Sem : t # s => Blocked(t)' = Blocked(t)
<1>1. TypeSem /\ Has(waitQ[s], Blocked(s)) /\ WaitPrty(s, cur) \in Prty
  BY Zenon, TypeSplit, WaitPrtyType DEF IInv, WaitInv
<1>2. ~down[cur]
  BY Zenon, Consts DEF IInv, ProcInv
<1>3. Blocked(s) \in SUBSET Proc /\ \A t \in Sem : cur \notin Blocked(t)
  BY Zenon, <1>2 DEF Blocked
<1>4. Has(QAppend(waitQ[s], WaitPrty(s, cur), cur), Blocked(s) \cup {cur})
  BY Zenon, <1>1, <1>3, HasAppend
<1>5. waitQ \in [Sem -> Queues(Proc)] /\ QAppend(waitQ[s], WaitPrty(s, cur), cur) \in Queues(Proc)
  BY Zenon, <1>1, <1>4 DEF Has, TypeSem
<1>6. /\ waitQ' \in [Sem -> Queues(Proc)] /\ down' \in [Proc -> BOOLEAN]
      /\ psem' \in [Proc -> Sem \cup {NoSem}]
      /\ waitQ'[s] = QAppend(waitQ[s], WaitPrty(s, cur), cur)
      /\ \A t \in Sem : t # s => waitQ'[t] = waitQ[t]
  BY Zenon, <1>1, <1>5 DEF TypeSem
<1>7. /\ down'[cur] /\ psem'[cur] = s
      /\ \A p \in Proc : p # cur => down'[p] = down[p] /\ psem'[p] = psem[p]
  BY Zenon, <1>1 DEF TypeSem
<1>8. Blocked(s)' = Blocked(s) \cup {cur}
  BY <1>7 DEF Blocked
<1>9. \A t \in Sem : t # s => Blocked(t)' = Blocked(t)
  BY <1>3, <1>7 DEF Blocked
<1>10. WaitInv'
  <2>1. \A t \in Sem : Has(waitQ'[t], Blocked(t)')
    BY <1>4, <1>6, <1>8, <1>9 DEF IInv, WaitInv
  <2>2. \A p \in Proc : down'[p] => psem'[p] \in Sem
    BY Zenon, <1>7 DEF IInv, WaitInv
  <2>3. \A t \in Sem : owner'[t] = NoProc => Blocked(t)' = {}
    BY Zenon, <1>9 DEF IInv, WaitInv
  <2>4. QED
    BY Zenon, <2>1, <2>2, <2>3 DEF WaitInv
<1>11. value' \in [Sem -> Int] /\ value'[s] = value[s] - 1 /\ \A t \in Sem : t # s => value'[t] = value[t]
  BY <1>1 DEF TypeSem
<1>12. CountInv'
  <2>2. Cardinality(Blocked(s) \cup {cur}) = Cardinality(Blocked(s)) + 1 /\ Cardinality(Blocked(s)) \in Nat
    BY Zenon, <1>3, BlockedCounted
  <2>3. Blocked(s) = {} => Cardinality(Blocked(s)) = 0
    BY Zenon, BlockedCounted
  <2>4. value[s] <= -Cardinality(Blocked(s)) /\ value[s] \in Int
    BY <1>1, <2>2, <2>3 DEF IInv, CountInv, TypeSem
  <2>5. value'[s] <= -Cardinality(Blocked(s)')
    BY <2>2, <2>4, <1>8, <1>11
  <2>6. QED
    BY Zenon, <2>5, <1>9, <1>11 DEF IInv, CountInv
<1>13. QED
  BY Zenon, <1>6, <1>8, <1>9, <1>10, <1>11, <1>12

-----------------------------------------------------------------------------
(* A mutex is in the list of a process as long as its link is in it.       *)
LEMMA LockedMember ==
  ASSUME NEW p, NEW s
  PROVE  Locked(p, s) <=> s \in Members(slockL[p])
BY Zenon DEF Locked, Members

LEMMA UnlockedFacts ==
  ASSUME IInv, NEW p \in Proc, NEW s \in Sem, Locked(p, s)
  PROVE  /\ Unlocked(p, s) \in Seq(Sem) /\ Once(Unlocked(p, s))
         /\ Members(Unlocked(p, s)) = Members(slockL[p]) \ {s}
<1> DEFINE i == CHOOSE j \in 1 .. Len(slockL[p]) : slockL[p][j] = s
<1>1. slockL[p] \in Seq(Sem) /\ Once(slockL[p])
  BY DEF IInv, TypeOK, MutexInv
<1>2. i \in 1 .. Len(slockL[p]) /\ slockL[p][i] = s
  BY Zenon DEF Locked
<1>3. Unlocked(p, s) = Cut(slockL[p], i)
  BY Zenon DEF Unlocked, Cut
<1> HIDE DEF i
<1>4. QED
  BY <1>1, <1>2, <1>3, CutMembers

(* Handing a mutex over keeps the records, and so does raising a value.    *)
LEMMA PassMutex ==
  ASSUME IInv, NEW s \in Sem, NEW w \in Proc, w # cur, rt[w], cur \in Proc,
         Mutex(s), Locked(cur, s), value[s] < 0, owner[s] # NoProc,
         slockL' = [slockL EXCEPT ![cur] = Unlocked(cur, s), ![w] = Append(@, s)],
         carrier' = [carrier EXCEPT ![s] = w],
         holds' = [holds EXCEPT ![cur] = @ \ {s}, ![w] = @ \cup {s}],
         value' = [value EXCEPT ![s] = @ + 1],
         UNCHANGED <<rt, owner, flags>>
  PROVE  /\ MutexInv' /\ slockL' \in [Proc -> Seq(Sem)] /\ holds' \in [Proc -> SUBSET Sem]
         /\ carrier' \in [Sem -> Proc \cup {NoProc}]
<1>1. /\ slockL \in [Proc -> Seq(Sem)] /\ holds \in [Proc -> SUBSET Sem]
      /\ carrier \in [Sem -> Proc \cup {NoProc}] /\ value \in [Sem -> Int]
  BY Zenon DEF IInv, TypeOK
<1>2. carrier[s] = cur
  BY Zenon, LockedMember DEF IInv, MutexInv
<1>3. s \notin Members(slockL[w]) /\ Once(slockL[w])
  BY Zenon, <1>2 DEF IInv, MutexInv
<1> DEFINE a == Unlocked(cur, s)
           b == Append(slockL[w], s)
<1>4. a \in Seq(Sem) /\ Once(a) /\ Members(a) = Members(slockL[cur]) \ {s}
  BY Zenon, UnlockedFacts
<1>5. b \in Seq(Sem) /\ Once(b) /\ Members(b) = Members(slockL[w]) \cup {s}
  BY <1>1, <1>3, AppendMembers
<1>6. slockL' = [slockL EXCEPT ![cur] = a, ![w] = b]
  BY Zenon, <1>1
<1> HIDE DEF a, b
<1>7. /\ slockL' \in [Proc -> Seq(Sem)] /\ slockL'[cur] = a /\ slockL'[w] = b
      /\ \A p \in Proc : p # cur /\ p # w => slockL'[p] = slockL[p]
  BY Zenon, <1>1, <1>4, <1>5, <1>6
<1>8. /\ holds' \in [Proc -> SUBSET Sem]
      /\ holds'[cur] = holds[cur] \ {s} /\ holds'[w] = holds[w] \cup {s}
      /\ \A p \in Proc : p # cur /\ p # w => holds'[p] = holds[p]
  BY Zenon, <1>1
<1>9. /\ carrier' \in [Sem -> Proc \cup {NoProc}] /\ carrier'[s] = w
      /\ \A t \in Sem : t # s => carrier'[t] = carrier[t]
  BY Zenon, <1>1
<1>10. value'[s] <= 0 /\ \A t \in Sem : t # s => value'[t] = value[t]
  BY <1>1
<1>11. \A p \in Proc : Once(slockL'[p])
  BY Zenon, <1>4, <1>5, <1>7 DEF IInv, MutexInv
<1>12. ASSUME NEW t \in Sem, NEW p \in Proc
       PROVE  (t \in holds'[p] <=> carrier'[t] = p) /\ (t \in Members(slockL'[p]) <=> carrier'[t] = p)
  <2>1. (t \in holds[p] <=> carrier[t] = p) /\ (t \in Members(slockL[p]) <=> carrier[t] = p)
    BY Zenon DEF IInv, MutexInv
  <2>2. t \in holds'[p] <=> carrier'[t] = p
    BY <2>1, <1>2, <1>8, <1>9
  <2>3. t \in Members(slockL'[p]) <=> carrier'[t] = p
    BY Zenon, <2>1, <1>2, <1>4, <1>5, <1>7, <1>9
  <2>4. QED
    BY Zenon, <2>2, <2>3
<1>13. ASSUME NEW t \in Sem, carrier'[t] # NoProc
       PROVE  (Mutex(t) /\ value[t] <= 0 /\ owner[t] # NoProc /\ rt[carrier[t]])'
  BY Zenon, <1>9, <1>10, <1>13 DEF IInv, MutexInv, Mutex
<1>14. MutexInv'
  BY Zenon, <1>11, <1>12, <1>13 DEF MutexInv
<1>15. QED
  BY Zenon, <1>7, <1>8, <1>9, <1>14
-----------------------------------------------------------------------------
(* The processes that are ready once those of d are waiting.               *)
RunnableBut(d) ==
  {p \in Proc : rt[p] /\ ~d[p] /\ ~asleep[p] /\ ~(pc # "user" /\ p = cur)}

(* What MRT_disinherit can take for the priority is a priority, and it is  *)
(* the lowest if the mutex does not ask for inheritance.                   *)
LEMMA SemPrtyType ==
  ASSUME Basics, IInv, NEW s \in Sem, cur \in Proc, NEW r \in SemPrty(s)
  PROVE  r \in Prty /\ (~Disinherit(s) => r = PRILOWEST)
<1>1. CASE ~Disinherit(s)
  BY Zenon, <1>1, Consts DEF SemPrty
<1>2. CASE Disinherit(s)
  <2> DEFINE left == {t \in Sem \ {s} : Locked(cur, t) /\ ~QIsEmpty(waitQ[t])}
             prties == {prio[QHighest(waitQ[t])] : t \in left} \cup {PRILOWEST}
  <2>1. \A t \in left : QHighest(waitQ[t]) \in Proc
    <3>1. \A t \in Sem : Blocked(t) \in SUBSET Proc
      BY Zenon DEF Blocked
    <3>2. QED
      BY Zenon, <3>1, HasHighest DEF IInv, WaitInv
  <2>2. prties \subseteq Prty
    BY <2>1, Consts DEF IInv, TypeOK
  <2> HIDE DEF left
  <2>3. \E m \in prties : \A m2 \in prties : m <= m2
    <3>1. PRILOWEST \in prties
      BY Zenon
    <3> HIDE DEF prties
    <3>2. QED
      BY Zenon, <2>2, <3>1, LeastPrty DEF Basics
  <2>4. r \in Prty \/ r = CHOOSE m \in prties : \A m2 \in prties : m <= m2
    BY Zenon, <1>2 DEF SemPrty, left
  <2> HIDE DEF prties
  <2>5. QED
    BY Zenon, <1>2, <2>2, <2>3, <2>4
<1>3. QED
  BY Zenon, <1>1, <1>2

(* MRT_disinherit leaves the caller in the list of its new priority and    *)
(* puts the process that was woken up in the list of its own.              *)
LEMMA DisinheritReady ==
  ASSUME IInv, cur \in Proc, NEW r \in Prty, NEW w \in Proc, w \notin Runnable, w # cur,
         MRT_disinherit(r, w), Disinherits(r) => pc = "user"
  PROVE  Fits(rdyQ', Runnable \cup {w}, prio') /\ prio' \in [Proc -> Prty]
<1>1. /\ prio \in [Proc -> Prty] /\ base[cur] \in Prty /\ Fits(rdyQ, Runnable, prio)
      /\ Runnable \in SUBSET Proc
  BY Zenon DEF IInv, TypeOK, RdyInv, Runnable
<1> DEFINE pr == Min2(r, base[cur])
<1>2. pr \in Prty
  BY Zenon, <1>1 DEF Min2
<1>3. CASE ~Disinherits(r)
  BY Zenon, <1>1, <1>3, FitsAppend DEF MRT_disinherit
<1>4. CASE Disinherits(r)
  <2>1. cur \in Runnable
    BY Zenon, <1>4, Consts DEF Runnable, IInv, ProcInv
  <2> DEFINE q1 == QRemove(rdyQ, prio[cur], cur)
             q2 == QPrepend(q1, pr, cur)
  <2>2. Fits(q1, Runnable \ {cur}, prio)
    BY Zenon, <1>1, <2>1, FitsRemove
  <2>3. prio' = [prio EXCEPT ![cur] = pr] /\ rdyQ' = QAppend(q2, prio[w], w)
    BY Zenon, <1>4 DEF MRT_disinherit
  <2> HIDE DEF pr, q1
  <2>4. prio' \in [Proc -> Prty] /\ prio'[cur] = pr /\ prio'[w] = prio[w]
    BY Zenon, <1>1, <1>2, <2>3
  <2>5. \A x \in Runnable \ {cur} : prio'[x] = prio[x]
    BY Zenon, <1>1, <2>3
  <2>6. Fits(q1, Runnable \ {cur}, prio')
    BY Zenon, <2>2, <2>5, FitsOther
  <2>7. Fits(QPrepend(q1, prio'[cur], cur), (Runnable \ {cur}) \cup {cur}, prio')
    BY Zenon, <1>1, <2>4, <2>6, FitsPrepend
  <2>8. Fits(q2, Runnable, prio')
    <3>1. (Runnable \ {cur}) \cup {cur} = Runnable
      BY Zenon, <2>1
    <3>2. QED
      BY Zenon, <2>4, <2>7, <3>1
  <2> HIDE DEF q2
  <2>9. Fits(QAppend(q2, prio'[w], w), Runnable \cup {w}, prio')
    BY Zenon, <1>1, <2>4, <2>8, FitsAppend
  <2>10. QED
    BY Zenon, <2>3, <2>4, <2>9
<1>5. QED
  BY Zenon, <1>3, <1>4

-----------------------------------------------------------------------------
(* What MRT_semup keeps, whoever calls it.                                 *)
SemupKeeps ==
  /\ TypeSem' /\ MutexBound' /\ WaitInv' /\ MutexInv' /\ CountInv'
  /\ Fits(rdyQ', RunnableBut(down'), prio')
  /\ \A p \in Proc : (down'[p] => down[p]) /\ (timer'[p] # "idle" => timer[p] # "idle")
  /\ tsem' = tsem /\ tprty' = tprty

(* A fault leaves everything as it was.                                    *)
LEMMA FaultKeeps ==
  ASSUME IInv, NEW f \in {"none", "link", "lock", "null", "wild", "panic_up", "panic_rmv"}, Fault(f),
         UNCHANGED <<procattr, semattr>>
  PROVE  SemupKeeps
<1>1. /\ UNCHANGED <<prio, down, psem, waitQ, slockL, carrier, holds, timer, tprty, tsem, rdyQ, value>>
      /\ fault' = f /\ UNCHANGED <<rt, owner, flags>>
  BY Zenon DEF Fault, wait, locks, timers, procattr, semattr
<1>2. TypeSem' /\ MutexBound'
  BY Zenon, <1>1, TypeSplit DEF IInv, TypeSem, MutexBound, Mutex
<1>3. WaitInv' /\ CountInv'
  BY Zenon, <1>1 DEF IInv, WaitInv, CountInv, Blocked
<1>4. MutexInv'
  BY Zenon, <1>1 DEF IInv, MutexInv, Mutex
<1>5. RunnableBut(down') = Runnable
  BY Zenon, <1>1 DEF RunnableBut, Runnable
<1>6. Fits(rdyQ', RunnableBut(down'), prio')
  BY Zenon, <1>1, <1>5 DEF IInv, RdyInv
<1>7. QED
  BY Zenon, <1>1, <1>2, <1>3, <1>4, <1>6 DEF SemupKeeps

(* MRT_vtimer_stop changes one timer, and no fault goes away.              *)
LEMMA StopFacts ==
  ASSUME TypeSem, NEW w \in Proc, MRT_vtimer_stop(w)
  PROVE  /\ timer' \in [Proc -> {"idle", "active", "expired"}]
         /\ fault' \in {"none", "link", "lock", "null", "wild", "panic_up", "panic_rmv"}
         /\ \A p \in Proc : timer'[p] # "idle" => timer[p] # "idle"
<1>1. timer' \in [Proc -> {"idle", "active", "expired"}] /\ \A p \in Proc : timer'[p] # "idle" => timer[p] # "idle"
  BY Zenon DEF TypeSem, MRT_vtimer_stop
<1>2. fault' = "link" \/ fault' = fault
  BY Zenon DEF MRT_vtimer_stop
<1>3. QED
  BY Zenon, <1>1, <1>2 DEF TypeSem

(* The semaphore is handed over.                                           *)
LEMMA PassKeeps ==
  ASSUME Basics, IInv, NEW s \in Sem, NEW w \in Proc, cur \in Proc, owner[s] # NoProc, value[s] < 0,
         Queued(s, w), Mutex(s) => Locked(cur, s), ~(Disinherit(s) /\ pc # "user"),
         Pass(s, w), UNCHANGED <<procattr, semattr>>
  PROVE  SemupKeeps
<1>1. /\ waitQ' = [waitQ EXCEPT ![s] = QRemove(waitQ[s], WaitPrty(s, w), w)]
      /\ psem' = [psem EXCEPT ![w] = NoSem]
      /\ down' = [down EXCEPT ![w] = FALSE]
      /\ MRT_vtimer_stop(w)
      /\ value' = [value EXCEPT ![s] = value[s] + 1]
      /\ UNCHANGED <<tprty, tsem, rt, asleep, base, owner, flags>>
  <2>1. waitQ' = [waitQ EXCEPT ![s] = QRemove(@, WaitPrty(s, w), w)] /\ waitQ \in [Sem -> Queues(Proc)]
    BY Zenon, TypeSplit DEF Pass, IInv, TypeSem
  <2>2. waitQ' = [waitQ EXCEPT ![s] = QRemove(waitQ[s], WaitPrty(s, w), w)]
    BY Zenon, <2>1
  <2>3. value' = [value EXCEPT ![s] = @ + 1] /\ value \in [Sem -> Int]
    BY Zenon, TypeSplit DEF Pass, IInv, TypeSem
  <2>4. QED
    BY Zenon, <2>2, <2>3 DEF Pass, procattr, semattr
<1>2. TypeSem /\ TypeRest /\ MutexBound
  BY Zenon, TypeSplit DEF IInv
<1>3. /\ w \in Blocked(s) /\ WaitInv' /\ CountInv'
      /\ waitQ' \in [Sem -> Queues(Proc)] /\ down' \in [Proc -> BOOLEAN]
      /\ psem' \in [Proc -> Sem \cup {NoSem}] /\ value' \in [Sem -> Int]
  BY Zenon, <1>1, WakeWait
<1>4. down[w] /\ rt[w] /\ ~asleep[w] /\ w # cur /\ w \notin Runnable
  BY Zenon, <1>3, Consts DEF Blocked, IInv, ProcInv, Runnable
<1>5. Fits(rdyQ', Runnable \cup {w}, prio') /\ prio' \in [Proc -> Prty]
  <2>1. PICK r \in SemPrty(s) : MRT_disinherit(r, w)
    BY Zenon DEF Pass
  <2>2. r \in Prty /\ (~Disinherit(s) => r = PRILOWEST)
    BY Zenon, SemPrtyType
  <2>3. base[cur] \in Prty
    BY Zenon, <1>2 DEF TypeRest
  <2>4. r = PRILOWEST => ~Disinherits(r)
    <3>1. \A a, b \in Nat : b <= a => (IF a < b THEN a ELSE b) = b
      OBVIOUS
    <3>2. base[cur] \in Nat /\ PRILOWEST \in Nat /\ base[cur] <= PRILOWEST
      BY Zenon, <2>3, Consts
    <3>3. QED
      BY Zenon, <3>1, <3>2 DEF Disinherits, Min2
  <2>5. Disinherits(r) => pc = "user"
    BY Zenon, <2>2, <2>4
  <2>6. QED
    BY Zenon, <1>4, <2>1, <2>2, <2>5, DisinheritReady
<1>6. RunnableBut(down') = Runnable \cup {w}
  <2>1. \A p \in Proc : down'[p] = IF p = w THEN FALSE ELSE down[p]
    BY Zenon, <1>1, <1>2 DEF TypeSem
  <2>2. ~(pc # "user" /\ w = cur)
    BY Zenon, <1>4
  <2>3. QED
    BY Zenon, <1>4, <2>1, <2>2 DEF RunnableBut, Runnable
<1>7. /\ MutexInv' /\ slockL' \in [Proc -> Seq(Sem)] /\ holds' \in [Proc -> SUBSET Sem]
      /\ carrier' \in [Sem -> Proc \cup {NoProc}]
  <2>1. CASE Mutex(s)
    <3>1. /\ slockL' = [slockL EXCEPT ![cur] = Unlocked(cur, s), ![w] = Append(@, s)]
          /\ carrier' = [carrier EXCEPT ![s] = w]
          /\ holds' = [holds EXCEPT ![cur] = @ \ {s}, ![w] = @ \cup {s}]
          /\ value' = [value EXCEPT ![s] = @ + 1]
      BY Zenon, <2>1 DEF Pass
    <3>2. QED
      BY Zenon, <1>1, <1>4, <2>1, <3>1, PassMutex
  <2>2. CASE ~Mutex(s)
    <3>1. UNCHANGED <<slockL, carrier, holds>>
      BY Zenon, <2>2 DEF Pass, locks
    <3>2. carrier[s] = NoProc
      BY Zenon, <2>2 DEF IInv, MutexInv
    <3>3. \A t \in Sem : t # s => value'[t] = value[t]
      <4>1. value \in [Sem -> Int]
        BY Zenon, <1>2 DEF TypeSem
      <4>2. QED
        BY <1>1, <4>1
    <3>4. MutexInv'
      <4>1. UNCHANGED <<rt, owner>> /\ \A t \in Sem : Mutex(t)' = Mutex(t)
        BY Zenon, <1>1 DEF Mutex
      <4>2. ASSUME NEW t \in Sem, carrier'[t] # NoProc
            PROVE  (Mutex(t) /\ value[t] <= 0 /\ owner[t] # NoProc /\ rt[carrier[t]])'
        BY Zenon, <3>1, <3>2, <3>3, <4>1, <4>2 DEF IInv, MutexInv
      <4>3. QED
        BY Zenon, <3>1, <4>2 DEF IInv, MutexInv
    <3>5. QED
      BY Zenon, <1>2, <3>1, <3>4 DEF TypeSem
  <2>3. QED
    BY Zenon, <2>1, <2>2
<1>8. MutexBound'
  <2>1. value'[s] <= 1 /\ \A t \in Sem : t # s => value'[t] = value[t]
    BY <1>1, <1>2 DEF TypeSem
  <2>2. QED
    BY Zenon, <1>1, <1>2, <2>1 DEF MutexBound, Mutex
<1>9. rdyQ' \in Queues(Proc)
  BY Zenon, <1>5 DEF Fits
<1>10. /\ timer' \in [Proc -> {"idle", "active", "expired"}]
       /\ fault' \in {"none", "link", "lock", "null", "wild", "panic_up", "panic_rmv"}
       /\ \A p \in Proc : timer'[p] # "idle" => timer[p] # "idle"
  BY Zenon, <1>1, <1>2, StopFacts
<1>11. TypeSem'
  BY Zenon, <1>1, <1>2, <1>3, <1>5, <1>7, <1>9, <1>10 DEF TypeSem
<1>12. \A p \in Proc : down'[p] => down[p]
  BY Zenon, <1>1, <1>2 DEF TypeSem
<1>13. QED
  BY Zenon, <1>1, <1>3, <1>5, <1>6, <1>7, <1>8, <1>10, <1>11, <1>12 DEF SemupKeeps
(* A mutex nobody waits for, and a semaphore with nobody waiting.          *)
LEMMA UnlockKeeps ==
  ASSUME Basics, IInv, NEW s \in Sem, cur \in Proc, Mutex(s), value[s] = 0, Unlock(s),
         UNCHANGED <<procattr, semattr>>
  PROVE  SemupKeeps
<1>1. CASE Fault("lock")
  BY Zenon, <1>1, FaultKeeps
<1>2. CASE /\ Locked(cur, s)
           /\ slockL' = [slockL EXCEPT ![cur] = Unlocked(cur, s)]
           /\ carrier' = [carrier EXCEPT ![s] = NoProc]
           /\ holds' = [holds EXCEPT ![cur] = @ \ {s}]
           /\ value' = [value EXCEPT ![s] = @ + 1]
           /\ UNCHANGED <<prio, wait, timers, rdyQ, fault>>
  <2>1. TypeSem /\ TypeRest /\ MutexBound
    BY Zenon, TypeSplit DEF IInv
  <2>2. UNCHANGED <<rt, asleep, base, owner, flags, prio, down, psem, waitQ, timer, tprty, tsem, rdyQ, fault>>
    BY Zenon, <1>2 DEF wait, timers, procattr, semattr
  <2>3. /\ value' \in [Sem -> Int] /\ value'[s] = 1
        /\ \A t \in Sem : t # s => value'[t] = value[t]
    BY <1>2, <2>1 DEF TypeSem
  <2>4. carrier[s] = cur
    BY Zenon, <1>2, LockedMember DEF IInv, MutexInv
  <2> DEFINE a == Unlocked(cur, s)
  <2>5. a \in Seq(Sem) /\ Once(a) /\ Members(a) = Members(slockL[cur]) \ {s}
    BY Zenon, <1>2, UnlockedFacts
  <2>6. slockL' = [slockL EXCEPT ![cur] = a]
    BY Zenon, <1>2
  <2> HIDE DEF a
  <2>7. /\ slockL' \in [Proc -> Seq(Sem)] /\ slockL'[cur] = a
        /\ \A p \in Proc : p # cur => slockL'[p] = slockL[p]
    BY Zenon, <2>1, <2>5, <2>6 DEF TypeSem
  <2>8. /\ holds' \in [Proc -> SUBSET Sem] /\ holds'[cur] = holds[cur] \ {s}
        /\ \A p \in Proc : p # cur => holds'[p] = holds[p]
    BY Zenon, <1>2, <2>1 DEF TypeSem
  <2>9. /\ carrier' \in [Sem -> Proc \cup {NoProc}] /\ carrier'[s] = NoProc
        /\ \A t \in Sem : t # s => carrier'[t] = carrier[t]
    BY Zenon, <1>2, <2>1 DEF TypeSem
  <2>10. \A p \in Proc : Once(slockL'[p])
    BY Zenon, <2>5, <2>7 DEF IInv, MutexInv
  <2>11. ASSUME NEW t \in Sem, NEW p \in Proc
         PROVE  (t \in holds'[p] <=> carrier'[t] = p) /\ (t \in Members(slockL'[p]) <=> carrier'[t] = p)
    <3>1. (t \in holds[p] <=> carrier[t] = p) /\ (t \in Members(slockL[p]) <=> carrier[t] = p)
      BY Zenon DEF IInv, MutexInv
    <3>2. t \in holds'[p] <=> carrier'[t] = p
      BY Zenon, <3>1, <2>4, <2>8, <2>9, Consts
    <3>3. t \in Members(slockL'[p]) <=> carrier'[t] = p
      BY Zenon, <3>1, <2>4, <2>5, <2>7, <2>9, Consts
    <3>4. QED
      BY Zenon, <3>2, <3>3
  <2>12. ASSUME NEW t \in Sem, carrier'[t] # NoProc
         PROVE  (Mutex(t) /\ value[t] <= 0 /\ owner[t] # NoProc /\ rt[carrier[t]])'
    BY Zenon, <2>2, <2>3, <2>9, <2>12 DEF IInv, MutexInv, Mutex
  <2>13. MutexInv'
    BY Zenon, <2>10, <2>11, <2>12 DEF MutexInv
  <2>14. MutexBound'
    BY <2>1, <2>2, <2>3 DEF MutexBound, Mutex
  <2>15. Blocked(s) = {}
    <3>2. Cardinality(Blocked(s)) \in Nat /\ (Cardinality(Blocked(s)) = 0 <=> Blocked(s) = {})
      BY Zenon, BlockedCounted
    <3>3. QED
      BY <3>2 DEF IInv, CountInv
  <2>16. WaitInv' /\ CountInv'
    <3>1. \A t \in Sem : Blocked(t)' = Blocked(t)
      BY Zenon, <2>2 DEF Blocked
    <3>2. WaitInv'
      BY Zenon, <2>2, <3>1 DEF IInv, WaitInv
    <3>3. CountInv'
      BY Zenon, <2>3, <2>15, <3>1 DEF IInv, CountInv
    <3>4. QED
      BY Zenon, <3>2, <3>3
  <2>17. TypeSem'
    BY Zenon, <2>1, <2>2, <2>3, <2>7, <2>8, <2>9 DEF TypeSem
  <2>18. RunnableBut(down') = Runnable
    BY Zenon, <2>2 DEF RunnableBut, Runnable
  <2>19. Fits(rdyQ', RunnableBut(down'), prio')
    BY Zenon, <2>2, <2>18 DEF IInv, RdyInv
  <2>20. QED
    BY Zenon, <2>2, <2>13, <2>14, <2>16, <2>17, <2>19 DEF SemupKeeps
<1>3. QED
  BY Zenon, <1>1, <1>2 DEF Unlock

LEMMA RaiseKeeps ==
  ASSUME Basics, IInv, NEW s \in Sem, value[s] >= 0, ~(value[s] = 0 /\ Mutex(s)), Raise(s),
         Mutex(s) => carrier[s] # NoProc, UNCHANGED <<procattr, semattr>>
  PROVE  SemupKeeps
<1>1. TypeSem /\ TypeRest /\ MutexBound
  BY Zenon, TypeSplit DEF IInv
<1>2. /\ UNCHANGED <<rt, asleep, base, owner, flags, prio, down, psem, waitQ, slockL, carrier, holds>>
      /\ UNCHANGED <<timer, tprty, tsem, rdyQ, fault>>
  BY Zenon DEF Raise, wait, locks, timers, procattr, semattr
<1>3. /\ value' \in [Sem -> Int] /\ value'[s] = value[s] + 1
      /\ \A t \in Sem : t # s => value'[t] = value[t]
  BY <1>1 DEF Raise, TypeSem
<1>4. ~Mutex(s)
  <2>1. value[s] \in Int /\ (carrier[s] # NoProc => value[s] <= 0)
    BY Zenon, <1>1 DEF TypeSem, IInv, MutexInv
  <2>2. QED
    BY <2>1
<1>5. carrier[s] = NoProc
  BY Zenon, <1>4 DEF IInv, MutexInv
<1>6. MutexInv'
  BY Zenon, <1>2, <1>3, <1>5 DEF IInv, MutexInv, Mutex
<1>7. MutexBound'
  BY Zenon, <1>1, <1>2, <1>3, <1>4 DEF MutexBound, Mutex
<1>8. Blocked(s) = {}
  <2>2. Cardinality(Blocked(s)) \in Nat /\ (Cardinality(Blocked(s)) = 0 <=> Blocked(s) = {})
    BY Zenon, BlockedCounted
  <2>3. value[s] \in Int
    BY Zenon, <1>1 DEF TypeSem
  <2>4. QED
    BY <2>2, <2>3 DEF IInv, CountInv
<1>9. WaitInv' /\ CountInv'
  BY Zenon, <1>2, <1>3, <1>8 DEF IInv, WaitInv, CountInv, Blocked
<1>10. TypeSem'
  BY Zenon, <1>1, <1>2, <1>3 DEF TypeSem
<1>11. RunnableBut(down') = Runnable
  BY Zenon, <1>2 DEF RunnableBut, Runnable
<1>12. Fits(rdyQ', RunnableBut(down'), prio')
  BY Zenon, <1>2, <1>11 DEF IInv, RdyInv
<1>13. QED
  BY Zenon, <1>2, <1>6, <1>7, <1>9, <1>10, <1>12 DEF SemupKeeps

(* MRT_semup by a process that was granted the semaphore if it is a mutex. *)
LEMMA SemupStep ==
  ASSUME Basics, IInv, NEW s \in Sem, cur \in Proc, owner[s] # NoProc, Mutex(s) => s \in holds[cur],
         MRT_semup(s), UNCHANGED <<procattr, semattr>>
  PROVE  SemupKeeps
<1>1. CASE Fault("panic_up")
  BY Zenon, <1>1, FaultKeeps
<1>2. CASE value[s] < 0 /\ ~QIsEmpty(waitQ[s]) /\ HandOver(s, QHighest(waitQ[s]))
  <2>1. QHighest(waitQ[s]) \in Proc
    <3>1. Blocked(s) \in SUBSET Proc /\ Has(waitQ[s], Blocked(s))
      BY Zenon DEF Blocked, IInv, WaitInv
    <3>2. QED
      BY Zenon, <1>2, <3>1, HasHighest
  <2> DEFINE w == QHighest(waitQ[s])
  <2>2. HandOver(s, w) /\ w \in Proc /\ value[s] < 0
    BY Zenon, <1>2, <2>1
  <2> HIDE DEF w
  <2>3. CASE Fault("link") \/ Fault("lock") \/ Fault("wild") \/ Fault("null")
    BY Zenon, <2>3, FaultKeeps
  <2>4. CASE /\ Queued(s, w) /\ (Mutex(s) => Locked(cur, s))
             /\ ~(Disinherit(s) /\ pc # "user")
             /\ Pass(s, w)
    BY Zenon, <2>2, <2>4, PassKeeps
  <2>5. QED
    BY Zenon, <2>2, <2>3, <2>4 DEF HandOver
<1>3. CASE value[s] = 0 /\ Mutex(s) /\ Unlock(s)
  BY Zenon, <1>3, UnlockKeeps
<1>4. CASE value[s] >= 0 /\ ~(value[s] = 0 /\ Mutex(s)) /\ Raise(s)
  <2>1. Mutex(s) => carrier[s] # NoProc
    BY Consts DEF IInv, MutexInv
  <2>2. QED
    BY Zenon, <1>4, <2>1, RaiseKeeps
<1>5. QED
  BY Zenon, <1>1, <1>2, <1>3, <1>4 DEF MRT_semup
-----------------------------------------------------------------------------
(* Inheritance follows a chain of processes, each waiting for the next.    *)
Follow(prty, x) == IF x # NoProc /\ prty < prio[x] THEN Blocker(x) ELSE NoProc

IsChain(f, n, prty, c) ==
  f = [m \in 0 .. n |-> IF m = 0 THEN c ELSE Follow(prty, f[m - 1])]

LEMMA ChainExists ==
  ASSUME WellOrdered, NEW prty, NEW c, NEW n \in Nat
  PROVE  \E f : IsChain(f, n, prty, c)
<1> DEFINE S == {m \in Nat : ~\E f : IsChain(f, m, prty, c)}
<1>1. SUFFICES ASSUME S # {} PROVE FALSE
  BY Zenon
<1>2. PICK m \in S : \A k \in S : m <= k
  <2>1. S \in SUBSET Nat
    BY Zenon
  <2> HIDE DEF S
  <2>2. QED
    BY Zenon, <1>1, <2>1 DEF WellOrdered
<1>3. m # 0
  <2> DEFINE f == [k \in 0 .. 0 |-> c]
  <2>1. f = [k \in 0 .. 0 |-> IF k = 0 THEN c ELSE Follow(prty, f[k - 1])]
    OBVIOUS
  <2>2. IsChain(f, 0, prty, c)
    BY Zenon, <2>1 DEF IsChain
  <2>3. QED
    BY Zenon, <2>2
<1>4. m \in Nat /\ m - 1 \in Nat /\ m - 1 \notin S
  BY <1>2, <1>3
<1>5. PICK f : IsChain(f, m - 1, prty, c)
  BY Zenon, <1>4
<1> DEFINE g == [k \in 0 .. m |-> IF k = m THEN Follow(prty, f[m - 1]) ELSE f[k]]
<1>6. \A k \in 0 .. (m - 1) : f[k] = IF k = 0 THEN c ELSE Follow(prty, f[k - 1])
  BY Zenon, <1>5 DEF IsChain
<1>7. ASSUME NEW k \in 0 .. m
      PROVE  g[k] = IF k = 0 THEN c ELSE Follow(prty, g[k - 1])
  <2>1. CASE k = m
    <3>1. g[k - 1] = f[m - 1] /\ g[k] = Follow(prty, f[m - 1])
      BY <1>4, <2>1
    <3>2. QED
      BY Zenon, <1>3, <2>1, <3>1
  <2>2. CASE k # m
    <3>1. k \in 0 .. (m - 1) /\ g[k] = f[k]
      BY <1>4, <2>2
    <3>2. k # 0 => g[k - 1] = f[k - 1]
      BY <1>4, <2>2
    <3>3. QED
      BY Zenon, <1>6, <3>1, <3>2
  <2>3. QED
    BY Zenon, <2>1, <2>2
<1>8. g = [k \in 0 .. m |-> IF k = 0 THEN c ELSE Follow(prty, g[k - 1])]
  <2>1. g = [k \in 0 .. m |-> g[k]]
    BY Zenon
  <2> HIDE DEF g
  <2>2. QED
    BY Zenon, <1>7, <2>1
<1>9. IsChain(g, m, prty, c)
  BY Zenon, <1>8 DEF IsChain
<1>10. QED
  BY Zenon, <1>2, <1>9

(* The processes that MRT_inherit raises are carriers, in real-time mode,  *)
(* and less urgent; at most one of them is ready, the last of the chain.   *)
LEMMA RaisedFacts ==
  ASSUME Basics, IInv, NEW prty, NEW s \in Sem
  PROVE  /\ \A p \in Raised(prty, carrier[s]) : p \in Proc /\ rt[p] /\ prty < prio[p]
         /\ \A p, p2 \in Raised(prty, carrier[s]) : Ready(p) /\ Ready(p2) => p = p2
<1> DEFINE c == carrier[s]
           N == Cardinality(Proc)
           f == CHOOSE f : f = [m \in 0 .. N |->
                  IF m = 0 THEN c
                  ELSE IF f[m - 1] # NoProc /\ prty < prio[f[m - 1]]
                       THEN Blocker(f[m - 1]) ELSE NoProc]
<1>1. N \in Nat
  BY Zenon DEF Basics
<1>2. IsChain(f, N, prty, c)
  <2>1. \E h : IsChain(h, N, prty, c)
    BY Zenon, <1>1, ChainExists DEF Basics
  <2>2. QED
    BY Zenon, <2>1 DEF IsChain, Follow
<1>3. Raised(prty, c) = {p \in Proc : prty < prio[p] /\ \E n \in DOMAIN f : f[n] = p}
  BY Zenon DEF Raised
<1> HIDE DEF f
<1>4. /\ DOMAIN f = 0 .. N /\ f[0] = c
      /\ \A n \in 1 .. N : f[n] = Follow(prty, f[n - 1])
  BY <1>1, <1>2 DEF IsChain
<1> DEFINE Good(x) == x = NoProc \/ (x \in Proc /\ rt[x])
<1>5. \A t \in Sem : Good(carrier[t])
  BY Zenon DEF IInv, MutexInv, TypeOK
<1>6. ASSUME NEW x, Good(x) PROVE Good(Follow(prty, x))
  <2>1. CASE Follow(prty, x) = NoProc
    BY Zenon, <2>1
  <2>2. CASE x \in Proc /\ down[x] /\ Follow(prty, x) = carrier[psem[x]]
    BY Zenon, <1>5, <2>2 DEF IInv, WaitInv
  <2>3. QED
    BY Zenon, <1>6, <2>1, <2>2 DEF Follow, Blocker
<1>7. \A n \in 0 .. N : Good(f[n])
  <2> DEFINE S == {n \in 0 .. N : ~Good(f[n])}
  <2>1. SUFFICES ASSUME S # {} PROVE FALSE
    BY Zenon
  <2>2. PICK m \in S : \A k \in S : m <= k
    <3>1. S \in SUBSET Nat
      BY <1>1
    <3> HIDE DEF S
    <3>2. QED
      BY Zenon, <2>1, <3>1 DEF Basics, WellOrdered
  <2>3. m # 0
    BY Zenon, <1>4, <1>5, <2>2
  <2>4. m \in 1 .. N /\ m - 1 \in 0 .. N /\ m - 1 \notin S
    BY <1>1, <2>2, <2>3
  <2>5. Good(f[m - 1])
    BY Zenon, <2>4
  <2>6. Good(f[m])
    BY Zenon, <1>4, <1>6, <2>4, <2>5
  <2>7. QED
    BY Zenon, <2>2, <2>6
<1>8. ASSUME NEW p \in Raised(prty, c) PROVE p \in Proc /\ rt[p] /\ prty < prio[p]
  BY <1>3, <1>4, <1>7, Consts
<1>9. ASSUME NEW n \in 0 .. N, f[n] \in Proc, Ready(f[n]), NEW n2 \in 0 .. N, n < n2
      PROVE  f[n2] = NoProc
  <2> DEFINE S == {k \in 0 .. N : n < k /\ f[k] # NoProc}
  <2>1. SUFFICES ASSUME S # {} PROVE FALSE
    BY Zenon, <1>9
  <2>2. PICK m \in S : \A k \in S : m <= k
    <3>1. S \in SUBSET Nat
      BY <1>1
    <3> HIDE DEF S
    <3>2. QED
      BY Zenon, <2>1, <3>1 DEF Basics, WellOrdered
  <2>3. m \in 1 .. N /\ m - 1 \in 0 .. N /\ m - 1 \notin S /\ n <= m - 1
    BY <1>1, <1>9, <2>2
  <2>4. m - 1 = n \/ f[m - 1] = NoProc
    BY <2>3
  <2>5. Follow(prty, f[m - 1]) = NoProc
    BY Zenon, <1>9, <2>4 DEF Follow, Blocker, Ready
  <2>6. QED
    BY Zenon, <1>4, <2>2, <2>3, <2>5
<1>10. ASSUME NEW p \in Raised(prty, c), NEW p2 \in Raised(prty, c), Ready(p), Ready(p2)
       PROVE  p = p2
  <2>1. PICK n \in 0 .. N : f[n] = p
    BY Zenon, <1>3, <1>4
  <2>2. PICK n2 \in 0 .. N : f[n2] = p2
    BY Zenon, <1>3, <1>4
  <2>3. p \in Proc /\ p2 \in Proc /\ p # NoProc /\ p2 # NoProc
    BY Zenon, <1>8, Consts
  <2>4. ~(n < n2)
    BY Zenon, <1>9, <1>10, <2>1, <2>2, <2>3
  <2>5. ~(n2 < n)
    BY Zenon, <1>9, <1>10, <2>1, <2>2, <2>3
  <2>6. n = n2
    BY <1>1, <2>1, <2>2, <2>4, <2>5
  <2>7. QED
    BY Zenon, <2>1, <2>2, <2>6
<1>11. QED
  BY Zenon, <1>8, <1>10

(* A process waits: it leaves the ready queue, and the one it waits for    *)
(* moves to the list of the priority it inherits.                          *)
LEMMA InheritReady ==
  ASSUME Basics, IInv, NEW s \in Sem, cur \in Runnable,
         MRT_inherit(prio[cur], carrier[s], QRemove(rdyQ, prio[cur], cur)), pc = "user"
  PROVE  Fits(rdyQ', Runnable \ {cur}, prio') /\ prio' \in [Proc -> Prty]
<1>1. /\ prio \in [Proc -> Prty] /\ Fits(rdyQ, Runnable, prio) /\ Runnable \in SUBSET Proc
  BY Zenon DEF IInv, TypeOK, RdyInv, Runnable
<1> DEFINE q == QRemove(rdyQ, prio[cur], cur)
           up == IF BPIP THEN Raised(prio[cur], carrier[s]) ELSE {}
           R == Runnable \ {cur}
<1>2. Fits(q, R, prio) /\ R \in SUBSET Proc
  BY Zenon, <1>1, FitsRemove
<1>3. /\ \A p \in up : p \in Proc /\ rt[p] /\ prio[cur] < prio[p]
      /\ \A p, p2 \in up : Ready(p) /\ Ready(p2) => p = p2
  BY Zenon, RaisedFacts
<1>4. /\ prio' = [p \in Proc |-> IF p \in up THEN prio[cur] ELSE prio[p]]
      /\ \/ ~(\E p \in up : Ready(p)) /\ rdyQ' = q
         \/ \E p \in up : Ready(p) /\ rdyQ' = QPrepend(QRemove(q, prio[p], p), prio[cur], p)
  BY Zenon DEF MRT_inherit
<1> HIDE DEF q, up
<1>5. prio' \in [Proc -> Prty] /\ prio[cur] \in Prty
  BY Zenon, <1>1, <1>4
<1>6. \A x \in R : Ready(x)
  BY Zenon DEF Runnable, Ready
<1>7. CASE ~(\E p \in up : Ready(p)) /\ rdyQ' = q
  <2>1. \A x \in R : prio'[x] = prio[x]
    BY Zenon, <1>2, <1>4, <1>6, <1>7
  <2>2. QED
    BY Zenon, <1>2, <1>5, <1>7, <2>1, FitsOther
<1>8. ASSUME NEW p \in up, Ready(p), rdyQ' = QPrepend(QRemove(q, prio[p], p), prio[cur], p)
      PROVE  Fits(rdyQ', R, prio')
  <2>1. p \in Proc /\ p # cur
    <3>1. prio[cur] \in Nat
      BY Zenon, <1>5, Consts
    <3>2. p \in Proc /\ prio[cur] < prio[p]
      BY Zenon, <1>3, <1>8
    <3>3. QED
      BY <3>1, <3>2
  <2>2. p \in R
    BY Zenon, <1>3, <1>8, <2>1 DEF Runnable, Ready
  <2> DEFINE q3 == QRemove(q, prio[p], p)
  <2>3. Fits(q3, R \ {p}, prio)
    BY Zenon, <1>1, <1>2, <2>2, FitsRemove
  <2> HIDE DEF q3
  <2>4. \A x \in R \ {p} : prio'[x] = prio[x]
    BY Zenon, <1>2, <1>3, <1>4, <1>6, <1>8
  <2>5. Fits(q3, R \ {p}, prio') /\ R \ {p} \in SUBSET Proc /\ p \notin R \ {p}
    BY Zenon, <1>2, <2>3, <2>4, FitsOther
  <2>6. Fits(QPrepend(q3, prio'[p], p), (R \ {p}) \cup {p}, prio')
    BY Zenon, <1>5, <2>1, <2>5, FitsPrepend
  <2>7. prio'[p] = prio[cur] /\ (R \ {p}) \cup {p} = R
    BY Zenon, <1>4, <1>8, <2>1, <2>2
  <2> HIDE DEF R
  <2>8. QED
    BY Zenon, <1>8, <2>6, <2>7 DEF q3
<1>9. QED
  BY Zenon, <1>4, <1>5, <1>7, <1>8

(* A process runs real-time code: it is the one that was picked.           *)
LEMMA RunningFacts ==
  ASSUME IInv, User, cur # NoProc
  PROVE  cur \in Proc /\ cur \in Runnable /\ pc = "user" /\ rt[cur]
BY Zenon DEF IInv, TypeOK, ProcInv, User, Runnable

(* Whoever is queued at a semaphore waits for it.                          *)
LEMMA WaitersBlocked ==
  ASSUME WaitInv, NEW s \in Sem
  PROVE  Waiters(s) = Blocked(s)
<1>1. Has(waitQ[s], Blocked(s)) /\ Blocked(s) \in SUBSET Proc
  BY Zenon DEF WaitInv, Blocked
<1>2. \A p \in Proc : QHas(waitQ[s], p) <=> \E r \in Prty : p \in QMembers(waitQ[s], r)
  BY Zenon, QMembership
<1>3. QED
  BY Zenon, <1>1, <1>2 DEF Waiters, Has

-----------------------------------------------------------------------------
(* The abstract semaphores: how their state follows the kernel's.          *)
LEMMA AbstractState ==
  /\ Waiting = [s \in Sem |-> Blocked(s)] /\ Waiting' = [s \in Sem |-> Blocked(s)']
  /\ Credit = [s \in Sem |-> IF value[s] > 0 THEN value[s] ELSE 0]
  /\ Credit' = [s \in Sem |-> IF value'[s] > 0 THEN value'[s] ELSE 0]
BY Zenon DEF Waiting, Credit, Blocked

LEMMA AbstractSame ==
  ASSUME UNCHANGED owner, UNCHANGED value, \A s \in Sem : Blocked(s)' = Blocked(s)
  PROVE  UNCHANGED <<Exists, Credit, Waiting>>
<1>1. Waiting' = Waiting
  BY Zenon, AbstractState
<1>2. QED
  BY Zenon, <1>1 DEF Exists, Credit

(* A process leaves the queue of a semaphore: the abstract Leave.          *)
LEMMA AbstractLeave ==
  ASSUME NEW s \in Sem, NEW w \in Proc, w \in Blocked(s), UNCHANGED owner,
         Blocked(s)' = Blocked(s) \ {w}, \A t \in Sem : t # s => Blocked(t)' = Blocked(t),
         UNCHANGED Credit
  PROVE  Abstract!Next
<1>1. Waiting' = [Waiting EXCEPT ![s] = @ \ {w}] /\ w \in Waiting[s]
  BY Zenon, AbstractState
<1>2. Exists' = Exists
  BY Zenon DEF Exists
<1>3. Abstract!Leave(s, w)
  BY Zenon, <1>1, <1>2 DEF Abstract!Leave
<1>4. QED
  BY Zenon, <1>3 DEF Abstract!Next

(* A value that stays at or below zero is no credit.                       *)
LEMMA CreditSame ==
  ASSUME NEW s \in Sem, \A t \in Sem : t # s => value'[t] = value[t],
         ~(value[s] > 0), ~(value'[s] > 0)
  PROVE  UNCHANGED Credit
<1>1. \A t \in Sem : (IF value'[t] > 0 THEN value'[t] ELSE 0) = IF value[t] > 0 THEN value[t] ELSE 0
  BY Zenon
<1>2. QED
  BY Zenon, <1>1, AbstractState

(* The credit of s becomes c.                                              *)
LEMMA CreditChanged ==
  ASSUME NEW s \in Sem, NEW c \in Nat, \A t \in Sem : t # s => value'[t] = value[t], value'[s] = c
  PROVE  Credit' = [Credit EXCEPT ![s] = c]
<1>1. (IF value'[s] > 0 THEN value'[s] ELSE 0) = c
  OBVIOUS
<1>2. QED
  BY Zenon, <1>1, AbstractState

(* MRT_semup gives a credit back or hands it to a process that waits.      *)
LEMMA SemupAbstract ==
  ASSUME Basics, IInv, NEW s \in Sem, cur \in Proc, owner[s] # NoProc, Mutex(s) => s \in holds[cur],
         MRT_semup(s), UNCHANGED owner
  PROVE  Abstract!Next \/ UNCHANGED <<Exists, Credit, Waiting>>
<1>1. value \in [Sem -> Int] /\ s \in Exists /\ waitQ \in [Sem -> Queues(Proc)]
  BY Zenon DEF IInv, TypeOK, Exists, Queues
<1>2. ASSUME NEW f, Fault(f) PROVE UNCHANGED <<Exists, Credit, Waiting>>
  <2>1. UNCHANGED value /\ \A t \in Sem : Blocked(t)' = Blocked(t)
    BY Zenon, <1>2 DEF Fault, wait, Blocked
  <2>2. QED
    BY Zenon, <2>1, AbstractSame
<1>3. CASE value[s] < 0 /\ ~QIsEmpty(waitQ[s]) /\ HandOver(s, QHighest(waitQ[s]))
  <2>1. QHighest(waitQ[s]) \in Proc
    <3>1. Blocked(s) \in SUBSET Proc /\ Has(waitQ[s], Blocked(s))
      BY Zenon DEF Blocked, IInv, WaitInv
    <3>2. QED
      BY Zenon, <1>3, <3>1, HasHighest
  <2> DEFINE w == QHighest(waitQ[s])
  <2>2. HandOver(s, w) /\ w \in Proc /\ value[s] < 0
    BY Zenon, <1>3, <2>1
  <2> HIDE DEF w
  <2>3. CASE Queued(s, w) /\ Pass(s, w)
    <3>1. /\ waitQ' = [waitQ EXCEPT ![s] = QRemove(waitQ[s], WaitPrty(s, w), w)]
          /\ psem' = [psem EXCEPT ![w] = NoSem] /\ down' = [down EXCEPT ![w] = FALSE]
          /\ value' = [value EXCEPT ![s] = value[s] + 1]
      <4>1. waitQ' = [waitQ EXCEPT ![s] = QRemove(@, WaitPrty(s, w), w)]
        BY Zenon, <2>3 DEF Pass
      <4>2. value' = [value EXCEPT ![s] = @ + 1]
        BY Zenon, <2>3 DEF Pass
      <4>3. QED
        BY Zenon, <1>1, <2>3, <4>1, <4>2 DEF Pass
    <3>2. /\ w \in Blocked(s) /\ Blocked(s)' = Blocked(s) \ {w}
          /\ \A t \in Sem : t # s => Blocked(t)' = Blocked(t)
      BY Zenon, <2>2, <2>3, <3>1, WakeWait
    <3>3. ~(value[s] > 0) /\ ~(value'[s] > 0) /\ \A t \in Sem : t # s => value'[t] = value[t]
      BY <1>1, <2>2, <3>1
    <3>4. UNCHANGED Credit
      BY Zenon, <3>3, CreditSame
    <3>5. QED
      BY Zenon, <2>2, <3>2, <3>4, AbstractLeave
  <2>4. QED
    BY Zenon, <1>2, <2>2, <2>3 DEF HandOver
<1>4. CASE /\ value[s] >= 0 /\ value' = [value EXCEPT ![s] = @ + 1]
           /\ UNCHANGED wait
  <2>1. /\ value'[s] = value[s] + 1 /\ value[s] + 1 \in Nat
        /\ \A t \in Sem : t # s => value'[t] = value[t]
    BY <1>1, <1>4
  <2>2. Credit' = [Credit EXCEPT ![s] = value[s] + 1]
    BY Zenon, <2>1, CreditChanged
  <2>3. Credit[s] = value[s] /\ Credit' = [Credit EXCEPT ![s] = @ + 1]
    <3>1. Credit[s] = value[s]
      BY <1>1, <1>4, AbstractState
    <3>2. QED
      BY Zenon, <2>2, <3>1
  <2>4. Blocked(s) = {}
    <3>2. Cardinality(Blocked(s)) \in Nat /\ (Cardinality(Blocked(s)) = 0 <=> Blocked(s) = {})
      BY Zenon, BlockedCounted
    <3>3. QED
      BY <1>1, <1>4, <3>2 DEF IInv, CountInv
  <2>5. Waiting[s] = {} /\ Waiting' = Waiting /\ Exists' = Exists
    BY Zenon, <1>4, <2>4, AbstractState DEF wait, Blocked, Exists
  <2>6. Abstract!Give(s)
    BY Zenon, <1>1, <2>3, <2>5 DEF Abstract!Give
  <2>7. QED
    BY Zenon, <2>6 DEF Abstract!Next
<1>5. value[s] = 0 => value[s] >= 0
  OBVIOUS
<1>6. QED
  BY Zenon, <1>2, <1>3, <1>4, <1>5 DEF MRT_semup, Unlock, Raise

(* MRT_semdown takes a credit or waits.                                    *)
LEMMA SemdownAbstract ==
  ASSUME Basics, IInv, NEW s \in Sem, NEW t, cur \in Proc, ~down[cur], MRT_semdown(s, t), UNCHANGED owner
  PROVE  Abstract!Next \/ UNCHANGED <<Exists, Credit, Waiting>>
<1>1. value \in [Sem -> Int] /\ waitQ \in [Sem -> Queues(Proc)]
  BY Zenon DEF IInv, TypeOK, Queues
<1>2. CASE Refused(s, t) \/ Fault("link") \/ Fault("null")
  <2>1. UNCHANGED value /\ \A x \in Sem : Blocked(x)' = Blocked(x)
    BY Zenon, <1>2 DEF Fault, Refused, wait, Blocked
  <2>2. QED
    BY Zenon, <2>1, AbstractSame
<1>3. CASE owner[s] # NoProc /\ Take(s)
  <2>1. value' = [value EXCEPT ![s] = @ - 1] /\ value[s] > 0 /\ UNCHANGED wait
    BY Zenon, <1>3 DEF Take
  <2>2. /\ value'[s] = value[s] - 1 /\ value[s] - 1 \in Nat
        /\ \A x \in Sem : x # s => value'[x] = value[x]
    BY <1>1, <2>1
  <2>3. Credit' = [Credit EXCEPT ![s] = value[s] - 1]
    BY Zenon, <2>2, CreditChanged
  <2>4. Credit[s] = value[s]
    BY Zenon, <1>1, <2>1, AbstractState
  <2>5. Credit' = [Credit EXCEPT ![s] = @ - 1] /\ Credit[s] > 0
    BY Zenon, <2>1, <2>3, <2>4
  <2>6. Waiting' = Waiting /\ Exists' = Exists /\ s \in Exists
    BY Zenon, <1>3, <2>1, AbstractState DEF wait, Blocked, Exists
  <2>7. Abstract!Take(s)
    BY Zenon, <2>5, <2>6 DEF Abstract!Take
  <2>8. QED
    BY Zenon, <2>7 DEF Abstract!Next
<1>4. CASE owner[s] # NoProc /\ value[s] <= 0 /\ Enqueue(s, t)
  <2>1. /\ waitQ' = [waitQ EXCEPT ![s] = QAppend(waitQ[s], WaitPrty(s, cur), cur)]
        /\ down' = [down EXCEPT ![cur] = TRUE]
        /\ psem' = [psem EXCEPT ![cur] = s]
        /\ value' = [value EXCEPT ![s] = value[s] - 1]
    BY Zenon, <1>1, <1>4 DEF Enqueue
  <2>2. Blocked(s)' = Blocked(s) \cup {cur} /\ \A x \in Sem : x # s => Blocked(x)' = Blocked(x)
    BY Zenon, <1>4, <2>1, EnqueueWait
  <2>3. ~(value[s] > 0) /\ ~(value'[s] > 0) /\ \A x \in Sem : x # s => value'[x] = value[x]
    BY <1>1, <1>4, <2>1
  <2>4. Credit' = Credit /\ Credit[s] = 0
    BY Zenon, <2>3, CreditSame, AbstractState
  <2>5. Waiting' = [Waiting EXCEPT ![s] = @ \cup {cur}]
    BY Zenon, <2>2, AbstractState
  <2>6. \A x \in Sem : cur \notin Waiting[x]
    BY Zenon, AbstractState DEF Blocked
  <2>7. Exists' = Exists /\ s \in Exists
    BY Zenon, <1>4 DEF Exists
  <2>8. Abstract!Wait(s, cur)
    BY Zenon, <2>4, <2>5, <2>6, <2>7 DEF Abstract!Wait
  <2>9. QED
    BY Zenon, <2>8 DEF Abstract!Next
<1>5. QED
  BY Zenon, <1>2, <1>3, <1>4 DEF MRT_semdown, Block

(* Every step is one of the abstract semaphores, or changes none of them.  *)
LEMMA AbstractStep ==
  ASSUME Basics, IInv, [Next]_vars
  PROVE  Abstract!Next \/ UNCHANGED <<Exists, Credit, Waiting>>
<1> DEFINE Goal == Abstract!Next \/ UNCHANGED <<Exists, Credit, Waiting>>
<1>1. ASSUME UNCHANGED <<owner, value, down, psem>> PROVE Goal
  <2>1. \A s \in Sem : Blocked(s)' = Blocked(s)
    BY Zenon, <1>1 DEF Blocked
  <2>2. QED
    BY Zenon, <1>1, <2>1, AbstractSame
<1>2. ASSUME NEW s \in Sem, rtk_semup(s) PROVE Goal
  <2>1. /\ User /\ cur # NoProc /\ owner[s] # NoProc /\ (Mutex(s) => s \in holds[cur])
        /\ MRT_semup(s) /\ UNCHANGED owner
    BY Zenon, <1>2 DEF rtk_semup, semattr
  <2>2. cur \in Proc
    BY Zenon, <2>1, RunningFacts
  <2>3. QED
    BY Zenon, <2>1, <2>2, SemupAbstract
<1>3. ASSUME NEW s \in Sem, NEW t \in Timeouts, rtk_semdown(s, t) PROVE Goal
  <2>1. User /\ cur # NoProc /\ MRT_semdown(s, t) /\ UNCHANGED owner
    BY Zenon, <1>3 DEF rtk_semdown, semattr
  <2>2. cur \in Proc /\ ~down[cur]
    BY Zenon, <2>1, RunningFacts DEF Runnable
  <2>3. QED
    BY Zenon, <2>1, <2>2, SemdownAbstract
<1>4. ASSUME MRT_sem_unlock PROVE Goal
  <2>1. CASE slockL[cur] # << >> /\ MRT_semup(Head(slockL[cur]))
    <3> DEFINE s == Head(slockL[cur])
    <3>1. cur \in Proc /\ UNCHANGED owner
      BY Zenon, <1>4 DEF IInv, ProcInv, TypeOK, MRT_sem_unlock, semattr
    <3>2. s \in Members(slockL[cur]) /\ s \in Sem
      <4>1. slockL[cur] \in Seq(Sem)
        BY Zenon, <3>1 DEF IInv, TypeOK
      <4>2. QED
        BY <2>1, <4>1, HeadMember
    <3>3. MRT_semup(s)
      BY Zenon, <2>1
    <3> HIDE DEF s
    <3>4. s \in holds[cur] /\ owner[s] # NoProc
      BY <3>1, <3>2, Consts DEF IInv, MutexInv
    <3>5. QED
      BY Zenon, <3>1, <3>2, <3>3, <3>4, SemupAbstract
  <2>2. CASE UNCHANGED <<wait, value>>
    BY Zenon, <1>1, <1>4, <2>2 DEF MRT_sem_unlock, wait, semattr
  <2>3. QED
    BY Zenon, <1>4, <2>1, <2>2 DEF MRT_sem_unlock
<1>5. ASSUME NEW s \in Sem, MRT_sem_empty(s) PROVE Goal
  <2> DEFINE w == QHighest(waitQ[s])
  <2>1. ~QIsEmpty(waitQ[s]) /\ UNCHANGED owner
    BY Zenon, <1>5 DEF MRT_sem_empty, semattr
  <2>2. w \in Proc
    <3>1. Blocked(s) \in SUBSET Proc /\ Has(waitQ[s], Blocked(s))
      BY Zenon DEF Blocked, IInv, WaitInv
    <3>2. QED
      BY Zenon, <2>1, <3>1, HasHighest
  <2>3. CASE Fault("link")
    BY Zenon, <1>1, <2>1, <2>3 DEF Fault, wait
  <2>4. CASE /\ Queued(s, w)
             /\ waitQ' = [waitQ EXCEPT ![s] = QRemove(@, WaitPrty(s, w), w)]
             /\ psem' = [psem EXCEPT ![w] = NoSem]
             /\ down' = [down EXCEPT ![w] = FALSE]
             /\ UNCHANGED value
    <3> HIDE DEF w
    <3>1. waitQ' = [waitQ EXCEPT ![s] = QRemove(waitQ[s], WaitPrty(s, w), w)]
      BY Zenon, <2>4 DEF IInv, TypeOK
    <3>2. /\ w \in Blocked(s) /\ Blocked(s)' = Blocked(s) \ {w}
          /\ \A t \in Sem : t # s => Blocked(t)' = Blocked(t)
      BY Zenon, <2>1, <2>2, <2>4, <3>1, WakeWait
    <3>3. Credit' = Credit
      BY Zenon, <2>4 DEF Credit
    <3>4. QED
      BY Zenon, <2>1, <2>2, <3>2, <3>3, AbstractLeave
  <2>5. QED
    BY Zenon, <1>5, <2>3, <2>4 DEF MRT_sem_empty
<1>6. ASSUME NEW p \in Proc, MRT_act_down(p) PROVE Goal
  <2>1. UNCHANGED <<psem, owner, value>> /\ timer[p] = "expired"
    BY Zenon, <1>6 DEF MRT_act_down, semattr, Due
  <2>2. PICK s \in Sem : s = tsem[p]
    BY Zenon, <2>1 DEF IInv, ProcInv
  <2>3. CASE /\ Queued(s, p)
             /\ waitQ' = [waitQ EXCEPT ![s] = QRemove(@, WaitPrty(s, p), p)]
             /\ down' = [down EXCEPT ![p] = FALSE]
    <3>1. waitQ' = [waitQ EXCEPT ![s] = QRemove(waitQ[s], WaitPrty(s, p), p)]
      BY Zenon, <2>3 DEF IInv, TypeOK
    <3>2. /\ p \in Blocked(s) /\ Blocked(s)' = Blocked(s) \ {p}
          /\ \A t \in Sem : t # s => Blocked(t)' = Blocked(t)
      BY Zenon, <2>1, <2>3, <3>1, WakeWait
    <3>3. Credit' = Credit
      BY Zenon, <2>1 DEF Credit
    <3>4. QED
      BY Zenon, <2>1, <3>2, <3>3, AbstractLeave
  <2>4. CASE UNCHANGED <<waitQ, down>>
    BY Zenon, <1>1, <2>1, <2>4
  <2>5. QED
    BY Zenon, <1>6, <2>2, <2>3, <2>4 DEF MRT_act_down
<1>7. ASSUME NEW p \in Proc, NEW s \in Sem, NEW a \in SemAttrs, MRT_semalloc(p, s, a) PROVE Goal
  <2>1. /\ owner[s] = NoProc /\ owner' = [owner EXCEPT ![s] = p]
        /\ value' = [value EXCEPT ![s] = a.value] /\ UNCHANGED <<down, psem>>
    BY Zenon, <1>7 DEF MRT_semalloc, wait
  <2>2. a.value \in Nat
    <3>1. a \in [flags : SUBSET {"PRTYORDER", "PRTYINHERIT", "MUTEX"}, value : Nat]
      BY Zenon, SemAssumption
    <3>2. QED
      BY Zenon, <3>1
  <2>3. value'[s] = a.value /\ \A t \in Sem : t # s => value'[t] = value[t]
    BY Zenon, <2>1 DEF IInv, TypeOK
  <2>4. Credit' = [Credit EXCEPT ![s] = a.value]
    BY Zenon, <2>2, <2>3, CreditChanged
  <2>5. Credit'[s] = a.value
    BY Zenon, <2>4, AbstractState
  <2>6. s \notin Exists /\ Exists' = Exists \cup {s}
    BY <2>1, Consts DEF IInv, TypeOK, Exists
  <2>7. Waiting' = Waiting
    BY Zenon, <2>1 DEF Waiting
  <2>8. Abstract!Create(s)
    BY Zenon, <2>2, <2>4, <2>5, <2>6, <2>7 DEF Abstract!Create
  <2>9. QED
    BY Zenon, <2>8 DEF Abstract!Next
<1>8. ASSUME NEW p \in Proc, NEW s \in Sem, MRT_semfree(p, s) PROVE Goal
  <2>1. /\ owner[s] = p /\ Waiters(s) = {} /\ owner' = [owner EXCEPT ![s] = NoProc]
        /\ value' = [value EXCEPT ![s] = 0] /\ UNCHANGED <<down, psem>>
    BY Zenon, <1>8 DEF MRT_semfree, wait
  <2>2. value'[s] = 0 /\ \A t \in Sem : t # s => value'[t] = value[t]
    BY Zenon, <2>1 DEF IInv, TypeOK
  <2>3. Credit' = [Credit EXCEPT ![s] = 0]
    BY Zenon, <2>2, CreditChanged
  <2>4. s \in Exists /\ Exists' = Exists \ {s}
    BY Zenon, <2>1, Consts DEF IInv, TypeOK, Exists
  <2>5. Waiting' = Waiting /\ Waiting[s] = {}
    <3>1. Blocked(s) = {}
      BY Zenon, <2>1, WaitersBlocked DEF IInv
    <3>2. Waiting' = Waiting
      BY Zenon, <2>1 DEF Waiting
    <3>3. QED
      BY Zenon, <3>1, <3>2, AbstractState
  <2>6. Abstract!Destroy(s)
    BY Zenon, <2>3, <2>4, <2>5 DEF Abstract!Destroy
  <2>7. QED
    BY Zenon, <2>6 DEF Abstract!Next
<1>9. ASSUME NEW p \in Proc, \/ Expire(p) \/ rtk_set2rt(p) \/ rtk_wakeup(p)
                             \/ \E b \in BasePrty : MRT_setpattr(p, b)
      PROVE  Goal
  BY Zenon, <1>1, <1>9 DEF Expire, rtk_set2rt, rtk_wakeup, MRT_setpattr, wait, semattr
<1>10. ASSUME rtk_sleep \/ FlushSched \/ MRT_set2nrt \/ Left \/ Halted \/ UNCHANGED vars PROVE Goal
  BY Zenon, <1>1, <1>10 DEF rtk_sleep, FlushSched, MRT_set2nrt, Left, Halted, vars, wait, semattr
<1> HIDE DEF Goal
<1>11. Goal
  BY Zenon, <1>2, <1>3, <1>4, <1>5, <1>6, <1>7, <1>8, <1>9, <1>10 DEF Next
<1>12. QED
  BY Zenon, <1>11 DEF Goal
=============================================================================
