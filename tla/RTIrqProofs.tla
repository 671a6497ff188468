---------------------------- MODULE RTIrqProofs ----------------------------
(***************************************************************************)
(* Proofs about the interrupt descriptors, for any lines, priorities and   *)
(* configurations in which no process is scheduled from a nested           *)
(* interrupt.                                                              *)
(***************************************************************************)
EXTENDS RTIrq, PrtyQueueProofs

(* What the lemmas use of the natural numbers and of finite sets; it is    *)
(* proved at the end, before the theorems.                                 *)
Basics ==
  /\ WellOrdered
  /\ \A D \in SUBSET Irq :
       /\ Cardinality(D) \in Nat /\ (D # {} => Cardinality(D) # 0)
       /\ \A d \in D : Cardinality(D \ {d}) = Cardinality(D) - 1
       /\ \A E \in SUBSET D : Cardinality(E) <= Cardinality(D)

-----------------------------------------------------------------------------
(* The states of the kernel.                                               *)
State ==
  [flags : [Irq -> SUBSET {"ENQUEUED", "TDTRIGGER"}], irqQ : Queues(Irq), mnxQ : Seq(Irq),
   newint : BOOLEAN, mcli : BOOLEAN, needsched : BOOLEAN,
   line : SUBSET Irq, virtual : SUBSET Irq, real : SUBSET Irq, pic : SUBSET Irq,
   exp : SUBSET Irq, expP : SUBSET Prty, ready : SUBSET Prty, cur : Prty, lvl : Prty,
   stack : Seq(Frame), fault : {"none", "link", "panic"}]

Enqueued(s) == {d \in Irq : "ENQUEUED" \in s.flags[d]}

(* The queue has what is marked ENQUEUED, once, by priority.               *)
QueueInv(q, mnxQ, enq) ==
  /\ QOnce(q)
  /\ \A d \in Irq, r \in Prty : d \in QMembers(q, r) <=> d \in enq /\ r = conf.prio[d]
  /\ \A d \in enq : conf.prio[d] # 0
  /\ \A i \in 1 .. Len(mnxQ) : mnxQ[i] \notin conf.rt

(* What frames can be above what others: frame i of the stack st.          *)
FlushAt(st, i) ==
  st[i].kind = "F" =>
    /\ \A j \in 1 .. Len(st) : st[j].kind = "F" => j = i
    /\ i < Len(st) => ~st[i].timers
    /\ i > 1 => st[i - 1].kind = "H" /\ conf.timers = {}

UnlockAt(st, cur, i) ==
  st[i].kind = "U" =>
    /\ i = 1 /\ cur = PRILOWEST /\ "lock" \in conf.minix
    /\ Len(st) > 1 => st[2].kind = "H" /\ st[2].why = "unlock"

HandlerAt(st, enq, i) ==
  st[i].kind = "H" =>
    /\ st[i].why = "dispatch" => st[i].d \notin conf.td /\ (i > 1 => st[i - 1].kind = "H")
    /\ st[i].why = "flush" => i > 1 /\ st[i - 1].kind = "F" /\ st[i].d \in enq
    /\ st[i].why = "unlock" => i = 2 /\ st[1].kind = "U" /\ st[i].d \notin conf.rt

ShapeInv(st, cur, enq) ==
  \A i \in 1 .. Len(st) : FlushAt(st, i) /\ UnlockAt(st, cur, i) /\ HandlerAt(st, enq, i)

(* The level at which the code of frame i runs.                            *)
Lev(st, cur, i) ==
  IF i = 0 THEN cur
  ELSE IF st[i].kind = "H" THEN conf.prio[st[i].d]
  ELSE IF i = 1 THEN cur
  ELSE conf.prio[st[i - 1].d]

LevelAt(st, cur, i) ==
  /\ st[i].kind = "H" =>
       /\ st[i].lvl = Lev(st, cur, i - 1)
       /\ conf.prio[st[i].d] <= st[i].lvl
       /\ \A j \in 1 .. i - 1 : st[j].kind = "H" => conf.prio[st[i].d] <= conf.prio[st[j].d]
  /\ st[i].kind = "F" /\ ~st[i].timers => st[i].p <= Lev(st, cur, i)

LevelInv(st, cur, lvl) ==
  lvl = Lev(st, cur, Len(st)) /\ \A i \in 1 .. Len(st) : LevelAt(st, cur, i)

(* What the loop of the flush has passed is served, unless something new   *)
(* has come.                                                               *)
PassedInv(st, newint, enq) ==
  \A i \in 1 .. Len(st) : st[i].kind = "F" /\ ~newint => \A d \in enq : conf.prio[d] >= st[i].p

RestInv(s) ==
  /\ s.expP \subseteq conf.timers /\ (s.needsched => conf.timers # {})
  /\ s.line \subseteq Hard /\ s.virtual \subseteq Hard

Core(s) ==
  /\ s \in State
  /\ QueueInv(s.irqQ, s.mnxQ, Enqueued(s))
  /\ ShapeInv(s.stack, s.cur, Enqueued(s))
  /\ LevelInv(s.stack, s.cur, s.lvl)
  /\ PassedInv(s.stack, s.newint, Enqueued(s))
  /\ RestInv(s)

(* Where the loop starts, nothing new is left to look at.                  *)
Tested(s) ==
  \A i \in 1 .. Len(s.stack) : s.stack[i].kind = "F" /\ s.stack[i].timers => ~s.newint

Flushing(st) == \E i \in 1 .. Len(st) : st[i].kind = "F"

(* Where no flush is going on, none is called for.                         *)
NoneDue(s) == Flushing(s.stack) \/ \A d \in Enqueued(s) : conf.prio[d] > s.lvl

Good(s) == Core(s) /\ Tested(s) /\ NoneDue(s)

(* Timers wake processes up only where all lines are timer driven, and     *)
(* MINIX, whose lines are the least urgent (put_irq_handler), locks only   *)
(* where timers do not.                                                    *)
Orderly ==
  \A c \in Confs :
    /\ c.timers = {} \/ (c.td = Irq /\ "lock" \notin c.minix)
    /\ "lock" \in c.minix => \A d \in Irq \ c.rt : c.prio[d] = PRILOWEST

IInv == conf \in Confs /\ Good(k)

-----------------------------------------------------------------------------
LEMMA ConfFacts ==
  ASSUME conf \in Confs
  PROVE  /\ conf \in Conf /\ conf.prio \in [Irq -> Prty] /\ conf.soft \subseteq Irq
         /\ conf.procs \subseteq Prty /\ conf.timers \subseteq Prty
         /\ conf.ist \in [Irq -> Prty]
         /\ conf.prtymask \in BOOLEAN
BY Zenon, IrqAssumption DEF Conf

LEMMA PrtyFacts == Prty \subseteq Nat /\ PRILOWEST \in Prty /\ \A r \in Prty : r <= PRILOWEST
BY PrtyAssumption DEF Prty, PRILOWEST

LEMMA FrameFacts ==
  ASSUME NEW f \in Frame
  PROVE  /\ f.kind \in {"H", "F", "U"}
         /\ f.kind = "H" => f.d \in Irq /\ f.lvl \in Prty /\ f.real \in SUBSET Irq
                            /\ f.why \in {"dispatch", "flush", "unlock"}
         /\ f.kind = "F" => f.p \in 1 .. NR_PRTY /\ f.timers \in BOOLEAN
BY Zenon DEF Frame

(* Steps that leave alone what the invariant is about.                     *)
LEMMA CoreSame ==
  ASSUME NEW s \in State, NEW t \in State,
         t.irqQ = s.irqQ, t.mnxQ = s.mnxQ, t.newint = s.newint, t.needsched = s.needsched, t.expP = s.expP,
         t.cur = s.cur, t.lvl = s.lvl, t.stack = s.stack,
         t.line \subseteq Hard, t.virtual \subseteq Hard,
         \A d \in Irq : "ENQUEUED" \in t.flags[d] <=> "ENQUEUED" \in s.flags[d]
  PROVE  /\ Core(s) => Core(t)
         /\ Tested(s) => Tested(t)
         /\ NoneDue(s) => NoneDue(t)
<1>1. Enqueued(t) = Enqueued(s)
  BY Zenon DEF Enqueued
<1>2. QED
  BY Zenon, <1>1 DEF Core, RestInv, Tested, NoneDue

(* MRT_prtylvl_set changes the level and the mask of the controller.       *)
LEMMA PrtylvlSet ==
  ASSUME conf \in Confs, NEW s \in State, NEW p \in Prty
  PROVE  LET t == MRT_prtylvl_set(s, p)
         IN  /\ t \in State /\ t.lvl = p
             /\ t.irqQ = s.irqQ /\ t.mnxQ = s.mnxQ /\ t.newint = s.newint /\ t.needsched = s.needsched
             /\ t.expP = s.expP /\ t.cur = s.cur /\ t.stack = s.stack /\ t.flags = s.flags
             /\ t.ready = s.ready /\ t.line = s.line /\ t.virtual = s.virtual /\ t.exp = s.exp
<1>1. \E c \in SUBSET Irq : MRT_prtylvl_set(s, p) = [s EXCEPT !.lvl = p, !.pic = c]
  BY Zenon, ConfFacts DEF MRT_prtylvl_set, Hard, State
<1>2. PICK c \in SUBSET Irq : MRT_prtylvl_set(s, p) = [s EXCEPT !.lvl = p, !.pic = c]
  BY Zenon, <1>1
<1>3. [s EXCEPT !.lvl = p, !.pic = c] \in State
  BY Zenon DEF State
<1>4. QED
  BY <1>2, <1>3 DEF State

-----------------------------------------------------------------------------
(* The stack.                                                              *)
LEMMA PushFacts ==
  ASSUME NEW st \in Seq(Frame), NEW f \in Frame
  PROVE  /\ Append(st, f) \in Seq(Frame) /\ Len(Append(st, f)) = Len(st) + 1
         /\ \A i \in 1 .. Len(st) : Append(st, f)[i] = st[i]
         /\ Append(st, f)[Len(st) + 1] = f
         /\ Len(st) \in Nat /\ (st = << >> <=> Len(st) = 0)
OBVIOUS

LEMMA EmptyStack == << >> \in Seq(Frame) /\ \A st \in Seq(Frame) : Len(st) = 0 => st = << >>
<1>1. << >> \in Seq(Frame)
  OBVIOUS
<1>2. ASSUME NEW st \in Seq(Frame), Len(st) = 0 PROVE st = << >>
  BY <1>2
<1>3. QED
  BY Zenon, <1>1, <1>2

LEMMA PopFacts ==
  ASSUME NEW st \in Seq(Frame), st # << >>
  PROVE  LET t == SubSeq(st, 1, Len(st) - 1)
         IN  /\ t \in Seq(Frame) /\ Len(t) = Len(st) - 1 /\ Len(st) \in Nat /\ Len(st) > 0
             /\ \A i \in 1 .. Len(st) - 1 : t[i] = st[i]
             /\ st[Len(st)] \in Frame
<1>1. Len(st) \in Nat /\ Len(st) > 0 /\ st[Len(st)] \in Frame
  OBVIOUS
<1>2. /\ SubSeq(st, 1, Len(st) - 1) \in Seq(Frame)
      /\ Len(SubSeq(st, 1, Len(st) - 1)) = Len(st) - 1
      /\ \A i \in 1 .. Len(st) - 1 : SubSeq(st, 1, Len(st) - 1)[i] = st[i]
  <2>1. \A i \in 1 .. Len(st) - 1 : i \in 1 .. Len(st) /\ st[i] \in Frame
    BY <1>1
  <2>2. Len(st) - 1 \in Nat
    BY <1>1
  <2>3. /\ SubSeq(st, 1, Len(st) - 1) \in Seq(Frame)
        /\ Len(SubSeq(st, 1, Len(st) - 1)) = IF 1 <= Len(st) - 1 THEN (Len(st) - 1) - 1 + 1 ELSE 0
        /\ \A i \in 1 .. (Len(st) - 1) - 1 + 1 : SubSeq(st, 1, Len(st) - 1)[i] = st[1 + i - 1]
    BY <2>1, <2>2
  <2>4. (Len(st) - 1) - 1 + 1 = Len(st) - 1 /\ \A i \in 1 .. Len(st) - 1 : 1 + i - 1 = i
    BY <1>1
  <2>5. (IF 1 <= Len(st) - 1 THEN (Len(st) - 1) - 1 + 1 ELSE 0) = Len(st) - 1
    <3>1. \A n \in Nat \ {0} : (IF 1 <= n - 1 THEN (n - 1) - 1 + 1 ELSE 0) = n - 1
      OBVIOUS
    <3>2. Len(st) \in Nat \ {0}
      BY <1>1
    <3>3. QED
      BY Zenon, <3>1, <3>2
  <2>6. QED
    BY Zenon, <2>3, <2>4, <2>5
<1>3. QED
  BY Zenon, <1>1, <1>2

LEMMA TopFacts ==
  ASSUME NEW st \in Seq(Frame), NEW g \in Frame, st # << >>
  PROVE  LET t == [st EXCEPT ![Len(st)] = g]
         IN  /\ t \in Seq(Frame) /\ Len(t) = Len(st) /\ Len(st) \in Nat /\ Len(st) > 0
             /\ \A i \in 1 .. Len(st) - 1 : t[i] = st[i]
             /\ t[Len(st)] = g
OBVIOUS

(* Which frames can be put on top.                                         *)
Allowed(st, cur, enq, f) ==
  /\ f.kind = "H" =>
       /\ f.why = "dispatch" => f.d \notin conf.td /\ (Len(st) > 0 => st[Len(st)].kind = "H")
       /\ f.why = "flush" => Len(st) > 0 /\ st[Len(st)].kind = "F" /\ ~st[Len(st)].timers /\ f.d \in enq
       /\ f.why = "unlock" => Len(st) = 1 /\ st[1].kind = "U" /\ f.d \notin conf.rt
  /\ f.kind = "F" => ~Flushing(st) /\ (Len(st) > 0 => st[Len(st)].kind = "H" /\ conf.timers = {})
  /\ f.kind = "U" => Len(st) = 0 /\ cur = PRILOWEST /\ "lock" \in conf.minix

LEMMA PushShape ==
  ASSUME NEW st \in Seq(Frame), NEW f \in Frame, NEW cur, NEW enq,
         ShapeInv(st, cur, enq), Allowed(st, cur, enq, f)
  PROVE  ShapeInv(Append(st, f), cur, enq)
<1> DEFINE t == Append(st, f)
           n == Len(st)
<1>1. /\ t \in Seq(Frame) /\ Len(t) = n + 1 /\ n \in Nat
      /\ \A i \in 1 .. n : t[i] = st[i]
      /\ t[n + 1] = f
  BY Zenon, PushFacts
<1>2. \A i \in 1 .. n : st[i] \in Frame
  OBVIOUS
<1> HIDE DEF t, n
<1>3. ASSUME NEW i \in 1 .. n PROVE FlushAt(t, i)
  <2>1. FlushAt(st, i)
    BY Zenon DEF ShapeInv, n
  <2>2. i < n => i < Len(st)
    BY Zenon DEF n
  <2>3. ASSUME t[i].kind = "F" PROVE f.kind # "F" /\ ~t[i].timers
    <3>1. st[i].kind = "F" /\ i \in 1 .. Len(st)
      BY Zenon, <1>1, <2>3 DEF n
    <3>2. f.kind # "F"
      BY Zenon, <3>1 DEF Allowed, Flushing
    <3>3. CASE i < n
      BY Zenon, <1>1, <2>1, <2>2, <3>1, <3>2, <3>3 DEF FlushAt
    <3>4. CASE i = n
      <4>1. n > 0 /\ st[n].kind = "F" /\ f.kind # "U"
        BY <1>1, <3>1, <3>4 DEF Allowed, n
      <4>2. f.kind = "H" /\ f.why \in {"dispatch", "flush", "unlock"}
        BY Zenon, <3>2, <4>1, FrameFacts
      <4>3. QED
        BY Zenon, <1>1, <3>2, <3>4, <4>1, <4>2 DEF Allowed, n
    <3>5. QED
      BY <1>1, <3>3, <3>4
  <2>4. t[i].kind = "F" => \A j \in 1 .. n + 1 : t[j].kind = "F" => j = i
    <3>1. SUFFICES ASSUME t[i].kind = "F", NEW j \in 1 .. n + 1, t[j].kind = "F" PROVE j = i
      BY Zenon
    <3>2. j \in 1 .. n
      BY <1>1, <2>3, <3>1
    <3>3. QED
      BY Zenon, <1>1, <2>1, <3>1, <3>2 DEF FlushAt, n
  <2>5. t[i].kind = "F" /\ i > 1 => t[i - 1].kind = "H" /\ conf.timers = {}
    <3>1. i > 1 => i - 1 \in 1 .. n
      BY <1>1
    <3>2. QED
      BY Zenon, <1>1, <2>1, <3>1 DEF FlushAt
  <2>6. QED
    BY Zenon, <1>1, <2>3, <2>4, <2>5 DEF FlushAt
<1>4. ASSUME NEW i \in 1 .. n PROVE UnlockAt(t, cur, i) /\ HandlerAt(t, enq, i)
  <2>1. UnlockAt(st, cur, i) /\ HandlerAt(st, enq, i)
    BY Zenon DEF ShapeInv, n
  <2>2. i > 1 => i - 1 \in 1 .. n /\ t[i - 1] = st[i - 1]
    BY <1>1
  <2>3. HandlerAt(t, enq, i)
    <3>1. i = 2 => t[1] = st[1]
      BY <2>2
    <3>2. QED
      BY Zenon, <1>1, <2>1, <2>2, <3>1 DEF HandlerAt
  <2>4. ASSUME t[i].kind = "U" PROVE i = 1 /\ t[2].kind = "H" /\ t[2].why = "unlock"
    <3>1. st[1].kind = "U" /\ i = 1
      BY Zenon, <1>1, <2>1, <2>4 DEF UnlockAt
    <3>2. CASE n > 1
      <4>1. 2 \in 1 .. n
        BY <1>1, <3>2
      <4>2. QED
        BY Zenon, <1>1, <2>1, <3>1, <3>2, <4>1 DEF UnlockAt, n
    <3>3. CASE n = 1
      <4>1. f.kind # "F" /\ f.kind # "U"
        BY <3>1, <3>3 DEF Allowed, n
      <4>2. f.kind = "H" /\ f.why \in {"dispatch", "flush", "unlock"}
        BY Zenon, <4>1, FrameFacts
      <4>3. f.why = "unlock"
        BY <3>1, <3>3, <4>2 DEF Allowed, n
      <4>4. t[2] = f
        BY <1>1, <3>3
      <4>5. QED
        BY Zenon, <3>1, <4>2, <4>3, <4>4
    <3>4. QED
      BY <1>1, <3>2, <3>3
  <2>5. QED
    BY Zenon, <1>1, <2>1, <2>3, <2>4 DEF UnlockAt
<1>5. FlushAt(t, n + 1) /\ UnlockAt(t, cur, n + 1) /\ HandlerAt(t, enq, n + 1)
  <2>1. n > 0 => t[n] = st[n] /\ n \in 1 .. n
    BY <1>1
  <2>2. (n + 1) - 1 = n /\ (n + 1 > 1 <=> n > 0) /\ ~(n + 1 < n + 1)
    BY <1>1
  <2>3. f.kind = "F" => \A j \in 1 .. n + 1 : t[j].kind = "F" => j = n + 1
    <3>1. f.kind = "F" => \A j \in 1 .. n : st[j].kind # "F"
      BY Zenon DEF Allowed, Flushing, n
    <3>2. QED
      BY <1>1, <3>1
  <2>4. FlushAt(t, n + 1)
    BY Zenon, <1>1, <2>1, <2>2, <2>3 DEF FlushAt, Allowed, n
  <2>5. UnlockAt(t, cur, n + 1)
    BY <1>1 DEF UnlockAt, Allowed, n
  <2>6. HandlerAt(t, enq, n + 1)
    BY <1>1, <2>1, <2>2 DEF HandlerAt, Allowed, n
  <2>7. QED
    BY Zenon, <2>4, <2>5, <2>6
<1>6. QED
  <2>1. \A i \in 1 .. Len(t) : i \in 1 .. n \/ i = n + 1
    BY <1>1
  <2>2. QED
    BY Zenon, <1>3, <1>4, <1>5, <2>1 DEF ShapeInv, t

LEMMA PopShape ==
  ASSUME NEW st \in Seq(Frame), st # << >>, NEW cur, NEW enq, NEW enq2,
         ShapeInv(st, cur, enq),
         \A i \in 1 .. Len(st) - 1 : st[i].kind = "H" /\ st[i].why = "flush" /\ st[i].d \in enq => st[i].d \in enq2
  PROVE  ShapeInv(SubSeq(st, 1, Len(st) - 1), cur, enq2)
<1> DEFINE t == SubSeq(st, 1, Len(st) - 1)
           n == Len(st)
<1>1. t \in Seq(Frame) /\ Len(t) = n - 1 /\ n \in Nat /\ n > 0 /\ \A i \in 1 .. n - 1 : t[i] = st[i]
  BY Zenon, PopFacts
<1> HIDE DEF t
<1>2. ASSUME NEW i \in 1 .. n - 1
      PROVE  FlushAt(t, i) /\ UnlockAt(t, cur, i) /\ HandlerAt(t, enq2, i)
  <2>1. FlushAt(st, i) /\ UnlockAt(st, cur, i) /\ HandlerAt(st, enq, i) /\ t[i] = st[i]
    BY <1>1 DEF ShapeInv
  <2>2. i > 1 => i - 1 \in 1 .. n - 1 /\ t[i - 1] = st[i - 1]
    BY <1>1
  <2>3. i > 1 => t[1] = st[1]
    BY <1>1
  <2>4. n - 1 > 1 => n > 1 /\ t[2] = st[2]
    BY <1>1
  <2>5. FlushAt(t, i)
    <3>1. i < n - 1 => i < n
      BY <1>1
    <3>2. \A j \in 1 .. n - 1 : j \in 1 .. n
      BY <1>1
    <3>3. QED
      BY Zenon, <1>1, <2>1, <2>2, <3>1, <3>2 DEF FlushAt
  <2>6. UnlockAt(t, cur, i)
    BY Zenon, <1>1, <2>1, <2>4 DEF UnlockAt
  <2>7. HandlerAt(t, enq2, i)
    BY <1>1, <2>1, <2>2, <2>3 DEF HandlerAt
  <2>8. QED
    BY Zenon, <2>5, <2>6, <2>7
<1>3. QED
  BY Zenon, <1>1, <1>2 DEF ShapeInv, t

(* Levels.                                                                 *)
LEMMA LevSame ==
  ASSUME NEW st, NEW t, NEW cur, NEW i \in Nat,
         \A j \in 1 .. i : t[j] = st[j]
  PROVE  Lev(t, cur, i) = Lev(st, cur, i)
<1>1. i # 0 => t[i] = st[i]
  OBVIOUS
<1>2. i # 0 /\ i # 1 => t[i - 1] = st[i - 1]
  <2>1. i # 0 /\ i # 1 => i - 1 \in 1 .. i
    OBVIOUS
  <2>2. QED
    BY Zenon, <2>1
<1>3. QED
  BY Zenon, <1>1, <1>2 DEF Lev

LEMMA LevelSame ==
  ASSUME NEW st, NEW t, NEW cur, NEW i \in Nat, i # 0,
         \A j \in 1 .. i : t[j] = st[j], LevelAt(st, cur, i)
  PROVE  LevelAt(t, cur, i)
<1>1. Lev(t, cur, i) = Lev(st, cur, i)
  BY LevSame
<1>2. Lev(t, cur, i - 1) = Lev(st, cur, i - 1)
  <2>1. i - 1 \in Nat /\ \A j \in 1 .. i - 1 : t[j] = st[j]
    OBVIOUS
  <2>2. QED
    BY <2>1, LevSame
<1>3. t[i] = st[i] /\ \A j \in 1 .. i - 1 : t[j] = st[j]
  OBVIOUS
<1>4. QED
  BY Zenon, <1>1, <1>2, <1>3 DEF LevelAt

(* The handler below runs at the level of its priority.                    *)
LEMMA LevType ==
  ASSUME conf \in Confs, NEW st \in Seq(Frame), NEW cur \in Prty, NEW enq, ShapeInv(st, cur, enq),
         NEW i \in 0 .. Len(st)
  PROVE  Lev(st, cur, i) \in Prty
<1>1. \A j \in 1 .. Len(st) : st[j].kind = "H" => conf.prio[st[j].d] \in Prty
  BY FrameFacts, ConfFacts
<1>2. CASE i = 0 \/ i = 1
  <2>1. Len(st) \in Nat
    OBVIOUS
  <2>2. QED
    BY <1>1, <1>2, <2>1 DEF Lev
<1>3. CASE i > 1
  <2>1. i \in 1 .. Len(st) /\ i - 1 \in 1 .. Len(st) /\ i # 0 /\ i # 1
    BY <1>3
  <2>2. st[i].kind # "H" => st[i - 1].kind = "H"
    <3>1. st[i].kind \in {"H", "F", "U"}
      BY <2>1, FrameFacts
    <3>2. FlushAt(st, i) /\ UnlockAt(st, cur, i)
      BY Zenon, <2>1 DEF ShapeInv
    <3>3. QED
      BY Zenon, <1>3, <2>1, <3>1, <3>2 DEF FlushAt, UnlockAt
  <2>3. QED
    BY Zenon, <1>1, <2>1, <2>2 DEF Lev
<1>4. QED
  BY <1>2, <1>3

LEMMA PushHandler ==
  ASSUME conf \in Confs, NEW st \in Seq(Frame), NEW f \in Frame, NEW cur \in Prty, NEW enq, NEW lvl \in Prty,
         ShapeInv(st, cur, enq), LevelInv(st, cur, lvl),
         f.kind = "H", f.lvl = lvl, conf.prio[f.d] <= lvl
  PROVE  LevelInv(Append(st, f), cur, conf.prio[f.d])
<1> DEFINE t == Append(st, f)
           n == Len(st)
<1>1. /\ t \in Seq(Frame) /\ Len(t) = n + 1 /\ n \in Nat
      /\ \A i \in 1 .. n : t[i] = st[i]
      /\ t[n + 1] = f
  BY Zenon, PushFacts
<1>2. f.d \in Irq /\ conf.prio[f.d] \in Prty /\ Prty \subseteq Nat
  BY Zenon, FrameFacts, ConfFacts, PrtyFacts
<1> HIDE DEF t
<1>3. ASSUME NEW i \in 1 .. n PROVE LevelAt(t, cur, i)
  <2>1. i \in Nat /\ i # 0 /\ (\A j \in 1 .. i : t[j] = st[j]) /\ LevelAt(st, cur, i)
    BY <1>1 DEF LevelInv
  <2>2. QED
    BY Zenon, <2>1, LevelSame
<1>4. ASSUME NEW j \in 1 .. n, st[j].kind = "H" PROVE conf.prio[f.d] <= conf.prio[st[j].d]
  <2>1. conf.prio[st[j].d] \in Prty
    BY <1>4, FrameFacts, ConfFacts
  <2>2. lvl <= conf.prio[st[j].d]
    <3>1. n \in 1 .. n /\ n # 0 /\ LevelAt(st, cur, n) /\ lvl = Lev(st, cur, n)
      BY <1>1 DEF LevelInv
    <3>2. CASE st[n].kind = "H"
      <4>1. lvl = conf.prio[st[n].d]
        BY Zenon, <3>1, <3>2 DEF Lev
      <4>2. CASE j = n
        BY <1>2, <4>1, <4>2
      <4>3. CASE j # n
        <5>1. j \in 1 .. n - 1
          BY <1>1, <4>3
        <5>2. QED
          BY Zenon, <1>4, <3>1, <3>2, <4>1, <5>1 DEF LevelAt
      <4>4. QED
        BY Zenon, <4>2, <4>3
    <3>3. CASE st[n].kind # "H"
      <4>1. n # 1 /\ j # n
        BY <1>1, <1>4, <3>3
      <4>2. n - 1 \in 1 .. n /\ n > 1 /\ j \in 1 .. n - 1
        BY <1>1, <4>1
      <4>3. st[n - 1].kind = "H"
        <5>1. st[n].kind \in {"H", "F", "U"}
          BY <3>1, FrameFacts
        <5>2. FlushAt(st, n) /\ UnlockAt(st, cur, n)
          BY Zenon, <3>1 DEF ShapeInv
        <5>3. QED
          BY Zenon, <3>3, <4>1, <4>2, <5>1, <5>2 DEF FlushAt, UnlockAt
      <4>4. lvl = conf.prio[st[n - 1].d]
        BY Zenon, <3>1, <3>3, <4>1 DEF Lev
      <4>5. CASE j = n - 1
        BY <1>2, <4>4, <4>5
      <4>6. CASE j # n - 1
        <5>1. j \in 1 .. (n - 1) - 1
          BY <1>1, <4>2, <4>6
        <5>2. LevelAt(st, cur, n - 1)
          BY Zenon, <4>2 DEF LevelInv
        <5>3. QED
          BY Zenon, <1>4, <4>3, <4>4, <5>1, <5>2 DEF LevelAt
      <4>7. QED
        BY Zenon, <4>5, <4>6
    <3>4. QED
      BY Zenon, <3>2, <3>3
  <2>3. conf.prio[f.d] \in Nat /\ conf.prio[st[j].d] \in Nat /\ lvl \in Nat
    BY Zenon, <1>2, <2>1
  <2>4. QED
    BY <2>2, <2>3
<1>5. LevelAt(t, cur, n + 1)
  <2>1. Lev(t, cur, n) = Lev(st, cur, n)
    BY <1>1, LevSame
  <2>2. (n + 1) - 1 = n
    BY <1>1
  <2>3. f.lvl = Lev(t, cur, n)
    BY Zenon, <2>1 DEF LevelInv
  <2>4. \A j \in 1 .. n : t[j].kind = "H" => conf.prio[f.d] <= conf.prio[t[j].d]
    BY Zenon, <1>1, <1>4
  <2>5. QED
    BY Zenon, <1>1, <2>2, <2>3, <2>4 DEF LevelAt
<1>6. conf.prio[f.d] = Lev(t, cur, n + 1)
  <2>1. n + 1 # 0
    BY <1>1
  <2>2. QED
    BY Zenon, <1>1, <2>1 DEF Lev
<1>7. QED
  <2>1. \A i \in 1 .. Len(t) : i \in 1 .. n \/ i = n + 1
    BY <1>1
  <2>2. QED
    BY Zenon, <1>1, <1>3, <1>5, <1>6, <2>1 DEF LevelInv, t

(* The flush and the loop of unlock run at the level of what is below.     *)
LEMMA PushOther ==
  ASSUME conf \in Confs, NEW st \in Seq(Frame), NEW f \in Frame, NEW cur \in Prty, NEW enq, NEW lvl \in Prty,
         LevelInv(st, cur, lvl), Allowed(st, cur, enq, f),
         f.kind = "U" \/ (f.kind = "F" /\ f.timers)
  PROVE  LevelInv(Append(st, f), cur, lvl)
<1> DEFINE t == Append(st, f)
           n == Len(st)
<1>1. /\ t \in Seq(Frame) /\ Len(t) = n + 1 /\ n \in Nat
      /\ \A i \in 1 .. n : t[i] = st[i]
      /\ t[n + 1] = f
  BY PushFacts
<1> HIDE DEF t
<1>2. ASSUME NEW i \in 1 .. n PROVE LevelAt(t, cur, i)
  <2>1. i \in Nat /\ i # 0 /\ (\A j \in 1 .. i : t[j] = st[j]) /\ LevelAt(st, cur, i)
    BY <1>1 DEF LevelInv
  <2>2. QED
    BY Zenon, <2>1, LevelSame
<1>3. f.kind # "H"
  BY Zenon
<1>4. LevelAt(t, cur, n + 1)
  BY Zenon, <1>1, <1>3 DEF LevelAt
<1>5. lvl = Lev(t, cur, n + 1)
  <2>1. CASE n = 0
    <3>1. lvl = cur
      BY Zenon, <2>1 DEF LevelInv, Lev
    <3>2. QED
      BY <1>1, <1>3, <2>1, <3>1 DEF Lev
  <2>2. CASE n # 0
    <3>1. n > 0 /\ n \in 1 .. n /\ (n + 1) - 1 = n /\ n + 1 # 0 /\ n + 1 # 1
      BY <1>1, <2>2
    <3>2. st[n].kind = "H"
      BY <3>1, <1>3 DEF Allowed
    <3>3. lvl = conf.prio[st[n].d]
      BY Zenon, <2>2, <3>2 DEF LevelInv, Lev
    <3>4. QED
      BY Zenon, <1>1, <1>3, <3>1, <3>3 DEF Lev
  <2>3. QED
    BY Zenon, <2>1, <2>2
<1>6. QED
  <2>1. \A i \in 1 .. Len(t) : i \in 1 .. n \/ i = n + 1
    BY <1>1
  <2>2. QED
    BY Zenon, <1>1, <1>2, <1>4, <1>5, <2>1 DEF LevelInv, t

LEMMA PopLevel ==
  ASSUME conf \in Confs, NEW st \in Seq(Frame), st # << >>, NEW cur, NEW enq, NEW lvl,
         ShapeInv(st, cur, enq), LevelInv(st, cur, lvl)
  PROVE  LevelInv(SubSeq(st, 1, Len(st) - 1), cur, IF st[Len(st)].kind = "H" THEN st[Len(st)].lvl ELSE lvl)
<1> DEFINE t == SubSeq(st, 1, Len(st) - 1)
           n == Len(st)
<1>1. t \in Seq(Frame) /\ Len(t) = n - 1 /\ n \in Nat /\ n > 0 /\ \A i \in 1 .. n - 1 : t[i] = st[i]
  BY Zenon, PopFacts
<1> HIDE DEF t
<1>2. ASSUME NEW i \in 1 .. n - 1 PROVE LevelAt(t, cur, i)
  <2>1. i \in Nat /\ i # 0 /\ (\A j \in 1 .. i : t[j] = st[j]) /\ LevelAt(st, cur, i)
    BY <1>1 DEF LevelInv
  <2>2. QED
    BY Zenon, <2>1, LevelSame
<1>3. n - 1 \in Nat /\ Lev(t, cur, n - 1) = Lev(st, cur, n - 1)
  <2>1. n - 1 \in Nat
    BY <1>1
  <2>2. QED
    BY <1>1, <2>1, LevSame
<1>4. n \in 1 .. n
  BY <1>1
<1>5. (IF st[n].kind = "H" THEN st[n].lvl ELSE lvl) = Lev(st, cur, n - 1)
  <2>1. CASE st[n].kind = "H"
    BY Zenon, <1>4, <2>1 DEF LevelInv, LevelAt
  <2>2. CASE st[n].kind # "H"
    <3>1. st[n].kind \in {"H", "F", "U"}
      BY <1>4, FrameFacts
    <3>2. FlushAt(st, n) /\ UnlockAt(st, cur, n)
      BY Zenon, <1>4 DEF ShapeInv
    <3>3. n > 1 => st[n - 1].kind = "H"
      BY <1>1, <2>2, <3>1, <3>2 DEF FlushAt, UnlockAt
    <3>4. lvl = Lev(st, cur, n)
      BY Zenon DEF LevelInv
    <3>5. CASE n = 1
      <4>1. n - 1 = 0
        BY <3>5
      <4>2. QED
        BY Zenon, <2>2, <3>4, <3>5, <4>1 DEF Lev
    <3>6. CASE n > 1
      <4>1. n - 1 # 0 /\ n # 0 /\ n # 1
        BY <1>1, <3>6
      <4>2. QED
        BY Zenon, <2>2, <3>3, <3>4, <3>6, <4>1 DEF Lev
    <3>7. QED
      BY <1>1, <3>5, <3>6
  <2>3. QED
    BY Zenon, <2>1, <2>2
<1>6. QED
  BY Zenon, <1>1, <1>2, <1>3, <1>5 DEF LevelInv, t

(* The loop of the flush goes on: the frame on top is replaced.            *)
LEMMA TopShape ==
  ASSUME NEW st \in Seq(Frame), st # << >>, NEW cur, NEW cur2, NEW enq, NEW g \in Frame,
         ShapeInv(st, cur, enq), st[Len(st)].kind = "F", g.kind = "F", cur2 = cur \/ Len(st) = 1
  PROVE  ShapeInv([st EXCEPT ![Len(st)] = g], cur2, enq)
<1> DEFINE t == [st EXCEPT ![Len(st)] = g]
           n == Len(st)
<1>1. /\ t \in Seq(Frame) /\ Len(t) = n /\ n \in Nat /\ n > 0
      /\ \A i \in 1 .. n - 1 : t[i] = st[i]
      /\ t[n] = g
  BY Zenon, TopFacts
<1> HIDE DEF t
<1>2. \A i \in 1 .. n : t[i].kind = st[i].kind /\ (i \in 1 .. n - 1 \/ i = n)
  BY <1>1
<1>3. FlushAt(st, n) /\ n \in 1 .. n
  BY <1>1 DEF ShapeInv
<1>4. ASSUME NEW i \in 1 .. n
      PROVE  FlushAt(t, i) /\ UnlockAt(t, cur2, i) /\ HandlerAt(t, enq, i)
  <2>1. FlushAt(st, i) /\ UnlockAt(st, cur, i) /\ HandlerAt(st, enq, i)
    BY Zenon DEF ShapeInv
  <2>2. i > 1 => i - 1 \in 1 .. n
    BY <1>1
  <2>3. st[i].kind = "F" => i = n
    BY Zenon, <1>3 DEF FlushAt
  <2>4. n > 1 => 1 \in 1 .. n - 1
    BY <1>1
  <2>5. FlushAt(t, i)
    <3>1. st[i].kind = "F" /\ i > 1 => st[i - 1].kind = "H" /\ conf.timers = {}
      BY Zenon, <2>1 DEF FlushAt
    <3>2. ~(n < n)
      BY <1>1
    <3>3. QED
      BY Zenon, <1>1, <1>2, <1>3, <2>2, <2>3, <3>1, <3>2 DEF FlushAt
  <2>6. UnlockAt(t, cur2, i)
    <3>1. SUFFICES ASSUME st[i].kind = "U" PROVE UnlockAt(t, cur2, i)
      BY Zenon, <1>2 DEF UnlockAt
    <3>2. i = 1 /\ i # n
      BY Zenon, <2>1, <3>1 DEF UnlockAt
    <3>3. n > 1 /\ 2 \in 1 .. n
      BY <1>1, <3>2
    <3>4. st[2].kind = "H" /\ cur2 = cur
      BY Zenon, <1>1, <2>1, <3>1, <3>3 DEF UnlockAt
    <3>5. t[2] = st[2]
      BY <1>1, <3>3, <3>4
    <3>6. QED
      BY Zenon, <1>1, <2>1, <3>1, <3>3, <3>4, <3>5 DEF UnlockAt
  <2>7. HandlerAt(t, enq, i)
    <3>1. SUFFICES ASSUME st[i].kind = "H" PROVE HandlerAt(t, enq, i)
      BY Zenon, <1>2 DEF HandlerAt
    <3>2. t[i] = st[i]
      BY Zenon, <1>1, <1>2, <3>1
    <3>3. i > 1 => t[i - 1].kind = st[i - 1].kind /\ t[1].kind = st[1].kind
      BY <1>2, <1>3, <2>2
    <3>4. i = 2 => i > 1
      OBVIOUS
    <3>5. QED
      BY Zenon, <2>1, <3>2, <3>3, <3>4 DEF HandlerAt
  <2>8. QED
    BY Zenon, <2>5, <2>6, <2>7
<1>5. QED
  BY Zenon, <1>1, <1>4 DEF ShapeInv, t

LEMMA TopLevel ==
  ASSUME NEW st \in Seq(Frame), st # << >>, NEW cur, NEW cur2, NEW lvl, NEW lvl2, NEW g \in Frame,
         LevelInv(st, cur, lvl), st[Len(st)].kind = "F", g.kind = "F",
         \/ cur2 = cur /\ lvl2 = lvl
         \/ Len(st) = 1 /\ lvl2 = cur2,
         g.timers \/ g.p <= lvl2
  PROVE  LevelInv([st EXCEPT ![Len(st)] = g], cur2, lvl2)
<1> DEFINE t == [st EXCEPT ![Len(st)] = g]
           n == Len(st)
<1>1. /\ t \in Seq(Frame) /\ Len(t) = n /\ n \in Nat /\ n > 0
      /\ \A i \in 1 .. n - 1 : t[i] = st[i]
      /\ t[n] = g
  BY Zenon, TopFacts
<1> HIDE DEF t
<1>2. ASSUME NEW i \in 1 .. n - 1 PROVE LevelAt(t, cur2, i)
  <2>1. i \in Nat /\ i # 0 /\ (\A j \in 1 .. i : t[j] = st[j]) /\ LevelAt(st, cur, i)
    BY <1>1 DEF LevelInv
  <2>2. cur2 = cur
    BY <1>1
  <2>3. QED
    BY Zenon, <2>1, <2>2, LevelSame
<1>3. lvl2 = Lev(t, cur2, n)
  <2>1. CASE n = 1
    <3>1. lvl = cur
      BY Zenon, <2>1 DEF LevelInv, Lev
    <3>2. QED
      BY Zenon, <1>1, <2>1, <3>1 DEF Lev
  <2>2. CASE n # 1
    <3>1. cur2 = cur /\ lvl2 = lvl /\ n # 0 /\ t[n - 1] = st[n - 1]
      BY <1>1, <2>2
    <3>2. QED
      BY Zenon, <1>1, <2>2, <3>1 DEF LevelInv, Lev
  <2>3. QED
    BY Zenon, <2>1, <2>2
<1>4. LevelAt(t, cur2, n)
  BY Zenon, <1>1, <1>3 DEF LevelAt
<1>5. QED
  <2>1. \A i \in 1 .. n : i \in 1 .. n - 1 \/ i = n
    BY <1>1
  <2>2. QED
    BY Zenon, <1>1, <1>2, <1>3, <1>4, <2>1 DEF LevelInv, t
-----------------------------------------------------------------------------
(* The operations.                                                         *)

(* MRT_irqd_enQ, if the descriptor is not to run at priority 0.            *)
LEMMA EnqKeeps ==
  ASSUME conf \in Confs, NEW s, Core(s), NEW d \in Irq,
         conf.prio[d] # 0 \/ (d \notin conf.rt /\ s.mcli)
  PROVE  LET t == MRT_irqd_enQ(s, d)
         IN  /\ Core(t) /\ t.stack = s.stack /\ t.cur = s.cur /\ t.lvl = s.lvl
             /\ t.mcli = s.mcli
<1> DEFINE u == [s EXCEPT !.newint = TRUE]
<1>0. s \in State
  BY Zenon DEF Core
<1>1. /\ u \in State /\ u.newint = TRUE
      /\ u.irqQ = s.irqQ /\ u.mnxQ = s.mnxQ /\ u.flags = s.flags /\ u.stack = s.stack
      /\ u.cur = s.cur /\ u.lvl = s.lvl /\ u.mcli = s.mcli /\ u.expP = s.expP /\ u.needsched = s.needsched
      /\ u.line = s.line /\ u.virtual = s.virtual
  BY Zenon, <1>0 DEF State
<1> HIDE DEF u
<1>2. Enqueued(u) = Enqueued(s)
  BY Zenon, <1>1 DEF Enqueued
<1>3. Core(u)
  BY Zenon, <1>1, <1>2 DEF Core, RestInv, PassedInv
<1>4. CASE "ENQUEUED" \in s.flags[d]
  BY Zenon, <1>4 DEF MRT_irqd_enQ
<1>5. CASE "ENQUEUED" \notin s.flags[d] /\ d \notin conf.rt /\ (d \in s.virtual \/ s.mcli)
  <2>1. CASE \E i \in 1 .. Len(s.mnxQ) : s.mnxQ[i] = d
    <3> DEFINE t == Fail(u, "link")
    <3>1. MRT_irqd_enQ(s, d) = t
      BY Zenon, <1>5, <2>1 DEF MRT_irqd_enQ, u
    <3>2. /\ t \in State
          /\ t.irqQ = u.irqQ /\ t.mnxQ = u.mnxQ /\ t.flags = u.flags /\ t.stack = u.stack
          /\ t.cur = u.cur /\ t.lvl = u.lvl /\ t.mcli = u.mcli /\ t.expP = u.expP
          /\ t.needsched = u.needsched /\ t.newint = u.newint
          /\ t.line = s.line /\ t.virtual = s.virtual
      BY Zenon, <1>1 DEF Fail, State
    <3> HIDE DEF t
    <3>3. Core(t)
      BY Zenon, <1>1, <1>3, <3>2, CoreSame DEF Core, RestInv
    <3>4. QED
      BY Zenon, <1>1, <3>1, <3>2, <3>3
  <2>2. CASE ~\E i \in 1 .. Len(s.mnxQ) : s.mnxQ[i] = d
    <3> DEFINE m == Append(s.mnxQ, d)
               t == [u EXCEPT !.mnxQ = m]
    <3>1. MRT_irqd_enQ(s, d) = t
      BY Zenon, <1>1, <1>5, <2>2 DEF MRT_irqd_enQ, u
    <3>0. s.mnxQ \in Seq(Irq) /\ m \in Seq(Irq) /\ m = Append(s.mnxQ, d)
      BY <1>0 DEF State
    <3> HIDE DEF m
    <3>2. /\ t \in State
          /\ t.irqQ = u.irqQ /\ t.mnxQ = m /\ t.flags = u.flags /\ t.stack = u.stack
          /\ t.cur = u.cur /\ t.lvl = u.lvl /\ t.mcli = u.mcli /\ t.expP = u.expP
          /\ t.needsched = u.needsched /\ t.newint = u.newint
          /\ t.line = s.line /\ t.virtual = s.virtual
      BY Zenon, <1>1, <3>0 DEF State
    <3> HIDE DEF t
    <3>3. Enqueued(t) = Enqueued(u)
      BY Zenon, <3>2 DEF Enqueued
    <3>4. \A i \in 1 .. Len(t.mnxQ) : t.mnxQ[i] \notin conf.rt
      <4>1. s.mnxQ \in Seq(Irq)
        BY Zenon, <1>0 DEF State
      <4>2. /\ Len(t.mnxQ) = Len(s.mnxQ) + 1 /\ t.mnxQ[Len(s.mnxQ) + 1] = d
            /\ \A i \in 1 .. Len(s.mnxQ) : t.mnxQ[i] = s.mnxQ[i]
        BY <3>0, <3>2, <4>1
      <4>3. Len(s.mnxQ) \in Nat
        BY <4>1
      <4>4. \A i \in 1 .. Len(s.mnxQ) : s.mnxQ[i] \notin conf.rt
        BY Zenon DEF Core, QueueInv
      <4>5. QED
        BY <1>5, <4>2, <4>3, <4>4
    <3>5. QueueInv(t.irqQ, t.mnxQ, Enqueued(t))
      BY <1>3, <3>2, <3>3, <3>4 DEF Core, QueueInv
    <3>6. Core(t)
      BY Zenon, <1>1, <1>3, <3>2, <3>3, <3>5 DEF Core, RestInv
    <3>7. QED
      BY Zenon, <1>1, <3>1, <3>2, <3>6
  <2>3. QED
    BY Zenon, <2>1, <2>2
<1>6. CASE "ENQUEUED" \notin s.flags[d] /\ ~(d \notin conf.rt /\ (d \in s.virtual \/ s.mcli))
  <2> DEFINE t == [u EXCEPT !.flags[d] = @ \cup {"ENQUEUED"}, !.irqQ = QAppend(@, conf.prio[d], d)]
             r == conf.prio[d]
  <2>1. MRT_irqd_enQ(s, d) = t
    BY Zenon, <1>6 DEF MRT_irqd_enQ, u
  <2>2. r \in Prty /\ r # 0 /\ s.irqQ \in Queues(Irq)
    BY Zenon, <1>0, <1>6, ConfFacts DEF State
  <2>3. /\ QAppend(s.irqQ, r, d) \in Queues(Irq)
        /\ QMembers(QAppend(s.irqQ, r, d), r) = QMembers(s.irqQ, r) \cup {d}
        /\ \A q \in Prty : q # r => QMembers(QAppend(s.irqQ, r, d), q) = QMembers(s.irqQ, q)
        /\ QOnce(s.irqQ) /\ d \notin QMembers(s.irqQ, r) => QOnce(QAppend(s.irqQ, r, d))
    BY Zenon, <2>2, QAppendFacts
  <2>4. /\ t \in State
        /\ t.irqQ = QAppend(s.irqQ, r, d) /\ t.mnxQ = u.mnxQ /\ t.stack = u.stack
        /\ t.flags = [u.flags EXCEPT ![d] = @ \cup {"ENQUEUED"}]
        /\ t.cur = u.cur /\ t.lvl = u.lvl /\ t.mcli = u.mcli /\ t.expP = u.expP
        /\ t.needsched = u.needsched /\ t.newint = u.newint
        /\ t.line = s.line /\ t.virtual = s.virtual
    BY Zenon, <1>1, <2>3 DEF State
  <2>5. u.flags \in [Irq -> SUBSET {"ENQUEUED", "TDTRIGGER"}]
    BY Zenon, <1>1 DEF State
  <2> HIDE DEF t
  <2>6. Enqueued(t) = Enqueued(s) \cup {d}
    BY <1>1, <2>4, <2>5 DEF Enqueued
  <2>7. d \notin Enqueued(s)
    BY Zenon, <1>6 DEF Enqueued
  <2>8. QueueInv(t.irqQ, t.mnxQ, Enqueued(t))
    <3>1. QueueInv(s.irqQ, s.mnxQ, Enqueued(s))
      BY Zenon DEF Core
    <3>2. d \notin QMembers(s.irqQ, r)
      BY Zenon, <2>2, <2>7, <3>1 DEF QueueInv
    <3>3. ASSUME NEW c \in Irq, NEW q \in Prty
          PROVE  c \in QMembers(t.irqQ, q) <=> c \in Enqueued(t) /\ q = conf.prio[c]
      <4>1. c \in QMembers(s.irqQ, q) <=> c \in Enqueued(s) /\ q = conf.prio[c]
        BY Zenon, <3>1 DEF QueueInv
      <4>2. QED
        BY <2>3, <2>4, <2>6, <4>1
    <3>4. QOnce(t.irqQ)
      BY Zenon, <2>3, <2>4, <3>1, <3>2 DEF QueueInv
    <3>5. QED
      BY Zenon, <1>1, <2>2, <2>4, <2>6, <3>1, <3>3, <3>4 DEF QueueInv
  <2>9. ShapeInv(t.stack, t.cur, Enqueued(t))
    BY <1>1, <2>4, <2>6 DEF Core, ShapeInv, HandlerAt
  <2>10. PassedInv(t.stack, t.newint, Enqueued(t))
    BY Zenon, <1>1, <2>4 DEF PassedInv
  <2>11. Core(t)
    BY Zenon, <1>1, <1>3, <2>4, <2>8, <2>9, <2>10 DEF Core, RestInv
  <2>12. QED
    BY Zenon, <1>1, <2>1, <2>4, <2>11
<1>7. QED
  BY Zenon, <1>4, <1>5, <1>6

(* Frames of the flush where the loop has not started.                     *)
LEMMA TestedUnder ==
  ASSUME NEW s, Core(s), s.stack # << >> => Top(s).kind = "H"
  PROVE  Tested(s)
<1>1. s.stack \in Seq(Frame)
  BY Zenon DEF Core, State
<1>2. ASSUME NEW i \in 1 .. Len(s.stack), s.stack[i].kind = "F" PROVE ~s.stack[i].timers
  <2>1. FlushAt(s.stack, i)
    BY Zenon DEF Core, ShapeInv
  <2>2. s.stack # << >> /\ i # Len(s.stack)
    BY <1>1, <1>2 DEF Top
  <2>3. i < Len(s.stack)
    BY <1>1, <2>2
  <2>4. QED
    BY Zenon, <1>2, <2>1, <2>3 DEF FlushAt
<1>3. QED
  BY Zenon, <1>2 DEF Tested

(* restart starts the flush if one is called for.                          *)
LEMMA RestartGood ==
  ASSUME Orderly, conf \in Confs, NEW s, Core(s), s.stack # << >> => Top(s).kind = "H"
  PROVE  Good(Restart(s))
<1>1. s \in State /\ s.stack \in Seq(Frame) /\ Len(s.stack) \in Nat
  BY DEF Core, State
<1>2. CASE Flushing(s.stack)
  <2>1. Restart(s) = s
    BY Zenon, <1>2 DEF Restart, Flushing
  <2>2. QED
    BY Zenon, <1>2, <2>1, TestedUnder DEF Good, NoneDue
<1>3. CASE ~Flushing(s.stack) /\ QIsEmpty(s.irqQ) /\ s.exp = {} /\ s.expP = {}
  <2>1. Restart(s) = s
    BY Zenon, <1>3 DEF Restart
  <2>2. \A r \in Prty : QMembers(s.irqQ, r) = {}
    BY Zenon, <1>1, <1>3, QIsEmptyFacts DEF State
  <2>3. Enqueued(s) = {}
    BY <2>2, ConfFacts DEF Core, QueueInv, Enqueued
  <2>4. QED
    BY Zenon, <2>1, <2>3, TestedUnder DEF Good, NoneDue
<1>4. CASE ~Flushing(s.stack) /\ ~(QIsEmpty(s.irqQ) /\ s.exp = {} /\ s.expP = {})
  <2> DEFINE f == [kind |-> "F", p |-> 1, timers |-> TRUE]
             st == Append(s.stack, f)
             t == [s EXCEPT !.newint = FALSE, !.stack = st]
  <2>1. Restart(s) = t
    <3>1. Restart(s) = [[s EXCEPT !.newint = FALSE] EXCEPT !.stack = Append(@, f)]
      BY Zenon, <1>4 DEF Restart, Push, Flushing
    <3>2. QED
      BY Zenon, <1>1, <3>1 DEF State
  <2>2. f \in Frame /\ f.kind = "F" /\ f.timers = TRUE /\ f.p = 1
    <3>1. 1 \in 1 .. NR_PRTY
      BY PrtyAssumption
    <3>2. QED
      BY Zenon, <3>1 DEF Frame
  <2> HIDE DEF f
  <2>3. /\ st \in Seq(Frame) /\ Len(st) = Len(s.stack) + 1
        /\ \A i \in 1 .. Len(s.stack) : st[i] = s.stack[i]
        /\ st[Len(s.stack) + 1] = f
        /\ (s.stack = << >> <=> Len(s.stack) = 0)
    BY Zenon, <1>1, <2>2, PushFacts
  <2>4. Len(s.stack) > 0 => s.stack[Len(s.stack)].kind = "H" /\ conf.timers = {}
    <3>1. SUFFICES ASSUME Len(s.stack) > 0
                   PROVE  s.stack[Len(s.stack)].kind = "H" /\ conf.timers = {}
      BY Zenon
    <3> DEFINE n == Len(s.stack)
               h == s.stack[n]
    <3>2. n \in 1 .. n /\ h.kind = "H" /\ h \in Frame
      BY <1>1, <2>3, <3>1 DEF Top
    <3>3. h.why \in {"dispatch", "flush", "unlock"} /\ h.d \in Irq
      BY Zenon, <3>2, FrameFacts
    <3>4. HandlerAt(s.stack, Enqueued(s), n)
      BY Zenon, <3>2 DEF Core, ShapeInv
    <3>5. h.why # "flush"
      <4>1. n > 1 => n - 1 \in 1 .. n
        BY <1>1
      <4>2. QED
        BY Zenon, <1>4, <3>2, <3>4, <4>1 DEF HandlerAt, Flushing
    <3>6. conf.timers = {} \/ (conf.td = Irq /\ "lock" \notin conf.minix)
      BY Zenon DEF Orderly
    <3>7. h.why = "dispatch" => conf.td # Irq
      BY Zenon, <3>2, <3>3, <3>4 DEF HandlerAt
    <3>8. h.why = "unlock" => "lock" \in conf.minix
      <4>1. 1 \in 1 .. n
        BY <1>1, <3>1
      <4>2. UnlockAt(s.stack, s.cur, 1)
        BY Zenon, <4>1 DEF Core, ShapeInv
      <4>3. QED
        BY Zenon, <3>2, <3>4, <4>2 DEF HandlerAt, UnlockAt
    <3>9. QED
      BY Zenon, <3>2, <3>3, <3>5, <3>6, <3>7, <3>8
  <2>5. Allowed(s.stack, s.cur, Enqueued(s), f)
    BY Zenon, <1>4, <2>2, <2>4 DEF Allowed
  <2>6. ShapeInv(st, s.cur, Enqueued(s))
    BY Zenon, <1>1, <2>2, <2>5, PushShape DEF Core
  <2>7. LevelInv(st, s.cur, s.lvl)
    <3>1. s.cur \in Prty /\ s.lvl \in Prty /\ LevelInv(s.stack, s.cur, s.lvl)
      BY Zenon, <1>1 DEF State, Core
    <3>2. QED
      BY Zenon, <1>1, <2>2, <2>5, <3>1, PushOther
  <2>8. \A i \in 1 .. Len(st) : st[i].kind = "F" => st[i] = f
    BY <1>1, <1>4, <2>3 DEF Flushing
  <2>9. Flushing(st)
    <3>1. Len(s.stack) + 1 \in 1 .. Len(st)
      BY <1>1, <2>3
    <3>2. QED
      BY Zenon, <2>2, <2>3, <3>1 DEF Flushing
  <2>10. /\ t \in State /\ t.newint = FALSE /\ t.stack = st
         /\ t.irqQ = s.irqQ /\ t.mnxQ = s.mnxQ /\ t.flags = s.flags
         /\ t.cur = s.cur /\ t.lvl = s.lvl /\ t.expP = s.expP /\ t.needsched = s.needsched
         /\ t.line = s.line /\ t.virtual = s.virtual
    <3> HIDE DEF st
    <3>1. QED
      BY Zenon, <1>1, <2>3 DEF State
  <2> HIDE DEF t, st
  <2>11. Enqueued(t) = Enqueued(s)
    BY Zenon, <2>10 DEF Enqueued
  <2>12. PassedInv(t.stack, t.newint, Enqueued(t))
    <3>1. \A d \in Enqueued(s) : conf.prio[d] >= 1
      <4>1. \A d \in Enqueued(s) : conf.prio[d] # 0 /\ conf.prio[d] \in Nat
        BY Zenon, ConfFacts, PrtyFacts DEF Core, QueueInv, Enqueued
      <4>2. QED
        BY <4>1
    <3>2. QED
      BY Zenon, <2>2, <2>8, <2>10, <2>11, <3>1 DEF PassedInv
  <2>13. Core(t)
    BY Zenon, <2>6, <2>7, <2>10, <2>11, <2>12 DEF Core, RestInv
  <2>14. Tested(t) /\ NoneDue(t)
    BY Zenon, <2>9, <2>10 DEF Tested, NoneDue
  <2>15. QED
    BY Zenon, <2>1, <2>13, <2>14 DEF Good
<1>5. QED
  BY Zenon, <1>2, <1>3, <1>4

(* MRT_do_handler starts a handler.                                        *)
LEMMA HandlerStarts ==
  ASSUME conf \in Confs, NEW s, Core(s), NEW d \in Irq, NEW why \in {"dispatch", "flush", "unlock"},
         conf.prio[d] <= s.lvl,
         Allowed(s.stack, s.cur, Enqueued(s), [kind |-> "H", d |-> d, lvl |-> s.lvl, real |-> s.real, why |-> why]),
         NoneDue(s)
  PROVE  Good(MRT_do_handler(s, d, why))
<1> DEFINE f == [kind |-> "H", d |-> d, lvl |-> s.lvl, real |-> s.real, why |-> why]
           u == MRT_prtylvl_set(s, conf.prio[d])
           st == Append(s.stack, f)
           t == [u EXCEPT !.stack = st]
<1>1. /\ s \in State /\ s.stack \in Seq(Frame) /\ Len(s.stack) \in Nat
      /\ s.lvl \in Prty /\ s.cur \in Prty /\ s.real \subseteq Irq
  BY DEF Core, State
<1>2. conf.prio[d] \in Prty
  BY Zenon, ConfFacts
<1>3. /\ u \in State /\ u.lvl = conf.prio[d]
      /\ u.irqQ = s.irqQ /\ u.mnxQ = s.mnxQ /\ u.newint = s.newint /\ u.needsched = s.needsched
      /\ u.expP = s.expP /\ u.cur = s.cur /\ u.stack = s.stack /\ u.flags = s.flags
      /\ u.line = s.line /\ u.virtual = s.virtual
  BY <1>1, <1>2, PrtylvlSet
<1>4. f \in Frame /\ f.kind = "H" /\ f.d = d /\ f.lvl = s.lvl
  BY Zenon, <1>1 DEF Frame
<1>5. Allowed(s.stack, s.cur, Enqueued(s), f)
  BY Zenon
<1>6. MRT_do_handler(s, d, why) = t
  BY Zenon, <1>3 DEF MRT_do_handler, Push
<1> HIDE DEF f, u
<1>7. /\ st \in Seq(Frame) /\ Len(st) = Len(s.stack) + 1
      /\ \A i \in 1 .. Len(s.stack) : st[i] = s.stack[i]
      /\ st[Len(s.stack) + 1] = f
  BY Zenon, <1>1, <1>4, PushFacts
<1>8. ShapeInv(st, s.cur, Enqueued(s))
  BY Zenon, <1>1, <1>4, <1>5, PushShape DEF Core
<1>9. LevelInv(st, s.cur, conf.prio[d])
  <2>1. ShapeInv(s.stack, s.cur, Enqueued(s)) /\ LevelInv(s.stack, s.cur, s.lvl)
    BY Zenon DEF Core
  <2>2. conf.prio[f.d] <= s.lvl
    BY Zenon, <1>4
  <2>3. LevelInv(st, s.cur, conf.prio[f.d])
    BY Zenon, <1>1, <1>4, <2>1, <2>2, PushHandler
  <2>4. QED
    BY Zenon, <1>4, <2>3
<1>10. /\ t \in State /\ t.stack = st /\ t.lvl = conf.prio[d]
       /\ t.irqQ = s.irqQ /\ t.mnxQ = s.mnxQ /\ t.flags = s.flags /\ t.newint = s.newint
       /\ t.cur = s.cur /\ t.expP = s.expP /\ t.needsched = s.needsched
       /\ t.line = s.line /\ t.virtual = s.virtual
  <2> HIDE DEF st
  <2>1. QED
    BY Zenon, <1>3, <1>7 DEF State
<1> HIDE DEF t, st
<1>11. Enqueued(t) = Enqueued(s)
  BY Zenon, <1>10 DEF Enqueued
<1>12. \A i \in 1 .. Len(st) : st[i].kind = "F" => i \in 1 .. Len(s.stack)
  BY <1>1, <1>4, <1>7
<1>13. PassedInv(t.stack, t.newint, Enqueued(t))
  BY Zenon, <1>7, <1>10, <1>11, <1>12 DEF Core, PassedInv
<1>14. Core(t)
  BY Zenon, <1>8, <1>9, <1>10, <1>11, <1>13 DEF Core, RestInv
<1>15. t.stack # << >> /\ Top(t).kind = "H"
  <2>1. Len(st) > 0 /\ Top(t) = f
    BY <1>1, <1>7, <1>10 DEF Top
  <2>2. QED
    BY <1>4, <1>7, <1>10, <2>1
<1>16. NoneDue(t)
  <2>1. Flushing(s.stack) => Flushing(st)
    <3>1. \A i \in 1 .. Len(s.stack) : i \in 1 .. Len(st)
      BY <1>1, <1>7
    <3>2. QED
      BY Zenon, <1>7, <3>1 DEF Flushing
  <2>2. ASSUME NEW c \in Enqueued(s), conf.prio[c] > s.lvl PROVE conf.prio[c] > conf.prio[d]
    <3>1. conf.prio[c] \in Nat /\ conf.prio[d] \in Nat /\ s.lvl \in Nat
      BY Zenon, <1>1, <1>2, ConfFacts, PrtyFacts DEF Enqueued
    <3>2. QED
      BY <2>2, <3>1
  <2>3. QED
    BY Zenon, <1>10, <1>11, <2>1, <2>2 DEF NoneDue
<1>17. QED
  BY Zenon, <1>6, <1>14, <1>15, <1>16, TestedUnder DEF Good

-----------------------------------------------------------------------------
(* The scheduler.                                                          *)
LEMMA PickFacts ==
  ASSUME Basics, conf \in Confs, NEW s \in State
  PROVE  LET t == MRT_pick_proc(s)
         IN  /\ t \in State /\ t.lvl = t.cur /\ t.needsched = FALSE
             /\ t.irqQ = s.irqQ /\ t.mnxQ = s.mnxQ /\ t.newint = s.newint
             /\ t.expP = s.expP /\ t.stack = s.stack /\ t.flags = s.flags
             /\ t.line = s.line /\ t.virtual = s.virtual
<1> DEFINE P == s.ready \cup {PRILOWEST}
           p == Least(P)
           u == [s EXCEPT !.cur = p, !.needsched = FALSE]
<1>1. P \in SUBSET Prty /\ P # {}
  BY Zenon, PrtyFacts DEF State
<1>2. p \in Prty
  <2> HIDE DEF P
  <2>1. \E r \in P : \A x \in P : r <= x
    BY Zenon, <1>1, LeastPrty DEF Basics
  <2>2. p \in P
    BY Zenon, <2>1 DEF Least
  <2>3. QED
    BY Zenon, <1>1, <2>2
<1> HIDE DEF p
<1>3. /\ u \in State /\ u.cur = p /\ u.needsched = FALSE
      /\ u.irqQ = s.irqQ /\ u.mnxQ = s.mnxQ /\ u.newint = s.newint
      /\ u.expP = s.expP /\ u.stack = s.stack /\ u.flags = s.flags
      /\ u.line = s.line /\ u.virtual = s.virtual
  BY Zenon, <1>2 DEF State
<1>4. MRT_pick_proc(s) = MRT_prtylvl_set(u, p)
  BY Zenon DEF MRT_pick_proc, p
<1> HIDE DEF u
<1>5. QED
  BY <1>2, <1>3, <1>4, PrtylvlSet

(* A process is picked while no handler runs.                              *)
LEMMA PickUser ==
  ASSUME Basics, conf \in Confs, NEW s, Core(s), s.stack = << >>
  PROVE  Core(MRT_pick_proc(s)) /\ MRT_pick_proc(s).stack = << >>
<1> DEFINE t == MRT_pick_proc(s)
<1>1. s \in State
  BY Zenon DEF Core
<1>2. /\ t \in State /\ t.lvl = t.cur /\ t.needsched = FALSE
      /\ t.irqQ = s.irqQ /\ t.mnxQ = s.mnxQ /\ t.newint = s.newint
      /\ t.expP = s.expP /\ t.stack = s.stack /\ t.flags = s.flags
      /\ t.line = s.line /\ t.virtual = s.virtual
  BY Zenon, <1>1, PickFacts
<1> HIDE DEF t
<1>3. Enqueued(t) = Enqueued(s)
  BY Zenon, <1>2 DEF Enqueued
<1>4. Len(t.stack) = 0 /\ 1 .. 0 = {}
  BY <1>2
<1>5. ShapeInv(t.stack, t.cur, Enqueued(t)) /\ LevelInv(t.stack, t.cur, t.lvl)
  BY Zenon, <1>2, <1>4 DEF ShapeInv, LevelInv, Lev
<1>6. QED
  BY Zenon, <1>2, <1>3, <1>5 DEF Core, RestInv, t
-----------------------------------------------------------------------------
(* The timers of a priority.  MRT_irqd_enQ is applied to the descriptors   *)
(* of a set one after the other.                                           *)
PickOne(D) == CHOOSE d \in D : TRUE

EnqAll(f, T, u, n) ==
  f = [D \in {D \in SUBSET T : Cardinality(D) <= n} |->
         IF D = {} THEN u ELSE MRT_irqd_enQ(f[D \ {PickOne(D)}], PickOne(D))]

LEMMA PickedOne ==
  ASSUME Basics, NEW T \in SUBSET Irq, NEW D \in SUBSET T, D # {}
  PROVE  /\ PickOne(D) \in D /\ D \ {PickOne(D)} \in SUBSET T
         /\ Cardinality(D) \in Nat /\ Cardinality(D \ {PickOne(D)}) = Cardinality(D) - 1
         /\ Cardinality(D) # 0
<1>1. PickOne(D) \in D
  BY Zenon DEF PickOne
<1>2. D \in SUBSET Irq
  BY Zenon
<1>3. QED
  BY Zenon, <1>1, <1>2 DEF Basics

LEMMA EnqAllExists ==
  ASSUME Basics, NEW T \in SUBSET Irq, NEW u, NEW n \in Nat
  PROVE  \E f : EnqAll(f, T, u, n)
<1> DEFINE S == {m \in Nat : ~\E f : EnqAll(f, T, u, m)}
<1>1. SUFFICES ASSUME S # {} PROVE FALSE
  BY Zenon
<1>2. PICK m \in S : \A j \in S : m <= j
  <2>1. S \in SUBSET Nat
    BY Zenon
  <2> HIDE DEF S
  <2>2. QED
    BY Zenon, <1>1, <2>1 DEF Basics, WellOrdered
<1> DEFINE Dom(j) == {D \in SUBSET T : Cardinality(D) <= j}
<1>3. m # 0
  <2>1. SUFFICES ASSUME m = 0 PROVE FALSE
    BY Zenon
  <2> DEFINE f == [D \in Dom(0) |-> u]
  <2>2. \A D \in Dom(0) : D = {}
    <3>1. SUFFICES ASSUME NEW D \in Dom(0), D # {} PROVE FALSE
      BY Zenon
    <3>2. D \in SUBSET T /\ Cardinality(D) <= 0
      BY Zenon
    <3>3. Cardinality(D) \in Nat /\ Cardinality(D) # 0
      BY Zenon, <3>1, <3>2, PickedOne
    <3>4. QED
      BY <3>2, <3>3
  <2>3. f = [D \in Dom(0) |-> IF D = {} THEN u ELSE MRT_irqd_enQ(f[D \ {PickOne(D)}], PickOne(D))]
    BY Zenon, <2>2
  <2>4. EnqAll(f, T, u, 0)
    BY Zenon, <2>3 DEF EnqAll
  <2>5. QED
    BY Zenon, <2>1, <2>4
<1>4. m \in Nat /\ m - 1 \in Nat /\ m - 1 \notin S
  BY <1>2, <1>3
<1>5. PICK f : EnqAll(f, T, u, m - 1)
  BY Zenon, <1>4
<1>6. \A D \in Dom(m - 1) :
        f[D] = IF D = {} THEN u ELSE MRT_irqd_enQ(f[D \ {PickOne(D)}], PickOne(D))
  BY Zenon, <1>5 DEF EnqAll
<1> DEFINE g == [D \in Dom(m) |-> IF D = {} THEN u ELSE MRT_irqd_enQ(f[D \ {PickOne(D)}], PickOne(D))]
<1>7. ASSUME NEW D \in Dom(m), D # {}
      PROVE  g[D \ {PickOne(D)}] = f[D \ {PickOne(D)}]
  <2> DEFINE E == D \ {PickOne(D)}
  <2>1. D \in SUBSET T /\ Cardinality(D) <= m
    BY Zenon
  <2>2. E \in SUBSET T /\ Cardinality(D) \in Nat /\ Cardinality(E) = Cardinality(D) - 1
    BY Zenon, <1>7, <2>1, PickedOne
  <2>3. Cardinality(E) <= m - 1 /\ Cardinality(E) <= m
    BY <1>4, <2>1, <2>2
  <2> HIDE DEF E
  <2>4. E \in Dom(m - 1) /\ E \in Dom(m)
    BY Zenon, <2>2, <2>3
  <2>5. g[E] = f[E]
    BY Zenon, <1>6, <2>4
  <2>6. QED
    BY Zenon, <2>5 DEF E
<1>8. g = [D \in Dom(m) |-> IF D = {} THEN u ELSE MRT_irqd_enQ(g[D \ {PickOne(D)}], PickOne(D))]
  <2>1. \A D \in Dom(m) : g[D] = IF D = {} THEN u ELSE MRT_irqd_enQ(g[D \ {PickOne(D)}], PickOne(D))
    BY Zenon, <1>7
  <2>2. g = [D \in Dom(m) |-> g[D]]
    BY Zenon
  <2> HIDE DEF g, Dom
  <2>3. QED
    BY Zenon, <2>1, <2>2
<1>9. EnqAll(g, T, u, m)
  BY Zenon, <1>8 DEF EnqAll
<1>10. QED
  BY Zenon, <1>2, <1>9

(* MRT_vtimer_flush keeps the invariant and the stack.                     *)
LEMMA VtimerFlushKeeps ==
  ASSUME Basics, conf \in Confs, NEW s, Core(s), NEW p \in Prty, p # 0
  PROVE  LET t == MRT_vtimer_flush(s, p)
         IN  Core(t) /\ t.stack = s.stack /\ t.cur = s.cur /\ t.lvl = s.lvl
<1> DEFINE due == {d \in s.exp : conf.prio[d] = p}
           trig == {d \in due : d \in conf.soft \/ "TDTRIGGER" \in s.flags[d]}
           u == [s EXCEPT !.exp = @ \ due, !.expP = @ \ {p},
                          !.ready = IF p \in s.expP THEN @ \cup {p} ELSE @,
                          !.needsched = @ \/ p \in s.expP]
           enQ == CHOOSE f : f = [D \in SUBSET trig |->
                    IF D = {} THEN u
                    ELSE LET d == CHOOSE d \in D : TRUE IN MRT_irqd_enQ(f[D \ {d}], d)]
<1>1. s \in State
  BY Zenon DEF Core
<1>2. /\ u \in State
      /\ u.irqQ = s.irqQ /\ u.mnxQ = s.mnxQ /\ u.newint = s.newint /\ u.flags = s.flags
      /\ u.expP = s.expP \ {p} /\ u.needsched = (s.needsched \/ p \in s.expP)
      /\ u.cur = s.cur /\ u.lvl = s.lvl /\ u.stack = s.stack
      /\ u.line = s.line /\ u.virtual = s.virtual
  BY Zenon, <1>1 DEF State
<1>3. trig \in SUBSET Irq /\ \A d \in trig : conf.prio[d] # 0
  <2>1. trig \in SUBSET Irq
    BY Zenon, <1>1 DEF State
  <2>2. \A d \in trig : conf.prio[d] # 0
    BY Zenon
  <2>3. QED
    BY Zenon, <2>1, <2>2
<1>4. MRT_vtimer_flush(s, p) = enQ[trig]
  BY Zenon DEF MRT_vtimer_flush
<1> HIDE DEF u, trig
<1>5. Core(u)
  <2>1. Enqueued(u) = Enqueued(s)
    BY Zenon, <1>2 DEF Enqueued
  <2>2. QED
    BY Zenon, <1>2, <2>1 DEF Core, RestInv
<1> DEFINE N == Cardinality(trig)
<1>6. N \in Nat /\ SUBSET trig = {D \in SUBSET trig : Cardinality(D) <= N}
  <2>1. \A D \in SUBSET trig : Cardinality(D) <= N
    BY Zenon, <1>3 DEF Basics
  <2>2. QED
    BY Zenon, <1>3, <2>1 DEF Basics
<1>7. enQ = [D \in SUBSET trig |-> IF D = {} THEN u ELSE MRT_irqd_enQ(enQ[D \ {PickOne(D)}], PickOne(D))]
  <2>1. \E f : EnqAll(f, trig, u, N)
    BY Zenon, <1>3, <1>6, EnqAllExists
  <2>2. \E f : f = [D \in SUBSET trig |-> IF D = {} THEN u ELSE MRT_irqd_enQ(f[D \ {PickOne(D)}], PickOne(D))]
    BY Zenon, <1>6, <2>1 DEF EnqAll
  <2>3. QED
    BY Zenon, <2>2 DEF PickOne
<1> HIDE DEF enQ
<1> DEFINE Fine(t) == Core(t) /\ t.stack = s.stack /\ t.cur = s.cur /\ t.lvl = s.lvl
<1>8. Fine(u)
  BY Zenon, <1>2, <1>5
<1>9. ASSUME NEW t, Fine(t), NEW d \in trig PROVE Fine(MRT_irqd_enQ(t, d))
  BY Zenon, <1>3, <1>9, EnqKeeps
<1> HIDE DEF Fine
<1>10. \A D \in SUBSET trig : Fine(enQ[D])
  <2> DEFINE S == {m \in Nat : \E D \in SUBSET trig : Cardinality(D) = m /\ ~Fine(enQ[D])}
  <2>0. \A D \in SUBSET trig : Cardinality(D) \in Nat
    BY Zenon, <1>3 DEF Basics
  <2>1. SUFFICES ASSUME S # {} PROVE FALSE
    BY Zenon, <2>0
  <2>2. PICK m \in S : \A j \in S : m <= j
    <3>1. S \in SUBSET Nat
      BY Zenon
    <3> HIDE DEF S
    <3>2. QED
      BY Zenon, <2>1, <3>1 DEF Basics, WellOrdered
  <2>3. PICK D \in SUBSET trig : Cardinality(D) = m /\ ~Fine(enQ[D])
    BY Zenon, <2>2
  <2>4. D # {}
    BY Zenon, <1>7, <1>8, <2>3
  <2> DEFINE E == D \ {PickOne(D)}
  <2>5. PickOne(D) \in trig /\ E \in SUBSET trig /\ Cardinality(E) = m - 1 /\ m \in Nat /\ m # 0
    BY Zenon, <1>3, <2>3, <2>4, PickedOne
  <2>6. enQ[D] = MRT_irqd_enQ(enQ[E], PickOne(D))
    BY Zenon, <1>7, <2>4
  <2> HIDE DEF E
  <2>7. m - 1 \in Nat /\ ~(m <= m - 1)
    BY <2>5
  <2>8. Fine(enQ[E])
    BY Zenon, <2>2, <2>5, <2>7
  <2>9. QED
    BY Zenon, <1>9, <2>3, <2>5, <2>6, <2>8
<1>11. QED
  BY Zenon, <1>4, <1>10 DEF Fine

-----------------------------------------------------------------------------
(* A configuration does not change.                                        *)
LEMMA KeptPrime ==
  ASSUME conf' = conf, Good(k'), conf \in Confs
  PROVE  IInv'
<1>1. (k \in State)' /\ Enqueued(k)' = Enqueued(k')
  BY Zenon DEF Good, Core, State, Enqueued
<1>2. QueueInv(k.irqQ, k.mnxQ, Enqueued(k))'
  BY Zenon, <1>1 DEF Good, Core, QueueInv
<1>3. ShapeInv(k.stack, k.cur, Enqueued(k))'
  <2>1. ASSUME NEW i \in 1 .. Len(k'.stack)
        PROVE  FlushAt(k.stack, i)' /\ UnlockAt(k.stack, k.cur, i)' /\ HandlerAt(k.stack, Enqueued(k), i)'
    <3>1. FlushAt(k'.stack, i) /\ UnlockAt(k'.stack, k'.cur, i) /\ HandlerAt(k'.stack, Enqueued(k'), i)
      BY Zenon DEF Good, Core, ShapeInv
    <3>2. FlushAt(k.stack, i)'
      BY Zenon, <3>1 DEF FlushAt
    <3>3. UnlockAt(k.stack, k.cur, i)'
      BY Zenon, <3>1 DEF UnlockAt
    <3>4. HandlerAt(k.stack, Enqueued(k), i)'
      BY Zenon, <1>1, <3>1 DEF HandlerAt
    <3>5. QED
      BY Zenon, <3>2, <3>3, <3>4
  <2>2. QED
    BY Zenon, <2>1 DEF ShapeInv
<1>4. LevelInv(k.stack, k.cur, k.lvl)'
  <2>1. \A i : Lev(k.stack, k.cur, i)' = Lev(k'.stack, k'.cur, i)
    BY Zenon DEF Lev
  <2>2. ASSUME NEW i \in 1 .. Len(k'.stack) PROVE LevelAt(k.stack, k.cur, i)'
    <3>1. LevelAt(k'.stack, k'.cur, i)
      BY Zenon DEF Good, Core, LevelInv
    <3>2. QED
      BY Zenon, <2>1, <3>1 DEF LevelAt
  <2>3. k'.lvl = Lev(k'.stack, k'.cur, Len(k'.stack))
    BY Zenon DEF Good, Core, LevelInv
  <2>4. QED
    BY Zenon, <2>1, <2>2, <2>3 DEF LevelInv
<1>5. PassedInv(k.stack, k.newint, Enqueued(k))'
  BY Zenon, <1>1 DEF Good, Core, PassedInv
<1>6. RestInv(k)'
  BY Zenon DEF Good, Core, RestInv, Hard
<1>7. Tested(k)' /\ NoneDue(k)'
  BY Zenon, <1>1 DEF Good, Tested, NoneDue, Flushing
<1>8. QED
  BY Zenon, <1>1, <1>2, <1>3, <1>4, <1>5, <1>6, <1>7 DEF IInv, Good, Core

LEMMA KeptSame ==
  ASSUME IInv, UNCHANGED vars
  PROVE  IInv'
<1>1. conf' = conf /\ k' = k
  BY Zenon DEF vars
<1>2. Good(k')
  BY Zenon, <1>1 DEF IInv
<1>3. QED
  BY Zenon, <1>1, <1>2, KeptPrime DEF IInv

LEMMA InitHolds ==
  ASSUME Init
  PROVE  IInv
<1>1. conf \in Confs /\ NR_PRTY - 1 \in Prty
  BY Zenon, PrtyFacts DEF Init, PRILOWEST
<1>2. QEmpty \in Queues(Irq) /\ QOnce(QEmpty) /\ \A r \in Prty : QMembers(QEmpty, r) = {}
  BY Zenon, QEmptyFacts
<1>3. /\ k \in State /\ k.flags = [d \in Irq |-> {}] /\ k.irqQ = QEmpty /\ k.mnxQ = << >>
      /\ k.newint = FALSE /\ k.needsched = FALSE /\ k.line = {} /\ k.virtual = {} /\ k.expP = {}
      /\ k.cur = PRILOWEST /\ k.lvl = PRILOWEST /\ k.stack = << >>
  <2>1. << >> \in Seq(Irq) /\ << >> \in Seq(Frame) /\ PRILOWEST \in Prty
    BY PrtyFacts
  <2>2. QED
    BY Zenon, <1>2, <2>1 DEF Init, State
<1>4. Enqueued(k) = {}
  BY Zenon, <1>3 DEF Enqueued
<1>5. Len(k.stack) = 0 /\ Len(k.mnxQ) = 0 /\ 1 .. 0 = {}
  BY <1>3
<1>6. Core(k)
  BY Zenon, <1>2, <1>3, <1>4, <1>5 DEF Core, QueueInv, ShapeInv, LevelInv, Lev, PassedInv, RestInv
<1>7. QED
  BY Zenon, <1>1, <1>4, <1>5, <1>6 DEF IInv, Good, Tested, NoneDue

(* Calls and devices.                                                      *)
LEMMA RaiseStep ==
  ASSUME IInv, NEW d \in Irq, Raise(d)
  PROVE  IInv'
<1>1. k \in State /\ Good(k) /\ conf \in Confs /\ RestInv(k)
  BY Zenon DEF IInv, Good, Core
<1>2. k' = [k EXCEPT !.line = @ \cup {d}] /\ conf' = conf /\ d \in Hard
  BY Zenon DEF Raise
<1>3. /\ k' \in State
      /\ k'.irqQ = k.irqQ /\ k'.mnxQ = k.mnxQ /\ k'.newint = k.newint /\ k'.needsched = k.needsched
      /\ k'.expP = k.expP /\ k'.cur = k.cur /\ k'.lvl = k.lvl /\ k'.stack = k.stack /\ k'.flags = k.flags
      /\ k'.line = k.line \cup {d} /\ k'.virtual = k.virtual
  BY Zenon, <1>1, <1>2 DEF State
<1>4. k'.line \subseteq Hard /\ k'.virtual \subseteq Hard
  BY Zenon, <1>1, <1>2, <1>3 DEF RestInv
<1>5. Good(k')
  BY Zenon, <1>1, <1>3, <1>4, CoreSame DEF Good
<1>6. QED
  BY Zenon, <1>1, <1>2, <1>5, KeptPrime

LEMMA DispatchStep ==
  ASSUME Orderly, IInv, NEW d \in Irq, MRT_IRQ_dispatch(d)
  PROVE  IInv'
<1> DEFINE s == MRT_reset_irq([k EXCEPT !.line = @ \ {d}], d)
<1>1. k \in State /\ Good(k) /\ conf \in Confs /\ RestInv(k)
  BY Zenon DEF IInv, Good, Core
<1>2. /\ conf' = conf /\ (k.stack # << >> => Top(k).kind = "H")
      /\ k' = IF d \in conf.td THEN Restart(DispatchTD(s, d)) ELSE Dispatch(s, d)
  BY Zenon DEF MRT_IRQ_dispatch, Enabled
<1>3. /\ s \in State
      /\ s.irqQ = k.irqQ /\ s.mnxQ = k.mnxQ /\ s.newint = k.newint /\ s.needsched = k.needsched
      /\ s.expP = k.expP /\ s.cur = k.cur /\ s.lvl = k.lvl /\ s.stack = k.stack /\ s.flags = k.flags
      /\ s.line = k.line \ {d} /\ s.virtual = k.virtual
  BY Zenon, <1>1 DEF State, MRT_reset_irq
<1> HIDE DEF s
<1>4. s.line \subseteq Hard /\ s.virtual \subseteq Hard
  BY Zenon, <1>1, <1>3 DEF RestInv
<1>5. Core(s) /\ NoneDue(s)
  BY Zenon, <1>1, <1>3, <1>4, CoreSame DEF Good
<1>6. s.stack # << >> => Top(s).kind = "H"
  BY Zenon, <1>2, <1>3 DEF Top
<1>7. CASE d \in conf.td
  <2> DEFINE t == DispatchTD(s, d)
  <2>1. /\ t \in State
        /\ t.irqQ = s.irqQ /\ t.mnxQ = s.mnxQ /\ t.newint = s.newint /\ t.needsched = s.needsched
        /\ t.expP = s.expP /\ t.cur = s.cur /\ t.lvl = s.lvl /\ t.stack = s.stack
        /\ t.line = s.line /\ t.virtual = s.virtual
        /\ t.flags = [s.flags EXCEPT ![d] = @ \cup {"TDTRIGGER"}]
    BY Zenon, <1>3 DEF State, DispatchTD, MRT_set_irq
  <2>2. \A c \in Irq : "ENQUEUED" \in t.flags[c] <=> "ENQUEUED" \in s.flags[c]
    <3>1. s.flags \in [Irq -> SUBSET {"ENQUEUED", "TDTRIGGER"}]
      BY Zenon, <1>3 DEF State
    <3> HIDE DEF t
    <3>2. QED
      BY <2>1, <3>1
  <2> HIDE DEF t
  <2>3. Core(t)
    BY Zenon, <1>3, <1>4, <1>5, <2>1, <2>2, CoreSame
  <2>4. t.stack # << >> => Top(t).kind = "H"
    BY Zenon, <1>6, <2>1 DEF Top
  <2>5. Good(Restart(t))
    BY Zenon, <1>1, <2>3, <2>4, RestartGood
  <2>6. QED
    BY Zenon, <1>1, <1>2, <1>7, <2>5, KeptPrime DEF t
<1>8. CASE d \notin conf.td /\ (conf.prio[d] > s.lvl \/ (d \notin conf.rt /\ s.mcli))
  <2> DEFINE t == MRT_irqd_enQ(s, d)
  <2>1. conf.prio[d] # 0 \/ (d \notin conf.rt /\ s.mcli)
    <3>1. conf.prio[d] \in Nat /\ s.lvl \in Nat
      BY Zenon, <1>1, <1>3, ConfFacts, PrtyFacts DEF State
    <3>2. QED
      BY <1>8, <3>1
  <2>2. Core(t) /\ t.stack = s.stack
    BY Zenon, <1>1, <1>5, <2>1, EnqKeeps
  <2> HIDE DEF t
  <2>3. Good(Restart(t))
    BY Zenon, <1>1, <1>6, <2>2, RestartGood DEF Top
  <2>4. k' = Restart(t)
    BY Zenon, <1>2, <1>8 DEF Dispatch, t
  <2>5. QED
    BY Zenon, <1>1, <1>2, <2>3, <2>4, KeptPrime
<1>9. CASE d \notin conf.td /\ ~(conf.prio[d] > s.lvl \/ (d \notin conf.rt /\ s.mcli))
  <2>1. k' = MRT_do_handler(s, d, "dispatch")
    BY Zenon, <1>2, <1>9 DEF Dispatch
  <2>2. conf.prio[d] <= s.lvl
    <3>1. conf.prio[d] \in Nat /\ s.lvl \in Nat
      BY Zenon, <1>1, <1>3, ConfFacts, PrtyFacts DEF State
    <3>2. QED
      BY <1>9, <3>1
  <2>3. Allowed(s.stack, s.cur, Enqueued(s),
                [kind |-> "H", d |-> d, lvl |-> s.lvl, real |-> s.real, why |-> "dispatch"])
    <3>1. Len(s.stack) > 0 => s.stack[Len(s.stack)].kind = "H"
      BY <1>6 DEF Top
    <3>2. QED
      BY Zenon, <1>9, <3>1 DEF Allowed
  <2>4. Good(MRT_do_handler(s, d, "dispatch"))
    BY Zenon, <1>1, <1>5, <2>2, <2>3, HandlerStarts
  <2>5. QED
    BY Zenon, <1>1, <1>2, <2>1, <2>4, KeptPrime
<1>10. QED
  BY Zenon, <1>7, <1>8, <1>9

LEMMA TickStep ==
  ASSUME Orderly, IInv, \/ \E d \in Irq : TickIrq(d)
                        \/ \E p \in Prty : TickProc(p)
  PROVE  IInv'
<1>1. k \in State /\ Good(k) /\ conf \in Confs /\ RestInv(k)
  BY Zenon DEF IInv, Good, Core
<1>2. PICK x \in SUBSET Irq, y \in SUBSET Prty :
        /\ conf' = conf /\ (k.stack # << >> => Top(k).kind = "H")
        /\ y \subseteq conf.timers
        /\ k' = Restart([k EXCEPT !.exp = x, !.expP = y])
  <2>1. CASE \E d \in Irq : TickIrq(d)
    <3>1. PICK d \in Irq : TickIrq(d)
      BY Zenon, <2>1
    <3>2. k.exp \cup {d} \in SUBSET Irq /\ k.expP \in SUBSET Prty /\ k.expP \subseteq conf.timers
      BY Zenon, <1>1 DEF State, RestInv
    <3>3. [k EXCEPT !.exp = @ \cup {d}] = [k EXCEPT !.exp = k.exp \cup {d}, !.expP = k.expP]
      BY Zenon, <1>1 DEF State
    <3>4. QED
      BY Zenon, <3>1, <3>2, <3>3 DEF TickIrq, Enabled
  <2>2. CASE \E p \in Prty : TickProc(p)
    <3>1. PICK p \in Prty : TickProc(p)
      BY Zenon, <2>2
    <3>2. k.exp \in SUBSET Irq /\ k.expP \cup {p} \in SUBSET Prty /\ k.expP \cup {p} \subseteq conf.timers
      BY Zenon, <1>1, <3>1 DEF State, RestInv, TickProc
    <3>3. [k EXCEPT !.expP = @ \cup {p}] = [k EXCEPT !.exp = k.exp, !.expP = k.expP \cup {p}]
      BY Zenon, <1>1 DEF State
    <3>4. QED
      BY Zenon, <3>1, <3>2, <3>3 DEF TickProc, Enabled
  <2>3. QED
    BY Zenon, <2>1, <2>2
<1> DEFINE s == [k EXCEPT !.exp = x, !.expP = y]
<1>3. /\ s \in State /\ s.expP = y
      /\ s.irqQ = k.irqQ /\ s.mnxQ = k.mnxQ /\ s.newint = k.newint /\ s.needsched = k.needsched
      /\ s.cur = k.cur /\ s.lvl = k.lvl /\ s.stack = k.stack /\ s.flags = k.flags
      /\ s.line = k.line /\ s.virtual = k.virtual
  BY Zenon, <1>1 DEF State
<1>4. k' = Restart(s)
  BY Zenon, <1>2
<1> HIDE DEF s
<1>5. Enqueued(s) = Enqueued(k)
  BY Zenon, <1>3 DEF Enqueued
<1>6. Core(s)
  BY Zenon, <1>1, <1>2, <1>3, <1>5 DEF Good, Core, RestInv
<1>7. Good(Restart(s))
  BY Zenon, <1>1, <1>2, <1>3, <1>6, RestartGood DEF Top
<1>8. QED
  BY Zenon, <1>1, <1>2, <1>4, <1>7, KeptPrime

-----------------------------------------------------------------------------
(* The end of a handler.                                                   *)
LEMMA RestoreFacts ==
  ASSUME conf \in Confs, NEW s \in State, NEW f \in Frame, f.kind = "H", NEW ret
  PROVE  LET t == Restore(s, f, ret)
         IN  /\ t \in State /\ t.lvl = f.lvl
             /\ t.irqQ = s.irqQ /\ t.mnxQ = s.mnxQ /\ t.newint = s.newint /\ t.needsched = s.needsched
             /\ t.expP = s.expP /\ t.cur = s.cur /\ t.stack = s.stack
             /\ t.line = s.line /\ t.virtual = s.virtual
             /\ \A d \in Irq : "ENQUEUED" \in t.flags[d] <=> "ENQUEUED" \in s.flags[d]
<1>1. f.d \in Irq /\ f.lvl \in Prty /\ f.real \in SUBSET Irq
  BY Zenon, FrameFacts
<1> DEFINE real == IF ret = "ENABLED" THEN f.real \ {f.d} ELSE f.real
           c == IF ret = "ENABLED" /\ ~conf.prtymask THEN real ELSE s.pic
           u == [s EXCEPT !.real = real, !.pic = c]
           v == MRT_prtylvl_set(u, f.lvl)
           fl == [v.flags EXCEPT ![f.d] = IF f.d \in conf.td THEN @ \ {"TDTRIGGER"} ELSE @]
           r == IF conf.ist[f.d] # 0 THEN v.ready \cup {conf.ist[f.d]} ELSE v.ready
           t == [v EXCEPT !.flags = fl, !.ready = r]
<1>2. real \in SUBSET Irq /\ c \in SUBSET Irq
  BY Zenon, <1>1 DEF State
<1>3. Restore(s, f, ret) = [v EXCEPT !.flags[f.d] = IF f.d \in conf.td THEN @ \ {"TDTRIGGER"} ELSE @,
                                     !.ready = IF conf.ist[f.d] # 0 THEN @ \cup {conf.ist[f.d]} ELSE @]
  BY Zenon DEF Restore
<1> HIDE DEF real, c
<1>4. /\ u \in State
      /\ u.irqQ = s.irqQ /\ u.mnxQ = s.mnxQ /\ u.newint = s.newint /\ u.needsched = s.needsched
      /\ u.expP = s.expP /\ u.cur = s.cur /\ u.stack = s.stack /\ u.flags = s.flags
      /\ u.line = s.line /\ u.virtual = s.virtual
  BY Zenon, <1>2 DEF State
<1> HIDE DEF u
<1>5. /\ v \in State /\ v.lvl = f.lvl
      /\ v.irqQ = u.irqQ /\ v.mnxQ = u.mnxQ /\ v.newint = u.newint /\ v.needsched = u.needsched
      /\ v.expP = u.expP /\ v.cur = u.cur /\ v.stack = u.stack /\ v.flags = u.flags
      /\ v.line = u.line /\ v.virtual = u.virtual
  BY Zenon, <1>1, <1>4, PrtylvlSet
<1> HIDE DEF v
<1>6. Restore(s, f, ret) = t
  BY Zenon, <1>3, <1>5 DEF State
<1>7. /\ fl \in [Irq -> SUBSET {"ENQUEUED", "TDTRIGGER"}]
      /\ \A d \in Irq : "ENQUEUED" \in fl[d] <=> "ENQUEUED" \in v.flags[d]
  <2>1. v.flags \in [Irq -> SUBSET {"ENQUEUED", "TDTRIGGER"}]
    BY Zenon, <1>5 DEF State
  <2>2. QED
    BY Zenon, <1>1, <2>1
<1>8. r \in SUBSET Prty
  BY <1>1, <1>5, ConfFacts DEF State
<1> HIDE DEF fl, r
<1>9. /\ t \in State /\ t.flags = fl /\ t.lvl = v.lvl
      /\ t.irqQ = v.irqQ /\ t.mnxQ = v.mnxQ /\ t.newint = v.newint /\ t.needsched = v.needsched
      /\ t.expP = v.expP /\ t.cur = v.cur /\ t.stack = v.stack
      /\ t.line = v.line /\ t.virtual = v.virtual
  BY Zenon, <1>5, <1>7, <1>8 DEF State
<1> HIDE DEF t
<1>10. QED
  BY <1>4, <1>5, <1>6, <1>7, <1>9

(* MRT_irqd_deQ of a descriptor that is queued.                            *)
LEMMA DeqFacts ==
  ASSUME conf \in Confs, NEW s, Core(s), NEW d \in Enqueued(s)
  PROVE  LET t == MRT_irqd_deQ(s, d)
         IN  /\ t \in State /\ QueueInv(t.irqQ, t.mnxQ, Enqueued(t)) /\ Enqueued(t) = Enqueued(s) \ {d}
             /\ t.newint = s.newint /\ t.needsched = s.needsched
             /\ t.expP = s.expP /\ t.cur = s.cur /\ t.lvl = s.lvl /\ t.stack = s.stack
             /\ t.line = s.line /\ t.virtual = s.virtual
<1> DEFINE r == conf.prio[d]
           q == QRemove(s.irqQ, r, d)
           fl == [s.flags EXCEPT ![d] = @ \ {"ENQUEUED"}]
           t == [s EXCEPT !.irqQ = q, !.flags = fl]
<1>1. /\ s \in State /\ d \in Irq /\ "ENQUEUED" \in s.flags[d] /\ r \in Prty /\ s.irqQ \in Queues(Irq)
      /\ s.flags \in [Irq -> SUBSET {"ENQUEUED", "TDTRIGGER"}]
  BY Zenon, ConfFacts DEF Core, Enqueued, State
<1>2. MRT_irqd_deQ(s, d) = t
  BY Zenon, <1>1 DEF MRT_irqd_deQ, State
<1>3. QueueInv(s.irqQ, s.mnxQ, Enqueued(s))
  BY Zenon DEF Core
<1>4. QOnce(s.irqQ) /\ d \in QMembers(s.irqQ, r)
  BY Zenon, <1>1, <1>3 DEF QueueInv
<1>5. /\ q \in Queues(Irq) /\ QOnce(q)
      /\ QMembers(q, r) = QMembers(s.irqQ, r) \ {d}
      /\ \A x \in Prty : x # r => QMembers(q, x) = QMembers(s.irqQ, x)
  BY <1>1, <1>4, QRemoveFacts
<1>6. /\ fl \in [Irq -> SUBSET {"ENQUEUED", "TDTRIGGER"}]
      /\ \A c \in Irq : "ENQUEUED" \in fl[c] <=> "ENQUEUED" \in s.flags[c] /\ c # d
  BY Zenon, <1>1
<1> HIDE DEF q, fl
<1>7. /\ t \in State /\ t.irqQ = q /\ t.flags = fl /\ t.mnxQ = s.mnxQ
      /\ t.newint = s.newint /\ t.needsched = s.needsched
      /\ t.expP = s.expP /\ t.cur = s.cur /\ t.lvl = s.lvl /\ t.stack = s.stack
      /\ t.line = s.line /\ t.virtual = s.virtual
  BY Zenon, <1>1, <1>5, <1>6 DEF State
<1> HIDE DEF t
<1>8. Enqueued(t) = Enqueued(s) \ {d}
  BY Zenon, <1>6, <1>7 DEF Enqueued
<1>9. ASSUME NEW c \in Irq, NEW x \in Prty
      PROVE  c \in QMembers(q, x) <=> c \in Enqueued(t) /\ x = conf.prio[c]
  <2>1. c \in QMembers(s.irqQ, x) <=> c \in Enqueued(s) /\ x = conf.prio[c]
    BY Zenon, <1>3 DEF QueueInv
  <2>2. QED
    BY Zenon, <1>5, <1>8, <2>1
<1>10. QueueInv(t.irqQ, t.mnxQ, Enqueued(t))
  BY Zenon, <1>3, <1>5, <1>7, <1>8, <1>9 DEF QueueInv
<1>11. QED
  BY Zenon, <1>2, <1>7, <1>8, <1>10

(* What the stack is after a handler.                                      *)
LEMMA RestoreCore ==
  ASSUME conf \in Confs, NEW s, Core(s), s.stack # << >>, Top(s).kind = "H", NEW ret
  PROVE  LET t == Restore(Pop(s), Top(s), ret)
         IN  /\ Core(t) /\ t.stack = SubSeq(s.stack, 1, Len(s.stack) - 1)
             /\ Enqueued(t) = Enqueued(s) /\ t.needsched = s.needsched /\ t.newint = s.newint
             /\ t.cur = s.cur
<1> DEFINE st == s.stack
           n == Len(st)
           q == SubSeq(st, 1, n - 1)
           u == [s EXCEPT !.stack = q]
           t == Restore(u, Top(s), ret)
<1>1. s \in State /\ st \in Seq(Frame)
  BY Zenon DEF Core, State
<1>2. /\ q \in Seq(Frame) /\ Len(q) = n - 1 /\ n \in Nat /\ n > 0
      /\ (\A i \in 1 .. n - 1 : q[i] = st[i]) /\ st[n] \in Frame
  BY Zenon, <1>1, PopFacts
<1>3. Pop(s) = u
  BY Zenon DEF Pop
<1>4. ShapeInv(st, s.cur, Enqueued(s)) /\ LevelInv(st, s.cur, s.lvl)
  BY Zenon DEF Core
<1>5. ShapeInv(q, s.cur, Enqueued(s))
  BY Zenon, <1>1, <1>4, PopShape
<1>6. LevelInv(q, s.cur, st[n].lvl)
  <2>1. st[n].kind = "H"
    BY Zenon DEF Top
  <2>2. QED
    BY Zenon, <1>1, <1>4, <2>1, PopLevel
<1> HIDE DEF q
<1>7. /\ u \in State /\ u.stack = q
      /\ u.irqQ = s.irqQ /\ u.mnxQ = s.mnxQ /\ u.newint = s.newint /\ u.needsched = s.needsched
      /\ u.expP = s.expP /\ u.cur = s.cur /\ u.flags = s.flags
      /\ u.line = s.line /\ u.virtual = s.virtual
  BY Zenon, <1>1, <1>2 DEF State
<1> HIDE DEF u
<1>8. Top(s) \in Frame /\ Top(s) = st[n]
  BY Zenon, <1>2 DEF Top
<1>9. /\ t \in State /\ t.lvl = st[n].lvl
      /\ t.irqQ = u.irqQ /\ t.mnxQ = u.mnxQ /\ t.newint = u.newint /\ t.needsched = u.needsched
      /\ t.expP = u.expP /\ t.cur = u.cur /\ t.stack = u.stack
      /\ t.line = u.line /\ t.virtual = u.virtual
      /\ \A d \in Irq : "ENQUEUED" \in t.flags[d] <=> "ENQUEUED" \in u.flags[d]
  BY <1>7, <1>8, RestoreFacts
<1> HIDE DEF t
<1>10. Enqueued(t) = Enqueued(s)
  BY Zenon, <1>7, <1>9 DEF Enqueued
<1>11. PassedInv(q, s.newint, Enqueued(s))
  <2>1. \A i \in 1 .. n - 1 : i \in 1 .. n
    BY <1>2
  <2>2. QED
    BY Zenon, <1>2, <2>1 DEF Core, PassedInv
<1>12. Core(t)
  BY Zenon, <1>5, <1>6, <1>7, <1>9, <1>10, <1>11 DEF Core, RestInv
<1>13. QED
  BY Zenon, <1>3, <1>7, <1>9, <1>10, <1>12 DEF t, q

LEMMA HandlerEndStep ==
  ASSUME Orderly, IInv, NEW ret, HandlerEnd(ret)
  PROVE  IInv'
<1> DEFINE f == Top(k)
           st == k.stack
           n == Len(st)
           q == SubSeq(st, 1, n - 1)
           s == Restore(Pop(k), f, ret)
<1>1. k \in State /\ Good(k) /\ Core(k) /\ conf \in Confs /\ st \in Seq(Frame)
  BY Zenon DEF IInv, Good, Core, State
<1>2. /\ conf' = conf /\ st # << >> /\ f.kind = "H"
      /\ k' = CASE f.why = "dispatch" -> Restart(MRT_set_irq(IF s.needsched THEN MRT_pick_proc(s) ELSE s, f.d))
                [] f.why = "flush" -> MRT_irqd_deQ(s, f.d)
                [] f.why = "unlock" -> s
  BY Zenon DEF HandlerEnd, User
<1>3. /\ q \in Seq(Frame) /\ Len(q) = n - 1 /\ n \in Nat /\ n > 0
      /\ (\A i \in 1 .. n - 1 : q[i] = st[i]) /\ st[n] \in Frame
  BY Zenon, <1>1, <1>2, PopFacts
<1>4. /\ Core(s) /\ s.stack = q
      /\ Enqueued(s) = Enqueued(k) /\ s.needsched = k.needsched /\ s.newint = k.newint /\ s.cur = k.cur
  BY Zenon, <1>1, <1>2, RestoreCore
<1> HIDE DEF s, q
<1>5. /\ f = st[n] /\ f \in Frame /\ f.d \in Irq /\ f.why \in {"dispatch", "flush", "unlock"}
      /\ n \in 1 .. n /\ HandlerAt(st, Enqueued(k), n)
  <2>1. f = st[n] /\ n \in 1 .. n
    BY <1>3 DEF Top
  <2>2. QED
    BY Zenon, <1>1, <1>2, <1>3, <2>1, FrameFacts DEF Core, ShapeInv
<1> HIDE DEF f
<1>6. CASE f.why = "dispatch"
  <2>1. ~s.needsched
    <3>1. f.d \notin conf.td
      BY Zenon, <1>2, <1>5, <1>6 DEF HandlerAt
    <3>2. conf.timers = {}
      BY Zenon, <1>1, <1>5, <3>1 DEF Orderly
    <3>3. QED
      BY Zenon, <1>1, <1>4, <3>2 DEF Core, RestInv
  <2> DEFINE t == MRT_set_irq(s, f.d)
  <2>2. s \in State /\ RestInv(s)
    BY Zenon, <1>4 DEF Core
  <2>3. /\ t \in State
        /\ t.irqQ = s.irqQ /\ t.mnxQ = s.mnxQ /\ t.newint = s.newint /\ t.needsched = s.needsched
        /\ t.expP = s.expP /\ t.cur = s.cur /\ t.lvl = s.lvl /\ t.stack = s.stack /\ t.flags = s.flags
        /\ t.line = s.line /\ t.virtual = s.virtual
    BY Zenon, <2>2 DEF State, MRT_set_irq
  <2>4. k' = Restart(t)
    BY Zenon, <1>2, <1>6, <2>1
  <2> HIDE DEF t
  <2>5. Core(t)
    BY Zenon, <1>4, <2>2, <2>3, CoreSame DEF RestInv
  <2>6. t.stack # << >> => Top(t).kind = "H"
    <3>1. SUFFICES ASSUME t.stack # << >> PROVE Top(t).kind = "H"
      BY Zenon
    <3>2. t.stack = q /\ Len(q) > 0
      BY <1>3, <1>4, <2>3, <3>1
    <3>3. n > 1 /\ n - 1 \in 1 .. n - 1
      BY <1>3, <3>2
    <3>4. st[n - 1].kind = "H"
      BY Zenon, <1>2, <1>5, <1>6, <3>3 DEF HandlerAt
    <3>5. QED
      BY Zenon, <1>3, <3>2, <3>3, <3>4 DEF Top
  <2>7. Good(Restart(t))
    BY Zenon, <1>1, <2>5, <2>6, RestartGood
  <2>8. QED
    BY Zenon, <1>1, <1>2, <2>4, <2>7, KeptPrime
<1>7. CASE f.why = "flush"
  <2> DEFINE t == MRT_irqd_deQ(s, f.d)
  <2>1. n > 1 /\ st[n - 1].kind = "F" /\ f.d \in Enqueued(k)
    BY Zenon, <1>2, <1>5, <1>7 DEF HandlerAt
  <2>2. n - 1 \in 1 .. n /\ n - 1 \in 1 .. n - 1 /\ n - 1 < n
    BY <1>3, <2>1
  <2>3. /\ \A j \in 1 .. n : st[j].kind = "F" => j = n - 1
        /\ ~st[n - 1].timers
    <3>1. FlushAt(st, n - 1)
      BY Zenon, <1>1, <2>2 DEF Core, ShapeInv
    <3>2. QED
      BY Zenon, <2>1, <2>2, <3>1 DEF FlushAt
  <2>4. /\ t \in State /\ QueueInv(t.irqQ, t.mnxQ, Enqueued(t)) /\ Enqueued(t) = Enqueued(s) \ {f.d}
        /\ t.newint = s.newint /\ t.needsched = s.needsched
        /\ t.expP = s.expP /\ t.cur = s.cur /\ t.lvl = s.lvl /\ t.stack = s.stack
        /\ t.line = s.line /\ t.virtual = s.virtual
    BY Zenon, <1>1, <1>4, <2>1, DeqFacts
  <2>5. k' = t
    BY Zenon, <1>2, <1>7
  <2> HIDE DEF t
  <2>6. ShapeInv(t.stack, t.cur, Enqueued(t))
    <3>1. ASSUME NEW i \in 1 .. n - 1, st[i].kind = "H", st[i].why = "flush" PROVE FALSE
      <4>1. HandlerAt(st, Enqueued(k), i) /\ i \in 1 .. n
        BY <1>1, <1>3 DEF Core, ShapeInv
      <4>2. i > 1 /\ st[i - 1].kind = "F" /\ i - 1 \in 1 .. n /\ i - 1 # n - 1
        BY <1>3, <3>1, <4>1 DEF HandlerAt
      <4>3. QED
        BY Zenon, <2>3, <4>2
    <3>2. ShapeInv(st, s.cur, Enqueued(k))
      BY Zenon, <1>1, <1>4 DEF Core
    <3>3. ShapeInv(q, s.cur, Enqueued(t))
      BY Zenon, <1>1, <1>2, <3>1, <3>2, PopShape DEF q
    <3>4. QED
      BY Zenon, <1>4, <2>4, <3>3
  <2>7. PassedInv(t.stack, t.newint, Enqueued(t))
    BY Zenon, <1>4, <2>4 DEF Core, PassedInv
  <2>8. Core(t)
    BY Zenon, <1>4, <2>4, <2>6, <2>7 DEF Core, RestInv
  <2>9. Flushing(t.stack) /\ \A i \in 1 .. Len(t.stack) : t.stack[i].kind = "F" => ~t.stack[i].timers
    <3>1. t.stack = q
      BY Zenon, <1>4, <2>4
    <3>2. \A i \in 1 .. n - 1 : i \in 1 .. n
      BY <1>3
    <3>3. QED
      BY Zenon, <1>3, <2>1, <2>2, <2>3, <3>1, <3>2 DEF Flushing
  <2>10. Good(t)
    BY Zenon, <2>8, <2>9 DEF Good, Tested, NoneDue
  <2>11. QED
    BY Zenon, <1>1, <1>2, <2>5, <2>10, KeptPrime
<1>8. CASE f.why = "unlock"
  <2>1. k' = s
    BY Zenon, <1>2, <1>8
  <2>2. n = 2 /\ st[1].kind = "U" /\ f.d \notin conf.rt
    BY Zenon, <1>2, <1>5, <1>8 DEF HandlerAt
  <2>3. \A i \in 1 .. n : st[i].kind # "F"
    BY <1>2, <1>5, <2>2
  <2>4. \A i \in 1 .. Len(q) : q[i].kind # "F"
    BY <1>3, <2>2, <2>3
  <2>5. conf.prio[f.d] = PRILOWEST
    <3>1. UnlockAt(st, k.cur, 1)
      BY <1>1, <2>2 DEF Core, ShapeInv
    <3>2. QED
      BY Zenon, <1>1, <1>5, <2>2, <3>1 DEF UnlockAt, Orderly
  <2>6. k.lvl = PRILOWEST
    <3>1. k.lvl = Lev(st, k.cur, n)
      BY Zenon, <1>1 DEF Core, LevelInv
    <3>2. QED
      BY <1>2, <1>5, <2>2, <2>5, <3>1 DEF Lev
  <2>7. Enqueued(k) = {}
    <3>1. \A d \in Enqueued(k) : conf.prio[d] > PRILOWEST
      BY Zenon, <1>1, <2>3, <2>6 DEF Good, NoneDue, Flushing
    <3>2. \A d \in Enqueued(k) : conf.prio[d] \in Nat /\ conf.prio[d] <= PRILOWEST
      BY Zenon, <1>1, ConfFacts, PrtyFacts DEF Enqueued
    <3>3. PRILOWEST \in Nat
      BY Zenon, PrtyFacts
    <3>4. QED
      BY <3>1, <3>2, <3>3
  <2>8. Good(s)
    BY Zenon, <1>4, <2>4, <2>7 DEF Good, Tested, NoneDue
  <2>9. QED
    BY Zenon, <1>1, <1>2, <2>1, <2>8, KeptPrime
<1>9. QED
  BY Zenon, <1>5, <1>6, <1>7, <1>8

-----------------------------------------------------------------------------
(* The flush.  Its loop goes on with another frame on top.                 *)
LEMMA LoopGoes ==
  ASSUME conf \in Confs, NEW s, Core(s), s.stack # << >>, Top(s).kind = "F",
         NEW g \in Frame, g.kind = "F", NEW t \in State,
         t.stack = [s.stack EXCEPT ![Len(s.stack)] = g],
         t.irqQ = s.irqQ, t.mnxQ = s.mnxQ, t.flags = s.flags, t.expP = s.expP,
         t.line = s.line, t.virtual = s.virtual, t.needsched => s.needsched,
         \/ t.cur = s.cur /\ t.lvl = s.lvl
         \/ Len(s.stack) = 1 /\ t.lvl = t.cur,
         IF g.timers THEN ~t.newint ELSE g.p <= t.lvl,
         ~t.newint => \A d \in Enqueued(s) : conf.prio[d] >= g.p
  PROVE  Good(t)
<1> DEFINE st == s.stack
           n == Len(st)
<1>1. s \in State /\ st \in Seq(Frame) /\ ShapeInv(st, s.cur, Enqueued(s)) /\ LevelInv(st, s.cur, s.lvl)
  BY Zenon DEF Core, State
<1>2. /\ t.stack \in Seq(Frame) /\ Len(t.stack) = n /\ n \in Nat /\ n > 0 /\ n \in 1 .. n
      /\ \A i \in 1 .. n - 1 : t.stack[i] = st[i]
      /\ t.stack[n] = g
  BY <1>1, TopFacts
<1>3. st[n].kind = "F"
  BY Zenon DEF Top
<1>4. \A i \in 1 .. n : t.stack[i].kind = "F" => i = n
  <2>1. FlushAt(st, n)
    BY Zenon, <1>1, <1>2 DEF ShapeInv
  <2>2. \A i \in 1 .. n : st[i].kind = "F" => i = n
    BY Zenon, <1>3, <2>1 DEF FlushAt
  <2>3. \A i \in 1 .. n : i = n \/ i \in 1 .. n - 1
    BY <1>2
  <2>4. QED
    BY <1>2, <2>2, <2>3
<1>5. Enqueued(t) = Enqueued(s)
  BY Zenon DEF Enqueued
<1>6. ShapeInv(t.stack, t.cur, Enqueued(t))
  BY <1>1, <1>3, <1>5, TopShape
<1>7. LevelInv(t.stack, t.cur, t.lvl)
  <2>1. g.timers \/ g.p <= t.lvl
    BY Zenon
  <2>2. LevelInv([st EXCEPT ![n] = g], t.cur, t.lvl)
    BY Zenon, <1>1, <1>3, <2>1, TopLevel
  <2>3. QED
    BY Zenon, <2>2
<1>8. PassedInv(t.stack, t.newint, Enqueued(t))
  BY Zenon, <1>2, <1>4, <1>5 DEF PassedInv
<1>9. Core(t)
  BY Zenon, <1>5, <1>6, <1>7, <1>8 DEF Core, RestInv
<1>10. Tested(t) /\ NoneDue(t)
  BY Zenon, <1>2, <1>4 DEF Tested, NoneDue, Flushing
<1>11. QED
  BY Zenon, <1>9, <1>10 DEF Good

LEMMA FlushStep ==
  ASSUME Basics, Orderly, IInv, MRT_flush_int
  PROVE  IInv'
<1> DEFINE f == Top(k)
           st == k.stack
           n == Len(st)
           timers == [MRT_vtimer_flush(k, f.p) EXCEPT !.stack[n].timers = FALSE]
           sched == IF k.needsched THEN MRT_pick_proc(k) ELSE k
           next == [sched EXCEPT !.stack[n] = [kind |-> "F", p |-> FlushFrom(k, f.p), timers |-> TRUE],
                                 !.newint = FALSE]
<1>1. k \in State /\ Good(k) /\ Core(k) /\ conf \in Confs /\ st \in Seq(Frame)
  BY Zenon DEF IInv, Good, Core, State
<1>2. /\ conf' = conf /\ st # << >> /\ f.kind = "F"
      /\ k' = IF ~f.timers
              THEN IF k.irqQ[f.p] # << >> THEN MRT_do_handler(k, k.irqQ[f.p][1], "flush") ELSE next
              ELSE IF FlushEnds(k, f.p) THEN Pop(k)
              ELSE timers
  BY Zenon DEF MRT_flush_int, User
<1>3. n \in Nat /\ n > 0 /\ n \in 1 .. n /\ f = st[n] /\ f \in Frame
  <2>1. n \in Nat /\ n > 0 /\ st[n] \in Frame
    BY Zenon, <1>1, <1>2, PopFacts
  <2>2. QED
    BY <2>1 DEF Top
<1>4. f.p \in 1 .. NR_PRTY /\ f.timers \in BOOLEAN
  BY Zenon, <1>2, <1>3, FrameFacts
<1>5. /\ FlushAt(st, n) /\ LevelAt(st, k.cur, n) /\ k.lvl = Lev(st, k.cur, n)
      /\ k.lvl \in Prty /\ k.lvl \in Nat /\ k.lvl <= NR_PRTY - 1 /\ NR_PRTY \in Nat
  <2>1. FlushAt(st, n) /\ LevelAt(st, k.cur, n) /\ k.lvl = Lev(st, k.cur, n)
    BY Zenon, <1>1, <1>3 DEF Core, ShapeInv, LevelInv
  <2>2. k.lvl \in Prty
    BY Zenon, <1>1 DEF State
  <2>3. QED
    BY Zenon, <2>1, <2>2, PrtyFacts, PrtyAssumption DEF PRILOWEST
<1>6. f.p <= k.lvl => f.p \in Prty /\ f.p # 0
  BY <1>4, <1>5 DEF Prty
<1>7. Flushing(st)
  BY Zenon, <1>2, <1>3 DEF Flushing
<1>8. ~k.newint => \A d \in Enqueued(k) : conf.prio[d] >= f.p
  BY Zenon, <1>1, <1>2, <1>3 DEF Core, PassedInv
<1>9. k.irqQ \in Queues(Irq) /\ QueueInv(k.irqQ, k.mnxQ, Enqueued(k))
  BY Zenon, <1>1 DEF State, Core
<1> HIDE DEF f
<1>10. CASE ~f.timers
  <2>1. f.p <= k.lvl
    BY Zenon, <1>2, <1>3, <1>5, <1>10 DEF LevelAt
  <2>2. f.p \in Prty /\ k.irqQ[f.p] \in Seq(Irq)
    BY Zenon, <1>6, <1>9, <2>1, QMembersType
  <2>3. CASE k.irqQ[f.p] # << >>
    <3> DEFINE d == k.irqQ[f.p][1]
    <3>1. d \in QMembers(k.irqQ, f.p) /\ d \in Irq
      <4>1. Len(k.irqQ[f.p]) > 0 /\ 1 \in 1 .. Len(k.irqQ[f.p])
        BY <2>2, <2>3
      <4>2. QED
        BY <2>2, <4>1 DEF QMembers, Members
    <3>2. d \in Enqueued(k) /\ f.p = conf.prio[d]
      BY Zenon, <1>9, <2>2, <3>1 DEF QueueInv
    <3> HIDE DEF d
    <3>3. conf.prio[d] <= k.lvl
      BY Zenon, <2>1, <3>2
    <3>4. Allowed(st, k.cur, Enqueued(k),
                  [kind |-> "H", d |-> d, lvl |-> k.lvl, real |-> k.real, why |-> "flush"])
      BY Zenon, <1>2, <1>3, <1>10, <3>2 DEF Allowed
    <3>5. NoneDue(k)
      BY Zenon, <1>7 DEF NoneDue
    <3>6. Good(MRT_do_handler(k, d, "flush"))
      BY Zenon, <1>1, <3>1, <3>3, <3>4, <3>5, HandlerStarts
    <3>7. k' = MRT_do_handler(k, d, "flush")
      BY Zenon, <1>2, <1>10, <2>3 DEF d
    <3>8. QED
      BY Zenon, <1>1, <1>2, <3>6, <3>7, KeptPrime
  <2>4. CASE k.irqQ[f.p] = << >>
    <3> DEFINE q == FlushFrom(k, f.p)
               g == [kind |-> "F", p |-> q, timers |-> TRUE]
               t == [sched EXCEPT !.stack = [st EXCEPT ![n] = g], !.newint = FALSE]
    <3>1. q \in 1 .. NR_PRTY
      BY <1>4, <1>5, <2>1 DEF FlushFrom
    <3>2. g \in Frame /\ g.kind = "F" /\ g.timers = TRUE /\ g.p = q
      BY Zenon, <3>1 DEF Frame
    <3>3. \A d \in Enqueued(k) : conf.prio[d] >= q
      <4>1. \A d \in Enqueued(k) : conf.prio[d] \in Prty /\ conf.prio[d] \in Nat /\ conf.prio[d] # 0
        BY Zenon, <1>1, <1>9, ConfFacts, PrtyFacts DEF Enqueued, QueueInv
      <4>2. CASE k.newint
        <5>1. q = 1
          BY Zenon, <4>2 DEF FlushFrom
        <5>2. QED
          BY <4>1, <5>1
      <4>3. CASE ~k.newint
        <5>1. q = f.p + 1 /\ f.p \in Nat
          BY <1>4, <4>3 DEF FlushFrom
        <5>2. QMembers(k.irqQ, f.p) = {}
          <6>1. Len(k.irqQ[f.p]) = 0 /\ 1 .. 0 = {}
            BY <2>4
          <6>2. QED
            BY Zenon, <6>1 DEF QMembers, Members
        <5>3. \A d \in Enqueued(k) : conf.prio[d] # f.p
          BY Zenon, <1>9, <4>1, <5>2 DEF QueueInv, Enqueued
        <5>4. ASSUME NEW d \in Enqueued(k) PROVE conf.prio[d] >= f.p + 1
          <6>1. conf.prio[d] \in Nat /\ conf.prio[d] >= f.p /\ conf.prio[d] # f.p
            BY Zenon, <1>8, <4>1, <4>3, <5>3
          <6>2. QED
            BY <5>1, <6>1
        <5>5. QED
          BY Zenon, <5>1, <5>4
      <4>4. QED
        BY Zenon, <4>2, <4>3
    <3> HIDE DEF g
    <3>4. /\ sched \in State /\ sched.stack = st
          /\ sched.irqQ = k.irqQ /\ sched.mnxQ = k.mnxQ /\ sched.flags = k.flags /\ sched.expP = k.expP
          /\ sched.line = k.line /\ sched.virtual = k.virtual /\ (sched.needsched => k.needsched)
          /\ \/ sched.cur = k.cur /\ sched.lvl = k.lvl
             \/ n = 1 /\ sched.lvl = sched.cur
      <4>1. CASE ~k.needsched
        BY Zenon, <1>1, <4>1
      <4>2. CASE k.needsched
        <5>1. n = 1
          <6>1. conf.timers # {}
            BY Zenon, <1>1, <4>2 DEF Core, RestInv
          <6>2. ~(n > 1)
            BY Zenon, <1>2, <1>3, <1>5, <6>1 DEF FlushAt
          <6>3. \A m \in Nat : m > 0 /\ ~(m > 1) => m = 1
            OBVIOUS
          <6>4. QED
            BY Zenon, <1>3, <6>2, <6>3
        <5>2. sched = MRT_pick_proc(k)
          BY Zenon, <4>2
        <5> HIDE DEF sched
        <5>3. QED
          BY Zenon, <1>1, <5>1, <5>2, PickFacts
      <4>3. QED
        BY Zenon, <4>1, <4>2
    <3>5. k' = t
      <4>1. k' = [sched EXCEPT !.stack[n] = g, !.newint = FALSE]
        BY Zenon, <1>2, <1>10, <2>4 DEF g
      <4> HIDE DEF sched
      <4>2. QED
        BY Zenon, <3>4, <4>1 DEF State
    <3>6. [st EXCEPT ![n] = g] \in Seq(Frame)
      BY Zenon, <1>1, <1>2, <3>2, TopFacts
    <3> HIDE DEF sched, q
    <3>7. /\ t \in State /\ t.stack = [st EXCEPT ![n] = g] /\ t.newint = FALSE
          /\ t.irqQ = sched.irqQ /\ t.mnxQ = sched.mnxQ /\ t.flags = sched.flags /\ t.expP = sched.expP
          /\ t.line = sched.line /\ t.virtual = sched.virtual /\ t.needsched = sched.needsched
          /\ t.cur = sched.cur /\ t.lvl = sched.lvl
      BY Zenon, <3>4, <3>6 DEF State
    <3> HIDE DEF t
    <3>8. Good(t)
      BY <1>1, <1>2, <3>2, <3>3, <3>4, <3>7, LoopGoes DEF f
    <3>9. QED
      BY Zenon, <1>1, <1>2, <3>5, <3>8, KeptPrime
  <2>5. QED
    BY Zenon, <2>3, <2>4
<1>11. CASE f.timers /\ FlushEnds(k, f.p)
  <2> DEFINE q == SubSeq(st, 1, n - 1)
             t == [k EXCEPT !.stack = q]
  <2>1. k' = t
    BY Zenon, <1>2, <1>11 DEF Pop
  <2>2. q \in Seq(Frame) /\ Len(q) = n - 1 /\ \A i \in 1 .. n - 1 : q[i] = st[i]
    BY Zenon, <1>1, <1>2, PopFacts
  <2>3. ShapeInv(st, k.cur, Enqueued(k)) /\ LevelInv(st, k.cur, k.lvl)
    BY Zenon, <1>1 DEF Core
  <2>4. ShapeInv(q, k.cur, Enqueued(k))
    BY Zenon, <1>1, <1>2, <2>3, PopShape
  <2>5. LevelInv(q, k.cur, k.lvl)
    <3>1. st[n].kind # "H"
      BY Zenon, <1>2, <1>3
    <3>2. QED
      BY Zenon, <1>1, <1>2, <2>3, <3>1, PopLevel
  <2> HIDE DEF q
  <2>6. /\ t \in State /\ t.stack = q
        /\ t.irqQ = k.irqQ /\ t.mnxQ = k.mnxQ /\ t.newint = k.newint /\ t.needsched = k.needsched
        /\ t.expP = k.expP /\ t.cur = k.cur /\ t.lvl = k.lvl /\ t.flags = k.flags
        /\ t.line = k.line /\ t.virtual = k.virtual
    BY Zenon, <1>1, <2>2 DEF State
  <2> HIDE DEF t
  <2>7. Enqueued(t) = Enqueued(k)
    BY Zenon, <2>6 DEF Enqueued
  <2>8. \A i \in 1 .. n - 1 : q[i].kind # "F"
    <3>1. \A j \in 1 .. n : st[j].kind = "F" => j = n
      BY Zenon, <1>2, <1>3, <1>5 DEF FlushAt
    <3>2. \A i \in 1 .. n - 1 : i \in 1 .. n /\ i # n
      BY <1>3
    <3>3. QED
      BY Zenon, <2>2, <3>1, <3>2
  <2>9. Core(t)
    BY Zenon, <1>1, <2>2, <2>4, <2>5, <2>6, <2>7, <2>8 DEF Core, PassedInv, RestInv
  <2>10. \A d \in Enqueued(k) : conf.prio[d] > k.lvl
    <3>1. CASE f.p > k.lvl
      <4>1. ~k.newint
        BY Zenon, <1>1, <1>2, <1>3, <1>11 DEF Good, Tested
      <4>2. ASSUME NEW d \in Enqueued(k) PROVE conf.prio[d] > k.lvl
        <5>1. conf.prio[d] >= f.p
          BY Zenon, <1>8, <4>1
        <5>2. conf.prio[d] \in Nat /\ f.p \in Nat
          <6>1. d \in Irq /\ conf.prio \in [Irq -> Prty] /\ Prty \subseteq Nat
            BY Zenon, <1>1, ConfFacts, PrtyFacts DEF Enqueued
          <6>2. conf.prio[d] \in Nat
            BY Zenon, <6>1
          <6>3. f.p \in Nat
            BY <1>4, <1>5
          <6>4. QED
            BY Zenon, <6>2, <6>3
        <5>3. k.lvl \in Nat
          BY Zenon, <1>1, PrtyFacts DEF State
        <5>4. \A a, b, c \in Nat : a >= b /\ b > c => a > c
          OBVIOUS
        <5>5. QED
          BY Zenon, <3>1, <5>1, <5>2, <5>3, <5>4
      <4>3. QED
        BY Zenon, <4>2
    <3>2. CASE QIsEmpty(k.irqQ)
      <4>1. \A r \in Prty : QMembers(k.irqQ, r) = {}
        BY Zenon, <1>9, <3>2, QIsEmptyFacts
      <4>2. Enqueued(k) = {}
        BY Zenon, <1>1, <1>9, <4>1, ConfFacts DEF QueueInv, Enqueued
      <4>3. QED
        BY Zenon, <4>2
    <3>3. QED
      BY Zenon, <1>11, <3>1, <3>2 DEF FlushEnds
  <2>11. Good(t)
    BY Zenon, <2>2, <2>6, <2>7, <2>8, <2>9, <2>10 DEF Good, Tested, NoneDue
  <2>12. QED
    BY Zenon, <1>1, <1>2, <2>1, <2>11, KeptPrime
<1>12. CASE f.timers /\ ~FlushEnds(k, f.p)
  <2> DEFINE v == MRT_vtimer_flush(k, f.p)
             g == [f EXCEPT !.timers = FALSE]
             t == [v EXCEPT !.stack = [st EXCEPT ![n] = g]]
  <2>1. f.p <= k.lvl /\ f.p \in Nat
    BY <1>4, <1>5, <1>12 DEF FlushEnds
  <2>2. Core(v) /\ v.stack = st /\ v.cur = k.cur /\ v.lvl = k.lvl
    BY Zenon, <1>1, <1>6, <2>1, VtimerFlushKeeps
  <2> HIDE DEF v
  <2>3. g \in Frame /\ g.kind = "F" /\ g.timers = FALSE /\ g.p = f.p
    <3>1. f \in [kind : {"F"}, p : 1 .. NR_PRTY, timers : BOOLEAN]
      BY Zenon, <1>2, <1>3 DEF Frame
    <3>2. \A x \in [kind : {"F"}, p : 1 .. NR_PRTY, timers : BOOLEAN] :
            LET y == [x EXCEPT !.timers = FALSE]
            IN  /\ y \in [kind : {"F"}, p : 1 .. NR_PRTY, timers : BOOLEAN]
                /\ y.kind = "F" /\ y.timers = FALSE /\ y.p = x.p
      BY Zenon
    <3>3. QED
      BY Zenon, <3>1, <3>2 DEF Frame
  <2>5. v \in State
    BY Zenon, <2>2 DEF Core
  <2>6. k' = t
    <3>1. k' = [v EXCEPT !.stack[n].timers = FALSE]
      BY Zenon, <1>2, <1>12 DEF v
    <3>2. [v EXCEPT !.stack[n].timers = FALSE]
            = [v EXCEPT !.stack = [v.stack EXCEPT ![n] = [v.stack[n] EXCEPT !.timers = FALSE]]]
      BY Zenon
    <3>3. v.stack[n] = f
      BY Zenon, <1>3, <2>2
    <3>4. QED
      BY Zenon, <2>2, <3>1, <3>2, <3>3
  <2> HIDE DEF g
  <2>7. [st EXCEPT ![n] = g] \in Seq(Frame)
    BY Zenon, <1>1, <1>2, <2>3, TopFacts
  <2>8. /\ t \in State /\ t.stack = [v.stack EXCEPT ![Len(v.stack)] = g] /\ t.newint = v.newint
        /\ t.irqQ = v.irqQ /\ t.mnxQ = v.mnxQ /\ t.flags = v.flags /\ t.expP = v.expP
        /\ t.line = v.line /\ t.virtual = v.virtual /\ t.needsched = v.needsched
        /\ t.cur = v.cur /\ t.lvl = v.lvl
    BY Zenon, <2>2, <2>5, <2>7 DEF State
  <2> HIDE DEF t
  <2>9. ~t.newint => \A d \in Enqueued(v) : conf.prio[d] >= g.p
    BY Zenon, <1>2, <1>3, <2>2, <2>3, <2>8 DEF Core, PassedInv
  <2>10. v.stack # << >> /\ Top(v).kind = "F"
    BY Zenon, <1>2, <1>3, <2>2 DEF Top
  <2>11. g.p <= t.lvl /\ t.needsched = v.needsched
    BY Zenon, <2>1, <2>2, <2>3, <2>8
  <2>12. Good(t)
    BY Zenon, <1>1, <2>2, <2>3, <2>8, <2>9, <2>10, <2>11, LoopGoes
  <2>13. QED
    BY Zenon, <1>1, <1>2, <2>6, <2>12, KeptPrime
<1>13. QED
  BY Zenon, <1>4, <1>10, <1>11, <1>12

-----------------------------------------------------------------------------
(* MINIX and the processes.                                                *)
LEMMA UnlockStep ==
  ASSUME IInv, unlock
  PROVE  IInv'
<1> DEFINE f == [kind |-> "U"]
           u == [k EXCEPT !.mcli = FALSE]
           t == [u EXCEPT !.stack = <<f>>]
<1>1. k \in State /\ Good(k) /\ Core(k) /\ conf \in Confs /\ RestInv(k)
  BY Zenon DEF IInv, Good, Core
<1>2. /\ conf' = conf /\ k.stack = << >> /\ "lock" \in conf.minix /\ k.cur = PRILOWEST
      /\ k' = Push(u, f)
  BY Zenon DEF unlock, User
<1>3. f \in Frame /\ f.kind = "U"
  BY Zenon DEF Frame
<1> HIDE DEF f
<1>4. <<f>> \in Seq(Frame) /\ Len(<<f>>) = 1 /\ <<f>>[1] = f /\ Append(<< >>, f) = <<f>> /\ 1 .. 1 = {1}
  BY <1>3
<1>5. u \in State /\ u.stack = << >>
  BY Zenon, <1>1, <1>2 DEF State
<1>6. k' = t
  BY Zenon, <1>2, <1>4, <1>5 DEF Push
<1>7. /\ t \in State /\ t.stack = <<f>>
      /\ t.irqQ = k.irqQ /\ t.mnxQ = k.mnxQ /\ t.newint = k.newint /\ t.needsched = k.needsched
      /\ t.expP = k.expP /\ t.cur = k.cur /\ t.lvl = k.lvl /\ t.flags = k.flags
      /\ t.line = k.line /\ t.virtual = k.virtual
  BY Zenon, <1>1, <1>4 DEF State
<1> HIDE DEF t
<1>8. Enqueued(t) = Enqueued(k)
  BY Zenon, <1>7 DEF Enqueued
<1>9. ShapeInv(t.stack, t.cur, Enqueued(t))
  BY <1>2, <1>3, <1>4, <1>7 DEF ShapeInv, FlushAt, UnlockAt, HandlerAt
<1>10. LevelInv(t.stack, t.cur, t.lvl)
  <2>1. k.lvl = k.cur
    BY Zenon, <1>1, <1>2 DEF Core, LevelInv, Lev
  <2>2. QED
    BY Zenon, <1>3, <1>4, <1>7, <2>1 DEF LevelInv, LevelAt, Lev
<1>11. Core(t)
  BY Zenon, <1>1, <1>3, <1>4, <1>7, <1>8, <1>9, <1>10 DEF Core, PassedInv, RestInv
<1>12. Tested(t) /\ NoneDue(t)
  <2>1. ~Flushing(k.stack)
    BY <1>2 DEF Flushing
  <2>2. QED
    BY Zenon, <1>1, <1>3, <1>4, <1>7, <1>8, <2>1 DEF Good, Tested, NoneDue
<1>13. QED
  BY Zenon, <1>1, <1>2, <1>6, <1>11, <1>12, KeptPrime DEF Good

LEMMA UnlockNextStep ==
  ASSUME Orderly, IInv, UnlockNext
  PROVE  IInv'
<1> DEFINE st == k.stack
           n == Len(st)
<1>1. k \in State /\ Good(k) /\ Core(k) /\ conf \in Confs /\ RestInv(k) /\ st \in Seq(Frame)
  BY Zenon DEF IInv, Good, Core, State
<1>2. /\ conf' = conf /\ st # << >> /\ Top(k).kind = "U"
      /\ k' = IF k.mnxQ = << >> THEN Pop(k)
              ELSE MRT_do_handler([k EXCEPT !.mnxQ = Tail(@)], Head(k.mnxQ), "unlock")
  BY Zenon DEF UnlockNext, User
<1>3. n \in Nat /\ n > 0 /\ n \in 1 .. n /\ st[n].kind = "U"
  <2>1. n \in Nat /\ n > 0
    BY Zenon, <1>1, <1>2, PopFacts
  <2>2. QED
    BY <1>2, <2>1 DEF Top
<1>4. n = 1 /\ k.cur = PRILOWEST /\ "lock" \in conf.minix /\ 1 .. 1 = {1}
  <2>1. UnlockAt(st, k.cur, n)
    BY Zenon, <1>1, <1>3 DEF Core, ShapeInv
  <2>2. QED
    BY <1>3, <2>1 DEF UnlockAt
<1>5. k.lvl = k.cur /\ ~Flushing(st)
  <2>1. k.lvl = Lev(st, k.cur, n)
    BY Zenon, <1>1 DEF Core, LevelInv
  <2>2. QED
    BY Zenon, <1>3, <1>4, <2>1 DEF Lev, Flushing
<1>6. CASE k.mnxQ = << >>
  <2> DEFINE t == [k EXCEPT !.stack = << >>]
  <2>1. SubSeq(st, 1, n - 1) = << >>
    <3>1. SubSeq(st, 1, n - 1) \in Seq(Frame) /\ Len(SubSeq(st, 1, n - 1)) = 0
      BY <1>1, <1>2, <1>4, PopFacts
    <3>2. QED
      BY Zenon, <3>1, EmptyStack
  <2>2. k' = t
    BY Zenon, <1>2, <1>6, <2>1 DEF Pop
  <2>3. /\ t \in State /\ t.stack = << >>
        /\ t.irqQ = k.irqQ /\ t.mnxQ = k.mnxQ /\ t.newint = k.newint /\ t.needsched = k.needsched
        /\ t.expP = k.expP /\ t.cur = k.cur /\ t.lvl = k.lvl /\ t.flags = k.flags
        /\ t.line = k.line /\ t.virtual = k.virtual
    BY Zenon, <1>1, EmptyStack DEF State
  <2> HIDE DEF t
  <2>4. Enqueued(t) = Enqueued(k)
    BY Zenon, <2>3 DEF Enqueued
  <2>5. Len(t.stack) = 0 /\ 1 .. 0 = {}
    BY <2>3
  <2>6. Core(t)
    BY Zenon, <1>1, <1>5, <2>3, <2>4, <2>5 DEF Core, ShapeInv, LevelInv, Lev, PassedInv, RestInv
  <2>7. Tested(t) /\ NoneDue(t)
    BY Zenon, <1>1, <1>5, <2>3, <2>4, <2>5 DEF Good, Tested, NoneDue
  <2>8. QED
    BY Zenon, <1>1, <1>2, <2>2, <2>6, <2>7, KeptPrime DEF Good
<1>7. CASE k.mnxQ # << >>
  <2> DEFINE d == Head(k.mnxQ)
             m == Tail(k.mnxQ)
             s == [k EXCEPT !.mnxQ = m]
  <2>1. k.mnxQ \in Seq(Irq) /\ \A i \in 1 .. Len(k.mnxQ) : k.mnxQ[i] \notin conf.rt
    BY Zenon, <1>1 DEF State, Core, QueueInv
  <2>2. d \in Irq /\ d \notin conf.rt
    <3>1. Len(k.mnxQ) > 0 /\ 1 \in 1 .. Len(k.mnxQ) /\ d = k.mnxQ[1]
      BY <1>7, <2>1
    <3>2. QED
      BY <2>1, <3>1
  <2>3. m \in Seq(Irq) /\ \A i \in 1 .. Len(m) : m[i] \notin conf.rt
    <3>1. /\ m \in Seq(Irq) /\ Len(m) = Len(k.mnxQ) - 1
          /\ \A i \in 1 .. Len(m) : m[i] = k.mnxQ[i + 1]
      BY <1>7, <2>1
    <3>2. \A i \in 1 .. Len(m) : i + 1 \in 1 .. Len(k.mnxQ)
      BY <2>1, <3>1
    <3>3. QED
      BY Zenon, <2>1, <3>1, <3>2
  <2> HIDE DEF m
  <2>4. /\ s \in State /\ s.mnxQ = m
        /\ s.irqQ = k.irqQ /\ s.newint = k.newint /\ s.needsched = k.needsched
        /\ s.expP = k.expP /\ s.cur = k.cur /\ s.lvl = k.lvl /\ s.stack = k.stack /\ s.flags = k.flags
        /\ s.line = k.line /\ s.virtual = k.virtual
    BY Zenon, <1>1, <2>3 DEF State
  <2>5. k' = MRT_do_handler(s, d, "unlock")
    BY Zenon, <1>2, <1>7 DEF m
  <2> HIDE DEF s, d
  <2>6. Enqueued(s) = Enqueued(k)
    BY Zenon, <2>4 DEF Enqueued
  <2>7. Core(s)
    BY Zenon, <1>1, <2>3, <2>4, <2>6 DEF Core, QueueInv, RestInv
  <2>8. NoneDue(s)
    BY Zenon, <1>1, <2>4, <2>6 DEF Good, NoneDue
  <2>9. conf.prio[d] <= s.lvl
    <3>1. conf.prio[d] = PRILOWEST /\ s.lvl = PRILOWEST /\ PRILOWEST \in Nat
      BY Zenon, <1>1, <1>4, <1>5, <2>2, <2>4, PrtyFacts DEF Orderly
    <3>2. QED
      BY <3>1
  <2>10. Allowed(s.stack, s.cur, Enqueued(s),
                 [kind |-> "H", d |-> d, lvl |-> s.lvl, real |-> s.real, why |-> "unlock"])
    BY Zenon, <1>3, <1>4, <2>2, <2>4 DEF Allowed
  <2>11. Good(MRT_do_handler(s, d, "unlock"))
    BY Zenon, <1>1, <2>2, <2>7, <2>8, <2>9, <2>10, HandlerStarts
  <2>12. QED
    BY Zenon, <1>1, <1>2, <2>5, <2>11, KeptPrime
<1>8. QED
  BY Zenon, <1>6, <1>7

LEMMA ControlStep ==
  ASSUME IInv, lock \/ \E d \in Irq : enable_irq(d) \/ disable_irq(d)
  PROVE  IInv'
<1>1. k \in State /\ Good(k) /\ Core(k) /\ conf \in Confs /\ RestInv(k)
  BY Zenon DEF IInv, Good, Core
<1> DEFINE Kept ==
      /\ conf' = conf /\ k' \in State /\ k'.virtual \in SUBSET Hard
      /\ k'.irqQ = k.irqQ /\ k'.mnxQ = k.mnxQ /\ k'.newint = k.newint /\ k'.needsched = k.needsched
      /\ k'.expP = k.expP /\ k'.cur = k.cur /\ k'.lvl = k.lvl /\ k'.stack = k.stack /\ k'.flags = k.flags
      /\ k'.line = k.line
<1>2. Kept
  <2>1. CASE lock
    BY Zenon, <1>1, <2>1 DEF lock, State, RestInv
  <2>2. ASSUME NEW d \in Irq, NEW v \in SUBSET Hard, conf' = conf,
               k' = IF d \in conf.rt THEN [k EXCEPT !.virtual = v]
                    ELSE MRT_set_irq([k EXCEPT !.virtual = v], d)
        PROVE  Kept
    <3>1. v \in SUBSET Irq
      BY Zenon DEF Hard
    <3>2. QED
      BY Zenon, <1>1, <2>2, <3>1 DEF State, MRT_set_irq
  <2>3. ASSUME NEW d \in Irq, enable_irq(d) PROVE Kept
    <3>1. k.virtual \ {d} \in SUBSET Hard
      BY Zenon, <1>1 DEF RestInv
    <3>2. QED
      BY Zenon, <2>2, <2>3, <3>1 DEF enable_irq
  <2>4. ASSUME NEW d \in Irq, disable_irq(d) PROVE Kept
    <3>1. k.virtual \cup {d} \in SUBSET Hard
      BY Zenon, <1>1, <2>4 DEF RestInv, disable_irq
    <3>2. QED
      BY Zenon, <2>2, <2>4, <3>1 DEF disable_irq
  <2>5. QED
    BY Zenon, <2>1, <2>3, <2>4
<1>3. Good(k')
  BY Zenon, <1>1, <1>2, CoreSame DEF Good, RestInv
<1>4. QED
  BY Zenon, <1>1, <1>2, <1>3, KeptPrime

LEMMA ProcessStep ==
  ASSUME Basics, Orderly, IInv, Block \/ \E p \in Prty : Ready(p)
  PROVE  IInv'
<1>1. k \in State /\ Good(k) /\ Core(k) /\ conf \in Confs /\ RestInv(k)
  BY Zenon DEF IInv, Good, Core
<1>2. PICK r \in SUBSET Prty :
        conf' = conf /\ k.stack = << >> /\ k' = Restart(MRT_pick_proc([k EXCEPT !.ready = r]))
  <2>1. k.ready \in SUBSET Prty
    BY Zenon, <1>1 DEF State
  <2>2. CASE Block
    BY Zenon, <2>1, <2>2 DEF Block, User
  <2>3. CASE \E p \in Prty : Ready(p)
    <3>1. PICK p \in Prty : Ready(p)
      BY Zenon, <2>3
    <3>2. k.ready \cup {p} \in SUBSET Prty
      BY Zenon, <2>1
    <3>3. QED
      BY Zenon, <3>1, <3>2 DEF Ready, User
  <2>4. QED
    BY Zenon, <2>2, <2>3
<1> DEFINE s == [k EXCEPT !.ready = r]
<1>3. /\ s \in State
      /\ s.irqQ = k.irqQ /\ s.mnxQ = k.mnxQ /\ s.newint = k.newint /\ s.needsched = k.needsched
      /\ s.expP = k.expP /\ s.cur = k.cur /\ s.lvl = k.lvl /\ s.stack = k.stack /\ s.flags = k.flags
      /\ s.line = k.line /\ s.virtual = k.virtual
  BY Zenon, <1>1 DEF State
<1>4. k' = Restart(MRT_pick_proc(s))
  BY Zenon, <1>2
<1> HIDE DEF s
<1>5. Core(s) /\ s.stack = << >>
  BY Zenon, <1>1, <1>2, <1>3, CoreSame DEF RestInv
<1>6. Core(MRT_pick_proc(s)) /\ MRT_pick_proc(s).stack = << >>
  BY Zenon, <1>1, <1>5, PickUser
<1>7. Good(Restart(MRT_pick_proc(s)))
  BY Zenon, <1>1, <1>6, RestartGood
<1>8. QED
  BY Zenon, <1>1, <1>2, <1>4, <1>7, KeptPrime
-----------------------------------------------------------------------------
(* Every step keeps the invariant.                                         *)
LEMMA NextHolds ==
  ASSUME Basics, Orderly
  PROVE  IInv /\ [Next]_vars => IInv'
<1>1. SUFFICES ASSUME IInv, [Next]_vars PROVE IInv'
  BY Zenon
<1>2. CASE UNCHANGED vars
  BY Zenon, <1>1, <1>2, KeptSame
<1>3. CASE Next
  BY Zenon, <1>1, <1>3, RaiseStep, DispatchStep, TickStep, HandlerEndStep, FlushStep,
     UnlockStep, UnlockNextStep, ControlStep, ProcessStep DEF Next, KernelStep
<1>4. QED
  BY Zenon, <1>1, <1>2, <1>3

(* The invariant gives that interrupts are served by priority.             *)
LEMMA InvGives == IInv => UrgentFirst
<1>1. SUFFICES ASSUME IInv PROVE UrgentFirst
  BY Zenon
<1>2. k \in State /\ Good(k) /\ Core(k) /\ conf \in Confs /\ RestInv(k)
  BY Zenon, <1>1 DEF IInv, Good, Core
<1>3. k.stack \in Seq(Frame) /\ k.mnxQ \in Seq(Irq) /\ k.irqQ \in Queues(Irq)
  BY Zenon, <1>2 DEF State
<1>4. TypeOK
  <2>1. \A p \in Prty : \A i \in 1 .. Len(k.irqQ[p]) : k.irqQ[p][i] \in Irq
    BY <1>3, QMembersType
  <2>2. QED
    BY <1>2, <1>3, <2>1 DEF TypeOK, State, RestInv
<1>5. UrgentOnTop
  <2>1. SUFFICES ASSUME NEW i \in Handlers, NEW j \in Handlers, j < i
                 PROVE  conf.prio[k.stack[i].d] <= conf.prio[k.stack[j].d]
    BY Zenon DEF UrgentOnTop
  <2>2. i \in 1 .. Len(k.stack) /\ j \in 1 .. i - 1 /\ k.stack[i].kind = "H" /\ k.stack[j].kind = "H"
    BY <1>3, <2>1 DEF Handlers
  <2>3. LevelAt(k.stack, k.cur, i)
    BY Zenon, <1>2, <2>2 DEF Core, LevelInv
  <2>4. QED
    BY Zenon, <2>2, <2>3 DEF LevelAt
<1>6. ASSUME User PROVE k.lvl = k.cur /\ Enqueued(k) = InQ(k) /\ ~Flushing(k.stack)
  <2>1. k.lvl = k.cur
    BY Zenon, <1>2, <1>6 DEF User, Core, LevelInv, Lev
  <2>2. ~Flushing(k.stack)
    BY <1>6 DEF User, Flushing
  <2>3. \A d \in Irq : d \in Enqueued(k) <=> QHas(k.irqQ, d)
    BY Zenon, <1>2, QMembership, ConfFacts DEF Core, QueueInv
  <2>4. QED
    BY Zenon, <2>1, <2>2, <2>3 DEF InQ, Enqueued
<1>7. NoneDueLeft /\ LevelOfProcess
  BY Zenon, <1>2, <1>6 DEF NoneDueLeft, LevelOfProcess, Good, NoneDue
<1>8. QED
  BY Zenon, <1>4, <1>5, <1>7 DEF UrgentFirst

(* restart leaves a process running, or starts the flush.                  *)
LEMMA RestartUser ==
  ASSUME NEW s \in State, s.stack = << >>
  PROVE  Restart(s).stack = << >> \/ Restart(s).stack[1].kind # "H"
<1> DEFINE f == [kind |-> "F", p |-> 1, timers |-> TRUE]
           u == [s EXCEPT !.newint = FALSE]
<1>1. Restart(s) = s \/ Restart(s) = Push(u, f)
  BY Zenon DEF Restart
<1>2. u.stack = << >>
  BY Zenon DEF State
<1>3. u \in State
  BY Zenon DEF State
<1>4. Push(u, f).stack = Append(<< >>, f)
  BY Zenon, <1>2, <1>3 DEF Push, State
<1>5. Append(<< >>, f)[1] = f
  OBVIOUS
<1>6. f.kind # "H"
  BY Zenon
<1>7. QED
  BY Zenon, <1>1, <1>4, <1>5, <1>6

(* A step from a process to a handler goes to one that is as urgent.       *)
LEMMA OutrankedStep ==
  ASSUME Basics, IInv, Next
  PROVE  User /\ k'.stack # << >> /\ k'.stack[1].kind = "H"
           => conf.prio[k'.stack[1].d] <= k.cur
<1>1. SUFFICES ASSUME User, k'.stack # << >>, k'.stack[1].kind = "H"
               PROVE  conf.prio[k'.stack[1].d] <= k.cur
  BY Zenon
<1>2. k \in State /\ Core(k) /\ conf \in Confs /\ k.stack = << >> /\ k.lvl = k.cur
  BY Zenon, <1>1 DEF IInv, Good, Core, User, LevelInv, Lev
<1>3. ~lock /\ \A d \in Irq : ~Raise(d) /\ ~enable_irq(d) /\ ~disable_irq(d)
  <2>1. k'.stack # k.stack
    BY Zenon, <1>1, <1>2
  <2>2. ~lock /\ \A d \in Irq : ~Raise(d)
    BY Zenon, <1>2, <2>1 DEF lock, Raise, State
  <2>3. \A d \in Irq : ~enable_irq(d)
    BY Zenon, <1>2, <2>1 DEF enable_irq, MRT_set_irq, State
  <2>4. \A d \in Irq : ~disable_irq(d)
    BY Zenon, <1>2, <2>1 DEF disable_irq, MRT_set_irq, State
  <2>5. QED
    BY Zenon, <2>2, <2>3, <2>4
<1>4. ~(unlock)
  <2>1. SUFFICES ASSUME unlock PROVE FALSE
    BY Zenon
  <2> DEFINE f == [kind |-> "U"]
  <2>2. k'.stack = Append(<< >>, f)
    BY Zenon, <1>2, <2>1 DEF unlock, Push, State
  <2>3. Append(<< >>, f)[1] = f
    OBVIOUS
  <2>4. QED
    BY <1>1, <2>2, <2>3
<1>5. ~KernelStep
  BY Zenon, <1>1 DEF KernelStep, HandlerEnd, MRT_flush_int, UnlockNext
<1>6. ~\E s \in State : s.stack = << >> /\ k' = Restart(s)
  BY Zenon, <1>1, RestartUser
<1>7. ~(Block \/ \E p \in Prty : TickProc(p) \/ Ready(p))
  <2>1. ASSUME NEW r \in SUBSET Prty, k' = Restart(MRT_pick_proc([k EXCEPT !.ready = r])) PROVE FALSE
    <3> DEFINE s == [k EXCEPT !.ready = r]
    <3>1. s \in State /\ s.stack = << >>
      BY Zenon, <1>2 DEF State
    <3>2. k' = Restart(MRT_pick_proc(s))
      BY Zenon, <2>1
    <3> HIDE DEF s
    <3>3. MRT_pick_proc(s) \in State /\ MRT_pick_proc(s).stack = << >>
      BY Zenon, <1>2, <3>1, PickFacts
    <3>4. QED
      BY Zenon, <1>6, <3>2, <3>3
  <2>2. ~Block
    <3>1. k.ready \ {k.cur} \in SUBSET Prty
      BY Zenon, <1>2 DEF State
    <3>2. QED
      BY Zenon, <2>1, <3>1 DEF Block
  <2>3. ASSUME NEW p \in Prty PROVE ~Ready(p)
    <3>1. k.ready \cup {p} \in SUBSET Prty
      BY Zenon, <1>2 DEF State
    <3>2. QED
      BY Zenon, <2>1, <3>1 DEF Ready
  <2>4. ASSUME NEW p \in Prty PROVE ~TickProc(p)
    <3>1. [k EXCEPT !.expP = @ \cup {p}] \in State /\ [k EXCEPT !.expP = @ \cup {p}].stack = << >>
      BY Zenon, <1>2 DEF State
    <3>2. QED
      BY Zenon, <1>6, <3>1 DEF TickProc
  <2>5. QED
    BY Zenon, <2>2, <2>3, <2>4
<1>8. ASSUME NEW d \in Irq PROVE ~TickIrq(d)
  <2>1. [k EXCEPT !.exp = @ \cup {d}] \in State /\ [k EXCEPT !.exp = @ \cup {d}].stack = << >>
    BY Zenon, <1>2 DEF State
  <2>2. QED
    BY Zenon, <1>6, <2>1 DEF TickIrq
<1>9. PICK d \in Irq : MRT_IRQ_dispatch(d)
  BY Zenon, <1>1, <1>2, <1>3, <1>4, <1>5, <1>7, <1>8 DEF Next
<1> DEFINE s == MRT_reset_irq([k EXCEPT !.line = @ \ {d}], d)
<1>10. /\ s \in State /\ s.stack = << >> /\ s.lvl = k.cur
       /\ s.line = k.line \ {d} /\ s.virtual = k.virtual
       /\ s.irqQ = k.irqQ /\ s.mnxQ = k.mnxQ /\ s.newint = k.newint /\ s.needsched = k.needsched
       /\ s.expP = k.expP /\ s.cur = k.cur /\ s.flags = k.flags
  BY Zenon, <1>2 DEF State, MRT_reset_irq
<1>11. k' = IF d \in conf.td THEN Restart(DispatchTD(s, d)) ELSE Dispatch(s, d)
  BY Zenon, <1>9 DEF MRT_IRQ_dispatch
<1> HIDE DEF s
<1>12. d \notin conf.td
  <2>1. DispatchTD(s, d) \in State /\ DispatchTD(s, d).stack = << >>
    BY Zenon, <1>10 DEF DispatchTD, MRT_set_irq, State
  <2>2. QED
    BY Zenon, <1>6, <1>11, <2>1
<1>13. Core(s)
  BY Zenon, <1>2, <1>10, CoreSame DEF Core, RestInv
<1>14. conf.prio[d] \in Nat /\ s.lvl \in Nat
  BY Zenon, <1>2, <1>10, ConfFacts, PrtyFacts DEF State
<1>15. ~(conf.prio[d] > s.lvl \/ (d \notin conf.rt /\ s.mcli))
  <2>1. SUFFICES ASSUME conf.prio[d] > s.lvl \/ (d \notin conf.rt /\ s.mcli) PROVE FALSE
    BY Zenon
  <2>2. conf.prio[d] # 0 \/ (d \notin conf.rt /\ s.mcli)
    BY <1>14, <2>1
  <2>3. MRT_irqd_enQ(s, d) \in State /\ MRT_irqd_enQ(s, d).stack = << >>
    BY Zenon, <1>2, <1>10, <1>13, <2>2, EnqKeeps DEF Core
  <2>4. QED
    BY Zenon, <1>6, <1>11, <1>12, <2>1, <2>3 DEF Dispatch
<1>16. k' = MRT_do_handler(s, d, "dispatch")
  BY Zenon, <1>11, <1>12, <1>15 DEF Dispatch
<1>17. k'.stack[1].d = d
  <2> DEFINE f == [kind |-> "H", d |-> d, lvl |-> s.lvl, real |-> s.real, why |-> "dispatch"]
             u == MRT_prtylvl_set(s, conf.prio[d])
  <2>1. u \in State /\ u.stack = << >>
    BY <1>2, <1>10, PrtylvlSet, ConfFacts
  <2>2. k' = Push(u, f)
    BY Zenon, <1>16 DEF MRT_do_handler
  <2> HIDE DEF u
  <2>3. k'.stack = Append(<< >>, f)
    BY Zenon, <2>1, <2>2 DEF Push, State
  <2>4. Append(<< >>, f)[1] = f
    OBVIOUS
  <2>5. QED
    BY <2>3, <2>4
<1>18. QED
  BY <1>10, <1>14, <1>15, <1>17

-----------------------------------------------------------------------------
(* What was assumed of the natural numbers and of finite sets.             *)
INSTANCE WellFoundedInduction

INSTANCE FiniteSetTheorems

LEMMA NatWellOrdered == WellOrdered
<1> SUFFICES ASSUME NEW N \in SUBSET Nat, N # {}
             PROVE  \E m \in N : \A n \in N : m <= n
  BY Zenon DEF WellOrdered
<1>1. PICK m \in N : \A n \in N : ~(<<n, m>> \in OpToRel(<, Nat))
  BY Zenon, NatLessThanWellFounded, WFMin
<1>2. \A n \in N : ~(n < m)
  BY Zenon, <1>1 DEF OpToRel
<1>3. QED
  BY <1>2

LEMMA BasicsHold == Basics
<1>1. IsFiniteSet(Irq)
  BY Zenon, IrqAssumption
<1>2. ASSUME NEW D \in SUBSET Irq
      PROVE  /\ Cardinality(D) \in Nat /\ (D # {} => Cardinality(D) # 0)
             /\ \A d \in D : Cardinality(D \ {d}) = Cardinality(D) - 1
             /\ \A E \in SUBSET D : Cardinality(E) <= Cardinality(D)
  <2>1. IsFiniteSet(D)
    BY Zenon, <1>1, FS_Subset
  <2>2. QED
    BY Zenon, <2>1, FS_CardinalityType, FS_EmptySet, FS_RemoveElement, FS_Subset
<1>3. QED
  BY Zenon, <1>2, NatWellOrdered DEF Basics

-----------------------------------------------------------------------------
(* The invariant holds in every reachable state of MRT_IRQ_dispatch,       *)
(* MRT_do_handler, MRT_flush_int and restart, if processes are scheduled   *)
(* only outside nested interrupts.                                         *)
THEOREM IrqInvariant ==
  ASSUME Orderly
  PROVE  Spec => []IInv
<1>1. Init => IInv
  BY Zenon, InitHolds
<1>2. IInv /\ [Next]_vars => IInv'
  BY Zenon, BasicsHold, NextHolds
<1>3. QED
  BY <1>1, <1>2, PTL DEF Spec

(* Interrupts are served by priority: the code of MRT_do_handler,          *)
(* MRT_flush_int and MRT_pick_proc lets a handler be interrupted by more   *)
(* urgent ones only, and a process never runs while an interrupt is        *)
(* deferred that is as urgent, nor at a level that is not its own.         *)
THEOREM UrgentServed ==
  ASSUME Orderly
  PROVE  Spec => []UrgentFirst
<1>1. Spec => []IInv
  BY Zenon, IrqInvariant
<1>2. QED
  BY <1>1, InvGives, PTL

(* A handler interrupts a process only if it is as urgent: what            *)
(* MRT_IRQ_dispatch compares with is the priority of the process.          *)
THEOREM ProcessOnlyOutranked ==
  ASSUME Orderly
  PROVE  Spec => ProcessOutranked
<1>1. IInv /\ [Next]_vars
        => [\A d \in Irq : User /\ k'.stack # << >> /\ k'.stack[1].kind = "H" /\ k'.stack[1].d = d
                           => conf.prio[d] <= k.cur]_vars
  BY Zenon, BasicsHold, OutrankedStep
<1>2. Spec => []IInv
  BY Zenon, IrqInvariant
<1>3. QED
  BY <1>1, <1>2, PTL DEF Spec, ProcessOutranked
=============================================================================
