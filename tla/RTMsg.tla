------------------------------- MODULE RTMsg -------------------------------
(***************************************************************************)
(* The real-time messages of mrtmsg.c: a queue of bounded size for every   *)
(* process, entries from one pool, requests that block the sender until    *)
(* they are received, requests that also wait for the reply, asynchronous  *)
(* messages and messages of the kernel; with the timeouts (mrtvt.c), the   *)
(* inheritance of priorities (mrtlib.c) and what MRT_set2nrt (mrtproc.c)   *)
(* does about messages.                                                    *)
(*                                                                         *)
(* The functions of the kernel are operators from the state k of the       *)
(* kernel to the next one, and a call is one step, as in RTSem.  Timers    *)
(* are as in RTSem: one expires at some tick, and its action runs as soon  *)
(* as no process more urgent than the timer runs.                          *)
(***************************************************************************)
EXTENDS PrtyQueues, Integers

CONSTANTS
  Proc, NoProc,     \* NoProc also stands for HARDWARE and for NULL
  NR_MESSAGES,      \* the entries of the pool
  Confs             \* the configurations: attributes, and how processes use the calls

Entry == 0 .. NR_MESSAGES - 1

Timeouts == {"NOWAIT", "FOREVER", "TIMED"}

AllCalls == {"receive", "rqst", "arqst", "uprqst", "sign", "rqrcv", "reply", "leave", "timer",
             "from_nrt",    \* they receive also from processes that are not real-time
             "leave_any"}   \* they leave also with messages in their queue

Conf ==
  [base : SUBSET (Prty \ {0}),                        \* the priorities processes enter with
   mqsize : Nat \ {0},                                \* attributes of every message queue
   mqflags : SUBSET {"PRTYORDER", "PRTYINHERIT"},
   bpip : BOOLEAN,                                    \* the system flag MRT_BPIP
   calls : SUBSET AllCalls,                           \* the calls processes make
   timeouts : SUBSET Timeouts,
   replyto : SUBSET {"RQRCV", "AREQUEST"},            \* the messages that are replied to, once
   asks : SUBSET (Proc \X Proc),                      \* who sends requests with reply to whom
   loop : BOOLEAN,                                    \* servers loop: receive any, reply
   semprty : SUBSET Prty,                             \* see MRT_disinherit
   wdog : [Proc -> Proc \cup {NoProc}]]               \* the process rt.watchdog is the number of

ASSUME MsgAssumption ==
  /\ IsFiniteSet(Proc) /\ NoProc \notin Proc /\ NR_MESSAGES \in Nat \ {0}
  /\ Confs \subseteq Conf /\ \A f \in Confs : f.semprty # {}

VARIABLES
  conf,       \* the configuration
  k,          \* the state of the kernel, see TypeOK
  flushed     \* the timer list flushed with MRT_NEEDSCHED set, or 0

vars == <<conf, k, flushed>>

PRILOWEST == NR_PRTY - 1

Least(S) == CHOOSE x \in S : \A y \in S : x <= y

MBFREE == [src |-> NoProc, dst |-> NoProc, mtype |-> "MBFREE", prty |-> 0]

(* MRT_pattr_rst, MRT_mpool_init and MRT_msgQ_init.                        *)
Init ==
  /\ conf \in Confs
  /\ k = [rt |-> [p \in Proc |-> FALSE], flags |-> [p \in Proc |-> {}],
          prio |-> [p \in Proc |-> PRILOWEST], base |-> [p \in Proc |-> PRILOWEST],
          pto |-> [p \in Proc |-> NoProc], pfrom |-> [p \in Proc |-> NoProc],
          wdog |-> [p \in Proc |-> NoProc],
          owes |-> [p \in Proc |-> {}],
          mq |-> [p \in Proc |-> QEmpty], hdr |-> [e \in Entry |-> MBFREE],
          mqeL |-> [i \in 1 .. NR_MESSAGES |-> i - 1],
          timer |-> [p \in Proc |-> "idle"], tact |-> [p \in Proc |-> "none"],
          tparam |-> [p \in Proc |-> 0], tprty |-> [p \in Proc |-> PRILOWEST],
          rdyQ |-> QEmpty, cur |-> NoProc, fault |-> "none"]
  /\ flushed = 0

-----------------------------------------------------------------------------
(* A panic or a corruption; what the rest of the call does is lost.        *)
Fail(s, f) == IF s.fault = "none" THEN [s EXCEPT !.fault = f] ELSE s

(* MRT_pick_proc.                                                          *)
MRT_pick_proc(s) ==
  IF s.fault # "none" THEN s
  ELSE [s EXCEPT !.cur = IF QIsEmpty(s.rdyQ) THEN NoProc ELSE QHighest(s.rdyQ)]

Prtylvl == IF k.cur = NoProc THEN PRILOWEST ELSE k.prio[k.cur]

Due(p) == k.timer[p] = "expired" /\ k.tprty[p] <= Prtylvl

(* A process is running: no kernel call, no flush.                         *)
User == k.fault = "none" /\ flushed = 0 /\ \A p \in Proc : ~Due(p)

(* MRT_ready if MRT_is_rtready.  A process that is queued already would be *)
(* linked twice.                                                           *)
MRT_ready(s, p) ==
  IF s.fault # "none" \/ s.flags[p] # {} THEN s
  ELSE IF QHas(s.rdyQ, p) THEN Fail(s, "link")
  ELSE [s EXCEPT !.rdyQ = QAppend(@, s.prio[p], p)]

MRT_unready(s, p) ==
  IF QPositions(s.rdyQ, s.prio[p], p) = {} THEN Fail(s, "link")
  ELSE [s EXCEPT !.rdyQ = QRemove(@, s.prio[p], p)]

(* MRT_vtimer_stop(rp->ipcvt) as in RTSem: a timer that has expired stays  *)
(* in the expired queue.                                                   *)
MRT_vtimer_stop(s, p) ==
  IF s.timer[p] = "expired"
  THEN IF \E q \in Proc \ {p} : s.timer[q] = "expired" /\ s.tprty[q] = s.tprty[p]
       THEN Fail(s, "link") ELSE s
  ELSE [s EXCEPT !.timer[p] = "idle"]

(* Starting a timer that is still queued links it twice.                   *)
VTSET(s, p, act, par) ==
  IF s.timer[p] # "idle" THEN Fail(s, "link")
  ELSE [s EXCEPT !.timer[p] = "active", !.tact[p] = act,
                 !.tparam[p] = par, !.tprty[p] = s.prio[p]]

(* Mutant: a process that is raised is not moved in the ready queue.       *)
MRT_inherit_NoMove(s, prty, d) ==
  IF conf.bpip /\ prty < s.prio[d] THEN [s EXCEPT !.prio[d] = prty] ELSE s

(* MRT_inherit(prty, d): from d along the processes that each wait for the *)
(* next, as far as they are less urgent than prty.                         *)
MRT_inherit(s, prty, d) ==
  LET Blocker(p) == IF p = NoProc THEN NoProc
                    ELSE IF "SND" \in s.flags[p] THEN s.pto[p]
                    ELSE IF "RCV" \in s.flags[p] /\ s.pfrom[p] # p THEN s.pfrom[p]
                    ELSE NoProc
      chain[n \in 0 .. Cardinality(Proc)] ==
        IF n = 0 THEN d
        ELSE IF chain[n - 1] # NoProc /\ prty < s.prio[chain[n - 1]]
             THEN Blocker(chain[n - 1]) ELSE NoProc
      up == {p \in Proc : prty < s.prio[p] /\ \E n \in DOMAIN chain : chain[n] = p}
      last == {p \in up : s.flags[p] = {}}
      raised == [s EXCEPT !.prio = [p \in Proc |-> IF p \in up THEN prty ELSE @[p]]]
  IN  IF s.fault # "none" \/ ~conf.bpip THEN s
      ELSE IF last = {} THEN raised
      ELSE LET p == CHOOSE p \in last : TRUE
               u == MRT_unready(s, p)
           IN  IF u.fault # "none" THEN u
               ELSE [raised EXCEPT !.rdyQ = QPrepend(u.rdyQ, prty, p)]

-----------------------------------------------------------------------------
MsgPrty(s, e) == IF "PRTYORDER" \in conf.mqflags THEN s.hdr[e].prty ELSE 0

InQ(s, p) == {e \in Entry : QHas(s.mq[p], e)}

Full(s, p) == Cardinality(InQ(s, p)) = conf.mqsize

(* MRT_mqe_pick: the first entry from src, or from anyone if src is the    *)
(* owner of the queue; -1 if there is none.                                *)
MRT_mqe_pick(s, p, src) ==
  LET at == {x \in Prty \X (1 .. NR_MESSAGES) :
               /\ x[2] <= Len(s.mq[p][x[1]])
               /\ src = p \/ s.hdr[s.mq[p][x[1]][x[2]]].src = src}
      first == CHOOSE x \in at : \A y \in at : x[1] < y[1] \/ (x[1] = y[1] /\ x[2] <= y[2])
  IN  IF at = {} THEN -1 ELSE s.mq[p][first[1]][first[2]]

(* MRT_mqe_rmv and MRT_mqe_free.                                           *)
MRT_mqe_rmv(s, d, e) ==
  IF s.fault # "none" THEN s
  ELSE IF d = NoProc THEN Fail(s, "null")
  ELSE IF QPositions(s.mq[d], MsgPrty(s, e), e) = {} THEN Fail(s, "link")
  ELSE [s EXCEPT !.mq[d] = QRemove(@, MsgPrty(s, e), e),
                 !.hdr[e] = MBFREE, !.mqeL = Append(@, e)]

(* Mutant: the process gets its own priority back, whoever waits.          *)
MRT_disinherit_Base(s, d, sem_prty) ==
  LET u == MRT_unready(s, d)
  IN  IF ~conf.bpip THEN s
      ELSE IF s.flags[d] # {} THEN [s EXCEPT !.prio[d] = s.base[d]]
      ELSE [u EXCEPT !.prio[d] = s.base[d], !.rdyQ = QPrepend(@, s.base[d], d)]

(* MRT_disinherit(d): semaphores are left out, but what the code reads in  *)
(* their place can be any of SemPrties.                                    *)
MRT_disinherit(s, d, sem_prty) ==
  IF s.fault # "none" \/ ~conf.bpip THEN s
  ELSE IF d = NoProc THEN Fail(s, "null")
  ELSE LET e    == MRT_mqe_pick(s, d, d)
           mq   == IF e = -1 THEN PRILOWEST ELSE s.hdr[e].prty
           prty == Least({sem_prty, mq, s.base[d]})
           u    == MRT_unready(s, d)
       IN  IF prty = s.base[d] THEN s
           ELSE IF s.flags[d] # {} THEN [s EXCEPT !.prio[d] = prty]
           ELSE IF u.fault # "none" THEN u
           ELSE [u EXCEPT !.prio[d] = prty, !.rdyQ = QPrepend(@, prty, d)]

-----------------------------------------------------------------------------
Message(src, dst, mtype, prty) == [src |-> src, dst |-> dst, mtype |-> mtype, prty |-> prty]

(* The process that replies keeps in mind whom it owes a reply.            *)
Owes(s, p, h) ==
  IF h.mtype \in conf.replyto THEN [s EXCEPT !.owes[p] = @ \cup {h.src}] ELSE s

(* Mutant: whoever waits for any message does not get this one.            *)
Waiting_Named(s, d, p) == "RCV" \in s.flags[d] /\ s.pfrom[d] = p

(* Whether d waits for a message from p.                                   *)
Waiting(s, d, p) == "RCV" \in s.flags[d] /\ s.pfrom[d] \in {p, d}

(* Mutant: the timer of the receiver runs on.                              *)
Deliver_NoStop(s, d, h) ==
  MRT_ready(Owes([s EXCEPT !.pfrom[d] = NoProc, !.flags[d] = @ \ {"RCV"}], d, h), d)

(* The message goes to the receiver that waits for it, who is unblocked.   *)
Deliver(s, d, h) ==
  LET u == [s EXCEPT !.pfrom[d] = NoProc, !.flags[d] = @ \ {"RCV"}]
  IN  MRT_vtimer_stop(MRT_ready(Owes(u, d, h), d), d)

(* MRT_mqe_alloc and MRT_mqe_app.                                          *)
Enqueue(s, d, h) ==
  LET e == Head(s.mqeL)
      u == [s EXCEPT !.mqeL = Tail(@), !.hdr[e] = h]
  IN  [u EXCEPT !.mq[d] = QAppend(@, MsgPrty(u, e), e)]

Inherit(s, prty, d) == IF "PRTYINHERIT" \in conf.mqflags THEN MRT_inherit(s, prty, d) ELSE s

(* The error returns all sends share: no real-time process, a full queue,  *)
(* even if the receiver waits for this message, and no entry.              *)
Refused(d, direct) == ~k.rt[d] \/ Full(k, d) \/ (~direct /\ k.mqeL = << >>)

(* Messages that block nobody: rtk_arqst, rtk_uprqst and rtk_sign.         *)
Asend(h) ==
  LET d == h.dst
      s == IF Waiting(k, d, k.cur) THEN Deliver(k, d, h) ELSE Enqueue(k, d, h)
  IN  IF Refused(d, Waiting(k, d, k.cur)) THEN k
      ELSE IF h.mtype = "SIGNAL" THEN s ELSE Inherit(s, h.prty, d)

-----------------------------------------------------------------------------
Call(s) == k' = MRT_pick_proc(s) /\ UNCHANGED <<conf, flushed>>

(* A server that loops replies before anything else.                       *)
Can(c) ==
  /\ c \in conf.calls /\ User /\ k.cur # NoProc
  /\ conf.loop /\ k.owes[k.cur] # {} => c = "reply"

(* A call that sends; processes send no message to themselves.             *)
CanSend(c, d) == Can(c) /\ d # k.cur

rtk_arqst(d) ==
  CanSend("arqst", d) /\ Call(Asend(Message(k.cur, d, "AREQUEST", k.prio[k.cur])))

rtk_uprqst(d, prty) ==
  CanSend("uprqst", d) /\ prty \in conf.base /\ Call(Asend(Message(k.cur, d, "UPRQST", prty)))

rtk_sign(d) ==
  CanSend("sign", d) /\ Call(Asend(Message(k.cur, d, "SIGNAL", k.prio[d])))

(* rtk_rqst: the sender waits until the request is received.               *)
rtk_rqst(d, t) ==
  LET h == Message(k.cur, d, "REQUEST", k.prio[k.cur])
      direct == Waiting(k, d, k.cur)
      q == Enqueue(k, d, h)
      timed == IF t = "FOREVER" THEN q ELSE VTSET(q, k.cur, "SNDTO", Head(k.mqeL))
      blocked == MRT_unready([timed EXCEPT !.flags[k.cur] = @ \cup {"SND"}, !.pto[k.cur] = d], k.cur)
  IN  /\ CanSend("rqst", d) /\ t \in conf.timeouts
      /\ Call(IF Refused(d, direct) \/ (~direct /\ t = "NOWAIT") THEN k
              ELSE Inherit(IF direct THEN Deliver(k, d, h) ELSE blocked, h.prty, d))

(* rtk_rqrcv: a request, and the sender waits for the reply.  The timer is *)
(* set after its parameter, and with 0.                                    *)
rtk_rqrcv(d, t) ==
  LET h == Message(k.cur, d, "RQRCV", k.prio[k.cur])
      direct == Waiting(k, d, k.cur)
      sent == IF direct THEN Deliver(k, d, h)
              ELSE [Enqueue(k, d, h) EXCEPT !.flags[k.cur] = @ \cup {"SND"}, !.pto[k.cur] = d]
      timed == IF t = "FOREVER" THEN sent ELSE VTSET(sent, k.cur, "SNDRCV", 0)
      blocked == MRT_unready([timed EXCEPT !.flags[k.cur] = @ \cup {"RCV"}, !.pfrom[k.cur] = d], k.cur)
  IN  /\ CanSend("rqrcv", d) /\ <<k.cur, d>> \in conf.asks
      /\ t \in conf.timeouts \ {"NOWAIT"}
      /\ Call(IF Refused(d, direct) THEN k ELSE Inherit(blocked, h.prty, d))

(* rtk_reply: a process that waits for any message does not get it.        *)
rtk_reply(d, sem_prty) ==
  LET h == Message(k.cur, d, "REPLY", k.prio[k.cur])
      direct == "RCV" \in k.flags[d] /\ k.pfrom[d] = k.cur
      sent == IF ~k.rt[d] \/ Full(k, d) THEN k
              ELSE IF direct THEN Deliver(k, d, h) ELSE Enqueue(k, d, h)
      done == IF "PRTYINHERIT" \in conf.mqflags THEN MRT_disinherit(sent, k.cur, sem_prty) ELSE sent
      noent == k.rt[d] /\ ~Full(k, d) /\ ~direct /\ k.mqeL = << >>
  IN  /\ CanSend("reply", d) /\ d \in k.owes[k.cur] /\ sem_prty \in conf.semprty
      /\ Call(IF noent THEN k ELSE [done EXCEPT !.owes[k.cur] = @ \ {d}])

(* The sender of a request that is received goes on; the sender of one     *)
(* with reply is left with the wait for the reply.                         *)
Unblock(s, p, h) ==
  IF h.src = NoProc \/ h.mtype \notin {"REQUEST", "RQRCV"} THEN s
  ELSE IF s.pto[h.src] # p THEN s
  ELSE LET u == IF h.mtype = "REQUEST" THEN MRT_vtimer_stop(s, h.src) ELSE s
           v == [u EXCEPT !.flags[h.src] = @ \ {"SND"}, !.pto[h.src] = NoProc]
       IN  IF h.mtype = "REQUEST" THEN MRT_ready(v, h.src) ELSE v

(* rtk_receive from src, or from any process if src is the caller.         *)
rtk_receive(src, t) ==
  LET p == k.cur
      e == MRT_mqe_pick(k, p, src)
      h == k.hdr[e]
      timed == IF t = "FOREVER" THEN k ELSE VTSET(k, p, "RCVFR", 0)
      blocked == MRT_unready([timed EXCEPT !.flags[p] = @ \cup {"RCV"}, !.pfrom[p] = src], p)
      got == Unblock(Owes(k, p, h), p, h)
  IN  /\ Can("receive") /\ t \in conf.timeouts /\ (k.rt[src] \/ "from_nrt" \in conf.calls)
      /\ conf.loop => src = p
      /\ Call(IF e # -1 THEN MRT_mqe_rmv(got, p, e)
              ELSE IF t = "NOWAIT" THEN k ELSE blocked)

-----------------------------------------------------------------------------
(* MRT_ksend.  It compares with the running process instead of src.        *)
MRT_ksend(s, h) ==
  LET d == h.dst
      direct == Waiting(s, d, s.cur)
      u == IF direct THEN Deliver(s, d, h) ELSE Enqueue(s, d, h)
  IN  IF s.fault # "none" \/ ~s.rt[d] \/ Full(s, d) \/ (~direct /\ s.mqeL = << >>) THEN s
      ELSE Inherit(u, h.prty, d)

(* MRT_act_msgown and MRT_act_msgwdog: a timer of p sends p, or the        *)
(* watchdog of p, a message.  Nothing is scheduled.                        *)
MRT_act_msg(p) ==
  /\ "timer" \in conf.calls /\ User /\ k.rt[p]
  /\ \/ k' = MRT_ksend(k, Message(NoProc, p, "KRNTOUT", k.prio[p]))
     \/ /\ k.wdog[p] # NoProc
        /\ k' = MRT_ksend(k, Message(p, k.wdog[p], "KRNTOUT", k.prio[p]))
  /\ UNCHANGED <<conf, flushed>>

-----------------------------------------------------------------------------
(* A timer is due, and MRT_clock_handler moves it to the expired queue.    *)
Expire(p) ==
  /\ User /\ k.timer[p] = "active"
  /\ k' = [k EXCEPT !.timer[p] = "expired"]
  /\ UNCHANGED <<conf, flushed>>

(* MRT_act_sndto: the request is taken back.                               *)
MRT_act_sndto(s, p, sem_prty) ==
  LET d == s.pto[p]
      u == MRT_disinherit(MRT_mqe_rmv(s, d, s.tparam[p]), d, sem_prty)
  IN  MRT_ready([u EXCEPT !.flags[p] = @ \ {"SND"}, !.pto[p] = NoProc], p)

(* MRT_act_rcvfr.                                                          *)
MRT_act_rcvfr(s, p) ==
  MRT_ready([s EXCEPT !.flags[p] = @ \ {"RCV"}, !.pfrom[p] = NoProc], p)

(* MRT_act_sndrcv.                                                         *)
MRT_act_sndrcv(s, p, sem_prty) ==
  LET u == IF "SND" \in s.flags[p]
           THEN [MRT_mqe_rmv(s, s.pto[p], s.tparam[p]) EXCEPT
                   !.flags[p] = @ \ {"SND"}, !.pto[p] = NoProc]
           ELSE s
      v == MRT_disinherit(u, s.pfrom[p], sem_prty)
  IN  MRT_ready([v EXCEPT !.flags[p] = @ \ {"RCV"}, !.pfrom[p] = NoProc], p)

(* MRT_vtimer_run, by the flush: the list of the highest priority first,   *)
(* and to its end.                                                         *)
MRT_vtimer_run(p, sem_prty) ==
  LET s == [k EXCEPT !.timer[p] = "idle"]
      u == CASE k.tact[p] = "SNDTO" -> MRT_act_sndto(s, p, sem_prty)
             [] k.tact[p] = "RCVFR" -> MRT_act_rcvfr(s, p)
             [] k.tact[p] = "SNDRCV" -> MRT_act_sndrcv(s, p, sem_prty)
  IN  /\ k.fault = "none" /\ Due(p) /\ sem_prty \in conf.semprty
      /\ \/ flushed = k.tprty[p]
         \/ flushed = 0 /\ \A q \in Proc : Due(q) => k.tprty[p] <= k.tprty[q]
      /\ k' = u
      /\ flushed' = IF u.flags[p] = {} THEN k.tprty[p] ELSE flushed
      /\ UNCHANGED conf

(* MRT_flush_int picks a process once the list is empty.                   *)
FlushSched ==
  /\ k.fault = "none" /\ flushed # 0
  /\ \A p \in Proc : k.timer[p] = "expired" => k.tprty[p] # flushed
  /\ flushed' = 0
  /\ k' = MRT_pick_proc(k)
  /\ UNCHANGED conf

-----------------------------------------------------------------------------
(* MRT_setpattr and rtk_set2rt by a MINIX process.                         *)
rtk_set2rt(p, b) ==
  /\ User /\ k.cur = NoProc /\ ~k.rt[p] /\ b \in conf.base
  /\ LET s == [k EXCEPT !.rt[p] = TRUE, !.prio[p] = b, !.base[p] = b, !.wdog[p] = conf.wdog[p]]
     IN  Call(IF k.mqeL = << >> THEN k ELSE MRT_ready(s, p))

(* MRT_set2nrt.  The watchdog of p is told, and the processes p is the     *)
(* watchdog of; a message in the queue of p is looked at for ever; the     *)
(* messages p sent are removed, the one to its watchdog included.          *)
MRT_set2nrt ==
  LET p == k.cur
      w == k.wdog[p]
      off == MRT_unready(IF k.timer[p] = "expired" THEN Fail(k, "link") ELSE k, p)
      told == IF w # NoProc THEN MRT_ksend(off, Message(p, w, "KRNPROC", k.prio[p])) ELSE off
      wards == {q \in Proc : k.wdog[q] = p /\ k.rt[q]}
      warn == IF wards = {} THEN told
              ELSE LET q == CHOOSE q \in wards : TRUE
                   IN  MRT_ksend([told EXCEPT !.wdog[q] = NoProc],
                                 Message(p, q, "KRNWDOG", k.prio[q]))
      mine == {e \in Entry : warn.hdr[e].src = p}
      removed == [warn EXCEPT
                    !.mq = [d \in Proc |-> [r \in Prty |-> SelectSeq(@[d][r], LAMBDA e : e \notin mine)]],
                    !.hdr = [e \in Entry |-> IF e \in mine THEN MBFREE ELSE @[e]],
                    !.mqeL = @ \o SelectSeq([i \in 1 .. NR_MESSAGES |-> i - 1], LAMBDA e : e \in mine)]
  IN  /\ Can("leave") /\ (InQ(k, p) = {} \/ "leave_any" \in conf.calls)
      /\ Cardinality(wards) <= 1
      /\ Call(IF InQ(warn, p) # {} THEN Fail(warn, "loop")
              ELSE [removed EXCEPT !.rt[p] = FALSE, !.flags[p] = {}, !.owes[p] = {}])

-----------------------------------------------------------------------------
(* Nothing but what MINIX processes do happens any more: every process     *)
(* waits for another one and no timer runs, or there was a fault, after    *)
(* which nothing is known.                                                 *)
Stopped ==
  \/ k.fault # "none"
  \/ User /\ k.cur = NoProc /\ \A p \in Proc : k.rt[p] /\ k.timer[p] # "active"

Idle == Stopped /\ UNCHANGED vars

Next ==
  \/ \E d \in Proc :
       \/ rtk_arqst(d) \/ rtk_sign(d)
       \/ \E prty \in Prty : rtk_uprqst(d, prty)
       \/ \E t \in Timeouts : rtk_rqst(d, t) \/ rtk_rqrcv(d, t) \/ rtk_receive(d, t)
       \/ \E sem_prty \in Prty : rtk_reply(d, sem_prty)
  \/ \E p \in Proc : \/ Expire(p) \/ MRT_act_msg(p)
                     \/ \E b \in Prty : rtk_set2rt(p, b)
                     \/ \E sem_prty \in Prty : MRT_vtimer_run(p, sem_prty)
  \/ FlushSched \/ MRT_set2nrt \/ Idle

Spec == Init /\ [][Next]_vars

(* The processor goes on: a process that runs makes its next call.         *)
LoopStep ==
  /\ conf.loop
  /\ \E d \in Proc :
       \/ \E t \in Timeouts : rtk_rqrcv(d, t) \/ rtk_receive(d, t)
       \/ \E sem_prty \in Prty : rtk_reply(d, sem_prty)

FairSpec == Spec /\ WF_vars(LoopStep)

-----------------------------------------------------------------------------
(* Type invariant, with the fields of k; no queue is longer than its size. *)
TypeOK ==
  /\ k.rt \in [Proc -> BOOLEAN] /\ k.flags \in [Proc -> SUBSET {"SND", "RCV"}]
  /\ k.prio \in [Proc -> Prty] /\ k.base \in [Proc -> Prty]
  /\ \A f \in {k.pto, k.pfrom, k.wdog} : f \in [Proc -> Proc \cup {NoProc}]
  /\ k.owes \in [Proc -> SUBSET Proc]
  /\ k.mq \in [Proc -> [Prty -> Seq(Entry)]] /\ k.mqeL \in Seq(Entry)
  /\ k.timer \in [Proc -> {"idle", "active", "expired"}] /\ k.tparam \in [Proc -> Entry]
  /\ k.rdyQ \in [Prty -> Seq(Proc)] /\ k.cur \in Proc \cup {NoProc}
  /\ k.fault \in {"none", "link", "null", "loop"} /\ flushed \in Prty
  /\ \A p \in Proc : Cardinality(InQ(k, p)) <= conf.mqsize

(* Every entry is in one place: once in the pool, where its header is      *)
(* reset, or once in one message queue, that of the process its header     *)
(* names, in the list where MRT_mqe_rmv looks for it.                      *)
EntriesKept ==
  k.fault = "none" =>
    \A e \in Entry :
      LET pool   == {i \in 1 .. Len(k.mqeL) : k.mqeL[i] = e}
          places == {x \in Proc \X Prty \X (1 .. NR_MESSAGES) : x[3] \in QPositions(k.mq[x[1]], x[2], e)}
      IN  IF k.hdr[e] = MBFREE THEN Cardinality(pool) = 1 /\ places = {}
          ELSE /\ pool = {} /\ Cardinality(places) = 1
               /\ \A x \in places : x[1] = k.hdr[e].dst /\ x[2] = MsgPrty(k, e)

(* A process is blocked in sending exactly as long as its request is in    *)
(* the queue of the process it sends to.                                   *)
SenderBlocked ==
  k.fault = "none" =>
    \A p \in Proc :
      LET sync == {e \in Entry : k.hdr[e].src = p /\ k.hdr[e].mtype \in {"REQUEST", "RQRCV"}}
      IN  IF "SND" \in k.flags[p]
          THEN Cardinality(sync) = 1 /\ \A e \in sync : QHas(k.mq[k.pto[p]], e)
          ELSE sync = {} /\ k.pto[p] = NoProc

(* The ready queue has the processes that wait for nothing, each once, in  *)
(* the list of its priority.                                               *)
ReadyQueued ==
  k.fault = "none" =>
    \A p \in Proc, r \in Prty :
      Cardinality(QPositions(k.rdyQ, r, p)) =
        IF k.rt[p] /\ k.flags[p] = {} /\ r = k.prio[p] THEN 1 ELSE 0

(* No process waits for a message that is in its queue.  A process that    *)
(* waits for a reply does not look at the requests with reply that the     *)
(* same server sent to it, and MRT_ksend not at who its message is from.   *)
NotBypassed ==
  k.fault = "none" =>
    \A p \in Proc : "RCV" \in k.flags[p] =>
      \A e \in InQ(k, p) : /\ k.pfrom[p] # p
                           /\ k.hdr[e].src = k.pfrom[p] => k.hdr[e].mtype \in {"RQRCV", "KRNTOUT"}

(* With inheritance and priority order the receiver is as urgent as any    *)
(* message in its queue, also after a reply has taken priority back.       *)
ReceiverOutranksQueue ==
  k.fault = "none" /\ conf.bpip /\ conf.mqflags = {"PRTYORDER", "PRTYINHERIT"} =>
    \A e \in Entry : k.hdr[e].dst # NoProc => k.prio[k.hdr[e].dst] <= k.hdr[e].prty

(* Nothing goes wrong: no list is corrupted, no null pointer is followed   *)
(* and every call ends.                                                    *)
NoFault == k.fault = "none"

(* Whenever a process runs, it is the one that has been ready for longest  *)
(* of the highest priority that is ready.  A process that a timer sends a  *)
(* message to is not scheduled before the next call.                       *)
HighestRuns ==
  User /\ "timer" \notin conf.calls =>
    k.cur = IF QIsEmpty(k.rdyQ) THEN NoProc ELSE QHighest(k.rdyQ)

(* No message entry is lost, shared or left behind, and nobody is blocked  *)
(* by a request that is gone: through deliveries, timeouts, replies and    *)
(* processes that leave (MRT_mqe_alloc, MRT_mqe_rmv, MRT_act_sndto).       *)
MessagesKept == NoFault /\ EntriesKept /\ SenderBlocked

(* The ready queue is exact and its first process runs, though priorities  *)
(* are inherited and given back while processes wait in it (MRT_inherit,   *)
(* MRT_disinherit, MRT_pick_proc).                                         *)
Scheduled == TypeOK /\ ReadyQueued /\ HighestRuns

(* With first-come queues, and servers that loop, every request with reply *)
(* is answered in the end.                                                 *)
Answered ==
  \A p \in Proc : (conf.loop /\ "RCV" \in k.flags[p] /\ k.pfrom[p] # p) ~> k.flags[p] = {}

=============================================================================
