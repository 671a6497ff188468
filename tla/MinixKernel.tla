---------------------------- MODULE MinixKernel ----------------------------
(***************************************************************************)
(* The process kernel that MINIX4RT inherits from MINIX: the rendezvous,   *)
(* the three ready queues, the interrupt messages with their held queue    *)
(* (kernel/proc.c) and the system task's calls that start, stop, signal    *)
(* and free processes (kernel/system.c), outside real-time mode.           *)
(*                                                                         *)
(* Every C function is an operator from a kernel state to a kernel state;  *)
(* MinixSystem gives the steps of the processes that call them.  A message *)
(* is a record of its type and the process it is about.  Registers, memory *)
(* maps, accounting and message addresses are left out.                    *)
(***************************************************************************)
EXTENDS Integers, Sequences, FiniteSets, SequencesExt

CONSTANTS
  Tasks,     \* the kernel tasks
  MM, FS,    \* the two servers
  Users      \* the user slots of the process table, in table order

ANY == "ANY"
HARDWARE == "HARDWARE"
IDLE == "IDLE"
NONE == "NONE"

Servers == {MM, FS}
UserSet == ToSet(Users)
Procs == Tasks \cup Servers \cup UserSet

Flags == {"SENDING", "RECEIVING", "PENDING", "SIG_PENDING", "NO_MAP", "SLOT_FREE"}

NoOut == [type |-> NONE, arg |-> NONE]
HardInt == [type |-> "HARD_INT", arg |-> NONE]
NoMess == [src |-> NONE, type |-> NONE, arg |-> NONE]

\* The table order in which inform() looks for a signalled process.
SlotOrder == <<MM, FS>> \o Users

\* The queue of a process: tasks before servers before users.
QueueOf(p) == CASE p \in Tasks \cup {HARDWARE} -> "TASK_Q"
                [] p \in Servers               -> "SERVER_Q"
                [] OTHER                       -> "USER_Q"

-----------------------------------------------------------------------------
(* The ready queues.                                                       *)

\* Choose the next process: the first of the most urgent nonempty queue.
\* Tasks and servers are not billed.
pick_proc(s) ==
  CASE s.rdy["TASK_Q"] # << >>   -> [s EXCEPT !.cur = Head(s.rdy["TASK_Q"])]
    [] s.rdy["TASK_Q"] = << >> /\ s.rdy["SERVER_Q"] # << >>
                                 -> [s EXCEPT !.cur = Head(s.rdy["SERVER_Q"])]
    [] s.rdy["TASK_Q"] = << >> /\ s.rdy["SERVER_Q"] = << >>
         /\ s.rdy["USER_Q"] # << >>
                                 -> [s EXCEPT !.cur = Head(s.rdy["USER_Q"]),
                                              !.bill = Head(s.rdy["USER_Q"])]
    [] OTHER                     -> [s EXCEPT !.cur = IDLE, !.bill = IDLE]

\* A task on an empty queue runs next; a user goes to the front of its queue.
ready(s, p) ==
  IF QueueOf(p) = "USER_Q"
    THEN [s EXCEPT !.rdy["USER_Q"] = <<p>> \o @]
    ELSE [s EXCEPT !.rdy[QueueOf(p)] = Append(@, p),
                   !.cur = IF p \in Tasks /\ s.rdy["TASK_Q"] = << >>
                             THEN p ELSE @]

\* Take a process off its queue; only the loss of a head picks again, and a
\* task's only when it was the running one.
unready(s, p) ==
  LET q == s.rdy[QueueOf(p)]
      t == [s EXCEPT !.rdy[QueueOf(p)] = SelectSeq(q, LAMBDA x: x # p)]
  IN  IF q # << >> /\ Head(q) = p /\ (p \in Tasks => s.cur = p)
        THEN pick_proc(t)
        ELSE t

\* Put the first user at the end of its queue.
sched(s) ==
  LET q == s.rdy["USER_Q"]
  IN  IF q = << >> THEN s
      ELSE pick_proc([s EXCEPT !.rdy["USER_Q"] = Tail(q) \o <<Head(q)>>])

\* The end of a quantum, in the clock task.
end_quantum(s) ==
  LET t == IF s.bill = s.prev THEN sched(s) ELSE s
  IN  [t EXCEPT !.prev = t.bill]

-----------------------------------------------------------------------------
(* The rendezvous.                                                         *)

\* The processes met by following p_sendto from d while they are sending.
SendChain(s, d) ==
  LET at[n \in 0 .. Cardinality(Procs)] ==
        IF n = 0 THEN d
        ELSE IF "SENDING" \in s.flags[at[n - 1]] THEN s.sendto[at[n - 1]]
             ELSE at[n - 1]
  IN  { at[n] : n \in 1 .. Cardinality(Procs) }

\* What mini_send() returns: a dead destination and a ring of senders are
\* refused.
send_result(s, c, d) ==
  CASE "SLOT_FREE" \in s.flags[d] -> "E_BAD_DEST"
    [] "SLOT_FREE" \notin s.flags[d] /\ "SENDING" \in s.flags[d]
         /\ c \in SendChain(s, d) -> "ELOCKED"
    [] OTHER                      -> "OK"

\* Destination d is blocked waiting for a message of c.
Awaits(s, d, c) ==
  /\ "RECEIVING" \in s.flags[d] /\ "SENDING" \notin s.flags[d]
  /\ s.getfrom[d] \in {ANY, c}

Deliver(s, d, c, m) ==
  [s EXCEPT !.in[d] = [src |-> c, type |-> m.type, arg |-> m.arg]]

\* Clear a flag.  The fields that are only read under it are forgotten.
Clear(s, p, f) ==
  [s EXCEPT !.flags[p] = @ \ {f},
            !.getfrom[p] = IF f = "RECEIVING" THEN NONE ELSE @,
            !.sendto[p] = IF f = "SENDING" THEN NONE ELSE @,
            !.out[p] = IF f = "SENDING" THEN NoOut ELSE @]

\* Clear a flag; a process left without flags becomes ready.
Unblock(s, p, f) ==
  LET t == Clear(s, p, f)
  IN  IF t.flags[p] = {} THEN ready(t, p) ELSE t

\* Set flags; a process that had none leaves its ready queue first.
Block(s, p, fs) ==
  LET t == IF s.flags[p] = {} THEN unready(s, p) ELSE s
  IN  [t EXCEPT !.flags[p] = @ \cup fs]

\* Send message m of c to d: hand it over or queue the caller.
mini_send(s, c, d, m) ==
  IF send_result(s, c, d) # "OK" THEN s
  ELSE IF Awaits(s, d, c)
         THEN Unblock(Deliver(s, d, c, m), d, "RECEIVING")
         ELSE LET t == Block(s, c, {"SENDING"})
              IN  [t EXCEPT !.sendto[c] = d, !.out[c] = m,
                            !.callerq[d] = Append(@, c)]

\* Tell MM of the first process with a pending signal.
inform(s) ==
  LET pend == { i \in DOMAIN SlotOrder : "PENDING" \in s.flags[SlotOrder[i]] }
      p == SlotOrder[CHOOSE i \in pend : \A j \in pend : i <= j]
      t == mini_send([s EXCEPT !.sig_procs = @ - 1], HARDWARE, MM,
                     [type |-> "KSIG", arg |-> p])
  IN  IF pend = {} THEN s
      ELSE pick_proc([t EXCEPT !.pending[p] = FALSE,
                               !.flags[p] = @ \ {"PENDING"}])

\* Mutant: MM is not told of the signals that came while it was busy.
mini_rec_NoInform(s, c, src) ==
  LET q   == s.callerq[c]
      fit == { i \in DOMAIN q : src \in {ANY, q[i]} }
      i   == CHOOSE i \in fit : \A j \in fit : i <= j
  IN  IF "SENDING" \notin s.flags[c] /\ fit # {}
        THEN Unblock([Deliver(s, c, q[i], s.out[q[i]])
                        EXCEPT !.callerq[c] = RemoveAt(q, i)],
                     q[i], "SENDING")
      ELSE IF "SENDING" \notin s.flags[c] /\ c \in s.int_blocked
                /\ src \in {ANY, HARDWARE}
        THEN [Deliver(s, c, HARDWARE, HardInt)
                EXCEPT !.int_blocked = @ \ {c}]
        ELSE [Block(s, c, {"RECEIVING"}) EXCEPT !.getfrom[c] = src]

\* Mutant: a recorded interrupt is not looked for.
mini_rec_NoInt(s, c, src) ==
  LET q   == s.callerq[c]
      fit == { i \in DOMAIN q : src \in {ANY, q[i]} }
      i   == CHOOSE i \in fit : \A j \in fit : i <= j
      t   == [Block(s, c, {"RECEIVING"}) EXCEPT !.getfrom[c] = src]
  IN  IF "SENDING" \notin s.flags[c] /\ fit # {}
        THEN Unblock([Deliver(s, c, q[i], s.out[q[i]])
                        EXCEPT !.callerq[c] = RemoveAt(q, i)],
                     q[i], "SENDING")
      ELSE IF s.sig_procs > 0 /\ c = MM /\ src = ANY THEN inform(t) ELSE t

\* Receive from src: the first fitting sender, else a recorded interrupt,
\* else block (and let MM be told of pending signals).
mini_rec(s, c, src) ==
  LET q   == s.callerq[c]
      fit == { i \in DOMAIN q : src \in {ANY, q[i]} }
      i   == CHOOSE i \in fit : \A j \in fit : i <= j
      t   == [Block(s, c, {"RECEIVING"}) EXCEPT !.getfrom[c] = src]
  IN  IF "SENDING" \notin s.flags[c] /\ fit # {}
        THEN Unblock([Deliver(s, c, q[i], s.out[q[i]])
                        EXCEPT !.callerq[c] = RemoveAt(q, i)],
                     q[i], "SENDING")
      ELSE IF "SENDING" \notin s.flags[c] /\ c \in s.int_blocked
                /\ src \in {ANY, HARDWARE}
        THEN [Deliver(s, c, HARDWARE, HardInt)
                EXCEPT !.int_blocked = @ \ {c}]
      ELSE IF s.sig_procs > 0 /\ c = MM /\ src = ANY THEN inform(t) ELSE t

\* What a system call returns: users may only sendrec, and only to servers.
call_result(s, c, fn, q) ==
  CASE c \in UserSet /\ fn # "BOTH"           -> "E_NO_PERM"
    [] fn = "RECEIVE" /\ c \notin UserSet     -> "OK"
    [] fn = "BOTH" /\ c \in UserSet /\ q \notin Servers -> "E_BAD_DEST"
    [] OTHER                                  -> send_result(s, c, q)

\* The system call itself.  A refused send ends a sendrec.  The caller's
\* buffer is reused.
sys_call(s, c, fn, q, m) ==
  LET t == [s EXCEPT !.in[c] = NoMess]
  IN  IF call_result(s, c, fn, q) # "OK" THEN t
      ELSE CASE fn = "SEND"    -> mini_send(t, c, q, m)
             [] fn = "RECEIVE" -> mini_rec(t, c, q)
             [] fn = "BOTH"    -> mini_rec(mini_send(t, c, q, m), c, q)

-----------------------------------------------------------------------------
(* Interrupts.                                                             *)

\* Mutant: an interrupt inside the kernel is dropped when the task has no
\* message to wait for.
hold_Drop(s, t) ==
  IF "RECEIVING" \notin s.flags[t] \/ t \in ToSet(s.held) THEN s
  ELSE [s EXCEPT !.held = Append(@, t)]

\* Keep an interrupt for later; a task is held once.
hold(s, t) ==
  IF t \in ToSet(s.held) THEN s ELSE [s EXCEPT !.held = Append(@, t)]

\* Mutant: the interrupted process goes on instead of the task.
wake_task_Late(s, t) ==
  [Clear(Deliver(s, t, HARDWARE, HardInt), t, "RECEIVING")
     EXCEPT !.int_blocked = @ \ {t},
            !.rdy["TASK_Q"] = Append(@, t)]

\* The delivery in interrupt(), with its own copy of ready().
wake_task(s, t) ==
  [Clear(Deliver(s, t, HARDWARE, HardInt), t, "RECEIVING")
     EXCEPT !.int_blocked = @ \ {t},
            !.rdy["TASK_Q"] = Append(@, t),
            !.cur = IF s.rdy["TASK_Q"] = << >> THEN t ELSE @]

\* An interrupt for task t: held while the kernel is busy, else recorded
\* unless the task waits for it, else delivered.
interrupt(s, t) ==
  IF s.kernel \/ s.switching THEN hold(s, t)
  ELSE IF Awaits(s, t, HARDWARE) THEN wake_task(s, t)
  ELSE [s EXCEPT !.int_blocked = @ \cup {t}]

\* One round of unhold(): the first held interrupt is played again.
unhold(s) ==
  LET t == Head(s.held)
  IN  [interrupt([s EXCEPT !.held = Tail(@), !.kernel = FALSE], t)
         EXCEPT !.kernel = TRUE]

-----------------------------------------------------------------------------
(* The system task's calls.                                                *)

\* Signal a process: it stops until MM has dealt with all its signals.
cause_sig(s, p) ==
  LET n == [s EXCEPT !.pending[p] = TRUE, !.pendcount[p] = @ + 1]
      b == [Block(n, p, {"PENDING", "SIG_PENDING"}) EXCEPT !.sig_procs = @ + 1]
  IN  IF s.pending[p] THEN s
      ELSE IF "PENDING" \in s.flags[p] THEN n
      ELSE IF "RECEIVING" \in b.flags[MM] /\ b.getfrom[MM] = ANY
             THEN inform(b) ELSE b

\* Mutant: the process is freed by the first signal that is dealt with.
do_endsig_First(s, p) ==
  LET t == [s EXCEPT !.pendcount[p] = @ - 1]
  IN  IF s.pendcount[p] = 0 THEN s ELSE Unblock(t, p, "SIG_PENDING")

\* MM is done with one signal of p.
do_endsig(s, p) ==
  LET t == [s EXCEPT !.pendcount[p] = @ - 1]
  IN  IF s.pendcount[p] = 0 THEN s
      ELSE IF t.pendcount[p] = 0 THEN Unblock(t, p, "SIG_PENDING") ELSE t

\* The child is a copy of its parent that cannot run yet.
do_fork(s, p, c) ==
  [s EXCEPT !.flags[c] = (s.flags[p] \cup {"NO_MAP"}) \ {"PENDING", "SIG_PENDING"},
            !.sendto[c] = s.sendto[p], !.getfrom[c] = s.getfrom[p],
            !.in[c] = s.in[p], !.out[c] = s.out[p],
            !.callerq[c] = s.callerq[p],
            !.pending[c] = FALSE, !.pendcount[c] = 0]

\* The child has its memory.
do_newmap(s, c) ==
  IF s.flags[c] = {} THEN s ELSE Unblock(s, c, "NO_MAP")

\* The process starts a new program; MM does not reply to the call.
do_exec(s, p) == Unblock(s, p, "RECEIVING")

\* The process is gone: off its ready queue, off every queue of senders.
do_xit(s, p) ==
  LET t == IF s.flags[p] = {} THEN unready(s, p) ELSE s
      u == IF "SENDING" \notin s.flags[p] THEN t
           ELSE [t EXCEPT !.callerq = [q \in DOMAIN @ |->
                                        SelectSeq(@[q], LAMBDA x: x # p)]]
  IN  [u EXCEPT !.sig_procs = IF "PENDING" \in s.flags[p] THEN @ - 1 ELSE @,
                !.pending[p] = FALSE, !.pendcount[p] = 0,
                !.flags[p] = {"SLOT_FREE"},
                !.sendto[p] = NONE, !.getfrom[p] = NONE,
                !.out[p] = NoOut, !.in[p] = NoMess]

-----------------------------------------------------------------------------
\* The tasks, the servers and the users of `live` exist; those of `waiting`
\* already wait for their first message, the others are ready.
KernelInit(live, tasks, waiting) ==
  LET all == Procs \cup {HARDWARE}
  IN  pick_proc(
  [ flags     |-> [p \in all |->
                    IF p \in waiting THEN {"RECEIVING"}
                    ELSE IF p \in live \cup ToSet(tasks) \cup Servers \cup {HARDWARE}
                      THEN {} ELSE {"SLOT_FREE"}],
    sendto    |-> [p \in all |-> NONE],
    getfrom   |-> [p \in all |-> IF p \in waiting THEN ANY ELSE NONE],
    out       |-> [p \in all |-> NoOut],
    in        |-> [p \in all |-> NoMess],
    callerq   |-> [p \in all |-> << >>],
    rdy       |-> [q \in {"TASK_Q", "SERVER_Q", "USER_Q"} |->
                    SelectSeq(CASE q = "TASK_Q"   -> tasks
                                [] q = "SERVER_Q" -> <<MM, FS>>
                                [] q = "USER_Q"   -> SelectSeq(Users, LAMBDA u: u \in live),
                              LAMBDA p: p \notin waiting)],
    cur       |-> IDLE,
    bill      |-> IDLE,
    prev      |-> IDLE,
    int_blocked |-> {},
    held      |-> << >>,
    kernel    |-> FALSE,
    switching |-> FALSE,
    pending   |-> [p \in UserSet |-> FALSE],
    pendcount |-> [p \in UserSet |-> 0],
    sig_procs |-> 0 ])
=============================================================================
