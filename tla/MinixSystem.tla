---------------------------- MODULE MinixSystem ----------------------------
(***************************************************************************)
(* MINIX as MINIX4RT runs it under its real-time kernel: the memory        *)
(* manager (mm/), the file system (fs/), the terminal, disk and system     *)
(* tasks and the user processes, each a sequential program over the        *)
(* rendezvous of MinixKernel, with interrupts at any instruction.          *)
(*                                                                         *)
(* A process takes a step only when the kernel runs it (k.cur) and the     *)
(* kernel is left (~k.kernel).  A system call enters the kernel; until     *)
(* restart() leaves it again, interrupts are held.  `conf` selects the     *)
(* programs, or "free": processes that make any call at any time.          *)
(***************************************************************************)
EXTENDS MinixKernel

CONSTANTS
  TTY, DISK, SYSTASK,  \* the tasks the servers call
  CLOCK,               \* the task of the free processes
  Confs,               \* the configurations to explore: the mode, who exists, who
                       \* already waits, how many calls there are in the free
                       \* mode, how many keys, faults and signals
  MaxForks             \* forks in a behaviour

VARIABLES
  k,      \* the kernel
  mm,     \* the memory manager
  fs,     \* the file system
  tty,    \* the terminal task and its input
  disk,   \* the disk task and its controller
  sys,    \* the system task
  env,    \* what the environment may still do
  conf    \* the configuration; fixed

vars == <<k, mm, fs, tty, disk, sys, env, conf>>

INIT_PROC == Head(Users)

-----------------------------------------------------------------------------
(* System calls.                                                           *)

Call(fn, to, type, arg) == [fn |-> fn, to |-> to, type |-> type, arg |-> arg]

\* The kernel after process p has trapped into it.
Trap(s, p, c) ==
  [sys_call(s, p, c.fn, c.to, [type |-> c.type, arg |-> c.arg])
     EXCEPT !.kernel = TRUE]

Refused(s, p, c) == call_result(s, p, c.fn, c.to)

\* Process p has the processor.
Runs(p) == k.cur = p /\ ~k.kernel

-----------------------------------------------------------------------------
(* Interrupts and the way out of the kernel.                               *)

\* A handler calls interrupt(t).
Interrupted(t) == [interrupt(k, t) EXCEPT !.kernel = TRUE]

\* Leave the kernel, after the held interrupts unless a task is switching.
Restart ==
  /\ k.kernel
  /\ k' = IF k.held = << >> \/ k.switching THEN [k EXCEPT !.kernel = FALSE]
          ELSE unhold(k)
  /\ UNCHANGED <<mm, fs, tty, disk, sys, env, conf>>

\* The disk is done.
DiskInterrupt ==
  /\ conf.mode = "system" /\ disk.busy
  /\ disk' = [disk EXCEPT !.busy = FALSE]
  /\ k' = Interrupted(DISK)
  /\ UNCHANGED <<mm, fs, tty, sys, env, conf>>

\* A key is typed: it waits for the clock to wake the terminal task.
KeyInterrupt(c) ==
  /\ conf.mode = "system" /\ env.events > 0
  /\ env' = [env EXCEPT !.events = @ - 1]
  /\ tty' = [tty EXCEPT !.keys = Append(@, c), !.events = TRUE, !.timeout = TRUE]
  /\ UNCHANGED <<k, mm, fs, disk, sys, conf>>

\* The clock handler finds that the terminal task is due.
TtyWakeup ==
  /\ conf.mode = "system" /\ tty.timeout
  /\ tty' = [tty EXCEPT !.timeout = FALSE]
  /\ k' = Interrupted(TTY)
  /\ UNCHANGED <<mm, fs, disk, sys, env, conf>>

-----------------------------------------------------------------------------
(* User processes.                                                         *)

\* INIT forks and waits; only its children exit.
UserCalls(u) ==
  { Call("BOTH", MM, t, NONE) : t \in {"PAUSE", "EXEC"}
      \cup (IF u = INIT_PROC THEN {"WAIT"} ELSE {"EXIT"})
      \cup (IF u = INIT_PROC /\ env.forks > 0 THEN {"FORK"} ELSE {}) }
    \cup { Call("BOTH", MM, "KILL", v) : v \in UserSet }
    \cup { Call("BOTH", FS, t, NONE) : t \in {"READ_FILE", "READ_TTY"} }

UserCall(u) ==
  /\ conf.mode = "system" /\ Runs(u)
  /\ \E c \in UserCalls(u) :
       /\ k' = Trap(k, u, c)
       /\ env' = [env EXCEPT !.forks = IF c.type = "FORK" THEN @ - 1 ELSE @]
  /\ UNCHANGED <<mm, fs, tty, disk, sys, conf>>

\* The program of a user faults: the kernel signals it.
Exception(u) ==
  /\ conf.mode = "system" /\ Runs(u) /\ env.events > 0
  /\ env' = [env EXCEPT !.events = @ - 1]
  /\ k' = [cause_sig(k, u) EXCEPT !.kernel = TRUE]
  /\ UNCHANGED <<mm, fs, tty, disk, sys, conf>>

-----------------------------------------------------------------------------
(* The memory manager: it receives a request, and `todo` holds the calls   *)
(* that its handler still has to make.                                     *)

SysCall(type, u) == Call("BOTH", SYSTASK, type, u)
TellFS(type, u) == Call("BOTH", FS, type, u)
MMReply(u) == Call("SEND", u, "REPLY", NONE)

\* End the process: FS and the system task are told, and the parent if it
\* waits; else the slot hangs until it does.  The parent is INIT.
mm_exit(m, u) ==
  LET told == m.todo \o <<TellFS("EXIT", u), SysCall("XIT", u)>>
  IN  IF m.mp[INIT_PROC] = "WAITING"
        THEN [m EXCEPT !.todo = told \o <<MMReply(INIT_PROC)>>,
                       !.mp[u] = "FREE", !.mp[INIT_PROC] = "RUNS"]
        ELSE [m EXCEPT !.todo = told, !.mp[u] = "HANGING"]

\* Break off the call that a signalled process hangs in.
unpause(m, u) ==
  IF m.mp[u] \in {"PAUSED", "WAITING"}
    THEN [m EXCEPT !.mp[u] = "RUNS", !.todo = Append(@, MMReply(u))]
    ELSE [m EXCEPT !.todo = Append(@, TellFS("UNPAUSE", u))]

\* Deliver a signal: `how` is "IGNORE", "CATCH" or "KILL" (the process's
\* sigaction).
sig_proc(m, u, how) ==
  CASE how = "IGNORE" -> m
    [] how = "CATCH"  -> unpause(m, u)
    [] how = "KILL"   -> mm_exit(m, u)

\* Signal every process of `us` in table order.
RECURSIVE SigAll(_, _, _)
SigAll(m, us, how) ==
  IF us = << >> THEN m
  ELSE SigAll(IF m.mp[Head(us)] \in {"FREE", "HANGING"} THEN m
              ELSE sig_proc(m, Head(us), how[Head(us)]),
              Tail(us), how)

\* The first free slot for a child.
FreeSlots(m) == { i \in DOMAIN Users : m.mp[Users[i]] = "FREE" }
ChildSlot(m) == Users[CHOOSE i \in FreeSlots(m) : \A j \in FreeSlots(m) : i <= j]

do_fork_mm(m, u) ==
  LET c == ChildSlot(m)
  IN  IF FreeSlots(m) = {} THEN [m EXCEPT !.todo = <<MMReply(u)>>]
      ELSE [m EXCEPT !.mp[c] = "RUNS",
                     !.todo = <<Call("BOTH", SYSTASK, "FORK", <<u, c>>),
                                TellFS("FORK", <<u, c>>), SysCall("NEWMAP", c),
                                MMReply(c), MMReply(u)>>]

Hanging(m) == { i \in DOMAIN Users : m.mp[Users[i]] = "HANGING" }

\* Collect a dead child, wait for one, or report that there is none.
do_waitpid(m, u) ==
  LET h == Users[CHOOSE i \in Hanging(m) : \A j \in Hanging(m) : i <= j]
      kids == { c \in UserSet \ {INIT_PROC} : m.mp[c] # "FREE" }
  IN  IF u = INIT_PROC /\ Hanging(m) # {}
        THEN [m EXCEPT !.mp[h] = "FREE", !.todo = <<MMReply(u)>>]
      ELSE IF u = INIT_PROC /\ kids # {}
        THEN [m EXCEPT !.mp[u] = "WAITING"]
        ELSE [m EXCEPT !.todo = <<MMReply(u)>>]

\* Signal one process for a kill(), then reply to a caller that still lives.
do_kill_mm(m, u, v, how) ==
  LET n == SigAll(m, <<v>>, how)
  IN  IF n.mp[u] \in {"FREE", "HANGING"} THEN n
      ELSE [n EXCEPT !.todo = Append(@, MMReply(u))]

\* A signal that began in the kernel.  The terminal's goes to the whole
\* group; the kernel is told when it is dealt with.
do_ksig(m, u, group, how) ==
  LET n == SigAll(m, IF group THEN Users ELSE <<u>>, how)
  IN  IF m.mp[u] \in {"FREE", "HANGING"} THEN m
      ELSE [n EXCEPT !.todo = Append(@, SysCall("ENDSIG", u))]

\* INIT catches its signals.
Dispositions ==
  { h \in [UserSet -> {"IGNORE", "CATCH", "KILL"}] : h[INIT_PROC] = "CATCH" }

\* Handle the message that has come in.
MMWork ==
  /\ conf.mode = "system" /\ Runs(MM) /\ mm.at = "work"
  /\ LET x == k.in[MM]
         m == [mm EXCEPT !.at = "do"]
     IN  CASE x.type = "KSIG" -> \E h \in Dispositions, g \in BOOLEAN :
                                   mm' = do_ksig(m, x.arg, g, h)
           [] x.type = "KILL" -> \E h \in Dispositions :
                                   mm' = do_kill_mm(m, x.src, x.arg, h)
           [] x.type = "EXIT" -> mm' = mm_exit(m, x.src)
           [] x.type = "FORK" -> mm' = do_fork_mm(m, x.src)
           [] x.type = "WAIT" -> mm' = do_waitpid(m, x.src)
           [] x.type = "PAUSE" -> mm' = [m EXCEPT !.mp[x.src] = "PAUSED"]
           [] x.type = "EXEC" -> mm' = [m EXCEPT !.todo = <<TellFS("EXEC", x.src),
                                                      SysCall("EXEC", x.src)>>]
  /\ UNCHANGED <<k, fs, tty, disk, sys, env, conf>>

\* Make the next call of the handler, or wait for the next request.
MMCall ==
  /\ conf.mode = "system" /\ Runs(MM) /\ mm.at = "do"
  /\ LET c == IF mm.todo = << >> THEN Call("RECEIVE", ANY, NONE, NONE)
              ELSE Head(mm.todo)
     IN  /\ k' = Trap(k, MM, c)
         /\ mm' = IF mm.todo = << >> THEN [mm EXCEPT !.at = "work"]
                  ELSE IF Refused(k, MM, c) = "OK" THEN [mm EXCEPT !.todo = Tail(@)]
                  ELSE [mm EXCEPT !.at = "panic"]
  /\ UNCHANGED <<fs, tty, disk, sys, env, conf>>

-----------------------------------------------------------------------------
(* The file system.  `todo` holds the replies to make before it goes on;   *)
(* `job` is the request in hand.                                           *)

FSReply(p) == Call("SEND", p, "REPLY", NONE)
NoJob == [who |-> NONE, task |-> NONE, op |-> NONE, proc |-> NONE]

\* Release a process that hangs on a device; nothing if it does not hang.
revive(f, u) ==
  IF ~f.suspended[u] THEN f
  ELSE [f EXCEPT !.suspended[u] = FALSE, !.todo = Append(@, FSReply(u))]

\* The request is done: say so to the process that made it.
Done(f) == [f EXCEPT !.at = "do", !.todo = Append(@, FSReply(f.job.who)),
                     !.job = NoJob]

\* Mutant: the process that was interrupted stays marked as hanging.
do_unpause_end_Marked(f) ==
  Done([f EXCEPT !.todo = Append(@, FSReply(f.job.proc))])

\* The end of do_unpause(): the call ends with EINTR, MM gets its reply.
do_unpause_end(f) ==
  Done([f EXCEPT !.suspended[f.job.proc] = FALSE,
                 !.todo = Append(@, FSReply(f.job.proc))])

\* A call of a device task has come back with message x.
DeviceDone(f, x) ==
  CASE f.job.op = "CANCEL" -> do_unpause_end(f)
    [] f.job.op = "DEV_READ" /\ x.type = "SUSPEND"
                           -> [f EXCEPT !.suspended[f.job.proc] = TRUE,
                                        !.at = "do", !.job = NoJob]
    [] OTHER               -> Done(f)

\* Handle a request: of a user, of MM, or a REVIVE of the terminal task.
FSHandle(f, x) ==
  LET g == [f EXCEPT !.job = [NoJob EXCEPT !.who = x.src]]
      Device(t, op, u) == [f EXCEPT !.at = "call",
                             !.job = [who |-> x.src, task |-> t, op |-> op,
                                      proc |-> u]]
  IN  CASE x.type = "READ_FILE" -> Device(DISK, "DEV_READ", x.src)
        [] x.type = "READ_TTY"  -> Device(TTY, "DEV_READ", x.src)
        [] x.type = "REVIVE"    -> [revive(f, x.arg) EXCEPT !.at = "do"]
        [] x.type \in {"UNPAUSE", "EXIT"} ->
             IF f.suspended[x.arg] THEN Device(TTY, "CANCEL", x.arg) ELSE Done(g)
        [] x.type = "FORK" ->
             Done([g EXCEPT !.suspended[x.arg[2]] = f.suspended[x.arg[1]]])
        [] x.type = "EXEC" -> Done(g)

FSWork ==
  /\ conf.mode = "system" /\ Runs(FS) /\ fs.at = "work"
  /\ fs' = FSHandle(fs, k.in[FS])
  /\ UNCHANGED <<k, mm, tty, disk, sys, env, conf>>

\* A reply is sent and never checked; with none left the next request is
\* awaited.
FSReplies ==
  /\ conf.mode = "system" /\ Runs(FS) /\ fs.todo # << >>
  /\ k' = Trap(k, FS, Head(fs.todo))
  /\ fs' = [fs EXCEPT !.todo = Tail(@)]
  /\ UNCHANGED <<mm, tty, disk, sys, env, conf>>

FSGetWork ==
  /\ conf.mode = "system" /\ Runs(FS) /\ fs.at = "do" /\ fs.todo = << >>
  /\ k' = Trap(k, FS, Call("RECEIVE", ANY, NONE, NONE))
  /\ fs' = [fs EXCEPT !.at = "work"]
  /\ UNCHANGED <<mm, tty, disk, sys, env, conf>>

\* call_task(): ask the task; ELOCKED means that it is sending a REVIVE.
FSCallTask ==
  /\ conf.mode = "system" /\ Runs(FS) /\ fs.at = "call" /\ fs.todo = << >>
  /\ LET c == Call("BOTH", fs.job.task, fs.job.op, fs.job.proc)
     IN  /\ k' = Trap(k, FS, c)
         /\ fs' = [fs EXCEPT !.at = CASE Refused(k, FS, c) = "OK" -> "answer"
                                      [] Refused(k, FS, c) = "ELOCKED" -> "locked"
                                      [] OTHER -> "panic"]
  /\ UNCHANGED <<mm, tty, disk, sys, env, conf>>

\* Take the message that the task is trying to send, or wait for its answer.
FSFromTask ==
  /\ conf.mode = "system" /\ Runs(FS) /\ fs.at \in {"locked", "again"} /\ fs.todo = << >>
  /\ k' = Trap(k, FS, Call("RECEIVE", fs.job.task, NONE, NONE))
  /\ fs' = [fs EXCEPT !.at = IF fs.at = "locked" THEN "unlocked" ELSE "answer"]
  /\ UNCHANGED <<mm, tty, disk, sys, env, conf>>

\* Mutant: the reply that crossed the cancel is not looked for.
Unlocked_Any(f, x) ==
  IF x.type = "REVIVE" THEN [revive(f, x.arg) EXCEPT !.at = "call"]
  ELSE [f EXCEPT !.at = "call"]

\* The message taken from a task that was sending: the end of the call that
\* is being cancelled, or a REVIVE of another; then the task is called again.
Unlocked(f, x) ==
  IF f.job.op = "CANCEL" /\ x.arg = f.job.proc THEN DeviceDone(f, x)
  ELSE IF x.type = "REVIVE" THEN [revive(f, x.arg) EXCEPT !.at = "call"]
  ELSE [f EXCEPT !.at = "call"]

FSUnlocked ==
  /\ conf.mode = "system" /\ Runs(FS) /\ fs.at = "unlocked"
  /\ fs' = Unlocked(fs, k.in[FS])
  /\ UNCHANGED <<k, mm, tty, disk, sys, env, conf>>

\* The answer of the task, or a REVIVE that came before it.  Anything else
\* is looked at for ever.
FSAnswer ==
  /\ conf.mode = "system" /\ Runs(FS) /\ fs.at = "answer"
  /\ LET x == k.in[FS]
     IN  fs' = IF x.arg = fs.job.proc THEN DeviceDone(fs, x)
               ELSE IF x.type = "REVIVE" THEN [revive(fs, x.arg) EXCEPT !.at = "again"]
               ELSE [fs EXCEPT !.at = "spins"]
  /\ UNCHANGED <<k, mm, tty, disk, sys, env, conf>>

-----------------------------------------------------------------------------
(* The terminal task, with one line.                                       *)

TtyTrap(c) ==
  /\ k' = Trap(k, TTY, c)
  /\ UNCHANGED <<mm, fs, disk, sys, env, conf>>

\* The check for events, and then the wait for a request or for the wakeup of
\* an interrupt: a key may be typed between the two.
TtyCheck ==
  /\ conf.mode = "system" /\ Runs(TTY) /\ tty.at = "loop" /\ ~tty.events
  /\ tty' = [tty EXCEPT !.at = "recv"]
  /\ UNCHANGED <<k, mm, fs, disk, sys, env, conf>>

TtyReceive ==
  /\ conf.mode = "system" /\ Runs(TTY) /\ tty.at = "recv"
  /\ TtyTrap(Call("RECEIVE", ANY, NONE, NONE))
  /\ tty' = [tty EXCEPT !.at = "work"]

TtyReply(t, type, u) ==
  /\ TtyTrap(Call("SEND", FS, type, u))
  /\ tty' = IF Refused(k, TTY, Call("SEND", FS, type, u)) = "OK" THEN t
            ELSE [t EXCEPT !.at = "panic"]

\* A read starts unless another one hangs.  What there is is handed over at
\* once.
do_read_tty(u) ==
  CASE tty.reader # NONE -> TtyReply([tty EXCEPT !.at = "loop"], "REPLY", u)
    [] tty.reader = NONE /\ tty.lines > 0 ->
         TtyReply([tty EXCEPT !.lines = @ - 1, !.events = TRUE, !.at = "loop"], "REPLY", u)
    [] tty.reader = NONE /\ tty.lines = 0 ->
         /\ tty' = [tty EXCEPT !.reader = u, !.repcode = "REPLY", !.at = "read",
                               !.events = TRUE]
         /\ UNCHANGED <<k, mm, fs, disk, sys, env, conf>>

\* A cancel forgets the reader and drops the input.
do_cancel(u) ==
  TtyReply([tty EXCEPT !.lines = IF u = tty.reader THEN 0 ELSE @,
                       !.reader = IF u = @ THEN NONE ELSE @,
                       !.events = TRUE, !.at = "loop"],
           "REPLY", u)

TtyWork ==
  /\ conf.mode = "system" /\ Runs(TTY) /\ tty.at = "work"
  /\ LET x == k.in[TTY]
     IN  CASE x.type = "HARD_INT" ->
                /\ tty' = [tty EXCEPT !.at = "loop"]
                /\ UNCHANGED <<k, mm, fs, disk, sys, env, conf>>
           [] x.type = "DEV_READ" -> do_read_tty(x.arg)
           [] x.type = "CANCEL"   -> do_cancel(x.arg)

\* handle_events(): take a typed key.  The interrupt key signals the group
\* of the terminal and drops the input.
TtyKey ==
  /\ conf.mode = "system" /\ Runs(TTY) /\ tty.at \in {"loop", "read"} /\ tty.events
  /\ tty.keys # << >> /\ ~k.switching
  /\ IF Head(tty.keys) = "DEL"
       THEN k' = [k EXCEPT !.switching = TRUE] /\ UNCHANGED tty
       ELSE /\ tty' = [tty EXCEPT !.keys = Tail(@), !.lines = @ + 1]
            /\ UNCHANGED k
  /\ UNCHANGED <<mm, fs, disk, sys, env, conf>>

TtySigchar ==
  /\ conf.mode = "system" /\ Runs(TTY) /\ k.switching
  /\ k' = [cause_sig(k, INIT_PROC) EXCEPT !.switching = FALSE]
  /\ tty' = [tty EXCEPT !.keys = Tail(@), !.lines = 0]
  /\ UNCHANGED <<mm, fs, disk, sys, env, conf>>

\* The end of handle_events(): hand a line to the reader.
TtyTransfer ==
  /\ conf.mode = "system" /\ Runs(TTY) /\ tty.at \in {"loop", "read"} /\ tty.events
  /\ tty.keys = << >>
  /\ LET t == [tty EXCEPT !.events = FALSE]
         next == IF tty.at = "read" THEN "loop" ELSE "recv"
     IN  CASE tty.reader # NONE /\ tty.lines > 0 ->
                TtyReply([t EXCEPT !.lines = @ - 1, !.reader = NONE, !.at = next],
                         tty.repcode, tty.reader)
           [] tty.at = "read" /\ tty.lines = 0 ->
                TtyReply([t EXCEPT !.repcode = "REVIVE", !.at = "loop"],
                         "SUSPEND", tty.reader)
           [] OTHER -> /\ tty' = [t EXCEPT !.at = next]
                       /\ UNCHANGED <<k, mm, fs, disk, sys, env, conf>>

-----------------------------------------------------------------------------
(* The disk task and the system task.                                      *)

DiskReceive ==
  /\ conf.mode = "system" /\ Runs(DISK) /\ disk.at = "loop"
  /\ k' = Trap(k, DISK, Call("RECEIVE", ANY, NONE, NONE))
  /\ disk' = [disk EXCEPT !.at = "work"]
  /\ UNCHANGED <<mm, fs, tty, sys, env, conf>>

\* Start the transfer; a leftover interrupt is ignored.
DiskWork ==
  /\ conf.mode = "system" /\ Runs(DISK) /\ disk.at = "work"
  /\ disk' = IF k.in[DISK].type = "HARD_INT" THEN [disk EXCEPT !.at = "loop"]
             ELSE [disk EXCEPT !.at = "wait", !.busy = TRUE, !.proc = k.in[DISK].arg]
  /\ UNCHANGED <<k, mm, fs, tty, sys, env, conf>>

\* Look whether the controller is busy and, if so, wait for an interrupt:
\* the one it needs may come between the two.
DiskCheck ==
  /\ conf.mode = "system" /\ Runs(DISK) /\ disk.at = "wait"
  /\ disk' = [disk EXCEPT !.at = IF disk.busy THEN "sleep" ELSE "reply"]
  /\ UNCHANGED <<k, mm, fs, tty, sys, env, conf>>

DiskSleep ==
  /\ conf.mode = "system" /\ Runs(DISK) /\ disk.at = "sleep"
  /\ k' = Trap(k, DISK, Call("RECEIVE", HARDWARE, NONE, NONE))
  /\ disk' = [disk EXCEPT !.at = "wait"]
  /\ UNCHANGED <<mm, fs, tty, sys, env, conf>>

DiskReply ==
  /\ conf.mode = "system" /\ Runs(DISK) /\ disk.at = "reply"
  /\ k' = Trap(k, DISK, Call("SEND", FS, "REPLY", disk.proc))
  /\ disk' = [disk EXCEPT !.at = "loop", !.proc = NONE]
  /\ UNCHANGED <<mm, fs, tty, sys, env, conf>>

SysReceive ==
  /\ conf.mode = "system" /\ Runs(SYSTASK) /\ sys.at = "loop"
  /\ k' = Trap(k, SYSTASK, Call("RECEIVE", ANY, NONE, NONE))
  /\ sys' = [sys EXCEPT !.at = "work"]
  /\ UNCHANGED <<mm, fs, tty, disk, env, conf>>

\* The process-switching calls of the system task shut interrupts out.
SysLock ==
  /\ conf.mode = "system" /\ Runs(SYSTASK) /\ sys.at = "work"
  /\ k' = [k EXCEPT !.switching = TRUE]
  /\ sys' = [at |-> "op"]
  /\ UNCHANGED <<mm, fs, tty, disk, env, conf>>

SysOp ==
  /\ conf.mode = "system" /\ Runs(SYSTASK) /\ sys.at = "op"
  /\ LET x == k.in[SYSTASK]
         s == [k EXCEPT !.switching = FALSE]
     IN  k' = CASE x.type = "FORK"   -> do_fork(s, x.arg[1], x.arg[2])
                [] x.type = "NEWMAP" -> do_newmap(s, x.arg)
                [] x.type = "EXEC"   -> do_exec(s, x.arg)
                [] x.type = "XIT"    -> do_xit(s, x.arg)
                [] x.type = "ENDSIG" -> do_endsig(s, x.arg)
  /\ sys' = [at |-> "reply"]
  /\ UNCHANGED <<mm, fs, tty, disk, env, conf>>

SysReply ==
  /\ conf.mode = "system" /\ Runs(SYSTASK) /\ sys.at = "reply"
  /\ k' = Trap(k, SYSTASK, Call("SEND", k.in[SYSTASK].src, "REPLY", NONE))
  /\ sys' = [at |-> "loop"]
  /\ UNCHANGED <<mm, fs, tty, disk, env, conf>>

-----------------------------------------------------------------------------
(* Processes that make any call the kernel takes, in any order.            *)

FreeCall(p) ==
  /\ conf.mode = "free" /\ Runs(p) /\ ~k.switching /\ env.calls > 0
  /\ env' = [env EXCEPT !.calls = @ - 1]
  /\ \E fn \in {"SEND", "RECEIVE", "BOTH"}, q \in Procs \cup {ANY, HARDWARE} :
       /\ q # p
       /\ fn # "RECEIVE" => q \in Procs
       /\ q = HARDWARE => p \in Tasks
       /\ k' = Trap(k, p, Call(fn, q, "CALL", NONE))
  /\ UNCHANGED <<mm, fs, tty, disk, sys, conf>>

FreeInterrupt(t) ==
  /\ conf.mode = "free" /\ t \in ToSet(conf.tasks)
  /\ k' = Interrupted(t)
  /\ UNCHANGED <<mm, fs, tty, disk, sys, env, conf>>

\* A task begins and ends a process-switching call: the end of a quantum, a
\* signal, or the end of one that MM has been told of.
FreeLock(t) ==
  /\ conf.mode = "free" /\ Runs(t) /\ ~k.switching
  /\ k' = [k EXCEPT !.switching = TRUE]
  /\ UNCHANGED <<mm, fs, tty, disk, sys, env, conf>>

FreeOp(t) ==
  /\ conf.mode = "free" /\ Runs(t) /\ k.switching
  /\ LET s == [k EXCEPT !.switching = FALSE]
     IN  \/ k' = end_quantum(s) /\ UNCHANGED env
         \/ \E u \in conf.users :
              /\ env.events > 0 /\ env' = [env EXCEPT !.events = @ - 1]
              /\ k' = cause_sig(s, u)
         \/ \E u \in conf.users :
              /\ k.pendcount[u] > (IF k.pending[u] THEN 1 ELSE 0)
              /\ k' = do_endsig(s, u) /\ UNCHANGED env
  /\ UNCHANGED <<mm, fs, tty, disk, sys, conf>>

-----------------------------------------------------------------------------
Init ==
  /\ conf \in Confs
  /\ k = KernelInit(conf.users, conf.tasks, conf.waiting)
  /\ mm = [at |-> IF MM \in conf.waiting THEN "work" ELSE "do", todo |-> << >>,
           mp |-> [u \in UserSet |-> IF u \in conf.users THEN "RUNS" ELSE "FREE"]]
  /\ fs = [at |-> IF FS \in conf.waiting THEN "work" ELSE "do", todo |-> << >>, job |-> NoJob,
           suspended |-> [u \in UserSet |-> FALSE]]
  /\ tty = [at |-> IF TTY \in conf.waiting THEN "work" ELSE "loop", reader |-> NONE, repcode |-> "REPLY", lines |-> 0,
            keys |-> << >>, events |-> FALSE, timeout |-> FALSE]
  /\ disk = [at |-> IF DISK \in conf.waiting THEN "work" ELSE "loop", busy |-> FALSE, proc |-> NONE]
  /\ sys = [at |-> IF SYSTASK \in conf.waiting THEN "work" ELSE "loop"]
  /\ env = [events |-> conf.events, forks |-> MaxForks, calls |-> conf.calls]

\* A step of the process that has the processor, users aside.
ServerStep ==
  \/ MMWork \/ MMCall
  \/ FSWork \/ FSReplies \/ FSGetWork \/ FSCallTask \/ FSFromTask
  \/ FSUnlocked \/ FSAnswer
  \/ TtyCheck \/ TtyReceive \/ TtyWork \/ TtyKey \/ TtySigchar \/ TtyTransfer
  \/ DiskReceive \/ DiskWork \/ DiskCheck \/ DiskSleep \/ DiskReply
  \/ SysReceive \/ SysLock \/ SysOp \/ SysReply

Next ==
  \/ Restart \/ DiskInterrupt \/ TtyWakeup
  \/ \E c \in {"LINE", "DEL"} : KeyInterrupt(c)
  \/ \E u \in UserSet : UserCall(u) \/ Exception(u)
  \/ ServerStep
  \/ \E p \in Procs : FreeCall(p)
  \/ \E t \in Tasks : FreeInterrupt(t) \/ FreeLock(t) \/ FreeOp(t)

\* The processor goes on executing the kernel, the tasks and the servers, the
\* disk finishes what it was asked to do, and the clock keeps ticking.
Fairness ==
  /\ WF_vars(Restart) /\ WF_vars(ServerStep)
  /\ WF_vars(DiskInterrupt) /\ WF_vars(TtyWakeup)

Spec == Init /\ [][Next]_vars
FairSpec == Spec /\ Fairness

-----------------------------------------------------------------------------
(* Properties.                                                             *)

TypeOK ==
  /\ k.flags \in [Procs \cup {HARDWARE} -> SUBSET Flags]
  /\ k.cur \in Procs \cup {IDLE}
  /\ k.int_blocked \subseteq Tasks
  /\ k.sig_procs \in 0 .. Len(Users)
  /\ k.held \in Seq(Tasks) /\ IsInjective(k.held)
  /\ \A u \in UserSet : k.pendcount[u] \in Nat

\* A process is on its own ready queue, once, exactly when nothing blocks it
\* (p_flags == 0 in proc.c): across sends, receives, interrupts, signals,
\* forks, execs and exits.
ReadyExact ==
  /\ \A q \in DOMAIN k.rdy : IsInjective(k.rdy[q])
  /\ \A p \in Procs, q \in DOMAIN k.rdy :
       (p \in ToSet(k.rdy[q])) <=> (k.flags[p] = {} /\ q = QueueOf(p))

\* The senders' queue of a process holds, once each, exactly the processes
\* that are blocked sending to it (p_callerq, p_sendlink).
CallersExact ==
  \A p \in Procs :
    /\ IsInjective(k.callerq[p])
    /\ ToSet(k.callerq[p]) =
         { q \in Procs : "SENDING" \in k.flags[q] /\ k.sendto[q] = p }

\* No ring of processes that wait for each other to receive: the check in
\* mini_send() must see through every chain of senders.
NoSendRing ==
  \A p \in Procs :
    "SENDING" \in k.flags[p] => p \notin SendChain(k, k.sendto[p])
                               /\ k.sendto[p] # p

\* Nobody waits for a message that is there: neither of a queued sender nor
\* of a recorded interrupt (mini_send, mini_rec and interrupt race for it).
NoMissedMessage ==
  \A p \in Procs :
    /\ \A q \in ToSet(k.callerq[p]) : ~Awaits(k, p, q)
    /\ p \in k.int_blocked => ~Awaits(k, p, HARDWARE)

\* The processor runs the first process of the most urgent nonempty queue,
\* whatever the interrupted or interrupting code did to the queues.
MostUrgentRuns == ~k.kernel => k.cur = pick_proc(k).cur

\* The kernel's own message to MM never has to wait (inform() panics).
HardwareNeverWaits == k.flags[HARDWARE] = {}

\* A process is stopped by SIG_PENDING exactly while some of its signals are
\* not dealt with, and MM never waits for work while the kernel has a signal
\* for it (cause_sig, inform, do_endsig, do_xit).
SignalsCounted ==
  /\ k.sig_procs = Cardinality({ p \in UserSet : "PENDING" \in k.flags[p] })
  /\ \A u \in UserSet : /\ (k.pendcount[u] > 0) <=> ("SIG_PENDING" \in k.flags[u])
                        /\ k.pending[u] <=> ("PENDING" \in k.flags[u])
  /\ k.sig_procs > 0 => ~Awaits(k, MM, HARDWARE)

\* A server never blocks on a user: every reply finds the process waiting for
\* it, or gone.  (A second reply to one call would stop the whole system.)
ServersNeverWaitForUsers ==
  conf.mode = "system" =>
    \A p \in Servers : "SENDING" \in k.flags[p] => k.sendto[p] \notin UserSet

\* No send that its caller takes for granted is refused: MM's replies and
\* calls, the terminal task's replies, the calls of device tasks by FS.
NoPanic ==
  /\ mm.at # "panic" /\ tty.at # "panic" /\ fs.at \notin {"panic", "spins"}

\* The ready queues are exact and the most urgent process runs, whatever the
\* kernel did between two processes: sends, receives, held interrupts,
\* signals, forks, execs and exits (ready, unready, pick_proc).
Scheduled == TypeOK /\ ReadyExact /\ MostUrgentRuns

\* No message is lost or overlooked: the queues of senders are exact and
\* nobody waits for a message or an interrupt that is there (mini_send,
\* mini_rec, interrupt, do_xit).
MessagesKept == CallersExact /\ NoMissedMessage

\* Nobody sends in vain: no ring of senders, no message of the kernel that
\* has to wait, no server that waits for a user, and no send refused that its
\* caller takes for granted (mini_send, inform, reply in MM and FS).
NoHopelessSend ==
  NoSendRing /\ HardwareNeverWaits /\ ServersNeverWaitForUsers /\ NoPanic

\* A process hung on the terminal is waiting for FS, and somebody will
\* release it: the terminal task still has the read, its REVIVE is on the
\* way, or FS is breaking it off.
HungIsKnown ==
  \A u \in UserSet :
    fs.suspended[u] =>
      /\ "RECEIVING" \in k.flags[u] /\ k.getfrom[u] = FS
      /\ \/ tty.reader = u
         \/ k.out[TTY] = [type |-> "REVIVE", arg |-> u]
         \/ k.in[FS] = [src |-> TTY, type |-> "REVIVE", arg |-> u]
         \/ fs.job.op = "CANCEL" /\ fs.job.proc = u

\* A process that is stopped for a signal goes on or is ended.
SignalIsDone ==
  \A u \in UserSet :
    (conf.mode = "system" /\ "SIG_PENDING" \in k.flags[u])
      ~> ("SIG_PENDING" \notin k.flags[u])

\* A call of FS ends or is hung on the terminal: no answer, interrupt or
\* reply is lost on the way, whatever the other processes do meanwhile.
WaitsFor(u, p) ==
  \/ "SENDING" \in k.flags[u] /\ k.sendto[u] = p
  \/ "RECEIVING" \in k.flags[u] /\ k.getfrom[u] = p

CallIsServed ==
  \A u \in UserSet :
    (conf.mode = "system" /\ WaitsFor(u, FS) /\ ~fs.suspended[u])
      ~> (~WaitsFor(u, FS) \/ fs.suspended[u])
=============================================================================
