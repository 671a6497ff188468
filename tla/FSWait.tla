------------------------------- MODULE FSWait -------------------------------
(***************************************************************************)
(* The calls of the file system that make a process wait for another one:  *)
(* reads and writes of a pipe (fs/pipe.c, fs/read.c) and record locks      *)
(* (fs/lock.c), with close and exit, the interruption of a waiting call    *)
(* and the restart of revived ones (fs/main.c).                            *)
(*                                                                         *)
(* FS handles one request at a time, so a step is a whole request.  A      *)
(* process that has to wait is suspended; what it waits for marks it as    *)
(* reviving, and get_work() then runs its call again before it takes a new *)
(* request.  There is one pipe and one file with locks.                    *)
(***************************************************************************)
EXTENDS Integers, Sequences, FiniteSets

CONSTANTS
  PIPE_SIZE,    \* bytes of a pipe
  NR_LOCKS,     \* slots of the lock table
  MAX_FILE_POS, \* the last byte that can be locked
  Slots,        \* the processes, in the order of fproc[]
  MaxBytes,     \* the largest read or write
  Confs         \* who has which end, which calls are made, O_NONBLOCK, signals

VARIABLES
  f,      \* the state of FS
  last,   \* the last count answered to a read or write, less what it moved
  conf    \* the configuration; fixed

vars == <<f, last, conf>>

Procs == { Slots[i] : i \in DOMAIN Slots }

\* A process has one slot; a pipe holds something.
ASSUME FSAssumption ==
  /\ PIPE_SIZE \in Nat \ {0} /\ {NR_LOCKS, MAX_FILE_POS, MaxBytes, Len(Slots)} \subseteq Nat
  /\ DOMAIN Slots = 1 .. Len(Slots)
  /\ \A i, j \in DOMAIN Slots : Slots[i] = Slots[j] => i = j
  /\ \A c \in Confs : /\ c.rd \subseteq Procs /\ c.wr \subseteq Procs /\ c.file \subseteq Procs
                       /\ c.signals \in Nat

NoCall == [op |-> "NONE"]
NoLock == [type |-> "NONE"]

\* Answers; a count of bytes is one too.
OK == 0
EAGAIN == -11
EPIPE == -32
ENOLCK == -37
WAIT == -998

\* The order of the table.
Slot(p) == CHOOSE i \in DOMAIN Slots : Slots[i] = p
Before(p, q) == Slot(p) < Slot(q)
FirstSlot(ps) == CHOOSE p \in ps : \A q \in ps \ {p} : Before(p, q)

-----------------------------------------------------------------------------
(* Suspending and reviving.                                                *)

\* The processes that hang in a call of one of `ops` and are not being revived.
Hang(s, ops) == { p \in Procs : s.call[p].op \in ops } \ s.revived

PipeOps == {"READ", "WRITE"}

\* Leave the call for later.
suspend(s, p, c) ==
  [s EXCEPT !.call[p] = c,
            !.susp_count = IF c.op \in PipeOps THEN @ + 1 ELSE @]

\* Mutant: one is counted, however many are marked.
revive_One(s, ps) ==
  [s EXCEPT !.revived = @ \cup ps, !.reviving = IF ps = {} THEN @ ELSE @ + 1]

\* Mark the processes `ps`, which hang on the pipe or on a lock.
revive(s, ps) ==
  [s EXCEPT !.revived = @ \cup ps, !.reviving = @ + Cardinality(ps)]

\* The first n processes of `ps`; all of them if n is 0.
FirstSlots(ps, n) ==
  { p \in ps : n = 0 \/ Cardinality({ q \in ps : Before(q, p) }) < n }

\* Release at most `count` processes that hang on the pipe in a call `op`.
release(s, op, count) ==
  LET ps == FirstSlots(Hang(s, {op}), count)
  IN  [revive(s, ps) EXCEPT !.susp_count = @ - Cardinality(ps)]

\* Everybody who waits for a lock tries again.
lock_revive(s) == [revive(s, Hang(s, {"SETLKW"})) EXCEPT !.refused = FALSE]

-----------------------------------------------------------------------------
(* Pipes.  An operator returns the new state and the answer to a call that *)
(* is over (WAIT if it is not).                                          *)

Min2(a, b) == IF a < b THEN a ELSE b
Answer(s, ret) == [s |-> s, ret |-> ret]
Wait(s, p, c) == Answer(suspend(s, p, c), WAIT)

\* A read of an empty pipe: the end of the file, or wait for a writer; the
\* writers that hang may go on.
ReadEmpty(s, p, c) ==
  LET w == IF "READ" \in conf.nonblock THEN Answer(s, EAGAIN) ELSE Wait(s, p, c)
  IN  IF s.wr = {} THEN Answer(s, 0)
      ELSE IF w.s.susp_count > 0 THEN [w EXCEPT !.s = release(w.s, "WRITE", w.s.susp_count)]
      ELSE w

\* Take what there is.  An empty pipe starts again at position 0.
ReadSome(s, p, c) ==
  LET n == Min2(c.n, s.size - s.rpos)
      t == [s EXCEPT !.rpos = @ + n, !.moved[p] = @ + n, !.cum[p] = 0]
  IN  Answer(IF t.rpos < t.size THEN t
             ELSE [t EXCEPT !.size = 0, !.rpos = 0,
                            !.wpos = IF s.wr # {} THEN 0 ELSE @],
             s.cum[p] + n)

do_read(s, p, c) == IF s.rpos >= s.size THEN ReadEmpty(s, p, c) ELSE ReadSome(s, p, c)

\* Put n bytes into the pipe.
Fill(s, p, n) ==
  [s EXCEPT !.wpos = @ + n, !.moved[p] = @ + n,
            !.size = IF s.wpos + n > @ THEN s.wpos + n ELSE @]

\* Write all of it; whoever waits for the first byte goes on.
WriteAll(s, p, c) ==
  LET t == IF s.wpos = 0 THEN release(s, "READ", s.susp_count) ELSE s
  IN  Answer([Fill(t, p, c.n) EXCEPT !.cum[p] = 0], s.cum[p] + c.n)

\* Mutant: what was written before is not counted.
WritePart_NoCum(s, p, c) ==
  LET can == PIPE_SIZE - s.wpos
      t == Fill(release(s, "READ", s.susp_count), p, can)
  IN  IF "WRITE" \in conf.nonblock
        THEN Answer([t EXCEPT !.cum[p] = 0], s.cum[p] + can)
        ELSE Wait(t, p, [c EXCEPT !.n = @ - can])

\* A write that is larger than a pipe fills it and waits with the rest.
WritePart(s, p, c) ==
  LET can == PIPE_SIZE - s.wpos
      t == Fill(release(s, "READ", s.susp_count), p, can)
  IN  IF "WRITE" \in conf.nonblock
        THEN Answer([t EXCEPT !.cum[p] = 0], s.cum[p] + can)
        ELSE Wait([t EXCEPT !.cum[p] = @ + can], p, [c EXCEPT !.n = @ - can])

\* A smaller one is written at once or waits.
do_write(s, p, c) ==
  CASE s.rd = {} -> Answer(s, EPIPE)
    [] s.rd # {} /\ s.wpos + c.n <= PIPE_SIZE -> WriteAll(s, p, c)
    [] s.rd # {} /\ s.wpos + c.n > PIPE_SIZE ->
         CASE c.n > PIPE_SIZE /\ s.wpos < PIPE_SIZE -> WritePart(s, p, c)
           [] ~(c.n > PIPE_SIZE /\ s.wpos < PIPE_SIZE) ->
                IF "WRITE" \in conf.nonblock /\ c.n # PIPE_SIZE
                  THEN Answer(s, EAGAIN)
                  ELSE Wait(s, p, c)

-----------------------------------------------------------------------------
(* Record locks.                                                           *)

Overlap(l, c) == l # NoLock /\ c.first <= l.last /\ l.first <= c.last
Empty(locks) == { i \in DOMAIN locks : locks[i] = NoLock }
FirstEmpty(locks) == CHOOSE i \in Empty(locks) : \A j \in Empty(locks) : i <= j

\* Lock l keeps p from getting the lock it asks for.
Conflict(l, p, c) ==
  Overlap(l, c) /\ ~(l.type = "RDLCK" /\ c.type = "RDLCK") /\ l.pid # p

\* Clear the region in slot i of the table: the lock goes, shrinks, or is
\* split into two, which may find the table full.
UnlockSlot(r, i, c) ==
  LET l == r.locks[i]
  IN  CASE r.full \/ ~Overlap(l, c) -> r
        [] ~r.full /\ Overlap(l, c) ->
             CASE c.first <= l.first /\ c.last >= l.last
                    -> [r EXCEPT !.locks[i] = NoLock, !.any = TRUE]
               [] c.first <= l.first /\ c.last < l.last
                    -> [r EXCEPT !.locks[i].first = c.last + 1, !.any = TRUE]
               [] c.first > l.first /\ c.last >= l.last
                    -> [r EXCEPT !.locks[i].last = c.first - 1, !.any = TRUE]
               [] c.first > l.first /\ c.last < l.last ->
                    IF Empty(r.locks) = {} THEN [r EXCEPT !.full = TRUE]
                    ELSE [r EXCEPT !.locks[FirstEmpty(r.locks)] =
                                      [l EXCEPT !.first = c.last + 1],
                                   !.locks[i].last = c.first - 1, !.any = TRUE]

\* Unlock a region.
Unlock(s, c) ==
  LET slots[n \in 0 .. NR_LOCKS] ==
        IF n = 0 THEN [locks |-> s.locks, full |-> FALSE, any |-> FALSE]
        ELSE UnlockSlot(slots[n - 1], n, c)
      r == slots[NR_LOCKS]
      t == [s EXCEPT !.locks = r.locks]
  IN  IF r.full THEN Answer([t EXCEPT !.refused = @ \/ r.any], ENOLCK)
      ELSE Answer(IF r.any THEN lock_revive(t) ELSE t, OK)

\* Mutant: the waiting processes are woken up after a failure too.
lock_op_Always(s, p, c) ==
  CASE c.type = "UNLCK" -> Unlock(s, c)
    [] c.type # "UNLCK" /\ \E i \in DOMAIN s.locks : Conflict(s.locks[i], p, c) ->
         IF c.op = "SETLK" THEN Answer(s, EAGAIN)
         ELSE [Wait(s, p, c) EXCEPT !.s = lock_revive(@)]
    [] OTHER ->
         IF Empty(s.locks) = {} THEN Answer(s, ENOLCK)
         ELSE Answer([s EXCEPT !.locks[FirstEmpty(s.locks)] =
                        [type |-> c.type, pid |-> p, first |-> c.first, last |-> c.last]],
                     OK)

\* F_SETLK and F_SETLKW.
lock_op(s, p, c) ==
  CASE c.type = "UNLCK" -> Unlock(s, c)
    [] c.type # "UNLCK" /\ \E i \in DOMAIN s.locks : Conflict(s.locks[i], p, c) ->
         IF c.op = "SETLK" THEN Answer(s, EAGAIN) ELSE Wait(s, p, c)
    [] c.type # "UNLCK" /\ \A i \in DOMAIN s.locks : ~Conflict(s.locks[i], p, c) ->
         IF Empty(s.locks) = {} THEN Answer(s, ENOLCK)
         ELSE Answer([s EXCEPT !.locks[FirstEmpty(s.locks)] =
                        [type |-> c.type, pid |-> p, first |-> c.first, last |-> c.last]],
                     OK)

-----------------------------------------------------------------------------
(* Closing, leaving and being interrupted.                                 *)

\* Mutant: nobody is told that the locks are gone.
DropLocks_Silent(s, p) ==
  LET own == { i \in DOMAIN s.locks : s.locks[i] # NoLock /\ s.locks[i].pid = p }
  IN  [s EXCEPT !.locks = [i \in DOMAIN @ |-> IF i \in own THEN NoLock ELSE @[i]]]

\* Drop the locks that p has on the file.
DropLocks(s, p) ==
  LET own == { i \in DOMAIN s.locks : s.locks[i] # NoLock /\ s.locks[i].pid = p }
      t == [s EXCEPT !.locks = [i \in DOMAIN @ |-> IF i \in own THEN NoLock ELSE @[i]]]
  IN  IF own = {} THEN s ELSE lock_revive(t)

\* Mutant: closing an end of the pipe releases those who wait at that end.
do_close_SameEnd(s, p, e) ==
  CASE e = "READ"  -> [release(s, "READ", Len(Slots)) EXCEPT !.rd = @ \ {p}]
    [] e = "WRITE" -> [release(s, "WRITE", Len(Slots)) EXCEPT !.wr = @ \ {p}]
    [] e = "FILE"  -> [DropLocks(s, p) EXCEPT !.file = @ \ {p}]

\* Close an end of the pipe, which releases those who wait at the other one,
\* or the file, which drops the process's locks.
do_close(s, p, e) ==
  CASE e = "READ"  -> [release(s, "WRITE", Len(Slots)) EXCEPT !.rd = @ \ {p}]
    [] e = "WRITE" -> [release(s, "READ", Len(Slots)) EXCEPT !.wr = @ \ {p}]
    [] e = "FILE"  -> [DropLocks(s, p) EXCEPT !.file = @ \ {p}]

\* The descriptors that p has open.
Open(s, p) ==
  { e \in {"READ", "WRITE", "FILE"} : CASE e = "READ" -> p \in s.rd
                                       [] e = "WRITE" -> p \in s.wr
                                       [] e = "FILE" -> p \in s.file }

CloseOpen(s, p, e) == IF e \in Open(s, p) THEN do_close(s, p, e) ELSE s

\* Break off a call that hangs.  Neither the count of hanging processes nor
\* what a partial write has written is looked at.
do_unpause(s, p) ==
  [s EXCEPT !.call[p] = NoCall, !.moved[p] = 0,
            !.broken = IF s.cum[p] # 0 THEN @ \cup {p} ELSE @]

\* The process ends: its call is broken off, its descriptors are closed in
\* their order.
do_exit(s, p) ==
  LET u == IF s.call[p].op \in PipeOps THEN [s EXCEPT !.susp_count = @ - 1] ELSE s
      t == IF s.call[p] = NoCall THEN s ELSE do_unpause(u, p)
  IN  [CloseOpen(CloseOpen(CloseOpen(t, p, "READ"), p, "WRITE"), p, "FILE")
         EXCEPT !.alive = @ \ {p}]

-----------------------------------------------------------------------------
(* The main loop.                                                          *)

Ranges == { r \in (0 .. MAX_FILE_POS) \X (0 .. MAX_FILE_POS) : r[1] <= r[2] }

\* The calls that a process may make.
Calls ==
  { [op |-> o, n |-> n] : o \in PipeOps, n \in 1 .. MaxBytes }
    \cup { [op |-> o, type |-> t, first |-> r[1], last |-> r[2]] :
            o \in {"SETLK", "SETLKW"}, t \in {"RDLCK", "WRLCK", "UNLCK"}, r \in Ranges }

MayCall(s, p, c) ==
  CASE c.op = "READ"  -> p \in s.rd
    [] c.op = "WRITE" -> p \in s.wr
    [] OTHER          -> p \in s.file

\* Run the call and answer it unless it has to wait.  An error in a write
\* that had written something leaves its count behind.
Execute(s, p, c) ==
  LET r == CASE c.op = "READ"  -> do_read(s, p, c)
             [] c.op = "WRITE" -> do_write(s, p, c)
             [] OTHER          -> lock_op(s, p, c)
  IN  IF r.ret = WAIT THEN f' = r.s /\ UNCHANGED last
      ELSE /\ f' = [r.s EXCEPT !.moved[p] = 0,
                               !.broken = IF r.s.cum[p] # 0 THEN @ \cup {p} ELSE @]
           /\ last' = IF r.ret < 0 \/ p \in s.broken THEN 0 ELSE r.ret - r.s.moved[p]

\* A new request is taken only when nobody is to be revived.
Listens(p) == f.reviving = 0 /\ p \in f.alive

Request(p) ==
  /\ Listens(p) /\ f.call[p] = NoCall
  /\ \E c \in Calls : c \in conf.calls /\ MayCall(f, p, c) /\ Execute(f, p, c)
  /\ UNCHANGED conf

Close(p) ==
  /\ Listens(p) /\ f.call[p] = NoCall
  /\ \E e \in Open(f, p) : f' = do_close(f, p, e)
  /\ UNCHANGED <<last, conf>>

Exit(p) ==
  /\ Listens(p)
  /\ f' = do_exit(f, p)
  /\ UNCHANGED <<last, conf>>

\* MM says that a signal has come for a process that hangs.
Unpause(p) ==
  /\ Listens(p) /\ f.call[p] # NoCall /\ f.signals > 0
  /\ f' = [do_unpause(f, p) EXCEPT !.signals = @ - 1]
  /\ UNCHANGED <<last, conf>>

\* Run the call of the first revived process again.
get_work ==
  /\ f.reviving # 0
  /\ LET p == FirstSlot(f.revived)
     IN  Execute([f EXCEPT !.call[p] = NoCall, !.revived = @ \ {p}, !.reviving = @ - 1],
                 p, f.call[p])
  /\ UNCHANGED conf

-----------------------------------------------------------------------------
Init ==
  /\ conf \in Confs
  /\ f = [ rd |-> conf.rd, wr |-> conf.wr, file |-> conf.file, alive |-> Procs,
           size |-> 0, rpos |-> 0, wpos |-> 0,
           call |-> [p \in Procs |-> NoCall], revived |-> {}, reviving |-> 0,
           susp_count |-> 0, cum |-> [p \in Procs |-> 0],
           locks |-> [i \in 1 .. NR_LOCKS |-> NoLock],
           signals |-> conf.signals,
           moved |-> [p \in Procs |-> 0], broken |-> {}, refused |-> FALSE ]
  /\ last = 0

Next ==
  \/ get_work
  \/ \E p \in Procs : Request(p) \/ Close(p) \/ Exit(p) \/ Unpause(p)

\* FS goes on with what it has to do.
Spec == Init /\ [][Next]_vars /\ WF_vars(get_work)

-----------------------------------------------------------------------------
(* Properties.                                                             *)

\* The fields of the state have their types and the pipe keeps to its size.
TypeOK ==
  /\ f.rd \subseteq f.alive /\ f.wr \subseteq f.alive /\ f.file \subseteq f.alive
  /\ f.alive \subseteq Procs /\ f.revived \subseteq f.alive
  /\ f.call \in [Procs -> Calls \cup {NoCall}]
  /\ f.size \in 0 .. PIPE_SIZE /\ f.rpos \in 0 .. PIPE_SIZE /\ f.wpos \in 0 .. PIPE_SIZE
  /\ \A p \in Procs : f.cum[p] \in Nat /\ f.moved[p] \in 0 .. MaxBytes
  /\ DOMAIN f.locks = 1 .. NR_LOCKS

\* reviving counts the processes that are marked, all of which hang in a call:
\* get_work() finds the process it looks for and does not panic.
RevivingExact ==
  /\ f.reviving = Cardinality(f.revived)
  /\ \A p \in f.revived : f.call[p].op \in {"READ", "WRITE", "SETLKW"}

\* When FS listens, a reader that hangs has an empty pipe with a writer, a
\* writer that hangs has a reader: no end of file and no broken pipe was
\* missed by pipe_check(), close or exit.
PipeWaitIsJustified ==
  f.reviving = 0 =>
    /\ Hang(f, {"READ"}) # {} => f.rpos >= f.size /\ f.wr # {}
    /\ Hang(f, {"WRITE"}) # {} => f.rd # {}

\* When FS listens, a reader and a writer of the pipe do not both hang: one of
\* them can always go on.
NoBothWait ==
  f.reviving = 0 => Hang(f, {"READ"}) = {} \/ Hang(f, {"WRITE"}) = {}

\* susp_count, which bounds what release() wakes up, is never below the number
\* of processes that hang on the pipe, and is that number as long as no call
\* was interrupted.
SuspCounted ==
  LET n == Cardinality(Hang(f, PipeOps))
  IN  f.susp_count >= n /\ (f.signals = conf.signals => f.susp_count = n)

\* The reader is never past the end of what was written; what is written next
\* goes to the end of the pipe.
PipePositions == f.rpos <= f.size /\ (f.wr # {} => f.wpos = f.size)

\* A read or write that is answered with a count has moved that many bytes,
\* over all the times its call was run, unless an earlier write of the
\* process was broken off half-way.
CountIsWhatMoved == last = 0

\* Two processes never have overlapping locks one of which is a write lock.
LocksExclude ==
  \A i, j \in DOMAIN f.locks :
    f.locks[i] # NoLock /\ f.locks[j] # NoLock /\ f.locks[i].pid # f.locks[j].pid
      /\ Overlap(f.locks[i], f.locks[j])
      => f.locks[i].type = "RDLCK" /\ f.locks[j].type = "RDLCK"

\* When FS listens, a process that waits for a lock is kept from it by a lock
\* of somebody else, unless an unlock call had to stop half-way.
LockWaitIsJustified ==
  f.reviving = 0 /\ ~f.refused =>
    \A p \in Hang(f, {"SETLKW"}) :
      \E i \in DOMAIN f.locks : Conflict(f.locks[i], p, f.call[p])

\* The counts FS steers by are exact: reviving, which get_work() follows, and
\* susp_count, which bounds release(), through calls that are run again,
\* interrupted, and processes that exit.
CountsExact == TypeOK /\ RevivingExact /\ SuspCounted

\* When FS listens, nobody hangs on the pipe without reason: no end of file
\* and no broken pipe was missed, and one of a reader and a writer can always
\* go on (pipe_check, release, close, exit).
PipeWaits == PipeWaitIsJustified /\ NoBothWait

\* Every byte of the pipe is moved once: the positions stay together when the
\* pipe restarts at 0, and the answered count is what was moved (read_write,
\* pipe_check).
BytesMovedOnce == PipePositions /\ CountIsWhatMoved

\* Locks exclude each other, and nobody waits for one that is free (lock_op,
\* lock_revive, close, exit).
LocksKept == LocksExclude /\ LockWaitIsJustified

\* FS always comes back to take new requests: processes that are run again do
\* not revive each other for ever.
FSListens == []<>(f.reviving = 0)
=============================================================================
