---------------------------- MODULE FSWaitProofs ----------------------------
(***************************************************************************)
(* Proofs about the calls of the file system that wait: pipes and record   *)
(* locks, for any processes, sizes, tables and configurations.             *)
(***************************************************************************)
EXTENDS FSWait, TLAPS

(* What the lemmas use of the natural numbers and of finite sets; it is    *)
(* proved at the end, before the theorems.                                 *)
Basics ==
  /\ \A N \in SUBSET Nat : N # {} => \E m \in N : \A n \in N : m <= n
  /\ \A S \in SUBSET Procs :
       /\ Cardinality(S) \in Nat /\ Cardinality(S) <= Len(Slots)
       /\ Cardinality(S) = 0 <=> S = {}
       /\ \A p \in Procs \ S : Cardinality(S \cup {p}) = Cardinality(S) + 1
       /\ \A p \in S : Cardinality(S \ {p}) = Cardinality(S) - 1
       /\ \A T \in SUBSET S : /\ Cardinality(T) <= Cardinality(S)
                              /\ Cardinality(S \ T) = Cardinality(S) - Cardinality(T)
       /\ \A T \in SUBSET Procs : T \cap S = {} =>
            Cardinality(S \cup T) = Cardinality(S) + Cardinality(T)

-----------------------------------------------------------------------------
(* The states of FS.                                                       *)
Locks == [type : {"RDLCK", "WRLCK"}, pid : Procs, first : Nat, last : Nat]
Waiting == {"READ", "WRITE", "SETLKW"}

State ==
  [rd : SUBSET Procs, wr : SUBSET Procs, file : SUBSET Procs, alive : SUBSET Procs,
   size : 0 .. PIPE_SIZE, rpos : 0 .. PIPE_SIZE, wpos : 0 .. PIPE_SIZE,
   call : [Procs -> Calls \cup {NoCall}], revived : SUBSET Procs, reviving : Nat,
   susp_count : Nat, cum : [Procs -> Nat], locks : [1 .. NR_LOCKS -> Locks \cup {NoLock}],
   signals : Nat, moved : [Procs -> 0 .. MaxBytes], broken : SUBSET Procs, refused : BOOLEAN]

(* reviving counts the marked processes, which hang in a call.             *)
Marked(s) ==
  s.reviving = Cardinality(s.revived) /\ \A p \in s.revived : s.call[p].op \in Waiting

(* susp_count is no less than the number of processes that hang on the     *)
(* pipe, and exact until a call is interrupted.                            *)
Susp(s) ==
  /\ s.signals <= conf.signals
  /\ s.susp_count >= Cardinality(Hang(s, PipeOps))
  /\ s.signals = conf.signals => s.susp_count = Cardinality(Hang(s, PipeOps))

(* Who has a descriptor is alive, and who hangs has the descriptor.        *)
Ends(s) ==
  /\ s.rd \subseteq s.alive /\ s.wr \subseteq s.alive /\ s.file \subseteq s.alive
  /\ \A p \in Procs : s.call[p] # NoCall => s.call[p].op \in Waiting /\ MayCall(s, p, s.call[p])

(* The positions of the pipe, which starts again at 0 when it is empty.    *)
Pos(s) ==
  /\ s.rpos <= s.size /\ (s.wr # {} => s.wpos = s.size)
  /\ s.rpos = s.size => s.size = 0

(* Readers hang on an empty pipe that has a writer, writers on one that    *)
(* has a reader.                                                           *)
Hangs(s) ==
  /\ Hang(s, {"READ"}) # {} => s.size = 0 /\ s.wr # {}
  /\ Hang(s, {"WRITE"}) # {} => s.rd # {}

NotBoth(s) == Hang(s, {"READ"}) = {} \/ Hang(s, {"WRITE"}) = {}

(* Locks of two processes that overlap are read locks.                     *)
Excluding(locks) ==
  \A i, j \in 1 .. NR_LOCKS :
    locks[i] # NoLock /\ locks[j] # NoLock /\ locks[i].pid # locks[j].pid
      /\ Overlap(locks[i], locks[j])
      => locks[i].type = "RDLCK" /\ locks[j].type = "RDLCK"

(* Who waits for a lock is kept from it.                                   *)
Kept(s) ==
  ~s.refused => \A p \in Hang(s, {"SETLKW"}) :
                  \E i \in 1 .. NR_LOCKS : Conflict(s.locks[i], p, s.call[p])

Core(s) ==
  /\ s \in State /\ Marked(s) /\ Susp(s) /\ Ends(s) /\ Pos(s) /\ Hangs(s)
  /\ Excluding(s.locks) /\ Kept(s)

(* What process p has moved before it runs (again) the call c.             *)
MovedFor(s, p, c) ==
  /\ c.op # "WRITE" => s.moved[p] = 0
  /\ c.op = "WRITE" => s.moved[p] + c.n <= MaxBytes
  /\ p \notin s.broken => s.cum[p] = s.moved[p]

Good(s) == Core(s) /\ NotBoth(s) /\ \A p \in Procs : MovedFor(s, p, s.call[p])

(* The inductive invariant.                                                *)
IInv == conf \in Confs /\ last = 0 /\ Good(f)

-----------------------------------------------------------------------------
(* Calls.                                                                  *)
LEMMA Consts ==
  /\ PIPE_SIZE \in Nat /\ PIPE_SIZE > 0 /\ NR_LOCKS \in Nat /\ MAX_FILE_POS \in Nat
  /\ MaxBytes \in Nat /\ Len(Slots) \in Nat
BY FSAssumption

LEMMA CallFacts ==
  ASSUME NEW c \in Calls
  PROVE  /\ c.op \in {"READ", "WRITE", "SETLK", "SETLKW"} /\ c # NoCall
         /\ c.op \in PipeOps => c.n \in 1 .. MaxBytes /\ c = [op |-> c.op, n |-> c.n]
         /\ c.op \notin PipeOps => /\ c.type \in {"RDLCK", "WRLCK", "UNLCK"}
                                   /\ c.first \in 0 .. MAX_FILE_POS /\ c.last \in 0 .. MAX_FILE_POS
                                   /\ c.first <= c.last
<1>1. ASSUME NEW o \in PipeOps, NEW n \in 1 .. MaxBytes, c = [op |-> o, n |-> n]
      PROVE  c.op = o /\ c.n = n
  BY Zenon, <1>1
<1>2. ASSUME NEW o \in {"SETLK", "SETLKW"}, NEW t \in {"RDLCK", "WRLCK", "UNLCK"}, NEW r \in Ranges,
             c = [op |-> o, type |-> t, first |-> r[1], last |-> r[2]]
      PROVE  c.op = o /\ c.type = t /\ c.first = r[1] /\ c.last = r[2]
  BY Zenon, <1>2
<1>3. \A r \in Ranges : r[1] \in 0 .. MAX_FILE_POS /\ r[2] \in 0 .. MAX_FILE_POS /\ r[1] <= r[2]
  BY DEF Ranges
<1>4. CASE \E o \in PipeOps, n \in 1 .. MaxBytes : c = [op |-> o, n |-> n]
  <2>1. PICK o \in PipeOps, n \in 1 .. MaxBytes : c = [op |-> o, n |-> n]
    BY Zenon, <1>4
  <2>2. c.op = o /\ c.n = n
    BY Zenon, <1>1, <2>1
  <2>3. o # "NONE" /\ o \in {"READ", "WRITE"}
    BY DEF PipeOps
  <2>4. c # NoCall
    <3>1. NoCall.op = "NONE"
      BY Zenon DEF NoCall
    <3>2. QED
      BY Zenon, <2>2, <2>3, <3>1
  <2>5. QED
    BY Zenon, <2>1, <2>2, <2>3, <2>4 DEF PipeOps
<1>5. CASE \E o \in {"SETLK", "SETLKW"}, t \in {"RDLCK", "WRLCK", "UNLCK"}, r \in Ranges :
             c = [op |-> o, type |-> t, first |-> r[1], last |-> r[2]]
  <2>1. PICK o \in {"SETLK", "SETLKW"}, t \in {"RDLCK", "WRLCK", "UNLCK"}, r \in Ranges :
               c = [op |-> o, type |-> t, first |-> r[1], last |-> r[2]]
    BY Zenon, <1>5
  <2>2. c.op = o /\ c.type = t /\ c.first = r[1] /\ c.last = r[2]
    BY Zenon, <1>2, <2>1
  <2>3. o # "NONE" /\ o \notin {"READ", "WRITE"}
    OBVIOUS
  <2>4. c # NoCall
    <3>1. NoCall.op = "NONE"
      BY Zenon DEF NoCall
    <3>2. QED
      BY Zenon, <2>2, <2>3, <3>1
  <2>5. QED
    BY Zenon, <1>3, <2>2, <2>3, <2>4 DEF PipeOps
<1>6. \/ \E o \in PipeOps, n \in 1 .. MaxBytes : c = [op |-> o, n |-> n]
      \/ \E o \in {"SETLK", "SETLKW"}, t \in {"RDLCK", "WRLCK", "UNLCK"}, r \in Ranges :
           c = [op |-> o, type |-> t, first |-> r[1], last |-> r[2]]
  BY DEF Calls
<1>7. QED
  BY Zenon, <1>4, <1>5, <1>6

(* The rest of a write that was done in part is a write.                   *)
LEMMA RestCall ==
  ASSUME NEW c \in Calls, c.op = "WRITE", NEW m \in 1 .. MaxBytes
  PROVE  /\ [c EXCEPT !.n = m] \in Calls /\ [c EXCEPT !.n = m].op = "WRITE"
         /\ [c EXCEPT !.n = m].n = m
<1>1. c = [op |-> "WRITE", n |-> c.n]
  BY Zenon, CallFacts DEF PipeOps
<1>2. [c EXCEPT !.n = m] = [op |-> "WRITE", n |-> m]
  BY <1>1
<1>3. [op |-> "WRITE", n |-> m] \in Calls
  BY DEF Calls, PipeOps
<1>4. QED
  BY Zenon, <1>2, <1>3

-----------------------------------------------------------------------------
(* Who hangs.                                                              *)
LEMMA HangType ==
  ASSUME NEW s, NEW ops
  PROVE  Hang(s, ops) \in SUBSET Procs /\ Hang(s, ops) \cap s.revived = {}
BY Zenon DEF Hang

LEMMA HangSame ==
  ASSUME NEW s, NEW t, t.call = s.call, t.revived = s.revived
  PROVE  \A ops : Hang(t, ops) = Hang(s, ops)
BY Zenon DEF Hang

LEMMA HangOps ==
  ASSUME NEW s
  PROVE  Hang(s, PipeOps) = Hang(s, {"READ"}) \cup Hang(s, {"WRITE"})
BY Zenon DEF Hang, PipeOps

LEMMA HangWaiting ==
  ASSUME NEW s, NEW p \in Hang(s, {"READ"}) \cup Hang(s, {"WRITE"}) \cup Hang(s, {"SETLKW"})
  PROVE  p \in Procs /\ s.call[p].op \in Waiting /\ p \notin s.revived
BY Zenon DEF Hang, Waiting

(* Everything but who is marked, the counts of that and refused.           *)
Same(s, t) ==
  /\ t.rd = s.rd /\ t.wr = s.wr /\ t.file = s.file /\ t.alive = s.alive
  /\ t.size = s.size /\ t.rpos = s.rpos /\ t.wpos = s.wpos
  /\ t.call = s.call /\ t.cum = s.cum /\ t.moved = s.moved /\ t.broken = s.broken
  /\ t.locks = s.locks /\ t.signals = s.signals

LEMMA SameEnds ==
  ASSUME NEW s, NEW t, Same(s, t), Ends(s)
  PROVE  Ends(t)
BY Zenon DEF Same, Ends, MayCall

(* revive marks processes that hang.                                       *)
LEMMA ReviveFacts ==
  ASSUME Basics, NEW s \in State, Marked(s),
         NEW ps \in SUBSET (Hang(s, {"READ"}) \cup Hang(s, {"WRITE"}) \cup Hang(s, {"SETLKW"}))
  PROVE  LET t == revive(s, ps)
         IN  /\ t \in State /\ Same(s, t) /\ Marked(t)
             /\ t.susp_count = s.susp_count /\ t.refused = s.refused
             /\ \A ops : Hang(t, ops) = Hang(s, ops) \ ps
<1> DEFINE t == revive(s, ps)
<1>1. ps \in SUBSET Procs /\ ps \cap s.revived = {} /\ \A p \in ps : s.call[p].op \in Waiting
  BY Zenon, HangWaiting
<1>2. s.revived \in SUBSET Procs /\ s.reviving = Cardinality(s.revived)
  BY Zenon DEF State, Marked
<1>3. Cardinality(ps) \in Nat /\ Cardinality(s.revived) \in Nat
  BY Zenon, <1>1, <1>2 DEF Basics
<1>4. Cardinality(s.revived \cup ps) = Cardinality(s.revived) + Cardinality(ps)
  BY Zenon, <1>1, <1>2 DEF Basics
<1>5. s.reviving + Cardinality(ps) \in Nat
  BY <1>2, <1>3
<1>6. /\ t \in State /\ t.revived = s.revived \cup ps /\ t.reviving = s.reviving + Cardinality(ps)
      /\ t.susp_count = s.susp_count /\ t.refused = s.refused
  BY Zenon, <1>1, <1>2, <1>5 DEF State, revive
<1>7. Same(s, t)
  BY Zenon DEF State, Same, revive
<1> HIDE DEF t
<1>8. t.call = s.call
  BY Zenon, <1>7 DEF Same
<1>9. Marked(t)
  BY Zenon, <1>1, <1>2, <1>4, <1>6, <1>8 DEF Marked
<1>10. \A ops : Hang(t, ops) = Hang(s, ops) \ ps
  BY Zenon, <1>6, <1>8 DEF Hang
<1>11. QED
  BY Zenon, <1>6, <1>7, <1>9, <1>10 DEF t

(* The order of the table.                                                 *)
LEMMA SlotFacts ==
  ASSUME NEW p \in Procs
  PROVE  Slot(p) \in 1 .. Len(Slots) /\ Slots[Slot(p)] = p /\ Slot(p) \in Nat /\ ~Before(p, p)
<1>1. \E i \in DOMAIN Slots : Slots[i] = p
  BY Zenon DEF Procs
<1>2. Slot(p) \in DOMAIN Slots /\ Slots[Slot(p)] = p
  BY Zenon, <1>1 DEF Slot
<1>3. Slot(p) \in 1 .. Len(Slots) /\ Len(Slots) \in Nat
  BY Zenon, <1>2, FSAssumption, Consts
<1>4. Slot(p) \in Nat /\ ~(Slot(p) < Slot(p))
  BY <1>3
<1>5. QED
  BY Zenon, <1>2, <1>3, <1>4 DEF Before

(* A set of processes that is not empty has a first one.                   *)
LEMMA FirstSlotFacts ==
  ASSUME Basics, NEW ps \in SUBSET Procs, ps # {}
  PROVE  FirstSlot(ps) \in ps
<1> DEFINE N == {Slot(p) : p \in ps}
<1>1. N \in SUBSET Nat /\ N # {}
  BY Zenon, SlotFacts
<1>2. PICK m \in N : \A n \in N : m <= n
  BY Zenon, <1>1 DEF Basics
<1>3. PICK p \in ps : m = Slot(p)
  BY Zenon, <1>2
<1>4. ASSUME NEW q \in ps \ {p} PROVE Before(p, q)
  <2>1. Slot(p) <= Slot(q)
    BY Zenon, <1>2, <1>3
  <2>2. Slot(p) # Slot(q)
    BY Zenon, SlotFacts
  <2>3. Slot(p) \in Nat /\ Slot(q) \in Nat
    BY Zenon, SlotFacts
  <2>4. \A a, b \in Nat : a <= b /\ a # b => a < b
    OBVIOUS
  <2>5. QED
    BY Zenon, <2>1, <2>2, <2>3, <2>4 DEF Before
<1>5. QED
  BY Zenon, <1>4 DEF FirstSlot

(* A count that is high enough lets all go.                                *)
LEMMA FirstSlotsAll ==
  ASSUME Basics, NEW ps \in SUBSET Procs, NEW n \in Nat, n >= Cardinality(ps)
  PROVE  FirstSlots(ps, n) = ps
<1>1. ASSUME NEW p \in ps PROVE Cardinality({q \in ps : Before(q, p)}) < n
  <2> DEFINE B == {q \in ps : Before(q, p)}
  <2>1. B \in SUBSET (ps \ {p})
    BY Zenon, SlotFacts
  <2>2. ps \ {p} \in SUBSET Procs /\ B \in SUBSET Procs
    BY Zenon, <2>1
  <2>3. Cardinality(B) <= Cardinality(ps \ {p}) /\ Cardinality(B) \in Nat
    BY Zenon, <2>1, <2>2 DEF Basics
  <2>4. Cardinality(ps \ {p}) = Cardinality(ps) - 1 /\ Cardinality(ps) \in Nat
    BY Zenon DEF Basics
  <2> HIDE DEF B
  <2>5. Cardinality(B) < n
    BY <2>3, <2>4
  <2>6. QED
    BY Zenon, <2>5 DEF B
<1>2. QED
  BY Zenon, <1>1 DEF FirstSlots

(* release with such a count lets all go that hang in a call op.           *)
LEMMA ReleaseFacts ==
  ASSUME Basics, NEW s, Core(s), NEW op \in PipeOps, NEW n \in Nat,
         n >= Cardinality(Hang(s, {op}))
  PROVE  LET t == release(s, op, n)
         IN  /\ Core(t) /\ Same(s, t) /\ t.refused = s.refused
             /\ Hang(t, {op}) = {}
             /\ \A ops : Hang(t, ops) \subseteq Hang(s, ops)
<1> DEFINE ps == Hang(s, {op})
           u == revive(s, ps)
           t == [u EXCEPT !.susp_count = @ - Cardinality(ps)]
<1>1. ps \in SUBSET Procs
  BY Zenon, HangType
<1>2. release(s, op, n) = t
  BY Zenon, <1>1, FirstSlotsAll DEF release
<1>3. s \in State /\ Marked(s) /\ Susp(s) /\ Ends(s) /\ Pos(s) /\ Hangs(s) /\ Excluding(s.locks) /\ Kept(s)
  BY Zenon DEF Core
<1>4. ps \in SUBSET (Hang(s, {"READ"}) \cup Hang(s, {"WRITE"}) \cup Hang(s, {"SETLKW"}))
  BY Zenon DEF PipeOps
<1>5. /\ u \in State /\ Same(s, u) /\ Marked(u)
      /\ u.susp_count = s.susp_count /\ u.refused = s.refused
      /\ \A ops : Hang(u, ops) = Hang(s, ops) \ ps
  BY Zenon, <1>3, <1>4, ReviveFacts
<1> DEFINE H == Hang(s, PipeOps)
<1>6. H \in SUBSET Procs /\ ps \in SUBSET H
  BY Zenon, HangType, HangOps DEF PipeOps
<1> HIDE DEF ps, u
<1>7. /\ Cardinality(H) \in Nat /\ Cardinality(ps) \in Nat /\ Cardinality(ps) <= Cardinality(H)
      /\ Cardinality(H \ ps) = Cardinality(H) - Cardinality(ps)
  BY Zenon, <1>1, <1>6 DEF Basics
<1>8. s.susp_count \in Nat /\ s.susp_count >= Cardinality(H)
  BY Zenon, <1>3 DEF State, Susp
<1>9. s.susp_count - Cardinality(ps) \in Nat /\ s.susp_count - Cardinality(ps) >= Cardinality(H \ ps)
  BY <1>7, <1>8
<1>10. t \in State /\ t.susp_count = s.susp_count - Cardinality(ps)
  BY Zenon, <1>5, <1>9 DEF State
<1>11. t.revived = u.revived /\ t.reviving = u.reviving /\ t.refused = u.refused /\ Same(u, t)
  BY Zenon, <1>5 DEF State, Same
<1> HIDE DEF t
<1>12. Same(s, t) /\ t.call = u.call
  BY Zenon, <1>5, <1>11 DEF Same
<1>13. Marked(t)
  BY Zenon, <1>5, <1>11, <1>12 DEF Marked
<1>14. \A ops : Hang(t, ops) = Hang(s, ops) \ ps
  <2>1. \A ops : Hang(t, ops) = Hang(u, ops)
    BY Zenon, <1>11, <1>12, HangSame
  <2>2. QED
    BY Zenon, <1>5, <2>1
<1>15. Susp(t)
  <2>1. t.signals = s.signals
    BY Zenon, <1>12 DEF Same
  <2>2. t.susp_count >= Cardinality(H \ ps)
    BY Zenon, <1>9, <1>10
  <2>3. s.signals = conf.signals => t.susp_count = Cardinality(H \ ps)
    <3>1. s.signals = conf.signals => s.susp_count = Cardinality(H)
      BY Zenon, <1>3 DEF Susp
    <3>2. QED
      BY Zenon, <3>1, <1>7, <1>10
  <2>4. QED
    BY Zenon, <2>1, <2>2, <2>3, <1>3, <1>14 DEF Susp
<1>16. Ends(t)
  BY Zenon, <1>3, <1>12, SameEnds
<1>17. Pos(t) /\ Hangs(t) /\ Excluding(t.locks)
  BY Zenon, <1>3, <1>12, <1>14 DEF Same, Pos, Hangs
<1>18. Kept(t)
  BY Zenon, <1>3, <1>5, <1>11, <1>12, <1>14 DEF Same, Kept
<1>19. QED
  BY Zenon, <1>2, <1>5, <1>10, <1>11, <1>12, <1>13, <1>14, <1>15, <1>16, <1>17, <1>18 DEF Core, ps

(* After lock_revive nobody waits for a lock.                              *)
LEMMA LockReviveFacts ==
  ASSUME Basics, NEW s \in State, Marked(s), Susp(s), Ends(s), Pos(s), Hangs(s), Excluding(s.locks)
  PROVE  LET t == lock_revive(s)
         IN  /\ Core(t) /\ Same(s, t)
             /\ \A ops : Hang(t, ops) \subseteq Hang(s, ops)
<1> DEFINE ps == Hang(s, {"SETLKW"})
           u == revive(s, ps)
           t == [u EXCEPT !.refused = FALSE]
<1>1. lock_revive(s) = t
  BY Zenon DEF lock_revive
<1>2. ps \in SUBSET (Hang(s, {"READ"}) \cup Hang(s, {"WRITE"}) \cup Hang(s, {"SETLKW"}))
  BY Zenon
<1>3. /\ u \in State /\ Same(s, u) /\ Marked(u) /\ u.susp_count = s.susp_count
      /\ \A ops : Hang(u, ops) = Hang(s, ops) \ ps
  BY Zenon, <1>2, ReviveFacts
<1>4. Hang(s, PipeOps) \cap ps = {}
  BY Zenon DEF Hang, PipeOps
<1> HIDE DEF ps, u
<1>5. t \in State /\ t.susp_count = s.susp_count /\ t.revived = u.revived /\ t.reviving = u.reviving
  BY Zenon, <1>3 DEF State
<1>6. Same(u, t)
  BY Zenon, <1>3 DEF State, Same
<1> HIDE DEF t
<1>7. Same(s, t) /\ t.call = u.call
  BY Zenon, <1>3, <1>6 DEF Same
<1>8. Marked(t)
  BY Zenon, <1>3, <1>5, <1>7 DEF Marked
<1>9. \A ops : Hang(t, ops) = Hang(s, ops) \ ps
  <2>1. \A ops : Hang(t, ops) = Hang(u, ops)
    BY Zenon, <1>5, <1>7, HangSame
  <2>2. QED
    BY Zenon, <1>3, <2>1
<1>10. Susp(t)
  <2>1. Hang(t, PipeOps) = Hang(s, PipeOps)
    BY Zenon, <1>4, <1>9
  <2>2. QED
    BY Zenon, <2>1, <1>5, <1>7 DEF Same, Susp
<1>11. Ends(t)
  BY Zenon, <1>7, SameEnds
<1>12. Pos(t) /\ Hangs(t) /\ Excluding(t.locks)
  BY Zenon, <1>7, <1>9 DEF Same, Pos, Hangs
<1>13. Kept(t)
  BY Zenon, <1>9 DEF Kept, ps
<1>14. QED
  BY Zenon, <1>1, <1>5, <1>7, <1>8, <1>9, <1>10, <1>11, <1>12, <1>13 DEF Core

(* The counts that release is called with are high enough.                 *)
LEMMA EnoughSusp ==
  ASSUME Basics, NEW s \in State, Susp(s), NEW op \in PipeOps
  PROVE  /\ s.susp_count \in Nat /\ s.susp_count >= Cardinality(Hang(s, {op}))
         /\ Len(Slots) \in Nat /\ Len(Slots) >= Cardinality(Hang(s, {op}))
<1> DEFINE H == Hang(s, PipeOps)
           K == Hang(s, {op})
<1>1. H \in SUBSET Procs /\ K \in SUBSET H /\ K \in SUBSET Procs
  BY Zenon, HangType, HangOps DEF PipeOps
<1>2. s.susp_count \in Nat /\ s.susp_count >= Cardinality(H)
  BY Zenon DEF State, Susp
<1> HIDE DEF H, K
<1>3. /\ Cardinality(H) \in Nat /\ Cardinality(K) \in Nat /\ Cardinality(K) <= Cardinality(H)
      /\ Cardinality(K) <= Len(Slots)
  BY Zenon, <1>1 DEF Basics
<1>4. s.susp_count >= Cardinality(K) /\ Len(Slots) >= Cardinality(K)
  BY <1>2, <1>3, Consts
<1>5. QED
  BY Zenon, <1>2, <1>4, Consts DEF K

(* p, which is in no call, is suspended in the call c for a good reason.   *)
Reason(s, p, c) ==
  /\ c.op \in Waiting /\ MayCall(s, p, c)
  /\ c.op = "READ" => s.size = 0 /\ s.wr # {}
  /\ c.op = "WRITE" => s.rd # {}
  /\ c.op = "SETLKW" => \E i \in 1 .. NR_LOCKS : Conflict(s.locks[i], p, c)

Suspended(s, p, c, t) ==
  /\ t.call = [s.call EXCEPT ![p] = c]
  /\ t.cum = s.cum /\ t.moved = s.moved /\ t.broken = s.broken
  /\ \A ops \in SUBSET Waiting :
       Hang(t, ops) = IF c.op \in ops THEN Hang(s, ops) \cup {p} ELSE Hang(s, ops)
  /\ c.op \in PipeOps => t.susp_count > 0

LEMMA SuspendFacts ==
  ASSUME Basics, NEW s, Core(s), NEW p \in Procs, s.call[p] = NoCall, NEW c \in Calls, Reason(s, p, c)
  PROVE  Core(suspend(s, p, c)) /\ Suspended(s, p, c, suspend(s, p, c))
<1> USE DEF Reason
<1> DEFINE t == suspend(s, p, c)
<1>1. s \in State /\ Marked(s) /\ Susp(s) /\ Ends(s) /\ Pos(s) /\ Hangs(s) /\ Excluding(s.locks) /\ Kept(s)
  BY Zenon DEF Core
<1>2. s.call \in [Procs -> Calls \cup {NoCall}] /\ s.susp_count \in Nat
  BY Zenon, <1>1 DEF State
<1>3. s.susp_count + 1 \in Nat /\ s.susp_count + 1 > 0
  BY <1>2
<1>4. [s.call EXCEPT ![p] = c] \in [Procs -> Calls \cup {NoCall}]
  BY Zenon, <1>2
<1>5. /\ t \in State /\ t.call = [s.call EXCEPT ![p] = c]
      /\ t.susp_count = IF c.op \in PipeOps THEN s.susp_count + 1 ELSE s.susp_count
  <2>1. (IF c.op \in PipeOps THEN s.susp_count + 1 ELSE s.susp_count) \in Nat
    BY Zenon, <1>2, <1>3
  <2> DEFINE n == IF c.op \in PipeOps THEN s.susp_count + 1 ELSE s.susp_count
             g == [s.call EXCEPT ![p] = c]
  <2>2. t = [s EXCEPT !.call = g, !.susp_count = n]
    BY Zenon, <1>1 DEF State, suspend
  <2> HIDE DEF n, g, t
  <2>3. t \in State /\ t.call = g /\ t.susp_count = n
    BY Zenon, <1>1, <1>4, <2>1, <2>2 DEF State, n, g
  <2>4. QED
    BY Zenon, <2>3 DEF n, g
<1>6. /\ t.rd = s.rd /\ t.wr = s.wr /\ t.file = s.file /\ t.alive = s.alive
      /\ t.size = s.size /\ t.rpos = s.rpos /\ t.wpos = s.wpos
      /\ t.revived = s.revived /\ t.reviving = s.reviving
      /\ t.cum = s.cum /\ t.moved = s.moved /\ t.broken = s.broken
      /\ t.locks = s.locks /\ t.signals = s.signals /\ t.refused = s.refused
  BY Zenon, <1>1 DEF State, suspend
<1> HIDE DEF t
<1>7. t.call[p] = c /\ \A q \in Procs \ {p} : t.call[q] = s.call[q]
  BY Zenon, <1>2, <1>5
<1>8. p \notin s.revived
  <2>1. NoCall.op \notin Waiting
    BY DEF NoCall, Waiting
  <2>2. QED
    BY Zenon, <1>1, <2>1 DEF Marked
<1>9. Marked(t)
  <2>1. s.revived \in SUBSET (Procs \ {p})
    BY Zenon, <1>1, <1>8 DEF State
  <2>2. QED
    BY Zenon, <1>1, <1>6, <1>7, <2>1 DEF Marked
<1>10. ASSUME NEW ops \in SUBSET Waiting
       PROVE  Hang(t, ops) = IF c.op \in ops THEN Hang(s, ops) \cup {p} ELSE Hang(s, ops)
  <2>1. s.call[p].op \notin ops
    BY DEF NoCall, Waiting
  <2>2. CASE c.op \in ops
    BY Zenon, <1>6, <1>7, <1>8, <2>2 DEF Hang
  <2>3. CASE c.op \notin ops
    BY Zenon, <1>6, <1>7, <1>8, <2>1, <2>3 DEF Hang
  <2>4. QED
    BY Zenon, <2>2, <2>3
<1>11. {"READ"} \in SUBSET Waiting /\ {"WRITE"} \in SUBSET Waiting /\ {"SETLKW"} \in SUBSET Waiting
       /\ PipeOps \in SUBSET Waiting
  BY Zenon DEF Waiting, PipeOps
<1>12. Susp(t)
  <2> DEFINE H == Hang(s, PipeOps)
             K == Hang(t, PipeOps)
  <2>1. H \in SUBSET Procs /\ p \notin H
    <3>1. s.call[p].op \notin PipeOps
      BY DEF NoCall, PipeOps
    <3>2. QED
      BY Zenon, <3>1, HangType DEF Hang
  <2>2. Cardinality(H) \in Nat /\ Cardinality(H \cup {p}) = Cardinality(H) + 1
    BY Zenon, <2>1 DEF Basics
  <2>3. /\ s.susp_count >= Cardinality(H) /\ s.signals <= conf.signals
        /\ s.signals = conf.signals => s.susp_count = Cardinality(H)
    BY Zenon, <1>1 DEF Susp
  <2>4. CASE c.op \in PipeOps
    <3>1. K = H \cup {p}
      BY Zenon, <1>10, <1>11, <2>4
    <3> HIDE DEF H, K
    <3>2. t.susp_count = s.susp_count + 1
      BY Zenon, <1>5, <2>4
    <3>3. Cardinality(K) = Cardinality(H) + 1
      BY Zenon, <2>2, <3>1
    <3>4. t.susp_count >= Cardinality(K) /\ (s.susp_count = Cardinality(H) => t.susp_count = Cardinality(K))
      BY <1>2, <2>2, <2>3, <3>2, <3>3
    <3>5. QED
      BY Zenon, <1>6, <2>3, <3>4 DEF Susp, K
  <2>5. CASE c.op \notin PipeOps
    <3>1. K = H
      BY Zenon, <1>10, <1>11, <2>5
    <3>2. t.susp_count = s.susp_count
      BY Zenon, <1>5, <2>5
    <3>3. QED
      BY Zenon, <1>6, <2>3, <3>1, <3>2 DEF Susp
  <2>6. QED
    BY Zenon, <2>4, <2>5
<1>13. Ends(t)
  <2>1. t.rd \subseteq t.alive /\ t.wr \subseteq t.alive /\ t.file \subseteq t.alive
    BY Zenon, <1>1, <1>6 DEF Ends
  <2>2. \A e : \A q : MayCall(t, q, e) <=> MayCall(s, q, e)
    BY Zenon, <1>6 DEF MayCall
  <2>3. ASSUME NEW q \in Procs, t.call[q] # NoCall
        PROVE  t.call[q].op \in Waiting /\ MayCall(t, q, t.call[q])
    <3>1. CASE q = p
      BY Zenon, <1>7, <2>2, <3>1
    <3>2. CASE q # p
      BY Zenon, <1>1, <1>7, <2>2, <2>3, <3>2 DEF Ends
    <3>3. QED
      BY Zenon, <3>1, <3>2
  <2>4. QED
    BY Zenon, <2>1, <2>3 DEF Ends
<1>14. Pos(t) /\ Excluding(t.locks)
  BY Zenon, <1>1, <1>6 DEF Pos
<1>15. Hangs(t)
  <2>1. Hang(t, {"READ"}) # {} => t.size = 0 /\ t.wr # {}
    BY Zenon, <1>1, <1>6, <1>10, <1>11 DEF Hangs
  <2>2. Hang(t, {"WRITE"}) # {} => t.rd # {}
    BY Zenon, <1>1, <1>6, <1>10, <1>11 DEF Hangs
  <2>3. QED
    BY Zenon, <2>1, <2>2 DEF Hangs
<1>16. Kept(t)
  <2>1. ASSUME ~s.refused, NEW q \in Hang(t, {"SETLKW"})
        PROVE  \E i \in 1 .. NR_LOCKS : Conflict(s.locks[i], q, t.call[q])
    <3>1. q \in Procs /\ t.call[q].op = "SETLKW"
      BY Zenon, <2>1 DEF Hang
    <3>2. CASE q = p
      BY Zenon, <1>7, <3>1, <3>2
    <3>3. CASE q # p
      <4>1. q \in Hang(s, {"SETLKW"}) /\ t.call[q] = s.call[q]
        BY Zenon, <1>7, <1>10, <1>11, <2>1, <3>1, <3>3
      <4>2. QED
        BY Zenon, <1>1, <2>1, <4>1 DEF Kept
    <3>4. QED
      BY Zenon, <3>2, <3>3
  <2>2. QED
    BY Zenon, <1>6, <2>1 DEF Kept
<1>17. c.op \in PipeOps => t.susp_count > 0
  BY Zenon, <1>3, <1>5
<1>18. QED
  BY Zenon, <1>5, <1>6, <1>9, <1>10, <1>12, <1>13, <1>14, <1>15, <1>16, <1>17 DEF Core, Suspended, t

(* Bytes that move change nothing but positions and what was moved.        *)
LEMMA MoveKeeps ==
  ASSUME NEW s, Core(s), NEW t \in State, Pos(t), Hang(s, {"READ"}) = {} \/ t.size = s.size,
         t.rd = s.rd, t.wr = s.wr, t.file = s.file, t.alive = s.alive,
         t.call = s.call, t.revived = s.revived, t.reviving = s.reviving,
         t.susp_count = s.susp_count, t.locks = s.locks, t.signals = s.signals,
         t.refused = s.refused
  PROVE  Core(t) /\ \A ops : Hang(t, ops) = Hang(s, ops)
<1>1. Marked(s) /\ Susp(s) /\ Ends(s) /\ Hangs(s) /\ Excluding(s.locks) /\ Kept(s)
  BY Zenon DEF Core
<1>2. \A ops : Hang(t, ops) = Hang(s, ops)
  BY Zenon, HangSame
<1>3. Marked(t)
  BY Zenon, <1>1 DEF Marked
<1>4. Susp(t)
  BY Zenon, <1>1, <1>2 DEF Susp
<1>5. Ends(t)
  BY Zenon, <1>1 DEF Ends, MayCall
<1>6. Hangs(t)
  BY Zenon, <1>1, <1>2 DEF Hangs
<1>7. Kept(t)
  BY Zenon, <1>1, <1>2 DEF Kept
<1>8. QED
  BY Zenon, <1>1, <1>2, <1>3, <1>4, <1>5, <1>6, <1>7 DEF Core

-----------------------------------------------------------------------------
(* A call of p is run in the state s, in which p is in no call.            *)
Pre(s, p, c) ==
  /\ Core(s) /\ NotBoth(s) /\ p \in Procs /\ s.call[p] = NoCall
  /\ c \in Calls /\ MayCall(s, p, c) /\ MovedFor(s, p, c)

Others(s, p, t) ==
  /\ t.broken = s.broken
  /\ \A q \in Procs \ {p} :
       t.call[q] = s.call[q] /\ t.moved[q] = s.moved[q] /\ t.cum[q] = s.cum[q]

(* It waits with the rest of its bytes, or is answered with what it moved. *)
Done(s, p, r) ==
  /\ Core(r.s) /\ NotBoth(r.s) /\ Others(s, p, r.s)
  /\ r.ret = WAIT => MovedFor(r.s, p, r.s.call[p])
  /\ r.ret # WAIT => /\ r.s.call[p] = NoCall
                     /\ r.ret < 0 \/ p \in s.broken \/ r.ret = r.s.moved[p]

LEMMA AnswerFields ==
  ASSUME NEW s, NEW ret PROVE Answer(s, ret).s = s /\ Answer(s, ret).ret = ret
BY Zenon DEF Answer

LEMMA PreFacts ==
  ASSUME NEW s, NEW p, NEW c, Pre(s, p, c)
  PROVE  /\ s \in State /\ Marked(s) /\ Susp(s) /\ Ends(s) /\ Pos(s) /\ Hangs(s)
         /\ Excluding(s.locks) /\ Kept(s)
         /\ s.moved[p] \in Nat /\ s.cum[p] \in Nat /\ s.moved[p] <= MaxBytes
         /\ s.size \in Nat /\ s.rpos \in Nat /\ s.wpos \in Nat
         /\ s.size <= PIPE_SIZE /\ s.rpos <= PIPE_SIZE /\ s.wpos <= PIPE_SIZE
<1>1. /\ s \in State /\ Marked(s) /\ Susp(s) /\ Ends(s) /\ Pos(s) /\ Hangs(s)
      /\ Excluding(s.locks) /\ Kept(s) /\ p \in Procs
  BY Zenon DEF Pre, Core
<1>2. /\ s.moved[p] \in 0 .. MaxBytes /\ s.cum[p] \in Nat
      /\ s.size \in 0 .. PIPE_SIZE /\ s.rpos \in 0 .. PIPE_SIZE /\ s.wpos \in 0 .. PIPE_SIZE
  BY Zenon, <1>1 DEF State
<1>3. \A a \in Nat : \A b \in 0 .. a : b \in Nat /\ b <= a
  OBVIOUS
<1>4. QED
  BY Zenon, <1>1, <1>2, <1>3, Consts

(* An error, or a count of nothing, changes nothing.                       *)
LEMMA AnswerDone ==
  ASSUME NEW s, NEW p, NEW c, Pre(s, p, c), NEW ret \in Int, ret # WAIT,
         ret < 0 \/ (ret = 0 /\ c.op # "WRITE")
  PROVE  Done(s, p, Answer(s, ret))
<1>1. Others(s, p, s)
  BY Zenon DEF Others
<1>2. ret = 0 /\ c.op # "WRITE" => ret = s.moved[p]
  BY Zenon DEF Pre, MovedFor
<1>3. Core(s) /\ NotBoth(s) /\ s.call[p] = NoCall
  BY Zenon DEF Pre
<1> DEFINE r == Answer(s, ret)
<1>4. r.s = s /\ r.ret = ret
  BY Zenon, AnswerFields
<1> HIDE DEF r
<1>5. Done(s, p, r)
  BY Zenon, <1>1, <1>2, <1>3, <1>4 DEF Done
<1>6. QED
  BY Zenon, <1>5 DEF r

(* p waits, in a state that differs from s in what its call has done.      *)
LEMMA WaitDone ==
  ASSUME Basics, NEW s, NEW p \in Procs, NEW u, Core(u), NotBoth(u), u.call[p] = NoCall, Others(s, p, u),
         NEW c \in Calls, c.op \in {"WRITE", "SETLKW"}, MayCall(u, p, c), MovedFor(u, p, c),
         c.op = "WRITE" => u.rd # {} /\ Hang(u, {"READ"}) = {},
         c.op = "SETLKW" => \E i \in 1 .. NR_LOCKS : Conflict(u.locks[i], p, c)
  PROVE  Done(s, p, Wait(u, p, c))
<1> DEFINE t == suspend(u, p, c)
<1>1. c.op \in Waiting /\ c.op # "READ"
  BY DEF Waiting
<1>2. /\ Core(t) /\ t.call = [u.call EXCEPT ![p] = c]
      /\ t.cum = u.cum /\ t.moved = u.moved /\ t.broken = u.broken
      /\ \A ops \in SUBSET Waiting :
           Hang(t, ops) = IF c.op \in ops THEN Hang(u, ops) \cup {p} ELSE Hang(u, ops)
  <2>1. Reason(u, p, c)
    BY Zenon, <1>1 DEF Reason
  <2>2. Core(t) /\ Suspended(u, p, c, t)
    BY Zenon, <2>1, SuspendFacts
  <2> HIDE DEF t
  <2>3. QED
    BY Zenon, <2>2 DEF Suspended
<1>3. Wait(u, p, c).s = t /\ Wait(u, p, c).ret = WAIT
  BY Zenon, AnswerFields DEF Wait
<1>4. u.call \in [Procs -> Calls \cup {NoCall}]
  BY Zenon DEF Core, State
<1> HIDE DEF t
<1>5. t.call[p] = c /\ \A q \in Procs \ {p} : t.call[q] = u.call[q]
  BY Zenon, <1>2, <1>4
<1>6. Others(s, p, t)
  BY Zenon, <1>2, <1>5 DEF Others
<1>7. MovedFor(t, p, t.call[p])
  BY Zenon, <1>2, <1>5 DEF MovedFor
<1>8. {"READ"} \in SUBSET Waiting /\ {"WRITE"} \in SUBSET Waiting /\ "SETLKW" \notin {"WRITE"}
  BY DEF Waiting
<1>9. NotBoth(t)
  <2>1. Hang(t, {"READ"}) = Hang(u, {"READ"})
    BY Zenon, <1>1, <1>2, <1>8
  <2>2. CASE c.op = "WRITE"
    BY Zenon, <2>1, <2>2 DEF NotBoth
  <2>3. CASE c.op = "SETLKW"
    <3>1. Hang(t, {"WRITE"}) = Hang(u, {"WRITE"})
      BY Zenon, <1>2, <1>8, <2>3
    <3>2. QED
      BY Zenon, <2>1, <3>1 DEF NotBoth
  <2>4. QED
    BY Zenon, <2>2, <2>3
<1>10. QED
  BY Zenon, <1>2, <1>3, <1>6, <1>7, <1>9 DEF Done

-----------------------------------------------------------------------------
(* Reads of the pipe.                                                      *)
LEMMA ReadEmptyDone ==
  ASSUME Basics, NEW s, NEW p, NEW c, Pre(s, p, c), c.op = "READ", s.rpos >= s.size
  PROVE  Done(s, p, ReadEmpty(s, p, c))
<1> DEFINE w == IF "READ" \in conf.nonblock THEN Answer(s, EAGAIN) ELSE Wait(s, p, c)
<1>1. /\ s \in State /\ Pos(s) /\ p \in Procs /\ s.size \in Nat /\ s.rpos \in Nat /\ c \in Calls
      /\ MovedFor(s, p, c) /\ NotBoth(s) /\ Core(s) /\ s.call[p] = NoCall /\ MayCall(s, p, c)
  BY Zenon, PreFacts DEF Pre
<1>2. s.size = 0
  <2>1. s.rpos <= s.size /\ (s.rpos = s.size => s.size = 0)
    BY Zenon, <1>1 DEF Pos
  <2>2. QED
    BY <1>1, <2>1
<1>3. ReadEmpty(s, p, c) = IF s.wr = {} THEN Answer(s, 0)
                           ELSE IF w.s.susp_count > 0
                             THEN [w EXCEPT !.s = release(w.s, "WRITE", w.s.susp_count)] ELSE w
  BY Zenon DEF ReadEmpty
<1>4. CASE s.wr = {}
  <2>1. 0 \in Int /\ 0 # WAIT /\ c.op # "WRITE"
    BY DEF WAIT
  <2>2. QED
    BY Zenon, <1>3, <1>4, <2>1, AnswerDone
<1>5. ASSUME s.wr # {}, "READ" \notin conf.nonblock
      PROVE  /\ Core(w.s) /\ Others(s, p, w.s) /\ w.s.susp_count > 0 /\ w.ret = WAIT
             /\ w = [s |-> w.s, ret |-> WAIT] /\ w.s.call[p] = c /\ w.s.moved = s.moved
             /\ w.s.cum = s.cum /\ w.s.broken = s.broken
  <2>1. w = Answer(suspend(s, p, c), WAIT)
    BY Zenon, <1>5 DEF Wait
  <2> DEFINE t == suspend(s, p, c)
  <2>2. c.op \in Waiting /\ c.op # "WRITE" /\ c.op # "SETLKW" /\ c.op \in PipeOps
    BY DEF Waiting, PipeOps
  <2>3. /\ Core(t) /\ t.call = [s.call EXCEPT ![p] = c]
        /\ t.cum = s.cum /\ t.moved = s.moved /\ t.broken = s.broken /\ t.susp_count > 0
    <3>1. Reason(s, p, c)
      BY Zenon, <1>1, <1>2, <1>5, <2>2 DEF Reason
    <3>2. Core(t) /\ Suspended(s, p, c, t)
      BY Zenon, <1>1, <3>1, SuspendFacts
    <3> HIDE DEF t
    <3>3. QED
      BY Zenon, <2>2, <3>2 DEF Suspended
  <2> HIDE DEF t
  <2>4. s.call \in [Procs -> Calls \cup {NoCall}]
    BY Zenon, <1>1 DEF State
  <2>5. t.call[p] = c /\ \A q \in Procs \ {p} : t.call[q] = s.call[q]
    BY Zenon, <1>1, <2>3, <2>4
  <2> HIDE DEF w
  <2>6. w.s = t /\ w.ret = WAIT /\ w = [s |-> t, ret |-> WAIT]
    BY Zenon, <2>1 DEF Answer, t
  <2>7. Others(s, p, t)
    BY Zenon, <2>3, <2>5 DEF Others
  <2>8. QED
    BY Zenon, <2>3, <2>5, <2>6, <2>7
<1>6. ASSUME s.wr # {}, "READ" \in conf.nonblock
      PROVE  w.s = s /\ w.ret = EAGAIN /\ w = [s |-> s, ret |-> EAGAIN]
  BY Zenon, <1>6 DEF Answer
<1> HIDE DEF w
<1>7. ASSUME s.wr # {}, Core(w.s)
      PROVE  LET t == release(w.s, "WRITE", w.s.susp_count)
             IN  Core(t) /\ Same(w.s, t) /\ Hang(t, {"WRITE"}) = {} /\ NotBoth(t)
  <2>1. w.s \in State /\ Susp(w.s) /\ "WRITE" \in PipeOps
    BY Zenon, <1>7 DEF Core, PipeOps
  <2>2. w.s.susp_count \in Nat /\ w.s.susp_count >= Cardinality(Hang(w.s, {"WRITE"}))
    BY Zenon, <2>1, EnoughSusp
  <2>3. QED
    BY Zenon, <1>7, <2>1, <2>2, ReleaseFacts DEF NotBoth
<1>8. CASE s.wr # {} /\ "READ" \notin conf.nonblock
  <2> DEFINE t == release(w.s, "WRITE", w.s.susp_count)
             r == ReadEmpty(s, p, c)
  <2>1. r = [w EXCEPT !.s = t]
    BY Zenon, <1>3, <1>5, <1>8
  <2>2. Core(t) /\ Same(w.s, t) /\ NotBoth(t)
    BY Zenon, <1>5, <1>7, <1>8
  <2> HIDE DEF t
  <2>3. r.s = t /\ r.ret = WAIT
    BY Zenon, <1>5, <1>8, <2>1
  <2>4. Others(s, p, t)
    BY Zenon, <1>5, <1>8, <2>2 DEF Others, Same
  <2>5. MovedFor(t, p, t.call[p])
    BY Zenon, <1>1, <1>5, <1>8, <2>2 DEF MovedFor, Same
  <2> HIDE DEF r
  <2>6. Done(s, p, r)
    BY Zenon, <2>2, <2>3, <2>4, <2>5 DEF Done
  <2>7. QED
    BY Zenon, <2>6 DEF r
<1>9. CASE s.wr # {} /\ "READ" \in conf.nonblock
  <2> DEFINE t == release(w.s, "WRITE", w.s.susp_count)
             r == ReadEmpty(s, p, c)
  <2>1. EAGAIN \in Int /\ EAGAIN # WAIT /\ EAGAIN < 0
    BY DEF EAGAIN, WAIT
  <2>2. CASE w.s.susp_count > 0
    <3>1. r = [w EXCEPT !.s = t]
      BY Zenon, <1>3, <1>9, <2>2
    <3>2. Core(t) /\ Same(s, t) /\ NotBoth(t)
      BY Zenon, <1>1, <1>6, <1>7, <1>9
    <3> HIDE DEF t
    <3>3. r.s = t /\ r.ret = EAGAIN
      BY Zenon, <1>6, <1>9, <3>1
    <3>4. Others(s, p, t) /\ t.call[p] = NoCall
      BY Zenon, <1>1, <3>2 DEF Others, Same
    <3> HIDE DEF r
    <3>5. Done(s, p, r)
      BY Zenon, <2>1, <3>2, <3>3, <3>4 DEF Done
    <3>6. QED
      BY Zenon, <3>5 DEF r
  <2>3. CASE ~(w.s.susp_count > 0)
    <3>1. r = Answer(s, EAGAIN)
      BY Zenon, <1>3, <1>6, <1>9, <2>3 DEF Answer
    <3>2. QED
      BY Zenon, <2>1, <3>1, AnswerDone
  <2>4. QED
    BY Zenon, <2>2, <2>3
<1>10. QED
  BY Zenon, <1>4, <1>8, <1>9

LEMMA ReadSomeDone ==
  ASSUME NEW s, NEW p, NEW c, Pre(s, p, c), c.op = "READ", ~(s.rpos >= s.size)
  PROVE  Done(s, p, ReadSome(s, p, c))
<1> DEFINE n == Min2(c.n, s.size - s.rpos)
           e == s.rpos + n >= s.size
           size == IF e THEN 0 ELSE s.size
           rpos == IF e THEN 0 ELSE s.rpos + n
           wpos == IF e /\ s.wr # {} THEN 0 ELSE s.wpos
           moved == [s.moved EXCEPT ![p] = @ + n]
           cum == [s.cum EXCEPT ![p] = 0]
           t == [s EXCEPT !.rpos = @ + n, !.moved[p] = @ + n, !.cum[p] = 0]
           u == IF t.rpos < t.size THEN t
                ELSE [t EXCEPT !.size = 0, !.rpos = 0, !.wpos = IF s.wr # {} THEN 0 ELSE @]
<1>1. /\ s \in State /\ Core(s) /\ NotBoth(s) /\ Pos(s) /\ Hangs(s) /\ p \in Procs /\ c \in Calls
      /\ s.call[p] = NoCall /\ MovedFor(s, p, c)
      /\ s.size \in Nat /\ s.rpos \in Nat /\ s.wpos \in Nat /\ s.moved[p] \in Nat /\ s.cum[p] \in Nat
      /\ s.size <= PIPE_SIZE /\ s.rpos <= PIPE_SIZE /\ s.wpos <= PIPE_SIZE
  BY Zenon, PreFacts DEF Pre
<1>2. c.n \in Nat /\ c.n <= MaxBytes /\ c.n > 0
  <2>1. c.n \in 1 .. MaxBytes
    BY Zenon, <1>1, CallFacts DEF PipeOps
  <2>2. QED
    BY <2>1, Consts
<1>3. n \in Nat /\ n > 0 /\ n <= c.n /\ s.rpos + n <= s.size
  BY <1>1, <1>2 DEF Min2
<1>4. s.moved[p] = 0
  <2>1. c.op # "WRITE"
    OBVIOUS
  <2>2. QED
    BY Zenon, <1>1, <2>1 DEF MovedFor
<1>5. ReadSome(s, p, c) = Answer(u, s.cum[p] + n)
  BY Zenon DEF ReadSome
<1> HIDE DEF n
<1>6. s.moved[p] + n \in 0 .. MaxBytes /\ s.moved[p] + n = n /\ s.rpos + n \in 0 .. PIPE_SIZE
      /\ 0 \in 0 .. PIPE_SIZE /\ s.cum[p] + n \in Nat
  <2>1. \A a, b, d, e1, g \in Nat : \A k \in Nat :
          k <= a /\ a <= b /\ d + k <= e1 /\ e1 <= g
            => 0 + k \in 0 .. b /\ 0 + k = k /\ d + k \in 0 .. g /\ 0 \in 0 .. g
    OBVIOUS
  <2>2. \A a, b \in Nat : a + b \in Nat
    OBVIOUS
  <2>3. 0 + n \in 0 .. MaxBytes /\ 0 + n = n /\ s.rpos + n \in 0 .. PIPE_SIZE /\ 0 \in 0 .. PIPE_SIZE
    BY Zenon, <1>1, <1>2, <1>3, <2>1, Consts
  <2>4. s.cum[p] + n \in Nat
    BY Zenon, <1>1, <1>3, <2>2
  <2>5. QED
    BY Zenon, <1>4, <2>3, <2>4
<1>7. s.moved \in [Procs -> 0 .. MaxBytes] /\ s.cum \in [Procs -> Nat] /\ s.wpos \in 0 .. PIPE_SIZE
      /\ s.size \in 0 .. PIPE_SIZE
  BY Zenon, <1>1 DEF State
<1>8. /\ moved \in [Procs -> 0 .. MaxBytes] /\ cum \in [Procs -> Nat]
      /\ moved[p] = n /\ cum[p] = 0
      /\ \A q \in Procs \ {p} : moved[q] = s.moved[q] /\ cum[q] = s.cum[q]
  <2>1. 0 \in Nat
    OBVIOUS
  <2>2. QED
    BY Zenon, <1>1, <1>6, <1>7, <2>1
<1>9. t = [s EXCEPT !.rpos = s.rpos + n, !.moved = moved, !.cum = cum]
  BY Zenon, <1>1 DEF State
<1> HIDE DEF moved, cum
<1>10. t \in State /\ t.rpos = s.rpos + n /\ t.size = s.size /\ t.wpos = s.wpos
  BY Zenon, <1>1, <1>6, <1>8, <1>9 DEF State
<1>11. /\ t.rd = s.rd /\ t.wr = s.wr /\ t.file = s.file /\ t.alive = s.alive
       /\ t.call = s.call /\ t.revived = s.revived /\ t.reviving = s.reviving
       /\ t.susp_count = s.susp_count /\ t.locks = s.locks /\ t.signals = s.signals
       /\ t.refused = s.refused /\ t.broken = s.broken /\ t.moved = moved /\ t.cum = cum
  BY Zenon, <1>1, <1>9 DEF State
<1>12. s.rpos + n < s.size <=> ~e
  BY <1>1, <1>3
<1> HIDE DEF t
<1>13. /\ u \in State /\ u.rpos = rpos /\ u.size = size /\ u.wpos = wpos
       /\ u.rd = s.rd /\ u.wr = s.wr /\ u.file = s.file /\ u.alive = s.alive
       /\ u.call = s.call /\ u.revived = s.revived /\ u.reviving = s.reviving
       /\ u.susp_count = s.susp_count /\ u.locks = s.locks /\ u.signals = s.signals
       /\ u.refused = s.refused /\ u.broken = s.broken /\ u.moved = moved /\ u.cum = cum
  <2>1. CASE e
    <3>1. u = [t EXCEPT !.size = 0, !.rpos = 0, !.wpos = wpos]
      BY Zenon, <1>10, <1>12, <2>1
    <3>2. wpos \in 0 .. PIPE_SIZE /\ rpos = 0 /\ size = 0
      BY Zenon, <1>6, <1>7, <2>1
    <3> HIDE DEF wpos, rpos, size, u, e
    <3>3. u \in State /\ u.rpos = 0 /\ u.size = 0 /\ u.wpos = wpos
      BY Zenon, <1>6, <1>10, <3>1, <3>2 DEF State
    <3>4. /\ u.rd = t.rd /\ u.wr = t.wr /\ u.file = t.file /\ u.alive = t.alive
          /\ u.call = t.call /\ u.revived = t.revived /\ u.reviving = t.reviving
          /\ u.susp_count = t.susp_count /\ u.locks = t.locks /\ u.signals = t.signals
          /\ u.refused = t.refused /\ u.broken = t.broken /\ u.moved = t.moved /\ u.cum = t.cum
      BY Zenon, <1>10, <3>1 DEF State
    <3>5. QED
      BY Zenon, <1>11, <3>2, <3>3, <3>4
  <2>2. CASE ~e
    BY Zenon, <1>10, <1>11, <1>12, <2>2
  <2>3. QED
    BY Zenon, <2>1, <2>2
<1>14. Hang(s, {"READ"}) = {}
  <2>1. s.size # 0
    BY <1>1
  <2>2. QED
    BY Zenon, <1>1, <2>1 DEF Hangs
<1> HIDE DEF u
<1>15. Pos(u)
  <2>1. s.wr # {} => s.wpos = s.size
    BY Zenon, <1>1 DEF Pos
  <2>2. rpos <= size /\ (rpos = size => size = 0)
    BY <1>1, <1>3
  <2>3. s.wr # {} => wpos = size
    BY Zenon, <2>1
  <2>4. QED
    BY Zenon, <1>13, <2>2, <2>3 DEF Pos
<1> HIDE DEF rpos, wpos, size, e
<1>16. Core(u) /\ \A ops : Hang(u, ops) = Hang(s, ops)
  BY Zenon, <1>1, <1>13, <1>14, <1>15, MoveKeeps
<1>17. NotBoth(u)
  BY Zenon, <1>14, <1>16 DEF NotBoth
<1>18. Others(s, p, u)
  BY Zenon, <1>8, <1>13 DEF Others
<1>19. p \in s.broken \/ s.cum[p] + n = u.moved[p]
  <2>1. p \notin s.broken => s.cum[p] = 0
    BY Zenon, <1>1, <1>4 DEF MovedFor
  <2>2. 0 + n = n
    BY <1>3
  <2>3. QED
    BY Zenon, <1>8, <1>13, <2>1, <2>2
<1>20. s.cum[p] + n # WAIT
  BY <1>6 DEF WAIT
<1> DEFINE r == ReadSome(s, p, c)
<1>21. r.s = u /\ r.ret = s.cum[p] + n
  BY <1>5 DEF Answer
<1> HIDE DEF r
<1>22. Done(s, p, r)
  BY Zenon, <1>1, <1>13, <1>16, <1>17, <1>18, <1>19, <1>20, <1>21 DEF Done
<1>23. QED
  BY Zenon, <1>22 DEF r

LEMMA ReadDone ==
  ASSUME Basics, NEW s, NEW p, NEW c, Pre(s, p, c), c.op = "READ"
  PROVE  Done(s, p, do_read(s, p, c))
BY Zenon, ReadEmptyDone, ReadSomeDone DEF do_read

-----------------------------------------------------------------------------
(* Writes to the pipe.                                                     *)
Filled(s, p, n, v, u) ==
  /\ u.call = s.call /\ u.rd = s.rd /\ u.wr = s.wr /\ u.broken = s.broken
  /\ u.moved[p] = s.moved[p] + n /\ u.cum[p] = v
  /\ \A q \in Procs \ {p} : u.moved[q] = s.moved[q] /\ u.cum[q] = s.cum[q]
  /\ \A ops : Hang(u, ops) = Hang(s, ops)

LEMMA FillFacts ==
  ASSUME NEW s, Core(s), NEW p \in Procs, NEW n \in Nat, n > 0, NEW v \in Nat,
         s.wr # {}, s.wpos + n <= PIPE_SIZE, s.moved[p] + n <= MaxBytes, Hang(s, {"READ"}) = {}
  PROVE  LET u == [Fill(s, p, n) EXCEPT !.cum[p] = v] IN Core(u) /\ Filled(s, p, n, v, u)
<1> DEFINE t == Fill(s, p, n)
           u == [t EXCEPT !.cum[p] = v]
           moved == [s.moved EXCEPT ![p] = @ + n]
           cum == [s.cum EXCEPT ![p] = v]
           w == s.wpos + n
<1>1. s \in State /\ Pos(s)
  BY Zenon DEF Core
<1>2. /\ s.moved \in [Procs -> 0 .. MaxBytes] /\ s.cum \in [Procs -> Nat]
      /\ s.wpos \in 0 .. PIPE_SIZE /\ s.size \in 0 .. PIPE_SIZE /\ s.rpos \in 0 .. PIPE_SIZE
      /\ s.moved[p] \in 0 .. MaxBytes
  BY Zenon, <1>1 DEF State
<1>3. s.wpos = s.size /\ s.rpos <= s.size
  BY Zenon, <1>1 DEF Pos
<1>4. w \in 0 .. PIPE_SIZE /\ w > s.size /\ s.rpos < w /\ s.rpos <= w /\ s.moved[p] + n \in 0 .. MaxBytes
  <2>1. \A a, k \in Nat : \A x, y, z \in 0 .. a :
          k > 0 /\ x = z /\ y <= z /\ x + k <= a
            => x + k \in 0 .. a /\ x + k > z /\ y < x + k /\ y <= x + k
    OBVIOUS
  <2>2. \A b, k \in Nat : \A m \in 0 .. b : m + k <= b => m + k \in 0 .. b
    OBVIOUS
  <2>3. w \in 0 .. PIPE_SIZE /\ w > s.size /\ s.rpos < w /\ s.rpos <= w
    BY Zenon, <1>2, <1>3, <2>1, Consts
  <2>4. s.moved[p] + n \in 0 .. MaxBytes
    BY Zenon, <1>2, <2>2, Consts
  <2>5. QED
    BY Zenon, <2>3, <2>4
<1>5. moved \in [Procs -> 0 .. MaxBytes] /\ cum \in [Procs -> Nat]
      /\ moved[p] = s.moved[p] + n /\ cum[p] = v
      /\ \A q \in Procs \ {p} : moved[q] = s.moved[q] /\ cum[q] = s.cum[q]
  BY Zenon, <1>2, <1>4
<1>6. t = [s EXCEPT !.wpos = w, !.moved = moved, !.size = w]
  BY Zenon, <1>1, <1>4 DEF State, Fill
<1> HIDE DEF t, w, moved
<1>7. t \in State /\ t.cum = s.cum
  BY Zenon, <1>1, <1>4, <1>5, <1>6 DEF State
<1>8. /\ t.rd = s.rd /\ t.wr = s.wr /\ t.file = s.file /\ t.alive = s.alive
      /\ t.call = s.call /\ t.revived = s.revived /\ t.reviving = s.reviving
      /\ t.susp_count = s.susp_count /\ t.locks = s.locks /\ t.signals = s.signals
      /\ t.refused = s.refused /\ t.broken = s.broken /\ t.moved = moved
      /\ t.size = w /\ t.rpos = s.rpos /\ t.wpos = w
  BY Zenon, <1>1, <1>6 DEF State
<1>9. u = [t EXCEPT !.cum = cum]
  BY Zenon, <1>7 DEF State
<1> HIDE DEF u, cum
<1>10. u \in State /\ u.cum = cum
  BY Zenon, <1>5, <1>7, <1>9 DEF State
<1>11. /\ u.rd = t.rd /\ u.wr = t.wr /\ u.file = t.file /\ u.alive = t.alive
       /\ u.call = t.call /\ u.revived = t.revived /\ u.reviving = t.reviving
       /\ u.susp_count = t.susp_count /\ u.locks = t.locks /\ u.signals = t.signals
       /\ u.refused = t.refused /\ u.broken = t.broken /\ u.moved = t.moved
       /\ u.size = t.size /\ u.rpos = t.rpos /\ u.wpos = t.wpos
  BY Zenon, <1>7, <1>9 DEF State
<1>12. Pos(u)
  <2>1. s.rpos # w
    BY <1>2, <1>4
  <2>2. QED
    BY Zenon, <1>4, <1>8, <1>11, <2>1 DEF Pos
<1>13. Core(u) /\ \A ops : Hang(u, ops) = Hang(s, ops)
  <2>1. /\ u.rd = s.rd /\ u.wr = s.wr /\ u.file = s.file /\ u.alive = s.alive
        /\ u.call = s.call /\ u.revived = s.revived /\ u.reviving = s.reviving
        /\ u.susp_count = s.susp_count /\ u.locks = s.locks /\ u.signals = s.signals
        /\ u.refused = s.refused
    BY Zenon, <1>8, <1>11
  <2>2. QED
    BY Zenon, <1>10, <1>12, <2>1, MoveKeeps
<1>14. Filled(s, p, n, v, u)
  BY Zenon, <1>5, <1>8, <1>10, <1>11, <1>13 DEF Filled
<1>15. QED
  BY Zenon, <1>13, <1>14 DEF u, t

(* Readers that hang go on before something is written.                    *)
LEMMA ReleaseReaders ==
  ASSUME Basics, NEW s, Core(s)
  PROVE  LET t == release(s, "READ", s.susp_count)
         IN  Core(t) /\ Same(s, t) /\ Hang(t, {"READ"}) = {}
<1>1. s \in State /\ Susp(s) /\ "READ" \in PipeOps
  BY Zenon DEF Core, PipeOps
<1>2. s.susp_count \in Nat /\ s.susp_count >= Cardinality(Hang(s, {"READ"}))
  BY Zenon, <1>1, EnoughSusp
<1>3. QED
  BY Zenon, <1>1, <1>2, ReleaseFacts

LEMMA NoReaders ==
  ASSUME NEW s, Core(s), s.wr # {}, s.wpos # 0
  PROVE  Hang(s, {"READ"}) = {}
<1>1. s.wpos = s.size /\ Hangs(s)
  BY Zenon DEF Core, Pos
<1>2. QED
  BY Zenon, <1>1 DEF Hangs

(* A write that is over has moved what it is answered with.                *)
LEMMA FilledDone ==
  ASSUME NEW s, NEW p, NEW c, Pre(s, p, c), NEW t, Core(t), Same(s, t), Hang(t, {"READ"}) = {},
         NEW n \in Nat, NEW u, Core(u), Filled(t, p, n, 0, u)
  PROVE  Done(s, p, Answer(u, s.cum[p] + n))
<1>1. /\ s.cum[p] \in Nat /\ MovedFor(s, p, c) /\ s.call[p] = NoCall
  BY Zenon, PreFacts DEF Pre
<1>2. s.cum[p] + n # WAIT
  BY <1>1 DEF WAIT
<1>3. Others(s, p, u) /\ u.call[p] = NoCall /\ NotBoth(u)
  BY Zenon, <1>1 DEF Others, Filled, Same, NotBoth
<1>4. p \in s.broken \/ s.cum[p] + n = u.moved[p]
  BY Zenon, <1>1 DEF MovedFor, Filled, Same
<1> DEFINE r == Answer(u, s.cum[p] + n)
<1>5. r.s = u /\ r.ret = s.cum[p] + n
  BY Zenon, AnswerFields
<1> HIDE DEF r
<1>6. Done(s, p, r)
  BY Zenon, <1>2, <1>3, <1>4, <1>5 DEF Done
<1>7. QED
  BY Zenon, <1>6 DEF r

LEMMA WriteFacts ==
  ASSUME NEW s, NEW p, NEW c, Pre(s, p, c), c.op = "WRITE"
  PROVE  /\ Core(s) /\ p \in Procs /\ c \in Calls /\ s.call[p] = NoCall /\ p \in s.wr /\ s.wr # {}
         /\ c.n \in Nat /\ c.n > 0 /\ c.n <= MaxBytes /\ s.wpos \in Nat /\ s.wpos <= PIPE_SIZE
         /\ s.moved[p] \in Nat /\ s.cum[p] \in Nat /\ s.moved[p] + c.n <= MaxBytes
         /\ p \notin s.broken => s.cum[p] = s.moved[p]
<1>1. /\ Core(s) /\ p \in Procs /\ c \in Calls /\ s.call[p] = NoCall
      /\ MayCall(s, p, c) /\ MovedFor(s, p, c)
  BY Zenon DEF Pre
<1>2. p \in s.wr
  <2>1. c.op # "READ"
    OBVIOUS
  <2>2. QED
    BY Zenon, <1>1, <2>1 DEF MayCall
<1>3. c.n \in 1 .. MaxBytes
  BY Zenon, <1>1, CallFacts DEF PipeOps
<1>4. c.n \in Nat /\ c.n > 0 /\ c.n <= MaxBytes
  BY <1>3, Consts
<1>5. QED
  BY Zenon, <1>1, <1>2, <1>4, PreFacts DEF MovedFor

LEMMA WriteAllDone ==
  ASSUME Basics, NEW s, NEW p, NEW c, Pre(s, p, c), c.op = "WRITE", s.wpos + c.n <= PIPE_SIZE
  PROVE  Done(s, p, WriteAll(s, p, c))
<1> DEFINE t == IF s.wpos = 0 THEN release(s, "READ", s.susp_count) ELSE s
           u == [Fill(t, p, c.n) EXCEPT !.cum[p] = 0]
<1>1. /\ Core(s) /\ p \in Procs /\ s.wr # {} /\ c.n \in Nat /\ c.n > 0 /\ s.moved[p] + c.n <= MaxBytes
  BY Zenon, WriteFacts
<1>2. Core(t) /\ Same(s, t) /\ Hang(t, {"READ"}) = {}
  <2>1. CASE s.wpos = 0
    BY Zenon, <1>1, <2>1, ReleaseReaders
  <2>2. CASE s.wpos # 0
    BY Zenon, <1>1, <2>2, NoReaders DEF Same
  <2>3. QED
    BY Zenon, <2>1, <2>2
<1>3. WriteAll(s, p, c) = Answer(u, s.cum[p] + c.n)
  BY Zenon DEF WriteAll
<1> HIDE DEF t
<1>4. t.wr = s.wr /\ t.wpos = s.wpos /\ t.moved = s.moved
  BY Zenon, <1>2 DEF Same
<1>5. 0 \in Nat
  OBVIOUS
<1>6. Core(u) /\ Filled(t, p, c.n, 0, u)
  BY Zenon, <1>1, <1>2, <1>4, <1>5, FillFacts
<1> HIDE DEF u
<1>7. QED
  BY Zenon, <1>1, <1>2, <1>3, <1>6, FilledDone

LEMMA WritePartDone ==
  ASSUME Basics, NEW s, NEW p, NEW c, Pre(s, p, c), c.op = "WRITE", s.rd # {},
         c.n > PIPE_SIZE, s.wpos < PIPE_SIZE
  PROVE  Done(s, p, WritePart(s, p, c))
<1> DEFINE can == PIPE_SIZE - s.wpos
           t == release(s, "READ", s.susp_count)
           u(v) == [Fill(t, p, can) EXCEPT !.cum[p] = v]
           d == [c EXCEPT !.n = @ - can]
<1>1. /\ Core(s) /\ p \in Procs /\ s.wr # {} /\ c.n \in Nat /\ c.n > 0 /\ s.moved[p] + c.n <= MaxBytes
      /\ c.n <= MaxBytes /\ c \in Calls /\ s.call[p] = NoCall /\ p \in s.wr
      /\ s.wpos \in Nat /\ s.wpos <= PIPE_SIZE /\ s.moved[p] \in Nat /\ s.cum[p] \in Nat
      /\ p \notin s.broken => s.cum[p] = s.moved[p]
  BY Zenon, WriteFacts
<1>2. Core(t) /\ Same(s, t) /\ Hang(t, {"READ"}) = {}
  BY Zenon, <1>1, ReleaseReaders
<1>3. /\ can \in Nat /\ can > 0 /\ s.wpos + can <= PIPE_SIZE /\ s.moved[p] + can <= MaxBytes
      /\ c.n - can \in 1 .. MaxBytes /\ (s.moved[p] + can) + (c.n - can) <= MaxBytes
      /\ s.cum[p] + can \in Nat
  <2>1. \A P, w, n, m, M, k \in Nat :
          w < P /\ n > P /\ m + n <= M /\ n <= M
            => LET a == P - w
               IN  /\ a \in Nat /\ a > 0 /\ w + a <= P /\ m + a <= M
                   /\ n - a \in 1 .. M /\ (m + a) + (n - a) <= M /\ k + a \in Nat
    OBVIOUS
  <2>2. QED
    BY Zenon, <1>1, <2>1, Consts
<1>4. t.wr = s.wr /\ t.rd = s.rd /\ t.wpos = s.wpos /\ t.moved = s.moved /\ t.cum = s.cum
      /\ t.call = s.call /\ t.broken = s.broken
  BY Zenon, <1>2 DEF Same
<1>5. Fill(t, p, can).cum[p] = s.cum[p]
  <2>1. t \in State
    BY Zenon, <1>2 DEF Core
  <2>2. Fill(t, p, can).cum = t.cum
    BY Zenon, <2>1 DEF State, Fill
  <2>3. QED
    BY Zenon, <1>4, <2>2
<1>6. d = [c EXCEPT !.n = c.n - can]
  BY Zenon
<1>7. d \in Calls /\ d.op = "WRITE" /\ d.n = c.n - can
  BY Zenon, <1>1, <1>3, <1>6, RestCall
<1>8. WritePart(s, p, c) =
        IF "WRITE" \in conf.nonblock THEN Answer(u(0), s.cum[p] + can)
        ELSE Wait(u(s.cum[p] + can), p, d)
  BY Zenon, <1>5 DEF WritePart
<1> HIDE DEF t, can, d
<1>9. ASSUME NEW v \in Nat PROVE Core(u(v)) /\ Filled(t, p, can, v, u(v))
  BY Zenon, <1>1, <1>2, <1>3, <1>4, FillFacts
<1> HIDE DEF u
<1>10. CASE "WRITE" \in conf.nonblock
  <2>1. 0 \in Nat
    OBVIOUS
  <2>2. Core(u(0)) /\ Filled(t, p, can, 0, u(0))
    BY Zenon, <1>9, <2>1
  <2>3. QED
    BY Zenon, <1>2, <1>3, <1>8, <1>10, <2>2, FilledDone
<1>11. CASE "WRITE" \notin conf.nonblock
  <2> DEFINE w == u(s.cum[p] + can)
  <2>1. Core(w) /\ Filled(t, p, can, s.cum[p] + can, w)
    BY Zenon, <1>3, <1>9
  <2> HIDE DEF w
  <2>2. w.call[p] = NoCall /\ w.rd # {} /\ Hang(w, {"READ"}) = {} /\ NotBoth(w) /\ Others(s, p, w)
        /\ w.wr = s.wr /\ w.moved[p] = s.moved[p] + can /\ w.cum[p] = s.cum[p] + can
        /\ w.broken = s.broken
    BY Zenon, <1>1, <1>2, <1>4, <2>1 DEF Filled, NotBoth, Others
  <2>3. MayCall(w, p, d)
    <3>1. d.op # "READ"
      BY <1>7
    <3>2. QED
      BY Zenon, <1>1, <1>7, <2>2, <3>1 DEF MayCall
  <2>4. MovedFor(w, p, d)
    BY Zenon, <1>1, <1>3, <1>7, <2>2 DEF MovedFor
  <2>5. d.op \in {"WRITE", "SETLKW"} /\ d.op # "SETLKW"
    BY <1>7
  <2>6. Done(s, p, Wait(w, p, d))
    BY Zenon, <1>1, <1>7, <2>1, <2>2, <2>3, <2>4, <2>5, WaitDone
  <2>7. QED
    BY Zenon, <1>8, <1>11, <2>6 DEF w
<1>12. QED
  BY Zenon, <1>10, <1>11

LEMMA WriteDone ==
  ASSUME Basics, NEW s, NEW p, NEW c, Pre(s, p, c), c.op = "WRITE"
  PROVE  Done(s, p, do_write(s, p, c))
<1>1. /\ Core(s) /\ p \in Procs /\ s.wr # {} /\ c.n \in Nat /\ c \in Calls /\ s.call[p] = NoCall
      /\ s.wpos \in Nat /\ s.wpos <= PIPE_SIZE
  BY Zenon, WriteFacts
<1>2. /\ EPIPE \in Int /\ EPIPE # WAIT /\ EPIPE < 0
      /\ EAGAIN \in Int /\ EAGAIN # WAIT /\ EAGAIN < 0
  BY DEF EPIPE, EAGAIN, WAIT
<1>3. CASE s.rd = {}
  <2>1. do_write(s, p, c) = Answer(s, EPIPE)
    BY Zenon, <1>3 DEF do_write
  <2>2. QED
    BY Zenon, <1>2, <2>1, AnswerDone
<1>4. CASE s.rd # {} /\ s.wpos + c.n <= PIPE_SIZE
  <2>1. do_write(s, p, c) = WriteAll(s, p, c)
    <3>1. ~(s.wpos + c.n > PIPE_SIZE)
      BY <1>1, <1>4, Consts
    <3>2. QED
      BY Zenon, <1>4, <3>1 DEF do_write
  <2>2. QED
    BY Zenon, <1>4, <2>1, WriteAllDone
<1>5. ASSUME s.rd # {}, ~(s.wpos + c.n <= PIPE_SIZE)
      PROVE  do_write(s, p, c) =
               CASE c.n > PIPE_SIZE /\ s.wpos < PIPE_SIZE -> WritePart(s, p, c)
                 [] ~(c.n > PIPE_SIZE /\ s.wpos < PIPE_SIZE) ->
                      IF "WRITE" \in conf.nonblock /\ c.n # PIPE_SIZE
                        THEN Answer(s, EAGAIN) ELSE Wait(s, p, c)
  <2>1. s.wpos + c.n > PIPE_SIZE
    BY <1>1, <1>5, Consts
  <2>2. QED
    BY Zenon, <1>5, <2>1 DEF do_write
<1>6. CASE s.rd # {} /\ ~(s.wpos + c.n <= PIPE_SIZE) /\ c.n > PIPE_SIZE /\ s.wpos < PIPE_SIZE
  <2>1. do_write(s, p, c) = WritePart(s, p, c)
    BY Zenon, <1>5, <1>6
  <2>2. QED
    BY Zenon, <1>6, <2>1, WritePartDone
<1>7. CASE s.rd # {} /\ ~(s.wpos + c.n <= PIPE_SIZE) /\ ~(c.n > PIPE_SIZE /\ s.wpos < PIPE_SIZE)
  <2>1. do_write(s, p, c) = IF "WRITE" \in conf.nonblock /\ c.n # PIPE_SIZE
                              THEN Answer(s, EAGAIN) ELSE Wait(s, p, c)
    BY Zenon, <1>5, <1>7
  <2>2. Hang(s, {"READ"}) = {}
    <3>1. s.wpos # 0
      BY <1>1, <1>7, Consts
    <3>2. QED
      BY Zenon, <1>1, <3>1, NoReaders
  <2>3. Others(s, p, s)
    BY Zenon DEF Others
  <2>4. c.op \in {"WRITE", "SETLKW"} /\ c.op # "SETLKW"
    OBVIOUS
  <2>5. Done(s, p, Wait(s, p, c))
    BY Zenon, <1>1, <1>7, <2>2, <2>3, <2>4, WaitDone DEF Pre
  <2>6. QED
    BY Zenon, <1>2, <2>1, <2>5, AnswerDone
<1>8. QED
  BY Zenon, <1>3, <1>4, <1>6, <1>7

-----------------------------------------------------------------------------
(* Locks.                                                                  *)
LockTables == [1 .. NR_LOCKS -> Locks \cup {NoLock}]

LEMMA LockFacts ==
  ASSUME NEW l \in Locks
  PROVE  /\ l # NoLock /\ l.type \in {"RDLCK", "WRLCK"} /\ l.pid \in Procs
         /\ l.first \in Nat /\ l.last \in Nat
<1>1. l.type \in {"RDLCK", "WRLCK"} /\ l.pid \in Procs /\ l.first \in Nat /\ l.last \in Nat
  BY Zenon DEF Locks
<1>2. NoLock.type = "NONE" /\ l.type # "NONE"
  BY <1>1 DEF NoLock
<1>3. QED
  BY Zenon, <1>1, <1>2

LEMMA FirstEmptyFacts ==
  ASSUME Basics, NEW a \in LockTables, Empty(a) # {}
  PROVE  FirstEmpty(a) \in 1 .. NR_LOCKS /\ a[FirstEmpty(a)] = NoLock
<1>1. Empty(a) \in SUBSET (1 .. NR_LOCKS) /\ \A i \in Empty(a) : a[i] = NoLock
  BY Zenon DEF Empty, LockTables
<1>2. 1 .. NR_LOCKS \in SUBSET Nat
  BY Consts
<1>3. Empty(a) \in SUBSET Nat
  BY Zenon, <1>1, <1>2
<1>4. \E m \in Empty(a) : \A n \in Empty(a) : m <= n
  BY Zenon, <1>3 DEF Basics
<1>5. FirstEmpty(a) \in Empty(a)
  BY Zenon, <1>4 DEF FirstEmpty
<1>6. QED
  BY Zenon, <1>1, <1>5

(* The state with other locks, and what it leaves alone.                   *)
WithLocks(s, a, b, t) == t = [s EXCEPT !.locks = a, !.refused = b]

Relocked(s, t) ==
  /\ t.rd = s.rd /\ t.wr = s.wr /\ t.file = s.file /\ t.alive = s.alive
  /\ t.call = s.call /\ t.cum = s.cum /\ t.moved = s.moved /\ t.broken = s.broken
  /\ t.signals = s.signals

LEMMA RelockFacts ==
  ASSUME NEW s, Core(s), NEW a, Excluding(a), NEW b, NEW t \in State, WithLocks(s, a, b, t)
  PROVE  /\ t \in State /\ Marked(t) /\ Susp(t) /\ Ends(t) /\ Pos(t) /\ Hangs(t)
         /\ Excluding(t.locks) /\ t.locks = a /\ Relocked(s, t)
         /\ \A ops : Hang(t, ops) = Hang(s, ops)
<1>1. s \in State /\ Marked(s) /\ Susp(s) /\ Ends(s) /\ Pos(s) /\ Hangs(s)
  BY Zenon DEF Core
<1>2. t.locks = a
  BY Zenon, <1>1 DEF State, WithLocks
<1>3. /\ t.rd = s.rd /\ t.wr = s.wr /\ t.file = s.file /\ t.alive = s.alive
      /\ t.call = s.call /\ t.revived = s.revived /\ t.reviving = s.reviving
      /\ t.susp_count = s.susp_count /\ t.signals = s.signals /\ t.broken = s.broken
      /\ t.moved = s.moved /\ t.cum = s.cum /\ t.size = s.size /\ t.rpos = s.rpos /\ t.wpos = s.wpos
  BY Zenon, <1>1 DEF State, WithLocks
<1>4. \A ops : Hang(t, ops) = Hang(s, ops)
  BY Zenon, <1>3, HangSame
<1>5. Marked(t) /\ Pos(t) /\ Relocked(s, t)
  BY Zenon, <1>1, <1>3 DEF Marked, Pos, Relocked
<1>6. Susp(t)
  BY Zenon, <1>1, <1>3, <1>4 DEF Susp
<1>7. Ends(t)
  BY Zenon, <1>1, <1>3 DEF Ends, MayCall
<1>8. Hangs(t)
  BY Zenon, <1>1, <1>3, <1>4 DEF Hangs
<1>9. QED
  BY Zenon, <1>2, <1>4, <1>5, <1>6, <1>7, <1>8

(* A call on locks that is over.                                           *)
LEMMA LocksDone ==
  ASSUME NEW s, NEW p, NEW c, Pre(s, p, c), c.op # "WRITE", NEW t, Core(t),
         Relocked(s, t), \A ops : Hang(t, ops) \subseteq Hang(s, ops), NEW ret \in Int, ret <= 0, ret # WAIT
  PROVE  Done(s, p, Answer(t, ret))
<1>1. NotBoth(s) /\ s.call[p] = NoCall /\ s.moved[p] = 0
  BY Zenon DEF Pre, MovedFor
<1>2. NotBoth(t) /\ t.call[p] = NoCall /\ Others(s, p, t) /\ t.moved[p] = 0
  BY Zenon, <1>1 DEF NotBoth, Relocked, Others
<1>3. ret < 0 \/ ret = 0
  OBVIOUS
<1> DEFINE r == Answer(t, ret)
<1>4. r.s = t /\ r.ret = ret
  BY Zenon, AnswerFields
<1> HIDE DEF r
<1>5. Done(s, p, r)
  BY Zenon, <1>2, <1>3, <1>4 DEF Done
<1>6. QED
  BY Zenon, <1>5 DEF r

(* A lock that is set.                                                     *)
LEMMA SetDone ==
  ASSUME Basics, NEW s, NEW p, NEW c, Pre(s, p, c), c.op \in {"SETLK", "SETLKW"},
         c.type # "UNLCK", \A i \in 1 .. NR_LOCKS : ~Conflict(s.locks[i], p, c), Empty(s.locks) # {}
  PROVE  Done(s, p, Answer([s EXCEPT !.locks[FirstEmpty(s.locks)] =
                              [type |-> c.type, pid |-> p, first |-> c.first, last |-> c.last]], OK))
<1> DEFINE e == FirstEmpty(s.locks)
           l == [type |-> c.type, pid |-> p, first |-> c.first, last |-> c.last]
           a == [s.locks EXCEPT ![e] = l]
           t == [s EXCEPT !.locks = a, !.refused = s.refused]
<1>1. /\ Core(s) /\ s \in State /\ s.locks \in LockTables /\ Excluding(s.locks) /\ Kept(s) /\ p \in Procs
      /\ c \in Calls /\ s.refused \in BOOLEAN
  BY Zenon DEF Pre, Core, State, LockTables
<1>2. e \in 1 .. NR_LOCKS /\ s.locks[e] = NoLock
  BY Zenon, <1>1, FirstEmptyFacts
<1>3. c.type \in {"RDLCK", "WRLCK"} /\ c.first \in Nat /\ c.last \in Nat /\ c.op # "WRITE"
  <2>1. c.op \notin PipeOps /\ c.op # "WRITE"
    BY DEF PipeOps
  <2>2. /\ c.type \in {"RDLCK", "WRLCK", "UNLCK"}
        /\ c.first \in 0 .. MAX_FILE_POS /\ c.last \in 0 .. MAX_FILE_POS
    BY Zenon, <1>1, <2>1, CallFacts
  <2>3. \A i \in 0 .. MAX_FILE_POS : i \in Nat
    BY Consts
  <2>4. QED
    BY Zenon, <2>1, <2>2, <2>3
<1>4. l \in Locks /\ l.type = c.type /\ l.pid = p /\ l.first = c.first /\ l.last = c.last
  BY Zenon, <1>1, <1>3 DEF Locks
<1>5. [s EXCEPT !.locks[e] = l] = t
  BY Zenon, <1>1 DEF State
<1> HIDE DEF e, l
<1>6. a \in LockTables /\ a[e] = l /\ \A i \in 1 .. NR_LOCKS : i # e => a[i] = s.locks[i]
  BY Zenon, <1>1, <1>2, <1>4 DEF LockTables
<1> HIDE DEF a
<1>7. \A i \in 1 .. NR_LOCKS : s.locks[i] # NoLock => i # e /\ a[i] = s.locks[i]
  BY Zenon, <1>2, <1>6
<1>8. Excluding(a)
  <2>1. ASSUME NEW i \in 1 .. NR_LOCKS, i # e, a[i] # NoLock, a[i].pid # p,
               Overlap(a[i], l) \/ Overlap(l, a[i])
        PROVE  a[i].type = "RDLCK" /\ l.type = "RDLCK"
    <3>1. ~Conflict(a[i], p, c)
      BY Zenon, <1>6, <2>1
    <3>2. Overlap(a[i], c)
      BY Zenon, <1>4, <2>1 DEF Overlap
    <3>3. QED
      BY Zenon, <1>4, <2>1, <3>1, <3>2 DEF Conflict
  <2>2. ASSUME NEW i \in 1 .. NR_LOCKS, NEW j \in 1 .. NR_LOCKS, a[i] # NoLock, a[j] # NoLock,
               a[i].pid # a[j].pid, Overlap(a[i], a[j])
        PROVE  a[i].type = "RDLCK" /\ a[j].type = "RDLCK"
    <3>1. CASE i = e
      <4>1. j # e /\ a[i] = l /\ a[j].pid # p
        BY Zenon, <1>4, <1>6, <2>2, <3>1
      <4>2. QED
        BY Zenon, <2>1, <2>2, <4>1
    <3>2. CASE j = e
      <4>1. i # e /\ a[j] = l /\ a[i].pid # p
        BY Zenon, <1>4, <1>6, <2>2, <3>2
      <4>2. QED
        BY Zenon, <2>1, <2>2, <4>1
    <3>3. CASE i # e /\ j # e
      BY Zenon, <1>1, <1>6, <2>2, <3>3 DEF Excluding
    <3>4. QED
      BY Zenon, <3>1, <3>2, <3>3
  <2>3. QED
    BY Zenon, <2>2 DEF Excluding
<1>9. /\ t \in State /\ Marked(t) /\ Susp(t) /\ Ends(t) /\ Pos(t) /\ Hangs(t)
      /\ Excluding(t.locks) /\ t.locks = a /\ t.refused = s.refused /\ Relocked(s, t)
      /\ \A ops : Hang(t, ops) = Hang(s, ops)
  <2>1. WithLocks(s, a, s.refused, t)
    BY Zenon DEF WithLocks
  <2>2. t \in State
    BY Zenon, <1>1, <1>6 DEF State, LockTables
  <2> HIDE DEF t
  <2>3. t.refused = s.refused
    BY Zenon, <1>1, <2>1 DEF State, WithLocks
  <2>4. Core(s)
    BY Zenon, <1>1
  <2>5. /\ t \in State /\ Marked(t) /\ Susp(t) /\ Ends(t) /\ Pos(t) /\ Hangs(t)
        /\ Excluding(t.locks) /\ t.locks = a /\ Relocked(s, t)
        /\ \A ops : Hang(t, ops) = Hang(s, ops)
    BY Zenon, <1>8, <2>1, <2>2, <2>4, RelockFacts
  <2>6. QED
    BY Zenon, <2>3, <2>5
<1> HIDE DEF t
<1>10. Kept(t)
  <2>1. t.call = s.call
    BY Zenon, <1>9 DEF Relocked
  <2>2. \A i \in 1 .. NR_LOCKS : \A q, d : Conflict(s.locks[i], q, d) => Conflict(a[i], q, d)
    BY Zenon, <1>7 DEF Conflict, Overlap
  <2>3. QED
    BY Zenon, <1>1, <1>9, <2>1, <2>2 DEF Kept
<1>11. Core(t)
  BY Zenon, <1>9, <1>10 DEF Core
<1>12. OK \in Int /\ OK <= 0 /\ OK # WAIT
  BY DEF OK, WAIT
<1>13. Done(s, p, Answer(t, OK))
  BY Zenon, <1>3, <1>9, <1>11, <1>12, LocksDone
<1>14. QED
  BY Zenon, <1>5, <1>13 DEF e, l

-----------------------------------------------------------------------------
(* Unlocking.  Every lock that is left is a part of one there was.         *)
Within(l, m) ==
  /\ m # NoLock /\ l.pid = m.pid /\ l.type = m.type /\ m.first <= l.first /\ l.last <= m.last

Covered(a, b) ==
  \A i \in 1 .. NR_LOCKS : a[i] # NoLock => \E j \in 1 .. NR_LOCKS : Within(a[i], b[j])

LEMMA WithinTrans ==
  ASSUME NEW l \in Locks, NEW m \in Locks, NEW n \in Locks, Within(l, m), Within(m, n)
  PROVE  Within(l, n)
<1>1. /\ l.first \in Nat /\ m.first \in Nat /\ n.first \in Nat
      /\ l.last \in Nat /\ m.last \in Nat /\ n.last \in Nat
  BY Zenon, LockFacts
<1>2. n.first <= l.first /\ l.last <= n.last
  BY <1>1 DEF Within
<1>3. QED
  BY Zenon, <1>2 DEF Within

LEMMA TableFacts ==
  ASSUME NEW a \in LockTables, NEW i \in 1 .. NR_LOCKS
  PROVE  a[i] # NoLock => a[i] \in Locks
BY Zenon DEF LockTables

LEMMA CoveredSelf ==
  ASSUME NEW a \in LockTables
  PROVE  Covered(a, a)
<1>1. ASSUME NEW i \in 1 .. NR_LOCKS, a[i] # NoLock PROVE Within(a[i], a[i])
  <2>1. a[i].first \in Nat /\ a[i].last \in Nat
    BY Zenon, <1>1, TableFacts, LockFacts
  <2>2. a[i].first <= a[i].first /\ a[i].last <= a[i].last
    BY <2>1
  <2>3. QED
    BY Zenon, <1>1, <2>2 DEF Within
<1>2. QED
  BY Zenon, <1>1 DEF Covered

LEMMA CoveredStep ==
  ASSUME NEW a \in LockTables, NEW b \in LockTables, NEW g \in LockTables, Covered(a, b),
         NEW i \in 1 .. NR_LOCKS, a[i] # NoLock,
         \A k \in 1 .. NR_LOCKS : g[k] = NoLock \/ g[k] = a[k] \/ Within(g[k], a[i])
  PROVE  Covered(g, b)
<1>1. ASSUME NEW k \in 1 .. NR_LOCKS, g[k] # NoLock
      PROVE  \E j \in 1 .. NR_LOCKS : Within(g[k], b[j])
  <2>1. CASE g[k] = a[k]
    BY Zenon, <1>1, <2>1 DEF Covered
  <2>2. CASE Within(g[k], a[i])
    <3>1. PICK j \in 1 .. NR_LOCKS : Within(a[i], b[j])
      BY Zenon DEF Covered
    <3>2. g[k] \in Locks /\ a[i] \in Locks
      BY Zenon, <1>1, TableFacts
    <3>3. b[j] \in Locks
      BY Zenon, <3>1, TableFacts DEF Within
    <3>4. QED
      BY Zenon, <2>2, <3>1, <3>2, <3>3, WithinTrans
  <2>3. QED
    BY Zenon, <1>1, <2>1, <2>2
<1>2. QED
  BY Zenon, <1>1 DEF Covered

LEMMA CoveredExcludes ==
  ASSUME NEW a \in LockTables, NEW b \in LockTables, Covered(a, b), Excluding(b)
  PROVE  Excluding(a)
<1>1. ASSUME NEW i \in 1 .. NR_LOCKS, NEW j \in 1 .. NR_LOCKS, a[i] # NoLock, a[j] # NoLock,
             a[i].pid # a[j].pid, Overlap(a[i], a[j])
      PROVE  a[i].type = "RDLCK" /\ a[j].type = "RDLCK"
  <2>1. PICK k \in 1 .. NR_LOCKS : Within(a[i], b[k])
    BY Zenon, <1>1 DEF Covered
  <2>2. PICK m \in 1 .. NR_LOCKS : Within(a[j], b[m])
    BY Zenon, <1>1 DEF Covered
  <2>3. a[i] \in Locks /\ a[j] \in Locks /\ b[k] \in Locks /\ b[m] \in Locks
    BY Zenon, <1>1, <2>1, <2>2, TableFacts DEF Within
  <2>4. /\ a[i].first \in Nat /\ a[i].last \in Nat /\ a[j].first \in Nat /\ a[j].last \in Nat
        /\ b[k].first \in Nat /\ b[k].last \in Nat /\ b[m].first \in Nat /\ b[m].last \in Nat
    BY Zenon, <2>3, LockFacts
  <2>5. Overlap(b[k], b[m])
    <3>1. /\ b[k] # NoLock /\ b[m].first <= a[j].first /\ a[j].first <= a[i].last
          /\ a[i].last <= b[k].last /\ b[k].first <= a[i].first /\ a[i].first <= a[j].last
          /\ a[j].last <= b[m].last
      BY Zenon, <1>1, <2>1, <2>2 DEF Within, Overlap
    <3>2. b[m].first <= b[k].last
      BY <2>4, <3>1
    <3>3. b[k].first <= b[m].last
      BY <2>4, <3>1
    <3>4. QED
      BY Zenon, <3>1, <3>2, <3>3 DEF Overlap
  <2>6. QED
    BY Zenon, <1>1, <2>1, <2>2, <2>5 DEF Within, Excluding
<1>2. QED
  BY Zenon, <1>1 DEF Excluding

(* What unlocking has done to the table b after some slots.                *)
Unlocked(r, b) ==
  /\ r \in [locks : LockTables, full : BOOLEAN, any : BOOLEAN]
  /\ Covered(r.locks, b) /\ (~r.any => r.locks = b)

LEMMA UnlockSlotKeeps ==
  ASSUME Basics, NEW b \in LockTables, NEW r, Unlocked(r, b), NEW i \in 1 .. NR_LOCKS,
         NEW c, c.first \in Nat, c.last \in Nat, c.first <= c.last
  PROVE  Unlocked(UnlockSlot(r, i, c), b)
<1> DEFINE l == r.locks[i]
           R == [locks : LockTables, full : BOOLEAN, any : BOOLEAN]
<1>1. r \in R /\ Covered(r.locks, b) /\ r.locks \in LockTables
  BY Zenon DEF Unlocked
<1>2. CASE r.full \/ ~Overlap(l, c)
  <2>1. UnlockSlot(r, i, c) = r
    BY Zenon, <1>2 DEF UnlockSlot
  <2>2. QED
    BY Zenon, <2>1
<1>3. ASSUME ~r.full, Overlap(l, c), NEW g \in LockTables,
             \A k \in 1 .. NR_LOCKS : g[k] = NoLock \/ g[k] = r.locks[k] \/ Within(g[k], l)
      PROVE  Unlocked([r EXCEPT !.locks = g, !.any = TRUE], b)
  <2> DEFINE t == [r EXCEPT !.locks = g, !.any = TRUE]
  <2>1. l # NoLock
    BY Zenon, <1>3 DEF Overlap
  <2>2. Covered(g, b)
    BY Zenon, <1>1, <1>3, <2>1, CoveredStep
  <2>3. t \in R /\ t.locks = g /\ t.any = TRUE
    BY Zenon, <1>1, <1>3
  <2> HIDE DEF t
  <2>4. Unlocked(t, b)
    BY Zenon, <2>2, <2>3 DEF Unlocked
  <2>5. QED
    BY Zenon, <2>4 DEF t
<1>4. CASE ~r.full /\ Overlap(l, c)
  <2>1. l # NoLock /\ l \in Locks
    BY Zenon, <1>1, <1>4, TableFacts DEF Overlap
  <2>2. /\ l.first \in Nat /\ l.last \in Nat
    BY Zenon, <2>1, LockFacts
  <2>3. UnlockSlot(r, i, c) =
          CASE c.first <= l.first /\ c.last >= l.last
                 -> [r EXCEPT !.locks[i] = NoLock, !.any = TRUE]
            [] c.first <= l.first /\ c.last < l.last
                 -> [r EXCEPT !.locks[i].first = c.last + 1, !.any = TRUE]
            [] c.first > l.first /\ c.last >= l.last
                 -> [r EXCEPT !.locks[i].last = c.first - 1, !.any = TRUE]
            [] c.first > l.first /\ c.last < l.last ->
                 IF Empty(r.locks) = {} THEN [r EXCEPT !.full = TRUE]
                 ELSE [r EXCEPT !.locks[FirstEmpty(r.locks)] = [l EXCEPT !.first = c.last + 1],
                                !.locks[i].last = c.first - 1, !.any = TRUE]
    BY Zenon, <1>4 DEF UnlockSlot
  <2>4. /\ ~(c.first <= l.first /\ c.first > l.first) /\ ~(c.last >= l.last /\ c.last < l.last)
        /\ c.first <= l.first \/ c.first > l.first
        /\ c.last >= l.last \/ c.last < l.last
        /\ c.last + 1 \in Nat /\ (c.first > l.first => c.first - 1 \in Nat /\ c.first - 1 <= l.last)
        /\ c.first <= l.last /\ l.first <= c.last
        /\ l.first <= c.last + 1 /\ l.first <= l.first /\ l.last <= l.last
    BY <1>4, <2>2 DEF Overlap
  <2>5. CASE c.first <= l.first /\ c.last >= l.last
    <3> DEFINE g == [r.locks EXCEPT ![i] = NoLock]
    <3>1. g \in LockTables /\ \A k \in 1 .. NR_LOCKS : g[k] = NoLock \/ g[k] = r.locks[k]
      BY Zenon, <1>1 DEF LockTables
    <3>2. UnlockSlot(r, i, c) = [r EXCEPT !.locks = g, !.any = TRUE]
      BY Zenon, <1>1, <2>3, <2>4, <2>5
    <3> HIDE DEF g
    <3>3. QED
      BY Zenon, <1>3, <1>4, <3>1, <3>2
  <2>6. CASE c.first <= l.first /\ c.last < l.last
    <3> DEFINE m == [l EXCEPT !.first = c.last + 1]
               g == [r.locks EXCEPT ![i] = m]
    <3>1. m \in Locks /\ Within(m, l)
      BY Zenon, <2>1, <2>4 DEF Locks, Within
    <3>2. UnlockSlot(r, i, c) = [r EXCEPT !.locks = g, !.any = TRUE]
      BY Zenon, <1>1, <2>3, <2>4, <2>6
    <3> HIDE DEF m
    <3>3. g \in LockTables /\ \A k \in 1 .. NR_LOCKS : g[k] = m \/ g[k] = r.locks[k]
      BY Zenon, <1>1, <3>1 DEF LockTables
    <3> HIDE DEF g
    <3>4. QED
      BY Zenon, <1>3, <1>4, <3>1, <3>2, <3>3
  <2>7. CASE c.first > l.first /\ c.last >= l.last
    <3> DEFINE m == [l EXCEPT !.last = c.first - 1]
               g == [r.locks EXCEPT ![i] = m]
    <3>1. m \in Locks /\ Within(m, l)
      BY Zenon, <2>1, <2>4, <2>7 DEF Locks, Within
    <3>2. UnlockSlot(r, i, c) = [r EXCEPT !.locks = g, !.any = TRUE]
      BY Zenon, <1>1, <2>3, <2>4, <2>7
    <3> HIDE DEF m
    <3>3. g \in LockTables /\ \A k \in 1 .. NR_LOCKS : g[k] = m \/ g[k] = r.locks[k]
      BY Zenon, <1>1, <3>1 DEF LockTables
    <3> HIDE DEF g
    <3>4. QED
      BY Zenon, <1>3, <1>4, <3>1, <3>2, <3>3
  <2>8. CASE c.first > l.first /\ c.last < l.last /\ Empty(r.locks) = {}
    <3> DEFINE t == [r EXCEPT !.full = TRUE]
    <3>1. UnlockSlot(r, i, c) = t
      BY Zenon, <2>3, <2>4, <2>8
    <3>2. t \in R /\ t.locks = r.locks /\ t.any = r.any
      BY Zenon, <1>1
    <3> HIDE DEF t
    <3>3. Unlocked(t, b)
      BY Zenon, <3>2 DEF Unlocked
    <3>4. QED
      BY Zenon, <3>1, <3>3
  <2>9. CASE c.first > l.first /\ c.last < l.last /\ Empty(r.locks) # {}
    <3> DEFINE e == FirstEmpty(r.locks)
               m == [l EXCEPT !.first = c.last + 1]
               n == [l EXCEPT !.last = c.first - 1]
               h == [r.locks EXCEPT ![e] = m]
               g == [h EXCEPT ![i] = n]
    <3>1. m \in Locks /\ Within(m, l)
      BY Zenon, <2>1, <2>4 DEF Locks, Within
    <3>2. n \in Locks /\ Within(n, l)
      BY Zenon, <2>1, <2>4, <2>9 DEF Locks, Within
    <3>3. e \in 1 .. NR_LOCKS /\ r.locks[e] = NoLock
      BY Zenon, <1>1, <2>9, FirstEmptyFacts
    <3>4. h \in LockTables /\ h[i] = l /\ \A k \in 1 .. NR_LOCKS : h[k] = m \/ h[k] = r.locks[k]
      <4>1. e # i
        BY Zenon, <2>1, <3>3
      <4> HIDE DEF e, m
      <4>2. QED
        BY Zenon, <1>1, <3>1, <3>3, <4>1 DEF LockTables
    <3>5. UnlockSlot(r, i, c) = [r EXCEPT !.locks = g, !.any = TRUE]
      <4>1. UnlockSlot(r, i, c) = [r EXCEPT !.locks[e] = m, !.locks[i].last = c.first - 1, !.any = TRUE]
        BY Zenon, <2>3, <2>4, <2>9
      <4>2. [r EXCEPT !.locks[e] = m] = [r EXCEPT !.locks = h]
        BY Zenon, <1>1
      <4>3. [r EXCEPT !.locks[e] = m].locks = h
        BY Zenon, <1>1
      <4>4. [[r EXCEPT !.locks[e] = m] EXCEPT !.locks[i].last = c.first - 1] = [r EXCEPT !.locks = g]
        BY Zenon, <1>1, <3>4
      <4>5. QED
        BY Zenon, <4>1, <4>4
    <3> HIDE DEF m, n, h
    <3>6. g \in LockTables /\ \A k \in 1 .. NR_LOCKS : g[k] = n \/ g[k] = h[k]
      BY Zenon, <3>2, <3>4 DEF LockTables
    <3> HIDE DEF g
    <3>7. \A k \in 1 .. NR_LOCKS : g[k] = NoLock \/ g[k] = r.locks[k] \/ Within(g[k], l)
      BY Zenon, <3>1, <3>2, <3>4, <3>6
    <3>8. QED
      BY Zenon, <1>3, <1>4, <3>5, <3>6, <3>7
  <2>10. QED
    BY Zenon, <2>4, <2>5, <2>6, <2>7, <2>8, <2>9
<1>5. QED
  BY Zenon, <1>2, <1>4

(* Unlock goes through the slots one after the other.                      *)
SlotRun(g, b, c) ==
  g = [n \in 0 .. NR_LOCKS |-> IF n = 0 THEN [locks |-> b, full |-> FALSE, any |-> FALSE]
                               ELSE UnlockSlot(g[n - 1], n, c)]

LEMMA SlotRunExists ==
  ASSUME Basics, NEW b, NEW c
  PROVE  \E g : SlotRun(g, b, c)
<1> DEFINE base == [locks |-> b, full |-> FALSE, any |-> FALSE]
           Step(g, n) == IF n = 0 THEN base ELSE UnlockSlot(g[n - 1], n, c)
           E(m) == \E g : \A n \in 0 .. m : g[n] = Step(g, n)
           N == {m \in Nat : ~E(m)}
<1>1. E(0)
  <2> DEFINE g == [n \in {0} |-> base]
  <2>1. g[0] = base
    BY Zenon
  <2>2. \A n \in 0 .. 0 : n = 0
    OBVIOUS
  <2> HIDE DEF g, base
  <2>3. \A n \in 0 .. 0 : g[n] = Step(g, n)
    BY Zenon, <2>1, <2>2
  <2>4. QED
    BY Zenon, <2>3
<1>2. ASSUME NEW m \in Nat, m # 0, E(m - 1) PROVE E(m)
  <2>1. PICK g : \A n \in 0 .. m - 1 : g[n] = Step(g, n)
    BY Zenon, <1>2
  <2> DEFINE x == UnlockSlot(g[m - 1], m, c)
             h == [n \in 0 .. m |-> IF n = m THEN x ELSE g[n]]
  <2>2. \A n \in 0 .. m : n = m \/ n \in 0 .. m - 1
    BY <1>2
  <2>3. m - 1 \in 0 .. m /\ m - 1 # m /\ m \in 0 .. m
    BY <1>2
  <2>4. \A n \in 0 .. m - 1 : n \in 0 .. m /\ n # m /\ (n # 0 => n - 1 \in 0 .. m - 1 /\ n - 1 \in 0 .. m /\ n - 1 # m)
    BY <1>2
  <2> HIDE DEF x, base
  <2>5. h[m] = x /\ \A n \in 0 .. m - 1 : h[n] = g[n]
    BY Zenon, <2>3, <2>4
  <2>6. h[m - 1] = g[m - 1]
    BY Zenon, <2>3
  <2> HIDE DEF h
  <2>7. h[m] = Step(h, m)
    BY Zenon, <1>2, <2>5, <2>6 DEF x
  <2>8. ASSUME NEW n \in 0 .. m - 1 PROVE h[n] = Step(h, n)
    <3>1. h[n] = g[n] /\ g[n] = Step(g, n)
      BY Zenon, <2>1, <2>5
    <3>2. CASE n = 0
      BY Zenon, <3>1, <3>2
    <3>3. CASE n # 0
      <4>1. h[n - 1] = g[n - 1]
        BY Zenon, <2>4, <2>5, <3>3
      <4>2. QED
        BY Zenon, <3>1, <3>3, <4>1
    <3>4. QED
      BY Zenon, <3>2, <3>3
  <2>9. \A n \in 0 .. m : h[n] = Step(h, n)
    BY Zenon, <2>2, <2>7, <2>8
  <2>10. QED
    BY Zenon, <2>9
<1> HIDE DEF E
<1>3. N = {}
  <2>1. SUFFICES ASSUME N # {} PROVE FALSE
    BY Zenon
  <2>2. PICK m \in N : \A n \in N : m <= n
    BY Zenon, <2>1 DEF Basics
  <2>3. m \in Nat /\ ~E(m)
    BY Zenon, <2>2
  <2>4. m # 0
    BY Zenon, <1>1, <2>3
  <2>5. m - 1 \in Nat /\ ~(m <= m - 1)
    BY <2>3, <2>4
  <2>6. E(m - 1)
    BY Zenon, <2>2, <2>5
  <2>7. QED
    BY Zenon, <1>2, <2>3, <2>4, <2>6
<1>4. E(NR_LOCKS)
  BY Zenon, <1>3, Consts
<1>5. PICK g : \A n \in 0 .. NR_LOCKS : g[n] = Step(g, n)
  BY Zenon, <1>4 DEF E
<1> DEFINE h == [n \in 0 .. NR_LOCKS |-> g[n]]
<1>6. \A n \in 0 .. NR_LOCKS : n # 0 => n - 1 \in 0 .. NR_LOCKS
  BY Consts
<1> HIDE DEF base
<1>7. ASSUME NEW n \in 0 .. NR_LOCKS PROVE g[n] = Step(h, n)
  <2>1. n # 0 => h[n - 1] = g[n - 1]
    BY Zenon, <1>6
  <2> HIDE DEF h
  <2>2. QED
    BY Zenon, <1>5, <2>1
<1>8. h = [n \in 0 .. NR_LOCKS |-> Step(h, n)]
  BY Zenon, <1>7
<1>9. QED
  BY Zenon, <1>8 DEF base, SlotRun

LEMMA SlotRunKeeps ==
  ASSUME Basics, NEW b \in LockTables, NEW g, NEW c, SlotRun(g, b, c),
         c.first \in Nat, c.last \in Nat, c.first <= c.last
  PROVE  Unlocked(g[NR_LOCKS], b)
<1> DEFINE N == {m \in 0 .. NR_LOCKS : ~Unlocked(g[m], b)}
<1>1. Unlocked(g[0], b)
  <2> DEFINE r == [locks |-> b, full |-> FALSE, any |-> FALSE]
  <2>1. 0 \in 0 .. NR_LOCKS
    BY Consts
  <2>2. g[0] = r
    BY Zenon, <2>1 DEF SlotRun
  <2>3. r \in [locks : LockTables, full : BOOLEAN, any : BOOLEAN] /\ r.locks = b
    BY Zenon
  <2> HIDE DEF r
  <2>4. Unlocked(r, b)
    BY Zenon, <2>3, CoveredSelf DEF Unlocked
  <2>5. QED
    BY Zenon, <2>2, <2>4
<1>2. ASSUME NEW m \in 0 .. NR_LOCKS, m # 0, Unlocked(g[m - 1], b) PROVE Unlocked(g[m], b)
  <2>1. g[m] = UnlockSlot(g[m - 1], m, c)
    BY Zenon, <1>2 DEF SlotRun
  <2>2. m \in 1 .. NR_LOCKS
    BY <1>2, Consts
  <2>3. QED
    BY Zenon, <1>2, <2>1, <2>2, UnlockSlotKeeps
<1>3. N = {}
  <2>1. SUFFICES ASSUME N # {} PROVE FALSE
    BY Zenon
  <2>2. 0 .. NR_LOCKS \in SUBSET Nat
    BY Consts
  <2>3. N \in SUBSET Nat
    BY Zenon, <2>2
  <2>4. PICK m \in N : \A n \in N : m <= n
    BY Zenon, <2>1, <2>3 DEF Basics
  <2>5. m \in 0 .. NR_LOCKS /\ ~Unlocked(g[m], b) /\ m # 0
    BY Zenon, <1>1, <2>4
  <2>6. m - 1 \in 0 .. NR_LOCKS /\ ~(m <= m - 1)
    BY <2>5, Consts
  <2>7. Unlocked(g[m - 1], b)
    BY Zenon, <2>4, <2>6
  <2>8. QED
    BY Zenon, <1>2, <2>5, <2>7
<1>4. NR_LOCKS \in 0 .. NR_LOCKS
  BY Consts
<1>5. QED
  BY Zenon, <1>3, <1>4

LEMMA UnlockDone ==
  ASSUME Basics, NEW s, NEW p, NEW c, Pre(s, p, c), c.op \in {"SETLK", "SETLKW"}
  PROVE  Done(s, p, Unlock(s, c))
<1> DEFINE slots[n \in 0 .. NR_LOCKS] ==
             IF n = 0 THEN [locks |-> s.locks, full |-> FALSE, any |-> FALSE]
             ELSE UnlockSlot(slots[n - 1], n, c)
           r == slots[NR_LOCKS]
           t == [s EXCEPT !.locks = r.locks]
<1>1. Unlock(s, c) = IF r.full THEN Answer([t EXCEPT !.refused = @ \/ r.any], ENOLCK)
                     ELSE Answer(IF r.any THEN lock_revive(t) ELSE t, OK)
  BY Zenon DEF Unlock
<1>2. slots = CHOOSE g : SlotRun(g, s.locks, c)
  BY Zenon DEF SlotRun
<1> HIDE DEF slots
<1>3. SlotRun(slots, s.locks, c)
  BY Zenon, <1>2, SlotRunExists
<1>4. /\ Core(s) /\ s \in State /\ s.locks \in LockTables /\ Excluding(s.locks) /\ Kept(s)
      /\ c \in Calls
  BY Zenon DEF Pre, Core, State, LockTables
<1>5. c.first \in Nat /\ c.last \in Nat /\ c.first <= c.last /\ c.op # "WRITE"
  <2>1. c.op \notin PipeOps /\ c.op # "WRITE"
    BY DEF PipeOps
  <2>2. c.first \in 0 .. MAX_FILE_POS /\ c.last \in 0 .. MAX_FILE_POS /\ c.first <= c.last
    BY Zenon, <1>4, <2>1, CallFacts
  <2>3. \A i \in 0 .. MAX_FILE_POS : i \in Nat
    BY Consts
  <2>4. QED
    BY Zenon, <2>1, <2>2, <2>3
<1>6. Unlocked(r, s.locks)
  BY Zenon, <1>3, <1>4, <1>5, SlotRunKeeps
<1> HIDE DEF r
<1>7. /\ r.locks \in LockTables /\ Covered(r.locks, s.locks) /\ (~r.any => r.locks = s.locks)
      /\ r.any \in BOOLEAN
  BY Zenon, <1>6 DEF Unlocked
<1>8. Excluding(r.locks)
  BY Zenon, <1>4, <1>7, CoveredExcludes
<1>9. ASSUME NEW b \in BOOLEAN, NEW v, v = [s EXCEPT !.locks = r.locks, !.refused = b]
      PROVE  /\ v \in State /\ Marked(v) /\ Susp(v) /\ Ends(v) /\ Pos(v) /\ Hangs(v)
             /\ Excluding(v.locks) /\ v.locks = r.locks /\ Relocked(s, v)
             /\ \A ops : Hang(v, ops) = Hang(s, ops)
  <2>1. WithLocks(s, r.locks, b, v)
    BY Zenon, <1>9 DEF WithLocks
  <2>2. v \in State
    BY Zenon, <1>4, <1>7, <1>9 DEF State, LockTables
  <2>3. Core(s)
    BY Zenon, <1>4
  <2>4. QED
    BY Zenon, <1>8, <2>1, <2>2, <2>3, RelockFacts
<1>10. ASSUME NEW v \in State, v.locks = s.locks, v.call = s.call, \A ops : Hang(v, ops) = Hang(s, ops),
              ~v.refused => ~s.refused
       PROVE  Kept(v)
  BY Zenon, <1>4, <1>10 DEF Kept
<1>11. /\ ENOLCK \in Int /\ ENOLCK <= 0 /\ ENOLCK # WAIT /\ OK \in Int /\ OK <= 0 /\ OK # WAIT
  BY DEF ENOLCK, OK, WAIT
<1>12. CASE r.full
  <2> DEFINE b == s.refused \/ r.any
             v == [s EXCEPT !.locks = r.locks, !.refused = b]
  <2>1. [t EXCEPT !.refused = @ \/ r.any] = v
    BY Zenon, <1>4 DEF State
  <2>2. b \in BOOLEAN
    BY Zenon
  <2>3. v.refused = b
    BY Zenon, <1>4 DEF State
  <2>4. /\ v \in State /\ Marked(v) /\ Susp(v) /\ Ends(v) /\ Pos(v) /\ Hangs(v)
        /\ Excluding(v.locks) /\ v.locks = r.locks /\ Relocked(s, v)
        /\ \A ops : Hang(v, ops) = Hang(s, ops)
    BY Zenon, <1>9, <2>2
  <2> HIDE DEF v
  <2>5. Kept(v)
    <3>1. CASE v.refused
      BY Zenon, <3>1 DEF Kept
    <3>2. CASE ~v.refused
      <4>1. ~s.refused /\ v.locks = s.locks /\ v.call = s.call
        BY Zenon, <1>7, <2>3, <2>4, <3>2 DEF Relocked
      <4>2. QED
        BY Zenon, <1>10, <2>4, <4>1
    <3>3. QED
      BY Zenon, <3>1, <3>2
  <2>6. Core(v)
    BY Zenon, <2>4, <2>5 DEF Core
  <2>7. Done(s, p, Answer(v, ENOLCK))
    BY Zenon, <1>5, <1>11, <2>4, <2>6, LocksDone
  <2>8. QED
    BY Zenon, <1>1, <1>12, <2>1, <2>7
<1>13. CASE ~r.full
  <2>1. t = [s EXCEPT !.locks = r.locks, !.refused = s.refused] /\ s.refused \in BOOLEAN
    BY Zenon, <1>4 DEF State
  <2>2. t.refused = s.refused
    BY Zenon, <1>4 DEF State
  <2>3. /\ t \in State /\ Marked(t) /\ Susp(t) /\ Ends(t) /\ Pos(t) /\ Hangs(t)
        /\ Excluding(t.locks) /\ t.locks = r.locks /\ Relocked(s, t)
        /\ \A ops : Hang(t, ops) = Hang(s, ops)
    BY Zenon, <1>9, <2>1
  <2> HIDE DEF t
  <2>4. CASE r.any
    <3> DEFINE v == lock_revive(t)
    <3>1. Core(v) /\ Same(t, v) /\ \A ops : Hang(v, ops) \subseteq Hang(t, ops)
      BY Zenon, <2>3, LockReviveFacts
    <3> HIDE DEF v
    <3>2. Relocked(s, v) /\ \A ops : Hang(v, ops) \subseteq Hang(s, ops)
      BY Zenon, <2>3, <3>1 DEF Relocked, Same
    <3>3. Done(s, p, Answer(v, OK))
      BY Zenon, <1>5, <1>11, <3>1, <3>2, LocksDone
    <3>4. QED
      BY Zenon, <1>1, <1>13, <2>4, <3>3 DEF v
  <2>5. CASE ~r.any
    <3>1. t.locks = s.locks /\ t.call = s.call /\ (~t.refused => ~s.refused)
      BY Zenon, <1>7, <2>2, <2>3, <2>5 DEF Relocked
    <3>2. Kept(t)
      BY Zenon, <1>10, <2>3, <3>1
    <3>3. Core(t) /\ \A ops : Hang(t, ops) \subseteq Hang(s, ops)
      BY Zenon, <2>3, <3>2 DEF Core
    <3>4. Done(s, p, Answer(t, OK))
      BY Zenon, <1>5, <1>11, <2>3, <3>3, LocksDone
    <3>5. QED
      BY Zenon, <1>1, <1>13, <2>5, <3>4
  <2>6. QED
    BY Zenon, <2>4, <2>5
<1>14. QED
  BY Zenon, <1>12, <1>13

LEMMA LockDone ==
  ASSUME Basics, NEW s, NEW p, NEW c, Pre(s, p, c), c.op \in {"SETLK", "SETLKW"}
  PROVE  Done(s, p, lock_op(s, p, c))
<1>1. /\ Core(s) /\ NotBoth(s) /\ DOMAIN s.locks = 1 .. NR_LOCKS /\ p \in Procs /\ s.call[p] = NoCall
      /\ c \in Calls /\ MayCall(s, p, c) /\ MovedFor(s, p, c)
  BY Zenon DEF Pre, Core, State
<1>2. /\ EAGAIN \in Int /\ EAGAIN # WAIT /\ EAGAIN < 0
      /\ ENOLCK \in Int /\ ENOLCK # WAIT /\ ENOLCK < 0
  BY DEF EAGAIN, ENOLCK, WAIT
<1>3. CASE c.type = "UNLCK"
  <2>1. lock_op(s, p, c) = Unlock(s, c)
    BY Zenon, <1>3 DEF lock_op
  <2>2. QED
    BY Zenon, <2>1, UnlockDone
<1>4. CASE c.type # "UNLCK" /\ \E i \in DOMAIN s.locks : Conflict(s.locks[i], p, c)
  <2>1. lock_op(s, p, c) = IF c.op = "SETLK" THEN Answer(s, EAGAIN) ELSE Wait(s, p, c)
    BY Zenon, <1>4 DEF lock_op
  <2>2. CASE c.op = "SETLK"
    BY Zenon, <1>2, <2>1, <2>2, AnswerDone
  <2>3. CASE c.op # "SETLK"
    <3>1. c.op \in {"WRITE", "SETLKW"} /\ c.op # "WRITE"
      BY <2>3
    <3>2. Others(s, p, s)
      BY Zenon DEF Others
    <3>3. \E i \in 1 .. NR_LOCKS : Conflict(s.locks[i], p, c)
      BY Zenon, <1>1, <1>4
    <3>4. Done(s, p, Wait(s, p, c))
      BY Zenon, <1>1, <3>1, <3>2, <3>3, WaitDone
    <3>5. QED
      BY Zenon, <2>1, <2>3, <3>4
  <2>4. QED
    BY Zenon, <2>2, <2>3
<1>5. CASE c.type # "UNLCK" /\ \A i \in DOMAIN s.locks : ~Conflict(s.locks[i], p, c)
  <2>1. lock_op(s, p, c) =
          IF Empty(s.locks) = {} THEN Answer(s, ENOLCK)
          ELSE Answer([s EXCEPT !.locks[FirstEmpty(s.locks)] =
                         [type |-> c.type, pid |-> p, first |-> c.first, last |-> c.last]], OK)
    BY Zenon, <1>5 DEF lock_op
  <2>2. CASE Empty(s.locks) = {}
    BY Zenon, <1>2, <2>1, <2>2, AnswerDone
  <2>3. CASE Empty(s.locks) # {}
    <3>1. \A i \in 1 .. NR_LOCKS : ~Conflict(s.locks[i], p, c)
      BY Zenon, <1>1, <1>5
    <3>2. c.type # "UNLCK"
      BY Zenon, <1>5
    <3> DEFINE r == Answer([s EXCEPT !.locks[FirstEmpty(s.locks)] =
                              [type |-> c.type, pid |-> p, first |-> c.first, last |-> c.last]], OK)
    <3>3. Done(s, p, r)
      BY Zenon, <2>3, <3>1, <3>2, SetDone
    <3>4. lock_op(s, p, c) = r
      BY Zenon, <2>1, <2>3
    <3> HIDE DEF r
    <3>5. QED
      BY Zenon, <3>3, <3>4
  <2>4. QED
    BY Zenon, <2>2, <2>3
<1>6. QED
  BY Zenon, <1>3, <1>4, <1>5

-----------------------------------------------------------------------------
(* The call of p ends, other than by an answer: nobody else is concerned.  *)
CallOff(s, p, t) == t.call = [s.call EXCEPT ![p] = NoCall] /\ t.revived = s.revived \ {p}

LeftAlone(s, t) ==
  /\ t.rd = s.rd /\ t.wr = s.wr /\ t.file = s.file /\ t.alive = s.alive
  /\ t.size = s.size /\ t.rpos = s.rpos /\ t.wpos = s.wpos /\ t.locks = s.locks
  /\ t.refused = s.refused

HangBut(s, p, t) == \A ops \in SUBSET Waiting : Hang(t, ops) = Hang(s, ops) \ {p}

LEMMA HangGone ==
  ASSUME NEW s \in State, NEW p \in Procs, NEW t, CallOff(s, p, t)
  PROVE  HangBut(s, p, t)
<1> SUFFICES ASSUME NEW ops \in SUBSET Waiting PROVE Hang(t, ops) = Hang(s, ops) \ {p}
  BY Zenon DEF HangBut
<1>1. s.call \in [Procs -> Calls \cup {NoCall}]
  BY Zenon DEF State
<1>2. t.call[p] = NoCall /\ \A q \in Procs \ {p} : t.call[q] = s.call[q]
  BY Zenon, <1>1 DEF CallOff
<1>3. t.call[p].op \notin ops
  BY <1>2 DEF NoCall, Waiting
<1>4. QED
  BY Zenon, <1>2, <1>3 DEF Hang, CallOff

LEMMA CallGone ==
  ASSUME NEW s, Core(s), NEW p \in Procs, NEW t \in State, Susp(t),
         CallOff(s, p, t), LeftAlone(s, t), t.reviving = Cardinality(t.revived)
  PROVE  /\ Core(t) /\ t.call[p] = NoCall /\ \A q \in Procs \ {p} : t.call[q] = s.call[q]
         /\ HangBut(s, p, t)
<1> USE DEF CallOff, LeftAlone
<1>1. s \in State /\ Marked(s) /\ Ends(s) /\ Pos(s) /\ Hangs(s) /\ Excluding(s.locks) /\ Kept(s)
  BY Zenon DEF Core
<1>2. s.call \in [Procs -> Calls \cup {NoCall}] /\ s.revived \in SUBSET Procs
  BY Zenon, <1>1 DEF State
<1>3. t.call[p] = NoCall /\ \A q \in Procs \ {p} : t.call[q] = s.call[q]
  BY Zenon, <1>2
<1>4. Marked(t)
  BY Zenon, <1>1, <1>2, <1>3 DEF Marked
<1>5. HangBut(s, p, t)
  BY Zenon, <1>1, HangGone
<1>6. {"READ"} \in SUBSET Waiting /\ {"WRITE"} \in SUBSET Waiting /\ {"SETLKW"} \in SUBSET Waiting
  BY Zenon DEF Waiting
<1>7. Ends(t)
  <2>1. \A e : \A q : MayCall(t, q, e) <=> MayCall(s, q, e)
    BY Zenon DEF MayCall
  <2>2. ASSUME NEW q \in Procs, t.call[q] # NoCall
        PROVE  t.call[q].op \in Waiting /\ MayCall(t, q, t.call[q])
    BY Zenon, <1>1, <1>3, <2>1, <2>2 DEF Ends
  <2>3. QED
    BY Zenon, <1>1, <2>2 DEF Ends
<1>8. Pos(t)
  BY Zenon, <1>1 DEF Pos
<1>9. Hangs(t)
  BY Zenon, <1>1, <1>5, <1>6 DEF Hangs, HangBut
<1>10. Kept(t)
  <2>1. ASSUME ~s.refused, NEW q \in Hang(t, {"SETLKW"})
        PROVE  \E i \in 1 .. NR_LOCKS : Conflict(t.locks[i], q, t.call[q])
    <3>1. q \in Hang(s, {"SETLKW"}) /\ q \in Procs \ {p}
      BY Zenon, <1>5, <1>6, <2>1, HangType DEF HangBut
    <3>2. QED
      BY Zenon, <1>1, <1>3, <2>1, <3>1 DEF Kept
  <2>2. QED
    BY Zenon, <2>1 DEF Kept
<1>11. Core(t)
  BY Zenon, <1>1, <1>4, <1>7, <1>8, <1>9, <1>10 DEF Core
<1>12. QED
  BY Zenon, <1>3, <1>5, <1>11

(* Closing a descriptor.                                                   *)
Closed(s, p, e, t) ==
  /\ Core(t) /\ t.call = s.call /\ t.cum = s.cum /\ t.moved = s.moved /\ t.broken = s.broken
  /\ t.alive = s.alive /\ \A ops : Hang(t, ops) \subseteq Hang(s, ops)
  /\ t.rd = IF e = "READ" THEN s.rd \ {p} ELSE s.rd
  /\ t.wr = IF e = "WRITE" THEN s.wr \ {p} ELSE s.wr
  /\ t.file = IF e = "FILE" THEN s.file \ {p} ELSE s.file

(* An end of the pipe goes; nobody hangs at the other one.                 *)
LEMMA EndGone ==
  ASSUME NEW s, Core(s), NEW p \in Procs, s.call[p] = NoCall, NEW t \in State,
         t.rd \subseteq s.rd, t.wr \subseteq s.wr, t.file \subseteq s.file,
         s.rd \ {p} \subseteq t.rd, s.wr \ {p} \subseteq t.wr, s.file \ {p} \subseteq t.file,
         t.rd = s.rd \/ Hang(s, {"WRITE"}) = {}, t.wr = s.wr \/ Hang(s, {"READ"}) = {},
         t.alive = s.alive, t.size = s.size, t.rpos = s.rpos, t.wpos = s.wpos,
         t.call = s.call, t.revived = s.revived, t.reviving = s.reviving,
         t.susp_count = s.susp_count, t.locks = s.locks, t.signals = s.signals, t.refused = s.refused
  PROVE  Core(t) /\ \A ops : Hang(t, ops) = Hang(s, ops)
<1>1. Marked(s) /\ Susp(s) /\ Ends(s) /\ Pos(s) /\ Hangs(s) /\ Excluding(s.locks) /\ Kept(s)
  BY Zenon DEF Core
<1>2. \A ops : Hang(t, ops) = Hang(s, ops)
  BY Zenon, HangSame
<1>3. Marked(t)
  BY Zenon, <1>1 DEF Marked
<1>4. Susp(t)
  BY Zenon, <1>1, <1>2 DEF Susp
<1>5. Ends(t)
  <2>1. ASSUME NEW q \in Procs, t.call[q] # NoCall
        PROVE  t.call[q].op \in Waiting /\ MayCall(t, q, t.call[q])
    <3>1. q # p /\ t.call[q] = s.call[q]
      BY Zenon, <2>1
    <3>2. s.call[q].op \in Waiting /\ MayCall(s, q, s.call[q])
      BY Zenon, <1>1, <2>1, <3>1 DEF Ends
    <3>3. (q \in s.rd => q \in t.rd) /\ (q \in s.wr => q \in t.wr) /\ (q \in s.file => q \in t.file)
      BY Zenon, <3>1
    <3>4. QED
      BY Zenon, <3>1, <3>2, <3>3 DEF MayCall
  <2>2. t.rd \subseteq t.alive /\ t.wr \subseteq t.alive /\ t.file \subseteq t.alive
    BY Zenon, <1>1 DEF Ends
  <2>3. QED
    BY Zenon, <2>1, <2>2 DEF Ends
<1>6. Pos(t)
  BY Zenon, <1>1 DEF Pos
<1>7. Hangs(t)
  BY Zenon, <1>1, <1>2 DEF Hangs
<1>8. Kept(t)
  BY Zenon, <1>1, <1>2 DEF Kept
<1>9. QED
  BY Zenon, <1>1, <1>2, <1>3, <1>4, <1>5, <1>6, <1>7, <1>8 DEF Core

LEMMA DropLocksFacts ==
  ASSUME Basics, NEW s, Core(s), NEW p
  PROVE  LET t == DropLocks(s, p)
         IN  Core(t) /\ Relocked(s, t) /\ \A ops : Hang(t, ops) \subseteq Hang(s, ops)
<1> DEFINE own == { i \in DOMAIN s.locks : s.locks[i] # NoLock /\ s.locks[i].pid = p }
           a == [i \in DOMAIN s.locks |-> IF i \in own THEN NoLock ELSE s.locks[i]]
           u == [s EXCEPT !.locks = a]
<1>1. s \in State /\ s.locks \in LockTables /\ Excluding(s.locks) /\ DOMAIN s.locks = 1 .. NR_LOCKS
  BY Zenon DEF Core, State, LockTables
<1>2. u = [s EXCEPT !.locks = a, !.refused = s.refused]
  BY Zenon, <1>1 DEF State
<1>3. DropLocks(s, p) = IF own = {} THEN s ELSE lock_revive(u)
  BY Zenon DEF DropLocks
<1> HIDE DEF own
<1>4. a \in LockTables /\ \A i \in 1 .. NR_LOCKS : a[i] = NoLock \/ a[i] = s.locks[i]
  BY Zenon, <1>1 DEF LockTables
<1> HIDE DEF a
<1>5. Excluding(a)
  <2>1. ASSUME NEW i \in 1 .. NR_LOCKS, NEW j \in 1 .. NR_LOCKS, a[i] # NoLock, a[j] # NoLock,
               a[i].pid # a[j].pid, Overlap(a[i], a[j])
        PROVE  a[i].type = "RDLCK" /\ a[j].type = "RDLCK"
    <3>1. a[i] = s.locks[i] /\ a[j] = s.locks[j]
      BY Zenon, <1>4, <2>1
    <3>2. QED
      BY Zenon, <1>1, <2>1, <3>1 DEF Excluding
  <2>2. QED
    BY Zenon, <2>1 DEF Excluding
<1>6. WithLocks(s, a, s.refused, u) /\ u \in State
  BY Zenon, <1>1, <1>2, <1>4 DEF WithLocks, State, LockTables
<1> HIDE DEF u
<1>7. /\ u \in State /\ Marked(u) /\ Susp(u) /\ Ends(u) /\ Pos(u) /\ Hangs(u)
      /\ Excluding(u.locks) /\ Relocked(s, u)
      /\ \A ops : Hang(u, ops) = Hang(s, ops)
  BY Zenon, <1>5, <1>6, RelockFacts
<1> DEFINE t == lock_revive(u)
<1>8. Core(t) /\ Same(u, t) /\ \A ops : Hang(t, ops) \subseteq Hang(u, ops)
  BY Zenon, <1>7, LockReviveFacts
<1> HIDE DEF t
<1>9. Relocked(s, t) /\ \A ops : Hang(t, ops) \subseteq Hang(s, ops)
  BY Zenon, <1>7, <1>8 DEF Relocked, Same
<1>10. CASE own = {}
  BY Zenon, <1>3, <1>10 DEF Relocked
<1>11. CASE own # {}
  BY Zenon, <1>3, <1>8, <1>9, <1>11 DEF t
<1>12. QED
  BY Zenon, <1>10, <1>11

LEMMA CloseFacts ==
  ASSUME Basics, NEW s, Core(s), NEW p \in Procs, s.call[p] = NoCall, NEW e \in {"READ", "WRITE", "FILE"}
  PROVE  Closed(s, p, e, do_close(s, p, e))
<1>0. s \in State /\ Susp(s) /\ "READ" \in PipeOps /\ "WRITE" \in PipeOps
  BY Zenon DEF Core, PipeOps
<1>1. CASE e = "READ"
  <2> DEFINE u == release(s, "WRITE", Len(Slots))
             t == [u EXCEPT !.rd = @ \ {p}]
  <2>1. do_close(s, p, e) = t
    BY <1>1 DEF do_close
  <2>2. Len(Slots) \in Nat /\ Len(Slots) >= Cardinality(Hang(s, {"WRITE"}))
    BY Zenon, <1>0, EnoughSusp
  <2>3. Core(u) /\ Same(s, u) /\ Hang(u, {"WRITE"}) = {} /\ \A ops : Hang(u, ops) \subseteq Hang(s, ops)
    BY Zenon, <1>0, <2>2, ReleaseFacts
  <2> HIDE DEF u
  <2>4. u \in State /\ u.call[p] = NoCall
    BY Zenon, <2>3 DEF Core, Same
  <2>5. t \in State /\ t.rd = u.rd \ {p}
    BY Zenon, <2>4 DEF State
  <2>6. /\ t.wr = u.wr /\ t.file = u.file /\ t.alive = u.alive
        /\ t.size = u.size /\ t.rpos = u.rpos /\ t.wpos = u.wpos
        /\ t.call = u.call /\ t.revived = u.revived /\ t.reviving = u.reviving
        /\ t.susp_count = u.susp_count /\ t.locks = u.locks /\ t.signals = u.signals /\ t.refused = u.refused
        /\ t.cum = u.cum /\ t.moved = u.moved /\ t.broken = u.broken
    BY Zenon, <2>4 DEF State
  <2> HIDE DEF t
  <2>7. Core(t) /\ \A ops : Hang(t, ops) = Hang(u, ops)
    <3>1. t.rd \subseteq u.rd /\ u.rd \ {p} \subseteq t.rd /\ t.wr \subseteq u.wr /\ t.file \subseteq u.file
          /\ u.wr \ {p} \subseteq t.wr /\ u.file \ {p} \subseteq t.file
      BY Zenon, <2>5, <2>6
    <3>2. QED
      BY Zenon, <2>3, <2>4, <2>5, <2>6, <3>1, EndGone
  <2>8. Closed(s, p, e, t)
    BY <1>1, <2>3, <2>5, <2>6, <2>7 DEF Closed, Same
  <2>9. QED
    BY Zenon, <2>1, <2>8
<1>2. CASE e = "WRITE"
  <2> DEFINE u == release(s, "READ", Len(Slots))
             t == [u EXCEPT !.wr = @ \ {p}]
  <2>1. do_close(s, p, e) = t
    BY <1>2 DEF do_close
  <2>2. Len(Slots) \in Nat /\ Len(Slots) >= Cardinality(Hang(s, {"READ"}))
    BY Zenon, <1>0, EnoughSusp
  <2>3. Core(u) /\ Same(s, u) /\ Hang(u, {"READ"}) = {} /\ \A ops : Hang(u, ops) \subseteq Hang(s, ops)
    BY Zenon, <1>0, <2>2, ReleaseFacts
  <2> HIDE DEF u
  <2>4. u \in State /\ u.call[p] = NoCall
    BY Zenon, <2>3 DEF Core, Same
  <2>5. t \in State /\ t.wr = u.wr \ {p}
    BY Zenon, <2>4 DEF State
  <2>6. /\ t.rd = u.rd /\ t.file = u.file /\ t.alive = u.alive
        /\ t.size = u.size /\ t.rpos = u.rpos /\ t.wpos = u.wpos
        /\ t.call = u.call /\ t.revived = u.revived /\ t.reviving = u.reviving
        /\ t.susp_count = u.susp_count /\ t.locks = u.locks /\ t.signals = u.signals /\ t.refused = u.refused
        /\ t.cum = u.cum /\ t.moved = u.moved /\ t.broken = u.broken
    BY Zenon, <2>4 DEF State
  <2> HIDE DEF t
  <2>7. Core(t) /\ \A ops : Hang(t, ops) = Hang(u, ops)
    <3>1. t.rd \subseteq u.rd /\ u.rd \ {p} \subseteq t.rd /\ t.wr \subseteq u.wr /\ t.file \subseteq u.file
          /\ u.wr \ {p} \subseteq t.wr /\ u.file \ {p} \subseteq t.file
      BY Zenon, <2>5, <2>6
    <3>2. QED
      BY Zenon, <2>3, <2>4, <2>5, <2>6, <3>1, EndGone
  <2>8. Closed(s, p, e, t)
    BY <1>2, <2>3, <2>5, <2>6, <2>7 DEF Closed, Same
  <2>9. QED
    BY Zenon, <2>1, <2>8
<1>3. CASE e = "FILE"
  <2> DEFINE u == DropLocks(s, p)
             t == [u EXCEPT !.file = @ \ {p}]
  <2>1. do_close(s, p, e) = t
    BY <1>3 DEF do_close
  <2>2. Core(u) /\ Relocked(s, u) /\ \A ops : Hang(u, ops) \subseteq Hang(s, ops)
    BY Zenon, DropLocksFacts
  <2> HIDE DEF u
  <2>3. u \in State /\ u.call[p] = NoCall
    BY Zenon, <2>2 DEF Core, Relocked
  <2>4. t \in State /\ t.file = u.file \ {p}
    BY Zenon, <2>3 DEF State
  <2>5. /\ t.rd = u.rd /\ t.wr = u.wr /\ t.alive = u.alive
        /\ t.size = u.size /\ t.rpos = u.rpos /\ t.wpos = u.wpos
        /\ t.call = u.call /\ t.revived = u.revived /\ t.reviving = u.reviving
        /\ t.susp_count = u.susp_count /\ t.locks = u.locks /\ t.signals = u.signals /\ t.refused = u.refused
        /\ t.cum = u.cum /\ t.moved = u.moved /\ t.broken = u.broken
    BY Zenon, <2>3 DEF State
  <2> HIDE DEF t
  <2>6. Core(t) /\ \A ops : Hang(t, ops) = Hang(u, ops)
    <3>1. t.rd \subseteq u.rd /\ u.rd \ {p} \subseteq t.rd /\ t.wr \subseteq u.wr /\ t.file \subseteq u.file
          /\ u.wr \ {p} \subseteq t.wr /\ u.file \ {p} \subseteq t.file
      BY Zenon, <2>4, <2>5
    <3>2. QED
      BY Zenon, <2>2, <2>3, <2>4, <2>5, <3>1, EndGone
  <2>7. Closed(s, p, e, t)
    BY <1>3, <2>2, <2>4, <2>5, <2>6 DEF Closed, Relocked
  <2>8. QED
    BY Zenon, <2>1, <2>7
<1>4. QED
  BY Zenon, <1>1, <1>2, <1>3

-----------------------------------------------------------------------------
(* Interrupted calls, exit.                                                *)
(* A call that is broken off, whoever counts it.                           *)
Broken(s, p, t) ==
  /\ t.call = [s.call EXCEPT ![p] = NoCall] /\ t.moved = [s.moved EXCEPT ![p] = 0]
  /\ t.broken = IF s.cum[p] # 0 THEN s.broken \cup {p} ELSE s.broken
  /\ t.rd = s.rd /\ t.wr = s.wr /\ t.file = s.file /\ t.alive = s.alive
  /\ t.size = s.size /\ t.rpos = s.rpos /\ t.wpos = s.wpos
  /\ t.revived = s.revived /\ t.reviving = s.reviving /\ t.cum = s.cum
  /\ t.locks = s.locks /\ t.refused = s.refused

LEMMA BrokenGood ==
  ASSUME Basics, NEW s, Good(s), s.revived = {}, NEW p \in Procs,
         NEW t \in State, Broken(s, p, t), Susp(t)
  PROVE  Good(t) /\ t.call[p] = NoCall
<1>1. /\ Core(s) /\ NotBoth(s) /\ s \in State /\ Marked(s)
      /\ \A q \in Procs : MovedFor(s, q, s.call[q])
  BY Zenon DEF Good, Core
<1>2. t.revived = s.revived \ {p} /\ t.reviving = Cardinality(t.revived)
  BY Zenon, <1>1 DEF Broken, Marked
<1>3. /\ t.call = [s.call EXCEPT ![p] = NoCall]
      /\ t.rd = s.rd /\ t.wr = s.wr /\ t.file = s.file /\ t.alive = s.alive
      /\ t.size = s.size /\ t.rpos = s.rpos /\ t.wpos = s.wpos /\ t.locks = s.locks
      /\ t.moved = [s.moved EXCEPT ![p] = 0] /\ t.cum = s.cum
      /\ t.broken = IF s.cum[p] # 0 THEN s.broken \cup {p} ELSE s.broken
  BY Zenon DEF Broken
<1>4. t.refused = s.refused
  BY Zenon DEF Broken
<1>5. /\ Core(t) /\ t.call[p] = NoCall /\ \A q \in Procs \ {p} : t.call[q] = s.call[q]
      /\ HangBut(s, p, t)
  <2>1. CallOff(s, p, t) /\ LeftAlone(s, t)
    BY Zenon, <1>2, <1>3, <1>4 DEF CallOff, LeftAlone
  <2>2. QED
    BY Zenon, <1>1, <1>2, <2>1, CallGone
<1>6. NotBoth(t)
  <2>1. {"READ"} \in SUBSET Waiting /\ {"WRITE"} \in SUBSET Waiting
    BY Zenon DEF Waiting
  <2>2. QED
    BY Zenon, <1>1, <1>5, <2>1 DEF NotBoth, HangBut
<1>7. t.moved[p] = 0 /\ \A q \in Procs \ {p} : t.moved[q] = s.moved[q]
  <2>1. s.moved \in [Procs -> 0 .. MaxBytes]
    BY Zenon, <1>1 DEF State
  <2>2. QED
    BY Zenon, <1>3, <2>1
<1>8. ASSUME NEW q \in Procs PROVE MovedFor(t, q, t.call[q])
  <2>1. CASE q = p
    <3>1. t.call[p].op # "WRITE"
      BY <1>5 DEF NoCall
    <3>2. p \notin t.broken => t.cum[p] = 0
      BY Zenon, <1>3
    <3>3. QED
      BY Zenon, <1>7, <2>1, <3>1, <3>2 DEF MovedFor
  <2>2. CASE q # p
    <3>1. q \notin t.broken => q \notin s.broken
      BY Zenon, <1>3
    <3>2. t.call[q] = s.call[q] /\ t.moved[q] = s.moved[q] /\ t.cum[q] = s.cum[q]
      BY Zenon, <1>3, <1>5, <1>7, <2>2
    <3>3. QED
      BY Zenon, <1>1, <3>1, <3>2 DEF MovedFor
  <2>3. QED
    BY Zenon, <2>1, <2>2
<1>9. QED
  BY Zenon, <1>5, <1>6, <1>8 DEF Good

LEMMA NobodyMarked ==
  ASSUME Basics, NEW s, Core(s), s.reviving = 0
  PROVE  s.revived = {}
BY Zenon DEF Core, Marked, State, Basics

LEMMA ClosedGood ==
  ASSUME NEW s, Good(s), NEW p, NEW e, NEW t, Closed(s, p, e, t)
  PROVE  Good(t)
BY Zenon DEF Good, Closed, NotBoth, MovedFor

(* A process that exits: its call first.                                   *)
LEMMA ExitCall ==
  ASSUME Basics, NEW s, Good(s), s.reviving = 0, NEW p \in Procs, s.call[p] # NoCall
  PROVE  LET u == IF s.call[p].op \in PipeOps THEN [s EXCEPT !.susp_count = @ - 1] ELSE s
             t == do_unpause(u, p)
         IN  Good(t) /\ t.call[p] = NoCall
<1> DEFINE u == IF s.call[p].op \in PipeOps THEN [s EXCEPT !.susp_count = @ - 1] ELSE s
           t == do_unpause(u, p)
           H == Hang(s, PipeOps)
           n == IF s.call[p].op \in PipeOps THEN s.susp_count - 1 ELSE s.susp_count
           moved == [s.moved EXCEPT ![p] = 0]
           g == [s.call EXCEPT ![p] = NoCall]
           b == IF s.cum[p] # 0 THEN s.broken \cup {p} ELSE s.broken
<1>1. Core(s) /\ s \in State /\ Susp(s) /\ s.revived = {}
  BY Zenon, NobodyMarked DEF Good, Core
<1>2. /\ s.susp_count \in Nat /\ s.susp_count >= Cardinality(H) /\ s.signals <= conf.signals
      /\ s.signals = conf.signals => s.susp_count = Cardinality(H)
  BY Zenon, <1>1 DEF Susp, State
<1>3. H \in SUBSET Procs /\ (p \in H <=> s.call[p].op \in PipeOps)
  BY Zenon, <1>1, HangType DEF Hang
<1> HIDE DEF H
<1>4. Cardinality(H) \in Nat /\ (p \in H => Cardinality(H \ {p}) = Cardinality(H) - 1)
      /\ Cardinality(H \ {p}) \in Nat /\ (p \notin H => H \ {p} = H)
  <2>1. H \ {p} \in SUBSET Procs
    BY Zenon, <1>3
  <2>2. QED
    BY Zenon, <1>3, <2>1 DEF Basics
<1>5. n \in Nat /\ n >= Cardinality(H \ {p}) /\ (s.susp_count = Cardinality(H) => n = Cardinality(H \ {p}))
  <2>1. CASE s.call[p].op \in PipeOps
    <3>1. n = s.susp_count - 1 /\ Cardinality(H \ {p}) = Cardinality(H) - 1
      BY Zenon, <1>3, <1>4, <2>1
    <3> HIDE DEF n
    <3>2. QED
      BY <1>2, <1>4, <3>1
  <2>2. CASE s.call[p].op \notin PipeOps
    <3>1. n = s.susp_count /\ H \ {p} = H
      BY Zenon, <1>3, <1>4, <2>2
    <3>2. QED
      BY Zenon, <1>2, <3>1
  <2>3. QED
    BY Zenon, <2>1, <2>2
<1>6. /\ moved \in [Procs -> 0 .. MaxBytes] /\ g \in [Procs -> Calls \cup {NoCall}] /\ b \in SUBSET Procs
  <2>1. /\ s.moved \in [Procs -> 0 .. MaxBytes] /\ s.call \in [Procs -> Calls \cup {NoCall}]
        /\ s.broken \in SUBSET Procs
    BY Zenon, <1>1 DEF State
  <2>2. 0 \in 0 .. MaxBytes
    BY Consts
  <2>3. QED
    BY Zenon, <2>1, <2>2
<1>7. u = [s EXCEPT !.susp_count = n]
  BY Zenon, <1>1 DEF State
<1> HIDE DEF u
<1>8. u \in State /\ u.call = s.call /\ u.moved = s.moved /\ u.cum = s.cum /\ u.broken = s.broken
      /\ u.susp_count = n
  BY Zenon, <1>1, <1>5, <1>7 DEF State
<1>9. /\ u.rd = s.rd /\ u.wr = s.wr /\ u.file = s.file /\ u.alive = s.alive
      /\ u.size = s.size /\ u.rpos = s.rpos /\ u.wpos = s.wpos /\ u.revived = s.revived
      /\ u.reviving = s.reviving /\ u.locks = s.locks /\ u.signals = s.signals /\ u.refused = s.refused
  BY Zenon, <1>1, <1>7 DEF State
<1>10. t = [u EXCEPT !.call = g, !.moved = moved, !.broken = b]
  BY Zenon, <1>8 DEF State, do_unpause
<1> HIDE DEF t, g, moved, b, n
<1>11. t \in State /\ t.call = g /\ t.moved = moved /\ t.broken = b
  BY Zenon, <1>6, <1>8, <1>10 DEF State
<1>12. /\ t.rd = u.rd /\ t.wr = u.wr /\ t.file = u.file /\ t.alive = u.alive
       /\ t.size = u.size /\ t.rpos = u.rpos /\ t.wpos = u.wpos /\ t.revived = u.revived
       /\ t.reviving = u.reviving /\ t.locks = u.locks /\ t.signals = u.signals /\ t.refused = u.refused
       /\ t.cum = u.cum /\ t.susp_count = u.susp_count
  BY Zenon, <1>8, <1>10 DEF State
<1>13. Broken(s, p, t)
  BY Zenon, <1>8, <1>9, <1>11, <1>12 DEF Broken, g, moved, b
<1>14. Susp(t)
  <2>1. PipeOps \in SUBSET Waiting /\ CallOff(s, p, t)
    BY Zenon, <1>1, <1>13 DEF PipeOps, Waiting, Broken, CallOff
  <2>2. Hang(t, PipeOps) = H \ {p}
    <3>1. HangBut(s, p, t)
      BY Zenon, <1>1, <2>1, HangGone
    <3>2. QED
      BY Zenon, <2>1, <3>1 DEF H, HangBut
  <2>3. t.susp_count = n /\ t.signals = s.signals
    BY Zenon, <1>8, <1>9, <1>12
  <2>4. QED
    BY Zenon, <1>2, <1>5, <2>2, <2>3 DEF Susp
<1>15. QED
  BY Zenon, <1>1, <1>11, <1>13, <1>14, BrokenGood DEF t, u

NotOpen(s, p, e, t) ==
  /\ t.rd = IF e = "READ" THEN s.rd \ {p} ELSE s.rd
  /\ t.wr = IF e = "WRITE" THEN s.wr \ {p} ELSE s.wr
  /\ t.file = IF e = "FILE" THEN s.file \ {p} ELSE s.file

LEMMA CloseOpenGood ==
  ASSUME Basics, NEW s, Good(s), NEW p \in Procs, s.call[p] = NoCall, NEW e \in {"READ", "WRITE", "FILE"}
  PROVE  LET t == CloseOpen(s, p, e)
         IN  Good(t) /\ t.call[p] = NoCall /\ NotOpen(s, p, e, t)
<1>1. CASE e \in Open(s, p)
  <2> DEFINE t == do_close(s, p, e)
  <2>1. Core(s)
    BY Zenon DEF Good
  <2>2. Closed(s, p, e, t)
    BY Zenon, <2>1, CloseFacts
  <2> HIDE DEF t
  <2>3. Good(t)
    BY Zenon, <2>2, ClosedGood
  <2>4. CloseOpen(s, p, e) = t
    BY Zenon, <1>1 DEF CloseOpen, t
  <2>5. QED
    BY Zenon, <2>2, <2>3, <2>4 DEF Closed, NotOpen
<1>2. CASE e \notin Open(s, p)
  <2>1. CloseOpen(s, p, e) = s
    BY Zenon, <1>2 DEF CloseOpen
  <2>2. (e = "READ" => p \notin s.rd) /\ (e = "WRITE" => p \notin s.wr) /\ (e = "FILE" => p \notin s.file)
    BY Zenon, <1>2 DEF Open
  <2>3. NotOpen(s, p, e, s)
    BY Zenon, <2>2 DEF NotOpen
  <2>4. QED
    BY Zenon, <2>1, <2>3
<1>3. QED
  BY Zenon, <1>1, <1>2

LEMMA ExitGood ==
  ASSUME Basics, NEW s, Good(s), s.reviving = 0, NEW p \in Procs
  PROVE  Good(do_exit(s, p))
<1> DEFINE u == IF s.call[p].op \in PipeOps THEN [s EXCEPT !.susp_count = @ - 1] ELSE s
           t == IF s.call[p] = NoCall THEN s ELSE do_unpause(u, p)
           a == CloseOpen(t, p, "READ")
           b == CloseOpen(a, p, "WRITE")
           d == CloseOpen(b, p, "FILE")
           x == [d EXCEPT !.alive = @ \ {p}]
<1>1. do_exit(s, p) = x
  BY Zenon DEF do_exit
<1>2. Good(t) /\ t.call[p] = NoCall
  BY Zenon, ExitCall
<1> HIDE DEF t
<1>3. Good(a) /\ a.call[p] = NoCall /\ NotOpen(t, p, "READ", a)
  BY Zenon, <1>2, CloseOpenGood
<1> HIDE DEF a
<1>4. Good(b) /\ b.call[p] = NoCall /\ NotOpen(a, p, "WRITE", b)
  BY Zenon, <1>3, CloseOpenGood
<1> HIDE DEF b
<1>5. Good(d) /\ d.call[p] = NoCall /\ NotOpen(b, p, "FILE", d)
  BY Zenon, <1>4, CloseOpenGood
<1> HIDE DEF d
<1>6. p \notin d.rd /\ p \notin d.wr /\ p \notin d.file
  BY <1>3, <1>4, <1>5 DEF NotOpen
<1>7. /\ Core(d) /\ d \in State /\ Marked(d) /\ Susp(d) /\ Ends(d) /\ Pos(d) /\ Hangs(d)
      /\ Excluding(d.locks) /\ Kept(d) /\ NotBoth(d) /\ \A q \in Procs : MovedFor(d, q, d.call[q])
  BY Zenon, <1>5 DEF Good, Core
<1>8. x \in State /\ x.alive = d.alive \ {p}
  BY Zenon, <1>7 DEF State
<1>9. /\ x.rd = d.rd /\ x.wr = d.wr /\ x.file = d.file /\ x.size = d.size /\ x.rpos = d.rpos
      /\ x.wpos = d.wpos /\ x.call = d.call /\ x.cum = d.cum /\ x.moved = d.moved /\ x.broken = d.broken
      /\ x.locks = d.locks /\ x.signals = d.signals /\ x.revived = d.revived /\ x.reviving = d.reviving
      /\ x.susp_count = d.susp_count /\ x.refused = d.refused
  BY Zenon, <1>7 DEF State
<1> HIDE DEF x
<1>10. \A ops : Hang(x, ops) = Hang(d, ops)
  BY Zenon, <1>9, HangSame
<1>11. Marked(x) /\ Pos(x)
  BY Zenon, <1>7, <1>9 DEF Marked, Pos
<1>12. Susp(x)
  BY Zenon, <1>7, <1>9, <1>10 DEF Susp
<1>13. Hangs(x) /\ NotBoth(x)
  BY Zenon, <1>7, <1>9, <1>10 DEF Hangs, NotBoth
<1>14. Kept(x) /\ Excluding(x.locks)
  BY Zenon, <1>7, <1>9, <1>10 DEF Kept
<1>15. Ends(x)
  <2>1. x.rd \subseteq x.alive /\ x.wr \subseteq x.alive /\ x.file \subseteq x.alive
    BY Zenon, <1>6, <1>7, <1>8, <1>9 DEF Ends
  <2>2. \A e : \A q : MayCall(x, q, e) <=> MayCall(d, q, e)
    BY Zenon, <1>9 DEF MayCall
  <2>3. QED
    BY Zenon, <1>7, <1>9, <2>1, <2>2 DEF Ends
<1>16. \A q \in Procs : MovedFor(x, q, x.call[q])
  BY Zenon, <1>7, <1>9 DEF MovedFor
<1>17. Good(x)
  BY Zenon, <1>8, <1>11, <1>12, <1>13, <1>14, <1>15, <1>16 DEF Good, Core
<1>18. QED
  BY Zenon, <1>1, <1>17

-----------------------------------------------------------------------------
(* The state and the answer after a call was run.                          *)
Answered(u, p, t) ==
  t = [u EXCEPT !.moved[p] = 0, !.broken = IF u.cum[p] # 0 THEN @ \cup {p} ELSE @]

LEMMA AnsweredGood ==
  ASSUME NEW s, NEW p, NEW c, Pre(s, p, c), \A q \in Procs \ {p} : MovedFor(s, q, s.call[q]),
         NEW r, Done(s, p, r), r.ret # WAIT, NEW t, Answered(r.s, p, t)
  PROVE  Good(t)
<1> DEFINE u == r.s
           moved == [u.moved EXCEPT ![p] = 0]
           b == IF u.cum[p] # 0 THEN u.broken \cup {p} ELSE u.broken
<1>1. /\ Core(u) /\ NotBoth(u) /\ Others(s, p, u) /\ u.call[p] = NoCall /\ p \in Procs
  BY Zenon DEF Done, Pre
<1>2. u \in State /\ Pos(u) /\ u.moved \in [Procs -> 0 .. MaxBytes] /\ u.broken \in SUBSET Procs
  BY Zenon, <1>1 DEF Core, State
<1>3. t = [u EXCEPT !.moved = moved, !.broken = b]
  BY Zenon, <1>2 DEF State, Answered
<1>4. moved \in [Procs -> 0 .. MaxBytes] /\ moved[p] = 0 /\ \A q \in Procs \ {p} : moved[q] = u.moved[q]
  <2>1. 0 \in 0 .. MaxBytes
    BY Consts
  <2>2. QED
    BY Zenon, <1>1, <1>2, <2>1
<1>5. b \in SUBSET Procs /\ (p \notin b => u.cum[p] = 0) /\ \A q \in Procs \ {p} : q \in u.broken => q \in b
  BY Zenon, <1>1, <1>2
<1> HIDE DEF u, moved, b
<1>6. t \in State /\ t.moved = moved /\ t.broken = b
  BY Zenon, <1>2, <1>3, <1>4, <1>5 DEF State
<1>7. /\ t.rd = u.rd /\ t.wr = u.wr /\ t.file = u.file /\ t.alive = u.alive
      /\ t.call = u.call /\ t.revived = u.revived /\ t.reviving = u.reviving
      /\ t.susp_count = u.susp_count /\ t.locks = u.locks /\ t.signals = u.signals
      /\ t.refused = u.refused /\ t.size = u.size /\ t.rpos = u.rpos /\ t.wpos = u.wpos /\ t.cum = u.cum
  BY Zenon, <1>2, <1>3 DEF State
<1>8. Pos(t)
  BY Zenon, <1>2, <1>7 DEF Pos
<1>9. Core(t) /\ \A ops : Hang(t, ops) = Hang(u, ops)
  BY Zenon, <1>1, <1>6, <1>7, <1>8, MoveKeeps
<1>10. NotBoth(t)
  BY Zenon, <1>1, <1>9 DEF NotBoth
<1>11. ASSUME NEW q \in Procs PROVE MovedFor(t, q, t.call[q])
  <2>1. CASE q = p
    <3>1. t.call[p].op # "WRITE"
      BY <1>1, <1>7 DEF NoCall
    <3>2. t.moved[p] = 0 /\ (p \notin t.broken => t.cum[p] = 0)
      BY Zenon, <1>4, <1>5, <1>6, <1>7
    <3>3. QED
      BY Zenon, <2>1, <3>1, <3>2 DEF MovedFor
  <2>2. CASE q # p
    <3>1. t.call[q] = s.call[q] /\ t.moved[q] = s.moved[q] /\ t.cum[q] = s.cum[q]
      BY Zenon, <1>1, <1>4, <1>6, <1>7, <2>2 DEF Others
    <3>2. q \notin t.broken => q \notin s.broken
      BY Zenon, <1>1, <1>5, <1>6, <2>2 DEF Others
    <3>3. QED
      BY Zenon, <2>2, <3>1, <3>2 DEF MovedFor
  <2>3. QED
    BY Zenon, <2>1, <2>2
<1>12. QED
  BY Zenon, <1>9, <1>10, <1>11 DEF Good

LEMMA WaitingGood ==
  ASSUME NEW s, NEW p, NEW c, Pre(s, p, c), \A q \in Procs \ {p} : MovedFor(s, q, s.call[q]),
         NEW r, Done(s, p, r), r.ret = WAIT
  PROVE  Good(r.s)
<1> DEFINE u == r.s
<1>1. Core(u) /\ NotBoth(u) /\ Others(s, p, u) /\ MovedFor(u, p, u.call[p])
  BY Zenon DEF Done
<1> HIDE DEF u
<1>2. ASSUME NEW q \in Procs \ {p} PROVE MovedFor(u, q, u.call[q])
  BY Zenon, <1>1 DEF Others, MovedFor
<1>3. Good(u)
  BY Zenon, <1>1, <1>2 DEF Good
<1>4. QED
  BY Zenon, <1>3 DEF u

(* What is good under a configuration is good after the step.              *)
LEMMA GoodPrime ==
  ASSUME conf' = conf, NEW t, Good(t), f' = t
  PROVE  Good(f)'
<1>1. Good(f') 
  BY Zenon
<1>2. /\ f' \in State /\ Marked(f') /\ Susp(f') /\ Ends(f') /\ Pos(f') /\ Hangs(f')
      /\ Excluding(f'.locks) /\ Kept(f') /\ NotBoth(f') /\ \A p \in Procs : MovedFor(f', p, f'.call[p])
  BY Zenon, <1>1 DEF Good, Core
<1>3. Susp(f)'
  BY Zenon, <1>2 DEF Susp
<1>4. Marked(f)' /\ Ends(f)' /\ Pos(f)' /\ Hangs(f)' /\ Excluding(f.locks)' /\ Kept(f)' /\ NotBoth(f)'
      /\ (f \in State)' /\ (\A p \in Procs : MovedFor(f, p, f.call[p]))'
  BY Zenon, <1>2
<1>5. QED
  BY Zenon, <1>3, <1>4 DEF Good, Core

LEMMA ExecuteStep ==
  ASSUME Basics, IInv, conf' = conf, NEW s, NEW p, NEW c, Pre(s, p, c),
         \A q \in Procs \ {p} : MovedFor(s, q, s.call[q]), Execute(s, p, c)
  PROVE  IInv'
<1> DEFINE r == CASE c.op = "READ"  -> do_read(s, p, c)
                  [] c.op = "WRITE" -> do_write(s, p, c)
                  [] OTHER          -> lock_op(s, p, c)
<1>1. Done(s, p, r)
  <2>1. c \in Calls
    BY Zenon DEF Pre
  <2>2. c.op \in {"READ", "WRITE", "SETLK", "SETLKW"}
    BY Zenon, <2>1, CallFacts
  <2>3. CASE c.op = "READ"
    <3>1. r = do_read(s, p, c)
      BY <2>3
    <3>2. QED
      BY Zenon, <2>3, <3>1, ReadDone
  <2>4. CASE c.op = "WRITE"
    <3>1. r = do_write(s, p, c)
      BY <2>4
    <3>2. QED
      BY Zenon, <2>4, <3>1, WriteDone
  <2>5. CASE c.op \in {"SETLK", "SETLKW"}
    <3>1. r = lock_op(s, p, c)
      BY <2>5
    <3>2. QED
      BY Zenon, <2>5, <3>1, LockDone
  <2>6. QED
    BY Zenon, <2>2, <2>3, <2>4, <2>5
<1>2. IF r.ret = WAIT THEN f' = r.s /\ UNCHANGED last
      ELSE /\ f' = [r.s EXCEPT !.moved[p] = 0,
                               !.broken = IF r.s.cum[p] # 0 THEN @ \cup {p} ELSE @]
           /\ last' = IF r.ret < 0 \/ p \in s.broken THEN 0 ELSE r.ret - r.s.moved[p]
  BY Zenon DEF Execute
<1> HIDE DEF r
<1>3. conf \in Confs /\ last = 0
  BY Zenon DEF IInv
<1>4. CASE r.ret = WAIT
  <2>1. f' = r.s /\ last' = last
    BY Zenon, <1>2, <1>4
  <2>2. Good(r.s)
    BY Zenon, <1>1, <1>4, WaitingGood
  <2>3. Good(f)'
    BY Zenon, <2>1, <2>2, GoodPrime
  <2>4. QED
    BY Zenon, <1>3, <2>1, <2>3 DEF IInv
<1>5. CASE r.ret # WAIT
  <2> DEFINE t == [r.s EXCEPT !.moved[p] = 0,
                              !.broken = IF r.s.cum[p] # 0 THEN @ \cup {p} ELSE @]
  <2>1. f' = t
    BY Zenon, <1>2, <1>5
  <2>2. Good(t)
    <3>1. Answered(r.s, p, t)
      BY Zenon DEF Answered
    <3> HIDE DEF t
    <3>2. QED
      BY Zenon, <1>1, <1>5, <3>1, AnsweredGood
  <2> HIDE DEF t
  <2>3. Good(f)'
    BY Zenon, <2>1, <2>2, GoodPrime
  <2>4. last' = 0
    <3>1. last' = IF r.ret < 0 \/ p \in s.broken THEN 0 ELSE r.ret - r.s.moved[p]
      BY Zenon, <1>2, <1>5
    <3>2. r.ret < 0 \/ p \in s.broken \/ r.ret = r.s.moved[p]
      BY Zenon, <1>1, <1>5 DEF Done
    <3>3. r.s.moved[p] \in Nat
      <4>1. r.s \in State /\ p \in Procs
        BY Zenon, <1>1 DEF Done, Core, Pre
      <4>2. r.s.moved[p] \in 0 .. MaxBytes
        BY Zenon, <4>1 DEF State
      <4>3. QED
        BY <4>2, Consts
    <3>4. r.s.moved[p] - r.s.moved[p] = 0
      BY <3>3
    <3>5. QED
      BY Zenon, <3>1, <3>2, <3>4
  <2>5. QED
    BY Zenon, <1>3, <2>3, <2>4 DEF IInv
<1>6. QED
  BY Zenon, <1>4, <1>5

LEMMA RequestStep ==
  ASSUME Basics, IInv, NEW p \in Procs, Request(p)
  PROVE  IInv'
<1>1. PICK c \in Calls : MayCall(f, p, c) /\ Execute(f, p, c)
  BY Zenon DEF Request
<1>2. conf' = conf /\ f.call[p] = NoCall
  BY Zenon DEF Request
<1>3. Core(f) /\ NotBoth(f) /\ \A q \in Procs : MovedFor(f, q, f.call[q])
  BY Zenon DEF IInv, Good
<1>4. MovedFor(f, p, c)
  <2>1. f.call[p].op # "WRITE"
    BY <1>2 DEF NoCall
  <2>2. f.moved[p] = 0 /\ (p \notin f.broken => f.cum[p] = f.moved[p])
    BY Zenon, <1>3, <2>1 DEF MovedFor
  <2>3. c.op = "WRITE" => 0 + c.n <= MaxBytes
    <3>1. c.op = "WRITE" => c.n \in 1 .. MaxBytes
      BY Zenon, CallFacts DEF PipeOps
    <3>2. QED
      BY <3>1, Consts
  <2>4. QED
    BY Zenon, <2>2, <2>3 DEF MovedFor
<1>5. Pre(f, p, c)
  BY Zenon, <1>1, <1>2, <1>3, <1>4 DEF Pre
<1>6. QED
  BY Zenon, <1>1, <1>2, <1>3, <1>5, ExecuteStep

LEMMA GetWorkStep ==
  ASSUME Basics, IInv, get_work
  PROVE  IInv'
<1> DEFINE p == FirstSlot(f.revived)
           c == f.call[p]
           s == [f EXCEPT !.call[p] = NoCall, !.revived = @ \ {p}, !.reviving = @ - 1]
           g == [f.call EXCEPT ![p] = NoCall]
<1>1. Core(f) /\ NotBoth(f) /\ \A q \in Procs : MovedFor(f, q, f.call[q])
  BY Zenon DEF IInv, Good
<1>2. f \in State /\ Marked(f) /\ Ends(f) /\ Susp(f)
  BY Zenon, <1>1 DEF Core
<1>3. Execute(s, p, c) /\ conf' = conf /\ f.reviving # 0
  BY Zenon DEF get_work
<1>4. /\ f.revived \in SUBSET Procs /\ f.reviving = Cardinality(f.revived)
      /\ f.call \in [Procs -> Calls \cup {NoCall}] /\ \A q \in f.revived : f.call[q].op \in Waiting
  BY Zenon, <1>2 DEF State, Marked
<1>5. f.revived # {}
  BY Zenon, <1>3, <1>4 DEF Basics
<1>6. p \in f.revived /\ p \in Procs
  BY Zenon, <1>4, <1>5, FirstSlotFacts
<1> HIDE DEF p
<1>7. c \in Calls /\ c.op \in Waiting /\ c # NoCall
  <2>1. NoCall.op \notin Waiting
    BY DEF NoCall, Waiting
  <2>2. QED
    BY Zenon, <1>4, <1>6, <2>1
<1>8. g \in [Procs -> Calls \cup {NoCall}] /\ f.revived \ {p} \in SUBSET Procs
  BY Zenon, <1>4
<1>9. f.reviving - 1 \in Nat /\ f.reviving - 1 = Cardinality(f.revived \ {p})
  <2>1. Cardinality(f.revived \ {p}) \in Nat
    BY Zenon, <1>8 DEF Basics
  <2>2. \A S \in SUBSET Procs : \A q \in S : Cardinality(S \ {q}) = Cardinality(S) - 1
    BY Zenon DEF Basics
  <2>3. f.revived \in SUBSET Procs /\ p \in f.revived
    BY Zenon, <1>4, <1>6
  <2>4. Cardinality(f.revived \ {p}) = Cardinality(f.revived) - 1
    BY Zenon, <2>2, <2>3
  <2>5. QED
    BY Zenon, <1>4, <2>1, <2>4
<1>10. s = [f EXCEPT !.call = g, !.revived = f.revived \ {p}, !.reviving = f.reviving - 1]
  BY Zenon, <1>2 DEF State
<1> HIDE DEF s, g
<1>11. s \in State /\ s.call = g /\ s.revived = f.revived \ {p} /\ s.reviving = f.reviving - 1
  BY Zenon, <1>2, <1>8, <1>9, <1>10 DEF State
<1>12. /\ s.rd = f.rd /\ s.wr = f.wr /\ s.file = f.file /\ s.alive = f.alive
       /\ s.size = f.size /\ s.rpos = f.rpos /\ s.wpos = f.wpos /\ s.locks = f.locks
       /\ s.refused = f.refused /\ s.susp_count = f.susp_count /\ s.signals = f.signals
       /\ s.moved = f.moved /\ s.cum = f.cum /\ s.broken = f.broken
  BY Zenon, <1>2, <1>10 DEF State
<1>13. CallOff(f, p, s) /\ LeftAlone(f, s) /\ s.reviving = Cardinality(s.revived)
  BY Zenon, <1>9, <1>11, <1>12 DEF CallOff, LeftAlone, g
<1>14. HangBut(f, p, s)
  BY Zenon, <1>2, <1>6, <1>13, HangGone
<1>15. \A ops \in SUBSET Waiting : Hang(s, ops) = Hang(f, ops)
  BY Zenon, <1>6, <1>14, HangType DEF HangBut
<1>16. /\ {"READ"} \in SUBSET Waiting /\ {"WRITE"} \in SUBSET Waiting /\ PipeOps \in SUBSET Waiting
  BY Zenon DEF Waiting, PipeOps
<1>17. Susp(s)
  <2>1. Hang(s, PipeOps) = Hang(f, PipeOps)
    BY Zenon, <1>15, <1>16
  <2>2. QED
    BY Zenon, <1>2, <1>12, <2>1 DEF Susp
<1>18. Core(s) /\ s.call[p] = NoCall /\ \A q \in Procs \ {p} : s.call[q] = f.call[q]
  <2>1. Core(f) /\ p \in Procs /\ s \in State
    BY Zenon, <1>1, <1>6, <1>11
  <2>2. QED
    BY Zenon, <1>13, <1>17, <2>1, CallGone
<1>19. NotBoth(s)
  BY Zenon, <1>1, <1>15, <1>16 DEF NotBoth
<1>20. MayCall(s, p, c)
  <2>1. MayCall(f, p, c)
    BY Zenon, <1>2, <1>6, <1>7 DEF Ends
  <2>2. QED
    BY Zenon, <1>12, <2>1 DEF MayCall
<1>21. MovedFor(s, p, c) /\ \A q \in Procs \ {p} : MovedFor(s, q, s.call[q])
  BY Zenon, <1>1, <1>6, <1>12, <1>18 DEF MovedFor
<1> HIDE DEF c
<1>22. Pre(s, p, c)
  BY Zenon, <1>6, <1>7, <1>18, <1>19, <1>20, <1>21 DEF Pre
<1>23. QED
  BY Zenon, <1>3, <1>21, <1>22, ExecuteStep

LEMMA CloseStep ==
  ASSUME Basics, IInv, NEW p \in Procs, Close(p)
  PROVE  IInv'
<1>1. PICK e \in Open(f, p) : f' = do_close(f, p, e)
  BY Zenon DEF Close
<1>2. f.call[p] = NoCall /\ last' = last /\ conf' = conf
  BY Zenon DEF Close
<1>3. e \in {"READ", "WRITE", "FILE"}
  BY Zenon DEF Open
<1>4. conf \in Confs /\ last = 0 /\ Good(f) /\ Core(f)
  BY Zenon DEF IInv, Good
<1> DEFINE t == do_close(f, p, e)
<1>5. Closed(f, p, e, t)
  BY Zenon, <1>2, <1>3, <1>4, CloseFacts
<1> HIDE DEF t
<1>6. Good(t)
  BY Zenon, <1>4, <1>5, ClosedGood
<1>7. Good(f)'
  BY Zenon, <1>1, <1>2, <1>6, GoodPrime DEF t
<1>8. QED
  BY Zenon, <1>2, <1>4, <1>7 DEF IInv

LEMMA ExitStep ==
  ASSUME Basics, IInv, NEW p \in Procs, Exit(p)
  PROVE  IInv'
<1>1. f' = do_exit(f, p) /\ f.reviving = 0 /\ last' = last /\ conf' = conf
  BY Zenon DEF Exit, Listens
<1>2. conf \in Confs /\ last = 0 /\ Good(f)
  BY Zenon DEF IInv
<1>3. Good(do_exit(f, p))
  BY Zenon, <1>1, <1>2, ExitGood
<1>4. Good(f)'
  BY Zenon, <1>1, <1>3, GoodPrime
<1>5. QED
  BY Zenon, <1>1, <1>2, <1>4 DEF IInv

LEMMA UnpauseStep ==
  ASSUME Basics, IInv, NEW p \in Procs, Unpause(p)
  PROVE  IInv'
<1> DEFINE moved == [f.moved EXCEPT ![p] = 0]
           g == [f.call EXCEPT ![p] = NoCall]
           b == IF f.cum[p] # 0 THEN f.broken \cup {p} ELSE f.broken
           t == [do_unpause(f, p) EXCEPT !.signals = @ - 1]
           H == Hang(f, PipeOps)
<1>1. f' = t /\ f.reviving = 0 /\ f.signals > 0 /\ last' = last /\ conf' = conf
  BY Zenon DEF Unpause, Listens
<1>2. conf \in Confs /\ last = 0 /\ Good(f) /\ Core(f)
  BY Zenon DEF IInv, Good
<1>3. f \in State /\ Susp(f) /\ f.revived = {}
  BY Zenon, <1>1, <1>2, NobodyMarked DEF Core
<1>4. f.signals \in Nat /\ conf.signals \in Nat /\ f.signals <= conf.signals
  BY Zenon, <1>2, <1>3, FSAssumption DEF State, Susp
<1>5. f.signals - 1 \in Nat /\ f.signals - 1 <= conf.signals /\ f.signals - 1 # conf.signals
  BY <1>1, <1>4
<1>6. /\ moved \in [Procs -> 0 .. MaxBytes] /\ g \in [Procs -> Calls \cup {NoCall}] /\ b \in SUBSET Procs
  <2>1. /\ f.moved \in [Procs -> 0 .. MaxBytes] /\ f.call \in [Procs -> Calls \cup {NoCall}]
        /\ f.broken \in SUBSET Procs
    BY Zenon, <1>3 DEF State
  <2>2. 0 \in 0 .. MaxBytes
    BY Consts
  <2>3. QED
    BY Zenon, <2>1, <2>2
<1>7. t = [f EXCEPT !.call = g, !.moved = moved, !.broken = b, !.signals = f.signals - 1]
  BY Zenon, <1>3 DEF State, do_unpause
<1> HIDE DEF t, g, moved, b
<1>8. t \in State /\ t.call = g /\ t.moved = moved /\ t.broken = b /\ t.signals = f.signals - 1
  BY Zenon, <1>3, <1>5, <1>6, <1>7 DEF State
<1>9. /\ t.rd = f.rd /\ t.wr = f.wr /\ t.file = f.file /\ t.alive = f.alive
      /\ t.size = f.size /\ t.rpos = f.rpos /\ t.wpos = f.wpos /\ t.revived = f.revived
      /\ t.reviving = f.reviving /\ t.locks = f.locks /\ t.refused = f.refused
      /\ t.cum = f.cum /\ t.susp_count = f.susp_count
  BY Zenon, <1>3, <1>7 DEF State
<1>10. Broken(f, p, t)
  BY Zenon, <1>8, <1>9 DEF Broken, g, moved, b
<1>11. Susp(t)
  <2>1. PipeOps \in SUBSET Waiting /\ CallOff(f, p, t)
    BY Zenon, <1>3, <1>10 DEF PipeOps, Waiting, Broken, CallOff
  <2>2. HangBut(f, p, t)
    BY Zenon, <1>3, <2>1, HangGone
  <2> DEFINE K == Hang(t, PipeOps)
  <2>3. K \in SUBSET H /\ H \in SUBSET Procs
    BY Zenon, <2>1, <2>2, HangType DEF HangBut
  <2>4. f.susp_count \in Nat /\ f.susp_count >= Cardinality(H)
    BY Zenon, <1>3 DEF State, Susp
  <2> HIDE DEF K, H
  <2>5. Cardinality(K) <= Cardinality(H) /\ Cardinality(H) \in Nat /\ Cardinality(K) \in Nat
    <3>1. K \in SUBSET Procs
      BY Zenon, <2>3
    <3>2. QED
      BY Zenon, <2>3, <3>1 DEF Basics
  <2>6. f.susp_count >= Cardinality(K)
    BY <2>4, <2>5
  <2>7. QED
    BY Zenon, <1>5, <1>8, <1>9, <2>6 DEF Susp, K
<1>12. Good(t)
  BY Zenon, <1>2, <1>3, <1>8, <1>10, <1>11, BrokenGood
<1>13. Good(f)'
  BY Zenon, <1>1, <1>12, GoodPrime
<1>14. QED
  BY Zenon, <1>1, <1>2, <1>13 DEF IInv

-----------------------------------------------------------------------------
(* The invariant: where it comes from, and what it gives.                  *)
LEMMA InitHolds ==
  ASSUME Basics, Init
  PROVE  IInv
<1>1. /\ conf \in Confs /\ last = 0
      /\ f = [ rd |-> conf.rd, wr |-> conf.wr, file |-> conf.file, alive |-> Procs,
               size |-> 0, rpos |-> 0, wpos |-> 0,
               call |-> [p \in Procs |-> NoCall], revived |-> {}, reviving |-> 0,
               susp_count |-> 0, cum |-> [p \in Procs |-> 0],
               locks |-> [i \in 1 .. NR_LOCKS |-> NoLock],
               signals |-> conf.signals,
               moved |-> [p \in Procs |-> 0], broken |-> {}, refused |-> FALSE ]
  BY Zenon DEF Init
<1>2. /\ conf.rd \in SUBSET Procs /\ conf.wr \in SUBSET Procs /\ conf.file \in SUBSET Procs
      /\ conf.signals \in Nat
  BY Zenon, <1>1, FSAssumption
<1>3. 0 \in 0 .. PIPE_SIZE /\ 0 \in 0 .. MaxBytes /\ 0 \in Nat
  BY Consts
<1>4. f \in State
  <2>1. /\ [p \in Procs |-> NoCall] \in [Procs -> Calls \cup {NoCall}]
        /\ [p \in Procs |-> 0] \in [Procs -> Nat] /\ [p \in Procs |-> 0] \in [Procs -> 0 .. MaxBytes]
        /\ [i \in 1 .. NR_LOCKS |-> NoLock] \in [1 .. NR_LOCKS -> Locks \cup {NoLock}]
    BY Zenon, <1>3
  <2>2. QED
    BY Zenon, <1>1, <1>2, <1>3, <2>1 DEF State
<1>5. /\ f.rd = conf.rd /\ f.wr = conf.wr /\ f.file = conf.file /\ f.alive = Procs
      /\ f.size = 0 /\ f.rpos = 0 /\ f.wpos = 0 /\ f.revived = {} /\ f.reviving = 0 /\ f.susp_count = 0
      /\ f.signals = conf.signals /\ f.broken = {}
  BY Zenon, <1>1
<1>6. /\ f.call = [p \in Procs |-> NoCall] /\ f.cum = [p \in Procs |-> 0]
      /\ f.moved = [p \in Procs |-> 0] /\ f.locks = [i \in 1 .. NR_LOCKS |-> NoLock]
  BY Zenon, <1>1
<1>7. \A p \in Procs : f.call[p] = NoCall /\ f.cum[p] = 0 /\ f.moved[p] = 0
  BY Zenon, <1>6
<1>8. \A ops \in SUBSET Waiting : Hang(f, ops) = {}
  <2>1. NoCall.op \notin Waiting
    BY DEF NoCall, Waiting
  <2>2. QED
    BY Zenon, <1>7, <2>1 DEF Hang
<1>9. /\ {"READ"} \in SUBSET Waiting /\ {"WRITE"} \in SUBSET Waiting /\ {"SETLKW"} \in SUBSET Waiting
      /\ PipeOps \in SUBSET Waiting
  BY Zenon DEF Waiting, PipeOps
<1>10. Cardinality({}) = 0
  <2>1. {} \in SUBSET Procs
    BY Zenon
  <2>2. QED
    BY Zenon, <2>1 DEF Basics
<1>11. Marked(f)
  BY Zenon, <1>5, <1>10 DEF Marked
<1>12. Susp(f)
  <2>1. conf.signals <= conf.signals /\ 0 >= 0
    BY <1>2
  <2>2. Cardinality(Hang(f, PipeOps)) = 0
    BY Zenon, <1>8, <1>9, <1>10
  <2>3. QED
    BY Zenon, <1>5, <2>1, <2>2 DEF Susp
<1>13. Ends(f)
  BY Zenon, <1>2, <1>5, <1>7 DEF Ends
<1>14. Pos(f)
  <2>1. 0 <= 0
    OBVIOUS
  <2>2. QED
    BY Zenon, <1>5, <2>1 DEF Pos
<1>15. Hangs(f) /\ NotBoth(f) /\ Kept(f)
  BY Zenon, <1>8, <1>9 DEF Hangs, NotBoth, Kept
<1>16. Excluding(f.locks)
  BY Zenon, <1>6 DEF Excluding
<1>17. \A p \in Procs : MovedFor(f, p, f.call[p])
  <2>1. NoCall.op # "WRITE"
    BY DEF NoCall
  <2>2. QED
    BY Zenon, <1>7, <2>1 DEF MovedFor
<1>18. Good(f)
  BY Zenon, <1>4, <1>11, <1>12, <1>13, <1>14, <1>15, <1>16, <1>17 DEF Good, Core
<1>19. QED
  BY Zenon, <1>1, <1>18 DEF IInv

LEMMA NextHolds ==
  ASSUME Basics, IInv, [Next]_vars
  PROVE  IInv'
<1>1. CASE get_work
  BY Zenon, <1>1, GetWorkStep
<1>2. ASSUME NEW p \in Procs, Request(p) PROVE IInv'
  BY Zenon, <1>2, RequestStep
<1>3. ASSUME NEW p \in Procs, Close(p) PROVE IInv'
  BY Zenon, <1>3, CloseStep
<1>4. ASSUME NEW p \in Procs, Exit(p) PROVE IInv'
  BY Zenon, <1>4, ExitStep
<1>5. ASSUME NEW p \in Procs, Unpause(p) PROVE IInv'
  BY Zenon, <1>5, UnpauseStep
<1>6. CASE UNCHANGED vars
  <2>1. f' = f /\ last' = last /\ conf' = conf
    BY Zenon, <1>6 DEF vars
  <2>2. Good(f)'
    BY Zenon, <2>1, GoodPrime DEF IInv
  <2>3. QED
    BY Zenon, <2>1, <2>2 DEF IInv
<1>7. QED
  BY Zenon, <1>1, <1>2, <1>3, <1>4, <1>5, <1>6 DEF Next

LEMMA InvGives == IInv => CountsExact /\ PipeWaits /\ BytesMovedOnce /\ LocksKept
<1> SUFFICES ASSUME IInv PROVE CountsExact /\ PipeWaits /\ BytesMovedOnce /\ LocksKept
  BY Zenon
<1>1. /\ last = 0 /\ f \in State /\ Marked(f) /\ Susp(f) /\ Ends(f) /\ Pos(f) /\ Hangs(f)
      /\ Excluding(f.locks) /\ Kept(f) /\ NotBoth(f)
  BY Zenon DEF IInv, Good, Core
<1>2. /\ f.alive \in SUBSET Procs /\ f.revived \in SUBSET Procs
      /\ f.call \in [Procs -> Calls \cup {NoCall}] /\ f.cum \in [Procs -> Nat]
      /\ f.size \in 0 .. PIPE_SIZE /\ f.rpos \in 0 .. PIPE_SIZE /\ f.wpos \in 0 .. PIPE_SIZE
      /\ f.moved \in [Procs -> 0 .. MaxBytes] /\ DOMAIN f.locks = 1 .. NR_LOCKS
  BY Zenon, <1>1 DEF State
<1>3. RevivingExact
  BY Zenon, <1>1 DEF Marked, Waiting, RevivingExact
<1>4. TypeOK
  <2>1. ASSUME NEW p \in f.revived PROVE p \in f.alive
    <3>1. p \in Procs /\ f.call[p] # NoCall
      <4>1. NoCall.op \notin Waiting
        BY DEF NoCall, Waiting
      <4>2. QED
        BY Zenon, <1>1, <1>2, <2>1, <4>1 DEF Marked
    <3>2. MayCall(f, p, f.call[p])
      BY Zenon, <1>1, <3>1 DEF Ends
    <3>3. p \in f.rd \/ p \in f.wr \/ p \in f.file
      BY <3>2 DEF MayCall
    <3>4. QED
      BY Zenon, <1>1, <3>3 DEF Ends
  <2>2. f.rd \subseteq f.alive /\ f.wr \subseteq f.alive /\ f.file \subseteq f.alive
    BY Zenon, <1>1 DEF Ends
  <2>3. \A p \in Procs : f.cum[p] \in Nat /\ f.moved[p] \in 0 .. MaxBytes
    BY Zenon, <1>2
  <2>4. QED
    BY Zenon, <1>2, <2>1, <2>2, <2>3 DEF TypeOK
<1>5. SuspCounted
  BY Zenon, <1>1 DEF Susp, SuspCounted
<1>6. PipeWaits
  <2>1. f.size = 0 => f.rpos >= f.size
    BY <1>2, Consts
  <2>2. PipeWaitIsJustified
    BY Zenon, <1>1, <2>1 DEF Hangs, PipeWaitIsJustified
  <2>3. QED
    BY Zenon, <1>1, <2>2 DEF NotBoth, NoBothWait, PipeWaits
<1>7. BytesMovedOnce
  BY Zenon, <1>1 DEF Pos, PipePositions, CountIsWhatMoved, BytesMovedOnce
<1>8. LocksKept
  <2>1. LocksExclude
    BY Zenon, <1>1, <1>2 DEF Excluding, LocksExclude
  <2>2. LockWaitIsJustified
    BY Zenon, <1>1, <1>2 DEF Kept, LockWaitIsJustified
  <2>3. QED
    BY Zenon, <2>1, <2>2 DEF LocksKept
<1>9. QED
  BY Zenon, <1>3, <1>4, <1>5, <1>6, <1>7, <1>8 DEF CountsExact

-----------------------------------------------------------------------------
(* What the lemmas used of the natural numbers and of finite sets.         *)
INSTANCE WellFoundedInduction

INSTANCE FiniteSetTheorems

LEMMA NatLeast ==
  ASSUME NEW N \in SUBSET Nat, N # {}
  PROVE  \E m \in N : \A n \in N : m <= n
<1>1. PICK m \in N : \A n \in N : ~(<<n, m>> \in OpToRel(<, Nat))
  BY Zenon, NatLessThanWellFounded, WFMin
<1>2. \A n \in N : ~(n < m)
  BY Zenon, <1>1 DEF OpToRel
<1>3. QED
  BY <1>2

LEMMA ProcsFinite == IsFiniteSet(Procs) /\ Cardinality(Procs) <= Len(Slots)
<1> DEFINE I == 1 .. Len(Slots)
           g == [i \in I |-> Slots[i]]
<1>1. g \in Surjection(I, Procs)
  <2>1. DOMAIN Slots = I
    BY Zenon, FSAssumption
  <2>2. g \in [I -> Procs] /\ \A p \in Procs : \E i \in I : g[i] = p
    BY Zenon, <2>1 DEF Procs
  <2>3. QED
    BY Zenon, <2>2 DEF Surjection
<1>2. IsFiniteSet(I) /\ Cardinality(I) = IF 1 > Len(Slots) THEN 0 ELSE Len(Slots) - 1 + 1
  <2>1. 1 \in Int /\ Len(Slots) \in Int
    BY Consts
  <2>2. QED
    BY Zenon, <2>1, FS_Interval
<1>3. Cardinality(I) = Len(Slots)
  BY <1>2, Consts
<1> HIDE DEF I, g
<1>4. IsFiniteSet(Procs) /\ Cardinality(Procs) <= Cardinality(I)
  BY Zenon, <1>1, <1>2, FS_Surjection
<1>5. QED
  BY Zenon, <1>3, <1>4

LEMMA BasicsHold == Basics
<1>1. \A N \in SUBSET Nat : N # {} => \E m \in N : \A n \in N : m <= n
  BY Zenon, NatLeast
<1>2. ASSUME NEW S \in SUBSET Procs
      PROVE  /\ IsFiniteSet(S) /\ Cardinality(S) \in Nat /\ Cardinality(S) <= Cardinality(Procs)
             /\ Cardinality(S) = 0 <=> S = {}
             /\ Cardinality(Procs) \in Nat
  BY Zenon, ProcsFinite, FS_Subset, FS_CardinalityType, FS_EmptySet
<1>3. ASSUME NEW S \in SUBSET Procs PROVE Cardinality(S) <= Len(Slots)
  <2>1. \A a, b, c \in Nat : a <= b /\ b <= c => a <= c
    OBVIOUS
  <2>2. QED
    BY Zenon, <1>2, <2>1, ProcsFinite, Consts
<1>4. ASSUME NEW S \in SUBSET Procs, NEW p \in Procs \ S
      PROVE  Cardinality(S \cup {p}) = Cardinality(S) + 1
  BY Zenon, <1>2, FS_AddElement
<1>5. ASSUME NEW S \in SUBSET Procs, NEW p \in S
      PROVE  Cardinality(S \ {p}) = Cardinality(S) - 1
  BY Zenon, <1>2, FS_RemoveElement
<1>6. ASSUME NEW S \in SUBSET Procs, NEW T \in SUBSET S
      PROVE  /\ Cardinality(T) <= Cardinality(S)
             /\ Cardinality(S \ T) = Cardinality(S) - Cardinality(T)
  <2>1. IsFiniteSet(S)
    BY Zenon, <1>2
  <2>2. Cardinality(T) <= Cardinality(S)
    BY Zenon, <2>1, FS_Subset
  <2>3. S \cap T = T
    BY Zenon
  <2>4. Cardinality(S \ T) = Cardinality(S) - Cardinality(S \cap T)
    BY Zenon, <2>1, FS_Difference
  <2>5. QED
    BY Zenon, <2>2, <2>3, <2>4
<1>7. ASSUME NEW S \in SUBSET Procs, NEW T \in SUBSET Procs, T \cap S = {}
      PROVE  Cardinality(S \cup T) = Cardinality(S) + Cardinality(T)
  <2>1. Cardinality(S \cup T) = Cardinality(S) + Cardinality(T) - Cardinality(S \cap T)
    BY Zenon, <1>2, FS_Union
  <2>2. Cardinality(S \cap T) = 0
    <3>1. S \cap T = {}
      BY Zenon, <1>7
    <3>2. QED
      BY Zenon, <3>1, FS_EmptySet
  <2>3. \A a, b \in Nat : a + b - 0 = a + b
    OBVIOUS
  <2>4. QED
    BY Zenon, <1>2, <2>1, <2>2, <2>3
<1>8. QED
  BY Zenon, <1>1, <1>2, <1>3, <1>4, <1>5, <1>6, <1>7 DEF Basics

-----------------------------------------------------------------------------
(* The invariant holds in every reachable state of FS, for any number of   *)
(* processes, sizes of the pipe and of the lock table, and calls.          *)
THEOREM FSInvariant == Spec => []IInv
<1>1. Init => IInv
  BY Zenon, BasicsHold, InitHolds
<1>2. IInv /\ [Next]_vars => IInv'
  BY Zenon, BasicsHold, NextHolds
<1>3. QED
  BY <1>1, <1>2, PTL DEF Spec

(* The counts FS steers by are exact: get_work finds the process it looks  *)
(* for, and release is never called with a count that is too low, through  *)
(* calls that are run again or broken off, close and exit.                 *)
THEOREM CountsAreExact == Spec => []CountsExact
<1>1. IInv => CountsExact
  BY Zenon, InvGives
<1>2. QED
  BY <1>1, FSInvariant, PTL

(* Nobody hangs on the pipe without reason: pipe_check, release, close and *)
(* exit miss no end of file and no broken pipe, and never leave a reader   *)
(* and a writer waiting for each other.                                    *)
THEOREM NoPipeWaitIsLost == Spec => []PipeWaits
<1>1. IInv => PipeWaits
  BY Zenon, InvGives
<1>2. QED
  BY <1>1, FSInvariant, PTL

(* Every byte is moved once: read_write and pipe_check keep the positions  *)
(* together, and answer the count of what was moved over all the times a   *)
(* call was run.                                                           *)
THEOREM EveryByteMovedOnce == Spec => []BytesMovedOnce
<1>1. IInv => BytesMovedOnce
  BY Zenon, InvGives
<1>2. QED
  BY <1>1, FSInvariant, PTL

(* Locks exclude each other, and nobody waits for a lock that is free:     *)
(* lock_op splits and shrinks locks without giving away more than asked    *)
(* for, and lock_revive is called whenever something was given away.       *)
THEOREM LocksAreKept == Spec => []LocksKept
<1>1. IInv => LocksKept
  BY Zenon, InvGives
<1>2. QED
  BY <1>1, FSInvariant, PTL
=============================================================================
