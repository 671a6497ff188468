------------------------------ MODULE MMMemory ------------------------------
(***************************************************************************)
(* The memory that the memory manager gives to processes: the list of      *)
(* holes of src/mm/alloc.c, and the calls that take memory from it and     *)
(* give it back (src/mm/forkexit.c, src/mm/exec.c).  MM serves one call at *)
(* a time, so a call is a step.                                            *)
(*                                                                         *)
(* A block of memory is [base, len] in clicks.  A process has a text block *)
(* and a block for data and stack.  Processes that run the same file with  *)
(* separate I and D share the text.  What the memory holds is left out, as *)
(* are brk, which moves a border inside the second block, and the limit of *)
(* slots for the super-user, which only refuses calls.                     *)
(***************************************************************************)
EXTENDS Integers, FiniteSets, SequencesExt

CONSTANTS
  NR_PROCS,     \* slots of the process table
  NR_HOLES,     \* slots of the hole table
  Chunks,       \* the free memory after the boot, a sequence of blocks
  Programs      \* executable files: [sep, text, tot], sizes in clicks

VARIABLE mm

INIT_PROC_NR == 1
Procs == 1 .. NR_PROCS
NoBlock == [base |-> 0, len |-> 0]
NO_MEM == 0
NIL == 0
End(b) == b.base + b.len

(* How many holes lie below the base.                                      *)
Before(holes, base) == Cardinality({ k \in DOMAIN holes : holes[k].base < base })

-----------------------------------------------------------------------------
(* The hole list.                                                          *)

del_slot(holes, k) == RemoveAt(holes, k)

(* Hole k absorbs hole k + 1 when they touch.                              *)
Absorb(holes, k) ==
  del_slot([holes EXCEPT ![k].len = @ + holes[k + 1].len], k + 1)
Touch(holes, k) == k < Len(holes) /\ End(holes[k]) = holes[k + 1].base

(* Mutant: the second neighbour is forgotten.                              *)
merge_Once(holes, k) == IF Touch(holes, k) THEN Absorb(holes, k) ELSE holes

(* Hole k and the two behind it.                                           *)
merge(holes, k) ==
  LET one == IF Touch(holes, k) THEN Absorb(holes, k) ELSE holes
      j == IF Touch(holes, k) THEN k ELSE k + 1
  IN  IF Touch(one, j) THEN Absorb(one, j) ELSE one

(* A block goes into a slot of its own first, and is merged then.          *)
free_mem(s, b) ==
  LET k == Before(s.holes, b.base)
      new == InsertAt(s.holes, k + 1, b)
  IN  IF b.len = 0 THEN s
      ELSE IF Len(s.holes) = NR_HOLES THEN [s EXCEPT !.panic = TRUE]
      ELSE [s EXCEPT !.holes = merge(new, IF k = 0 THEN 1 ELSE k)]

max_hole(s) == Max({0} \cup { s.holes[k].len : k \in DOMAIN s.holes })

(* First fit, from the low end of the hole; the base or NO_MEM in base.    *)
alloc_mem(s, clicks) ==
  LET fit == { k \in DOMAIN s.holes : s.holes[k].len >= clicks }
      k == Min(fit)
      h == s.holes[k]
      rest == [base |-> h.base + clicks, len |-> h.len - clicks]
      left == IF rest.len = 0 THEN del_slot(s.holes, k) ELSE [s.holes EXCEPT ![k] = rest]
  IN  IF fit = {} THEN [s |-> s, base |-> NO_MEM]
      ELSE [s |-> [s EXCEPT !.holes = left], base |-> h.base]

mem_init(s) == FoldLeft(free_mem, s, Chunks)

-----------------------------------------------------------------------------
(* Processes.  INIT runs in the boot image, which is in no chunk, and its  *)
(* children share its text.                                                *)

FreeSlot == [state |-> "FREE", parent |-> NIL, waiting |-> FALSE, file |-> NIL,
             sep |-> FALSE, text |-> NoBlock, data |-> NoBlock]
Live(s) == { p \in Procs : s.proc[p].state = "LIVE" }

InitProc == [FreeSlot EXCEPT !.state = "LIVE", !.parent = INIT_PROC_NR, !.sep = TRUE,
                             !.text.len = 1, !.data = [base |-> 1, len |-> 1]]

MMInit ==
  mm = mem_init([holes |-> << >>, panic |-> FALSE,
                 proc |-> [p \in Procs |-> IF p = INIT_PROC_NR THEN InitProc ELSE FreeSlot]])

(* The first other process that runs the file with separate I and D.       *)
find_share(s, ign, file) ==
  LET sh == { p \in Live(s) \ {ign} : s.proc[p].sep /\ s.proc[p].file = file }
  IN  IF sh = {} THEN NIL ELSE Min(sh)

(* The memory of process p goes back, its text unless somebody shares it.  *)
Release(s, p) ==
  LET own == find_share(s, p, s.proc[p].file) = NIL
      text == IF own THEN free_mem(s, s.proc[p].text) ELSE s
  IN  free_mem(text, s.proc[p].data)

do_fork(s, p) ==
  LET a == alloc_mem(s, s.proc[p].data.len)
      c == Min({ q \in Procs : s.proc[q].state = "FREE" })
  IN  IF \A q \in Procs : s.proc[q].state # "FREE" THEN s
      ELSE IF a.base = NO_MEM THEN s
      ELSE [a.s EXCEPT !.proc[c] = [s.proc[p] EXCEPT !.parent = p, !.data.base = a.base]]

(* There is a hole for the new image before the old one goes, or else the  *)
(* call is refused.                                                        *)
TextClicks(sh, prog) == IF sh # NIL THEN 0 ELSE prog.text
(* Mutant: the text is not counted.                                        *)
Refused_DataOnly(s, sh, prog) == prog.tot > max_hole(s)
Refused(s, sh, prog) == TextClicks(sh, prog) + prog.tot > max_hole(s)

new_mem(s, p, sh, prog) ==
  LET text == TextClicks(sh, prog)
      a == alloc_mem(Release(s, p), text + prog.tot)
      block == IF sh # NIL THEN s.proc[sh].text ELSE [base |-> a.base, len |-> text]
  IN  IF a.base = NO_MEM THEN [a.s EXCEPT !.panic = TRUE]
      ELSE [a.s EXCEPT !.proc[p].text = block,
                       !.proc[p].data = [base |-> a.base + text, len |-> prog.tot]]

do_exec(s, p, file) ==
  LET prog == Programs[file]
      sh == find_share(s, p, file)
  IN  IF Refused(s, sh, prog) THEN s
      ELSE [new_mem(s, p, sh, prog) EXCEPT !.proc[p].file = file, !.proc[p].sep = prog.sep]

cleanup(s, c) ==
  [s EXCEPT !.proc[s.proc[c].parent].waiting = FALSE, !.proc[c] = FreeSlot]

(* A child goes to INIT, which may be waiting for one that hangs.          *)
Disinherit(s, c) ==
  LET moved == [s EXCEPT !.proc[c].parent = INIT_PROC_NR]
  IN  IF s.proc[INIT_PROC_NR].waiting /\ s.proc[c].state = "HANGING"
      THEN cleanup(moved, c) ELSE moved

mm_exit(s, p) ==
  LET rel == Release(s, p)
      hang == [rel EXCEPT !.proc[p].state = "HANGING"]
      gone == IF s.proc[s.proc[p].parent].waiting THEN cleanup(rel, p) ELSE hang
      step(t, c) == IF t.proc[c].state # "FREE" /\ t.proc[c].parent = p
                    THEN Disinherit(t, c) ELSE t
  IN  FoldLeft(step, gone, [k \in Procs |-> k])

(* wait for any child; WAITING when none has exited yet.                   *)
do_waitpid(s, p) ==
  LET children == { c \in Procs \ {p} : s.proc[c].state # "FREE" /\ s.proc[c].parent = p }
      hanging == { c \in children : s.proc[c].state = "HANGING" }
  IN  IF hanging # {} THEN cleanup(s, Min(hanging))
      ELSE IF children # {} THEN [s EXCEPT !.proc[p].waiting = TRUE]
      ELSE s

-----------------------------------------------------------------------------
Callers == { p \in Live(mm) : ~mm.proc[p].waiting /\ ~mm.panic }

Fork == \E p \in Callers : mm' = do_fork(mm, p)
Exec == \E p \in Callers \ {INIT_PROC_NR}, f \in DOMAIN Programs : mm' = do_exec(mm, p, f)
(* exit, or the end of a process by a signal, which may find it waiting.   *)
Exit == \E p \in Live(mm) \ {INIT_PROC_NR} : ~mm.panic /\ mm' = mm_exit(mm, p)
Wait == \E p \in Callers : mm' = do_waitpid(mm, p)

MMNext == Fork \/ Exec \/ Exit \/ Wait
MMSpec == MMInit /\ [][MMNext]_mm

-----------------------------------------------------------------------------
Clicks(b) == b.base .. End(b) - 1
Owned(p) == { b \in {mm.proc[p].text, mm.proc[p].data} : b.len > 0 }
Blocks == UNION { Owned(p) : p \in Live(mm) }

(* Every click is in one hole or belongs to one live process, or to the    *)
(* processes that share a text, which run one file; the holes are in order *)
(* and no two of them touch.                                               *)
MemoryPartitioned ==
  LET holes == ToSet(mm.holes)
      all == holes \cup Blocks
  IN  /\ \A a, b \in all : a # b => Clicks(a) \cap Clicks(b) = {}
      /\ holes \cap Blocks = {}
      /\ UNION { Clicks(b) : b \in all }
           = UNION { Clicks(c) : c \in ToSet(Chunks) \cup {InitProc.text, InitProc.data} }
      /\ \A k \in 1 .. Len(mm.holes) - 1 : End(mm.holes[k]) < mm.holes[k + 1].base
      /\ \A p, q \in Live(mm) : \A b \in Owned(p) \cap Owned(q) :
           p # q => /\ b \in {mm.proc[p].text, mm.proc[q].text}
                    /\ mm.proc[p].file = mm.proc[q].file
                    /\ mm.proc[p].sep /\ mm.proc[q].sep

(* The hole table does not overflow, and an exec that has given up its old *)
(* image finds the memory for the new one: "MM hole list is inconsistent"  *)
(* does not happen.                                                        *)
NeverPanics == ~mm.panic
=============================================================================
