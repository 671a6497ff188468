------------------------------ MODULE MCFSWait ------------------------------
(* FSWait for TLC. *)
EXTENDS FSWait

CONSTANTS p1, p2, p3

MCSlots == <<p1, p2, p3>>

\* Ends of the pipe, who has the file, O_NONBLOCK ends, signals.
Pipe(r, w, nb, sig, sizes) ==
  [rd |-> r, wr |-> w, file |-> {}, nonblock |-> nb, signals |-> sig,
   calls |-> { c \in Calls : c.op \in PipeOps /\ c.n \in sizes }]
Lock(ps, sig, calls) ==
  [rd |-> {}, wr |-> {}, file |-> ps, nonblock |-> {}, signals |-> sig, calls |-> calls]

\* Two processes with all the calls but the write locks that do not wait.
AllCalls ==
  { c \in Calls : c.op \notin PipeOps /\ (c.op = "SETLK" => c.type # "WRLCK")
                                    /\ (c.op = "SETLKW" => c.type # "UNLCK") }

\* Three processes that wait for write locks on single bytes.
WaitCalls ==
  { c \in Calls : /\ c.op = "SETLKW" /\ c.type # "RDLCK"
                  /\ c.first = c.last \/ (c.type = "UNLCK" /\ c.first = 0) }

\* A reader and a writer that also use the file.
BothCalls ==
  { c \in Calls : \/ c.op \in PipeOps /\ c.n \in {1, 3}
                  \/ c.op = "SETLKW" /\ c.first = 0 /\ c.last = 0 }
Both == [rd |-> {p1}, wr |-> {p3}, file |-> {p1, p3}, nonblock |-> {}, signals |-> 1,
         calls |-> BothCalls]

P1 == Pipe({p1}, {p2, p3}, {}, 1, {1, 2, 5})
P2 == Pipe({p1, p2}, {p3}, {}, 1, 1 .. MaxBytes)
P3 == Pipe({p1, p2}, {p1, p2}, {}, 1, {1, 3})
P4 == Pipe({p1}, {p2, p3}, {"READ"}, 0, 1 .. MaxBytes)
P5 == Pipe({p1, p2}, {p3}, {"WRITE"}, 0, 1 .. MaxBytes)
L1 == Lock({p1, p2}, 1, AllCalls)
L2 == Lock({p1, p2, p3}, 1, WaitCalls)
MCConfs == {P1, P2, P3, P4, P5, L1, L2, Both}
=============================================================================
