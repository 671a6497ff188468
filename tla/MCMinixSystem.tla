--------------------------- MODULE MCMinixSystem ---------------------------
(* Instances of MinixSystem for TLC.                                       *)
EXTENDS MinixSystem

MCUsers == <<"init", "u2">>
MCTasks == {"TTY", "DISK", "SYSTASK", "CLOCK"}

\* The programs of the system, from the end of the boot.
Programs == [mode |-> "system", tasks |-> <<"TTY", "DISK", "SYSTASK">>,
             users |-> {"init"}, calls |-> 0, events |-> 1,
             waiting |-> {"TTY", "DISK", "SYSTASK", "MM", "FS"}]
\* Any calls of a task, the servers and a user from the start.
AnyCalls == [mode |-> "free", tasks |-> <<"CLOCK">>, users |-> {"init"},
             calls |-> 3, events |-> 0, waiting |-> {}]
\* Any calls of two users that share the processor, and whom they wake.
TwoUsers == [mode |-> "free", tasks |-> <<"CLOCK">>, users |-> {"init", "u2"},
             calls |-> 1, events |-> 2, waiting |-> {"CLOCK", "MM", "FS"}]
MCConfs == {Programs, AnyCalls, TwoUsers}
=============================================================================
