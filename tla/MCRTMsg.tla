------------------------------ MODULE MCRTMsg ------------------------------
(***************************************************************************)
(* Instances of RTMsg for TLC.                                             *)
(***************************************************************************)
EXTENDS RTMsg

CONSTANTS a, b, c

NoDog == [p \in Proc |-> NoProc]

(* Processes a asks b and c, and b asks c.                                 *)
Chain == {<<a, b>>, <<a, c>>, <<b, c>>}

(* Requests, asynchronous messages, signals and receives without timeout.  *)
Async ==
  [base |-> {1, 2}, mqsize |-> 1, mqflags |-> {"PRTYORDER", "PRTYINHERIT"}, bpip |-> TRUE,
   calls |-> {"receive", "rqst", "uprqst"}, timeouts |-> {"NOWAIT", "FOREVER"},
   replyto |-> {}, asks |-> {}, loop |-> FALSE, semprty |-> {3}, wdog |-> NoDog]

(* Clients, servers, and servers that are clients.                         *)
Service == [Async EXCEPT !.calls = {"receive", "rqrcv", "reply"}, !.replyto = {"RQRCV"},
                         !.asks = Chain, !.mqsize = 2, !.semprty = {1, 3}]

(* With timeouts, when all processes have one priority.                    *)
Timed == [Async EXCEPT !.base = {1}, !.mqsize = 2, !.mqflags = {}, !.bpip = FALSE,
                       !.calls = {"receive", "rqst", "arqst"}, !.timeouts = {"TIMED"}]

(* Servers that loop, with first-come queues.                              *)
Live == [Service EXCEPT !.mqflags = {}, !.loop = TRUE, !.timeouts = {"FOREVER"},
                        !.asks = {<<a, c>>, <<b, c>>}]

(* Processes leave, and timers send messages.                              *)
Leave == [Async EXCEPT !.calls = {"receive", "sign", "leave", "timer"}, !.bpip = FALSE,
                       !.wdog = [NoDog EXCEPT ![a] = b]]

MCConfs == {Async, Service, Timed, Live, Leave}

(* A server may also send other messages to its clients.                   *)
Notify == {[Service EXCEPT !.calls = @ \cup {"arqst"}]}

(* Asynchronous requests are replied to.                                   *)
AReply == {[Service EXCEPT !.calls = {"receive", "arqst", "reply"}, !.replyto = {"AREQUEST"}]}

(* Requests with reply have a timeout.                                     *)
TimedService == {[Service EXCEPT !.base = {1}, !.timeouts = {"FOREVER", "TIMED"}]}
=============================================================================
