------------------------------ MODULE MCTables ------------------------------
(***************************************************************************)
(* The tables that calls change one at a time: the priority lists of the   *)
(* kernel, the disk of FS and the memory of MM.  The variable conf selects *)
(* the one that is used.                                                   *)
(***************************************************************************)
EXTENDS MCPriorityList, MCFSStore, MMMemory

VARIABLE conf

(* Two chunks of free memory that come in the wrong order; a program with  *)
(* separate I and D and one without.                                       *)
TwoChunks == << [base |-> 7, len |-> 1], [base |-> 2, len |-> 3] >>
TwoPrograms == << [sep |-> TRUE, text |-> 1, tot |-> 1],
                  [sep |-> FALSE, text |-> 0, tot |-> 2] >>

TablesInit ==
  /\ conf \in {"lists", "disk", "memory"}
  /\ Init
  /\ FSInit
  /\ conf # "disk" => fs.setup = Files
  /\ MMInit

TablesNext ==
  /\ UNCHANGED conf
  /\ \/ conf = "lists" /\ Next /\ UNCHANGED <<fs, mm>>
     \/ conf = "disk" /\ FSNext /\ UNCHANGED <<vars, mm>>
     \/ conf = "memory" /\ MMNext /\ UNCHANGED <<vars, fs>>

TablesSpec == TablesInit /\ [][TablesNext]_<<vars, fs, mm, conf>>
=============================================================================
