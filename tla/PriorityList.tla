---------------------------- MODULE PriorityList ---------------------------
(***************************************************************************)
(* The priority list plist_t of mrtlib.c, at the level of its pointers: an *)
(* array of doubly linked lists, a count and bitmap per priority, and the  *)
(* link_t fields embedded in the queued objects.                           *)
(*                                                                         *)
(* A link_t does not say whether, or in which list, it is queued: its      *)
(* owner does (a process descriptor by its flags and its priority, a       *)
(* virtual timer by its flags).  The variable "on" is that knowledge.  The *)
(* users of the lists append an object that is in no list and remove one   *)
(* from the list it is in, and the guards of the actions say so.           *)
(***************************************************************************)
EXTENDS PrtyQueues

CONSTANTS
  Link,   \* the link_t of the objects that can be queued
  NULL

ASSUME LinkAssumption == NULL \notin Link /\ IsFiniteSet(Link)

NONE == NR_PRTY     \* the owner's mark of an object that is not queued

VARIABLES
  next, prev,       \* link_t.next, link_t.prev
  first, last,      \* plist->list[p].first, .last
  inQ,              \* plist->list[p].inQ
  bitmap,           \* plist->bitmap, as the set of its one bits
  count,            \* plist->inQ
  on                \* the priority an object is queued at, or NONE

vars == <<next, prev, first, last, inQ, bitmap, count, on>>

TypeOK ==
  /\ next \in [Link -> Link \cup {NULL}]
  /\ prev \in [Link -> Link \cup {NULL}]
  /\ first \in [Prty -> Link \cup {NULL}]
  /\ last \in [Prty -> Link \cup {NULL}]
  /\ inQ \in [Prty -> Nat]
  /\ bitmap \subseteq Prty
  /\ count \in Nat
  /\ on \in [Link -> Prty \cup {NONE}]

(* MRT_plist_rst, MRT_list_rst on every list, MRT_link_rst on every link.  *)
MRT_plist_rst ==
  /\ first = [p \in Prty |-> NULL]
  /\ last = [p \in Prty |-> NULL]
  /\ inQ = [p \in Prty |-> 0]
  /\ bitmap = {}
  /\ count = 0

MRT_link_rst ==
  /\ next = [l \in Link |-> NULL]
  /\ prev = [l \in Link |-> NULL]

Init == MRT_plist_rst /\ MRT_link_rst /\ on = [l \in Link |-> NONE]

(* The assignments through the last object, plist->last->next, and through *)
(* the neighbours of plink are there only when the pointer is not NULL.    *)
MRT_list_app(p, l) ==
  /\ prev' = [prev EXCEPT ![l] = IF first[p] = NULL THEN NULL ELSE last[p]]
  /\ next' = [k \in Link |-> IF k = l THEN NULL
                             ELSE IF first[p] # NULL /\ k = last[p] THEN l
                             ELSE next[k]]
  /\ first' = IF first[p] = NULL THEN [first EXCEPT ![p] = l] ELSE first
  /\ last' = [last EXCEPT ![p] = l]
  /\ inQ' = [inQ EXCEPT ![p] = @ + 1]

(* Mutant: the first object of a list does not become its last.            *)
MRT_list_ins_NoLast(p, l) ==
  /\ next' = [next EXCEPT ![l] = first[p]]
  /\ prev' = [k \in Link |-> IF k = l THEN NULL
                             ELSE IF k = first[p] THEN l
                             ELSE prev[k]]
  /\ UNCHANGED last
  /\ first' = [first EXCEPT ![p] = l]
  /\ inQ' = [inQ EXCEPT ![p] = @ + 1]

MRT_list_ins(p, l) ==
  /\ next' = [next EXCEPT ![l] = first[p]]
  /\ prev' = [k \in Link |-> IF k = l THEN NULL
                             ELSE IF k = first[p] THEN l
                             ELSE prev[k]]
  /\ last' = IF first[p] = NULL THEN [last EXCEPT ![p] = l] ELSE last
  /\ first' = [first EXCEPT ![p] = l]
  /\ inQ' = [inQ EXCEPT ![p] = @ + 1]

(* Mutant: the follower keeps its prev pointer to the removed object.      *)
MRT_list_rmv_KeepPrev(p, l) ==
  /\ first' = IF prev[l] = NULL THEN [first EXCEPT ![p] = next[l]] ELSE first
  /\ last' = IF next[l] = NULL THEN [last EXCEPT ![p] = prev[l]] ELSE last
  /\ next' = [k \in Link |-> IF k = l THEN NULL
                             ELSE IF k = prev[l] THEN next[l]
                             ELSE next[k]]
  /\ prev' = [prev EXCEPT ![l] = NULL]
  /\ inQ' = [inQ EXCEPT ![p] = @ - 1]

MRT_list_rmv(p, l) ==
  /\ first' = IF prev[l] = NULL THEN [first EXCEPT ![p] = next[l]] ELSE first
  /\ last' = IF next[l] = NULL THEN [last EXCEPT ![p] = prev[l]] ELSE last
  /\ next' = [k \in Link |-> IF k = l THEN NULL
                             ELSE IF k = prev[l] THEN next[l]
                             ELSE next[k]]
  /\ prev' = [k \in Link |-> IF k = l THEN NULL
                             ELSE IF k = next[l] THEN prev[l]
                             ELSE prev[k]]
  /\ inQ' = [inQ EXCEPT ![p] = @ - 1]

MRT_plist_app(l, p) ==
  /\ on[l] = NONE
  /\ MRT_list_app(p, l)
  /\ count' = count + 1
  /\ bitmap' = bitmap \cup {p}
  /\ on' = [on EXCEPT ![l] = p]

MRT_plist_ins(l, p) ==
  /\ on[l] = NONE
  /\ MRT_list_ins(p, l)
  /\ count' = count + 1
  /\ bitmap' = bitmap \cup {p}
  /\ on' = [on EXCEPT ![l] = p]

(* Mutant: the list is tested for emptiness before the removal.            *)
MRT_plist_rmv_TestFirst(l, p) ==
  /\ on[l] = p
  /\ MRT_list_rmv(p, l)
  /\ bitmap' = IF inQ[p] = 0 THEN bitmap \ {p} ELSE bitmap
  /\ count' = count - 1
  /\ on' = [on EXCEPT ![l] = NONE]

MRT_plist_rmv(l, p) ==
  /\ on[l] = p
  /\ MRT_list_rmv(p, l)
  /\ bitmap' = IF inQ'[p] = 0 THEN bitmap \ {p} ELSE bitmap
  /\ count' = count - 1
  /\ on' = [on EXCEPT ![l] = NONE]

(* The scan of the bitmap from priority 0 upwards; it changes nothing.     *)
MRT_plist_get ==
  IF count = 0 \/ bitmap = {} THEN NULL
  ELSE first[CHOOSE p \in bitmap : \A r \in bitmap : p <= r]

Next == \E l \in Link, p \in Prty : \/ MRT_plist_app(l, p)
                                    \/ MRT_plist_ins(l, p)
                                    \/ MRT_plist_rmv(l, p)

Spec == Init /\ [][Next]_vars

-----------------------------------------------------------------------------
(* The objects of list p in the order of the next pointers, as many as the *)
(* list counts.                                                            *)
Forward(p) ==
  LET nth[i \in Nat] ==
        IF i = 1 THEN first[p]
        ELSE IF nth[i - 1] = NULL THEN NULL ELSE next[nth[i - 1]]
  IN  [i \in 1 .. inQ[p] |-> nth[i]]

Walk == [p \in Prty |-> Forward(p)]

(* MRT_list_app and MRT_list_rmv keep the two chains of a list mirror      *)
(* images of each other: the neighbour an object points to points back,    *)
(* the object without a neighbour is the one the list head names, and the  *)
(* neighbours are in the same list.  An object in no list points nowhere.  *)
LinksConsistent ==
  /\ \A l \in Link : on[l] # NONE =>
       /\ IF next[l] = NULL THEN last[on[l]] = l
          ELSE prev[next[l]] = l /\ on[next[l]] = on[l]
       /\ IF prev[l] = NULL THEN first[on[l]] = l
          ELSE next[prev[l]] = l /\ on[prev[l]] = on[l]
  /\ \A l \in Link : on[l] = NONE => next[l] = NULL /\ prev[l] = NULL

(* The summaries agree with the lists: the bitmap bit of a priority is set *)
(* exactly when its list has an object, which is when first and last are   *)
(* not NULL, and the total is the number of queued objects.                *)
SummariesExact ==
  /\ \A p \in Prty : /\ p \in bitmap <=> \E l \in Link : on[l] = p
                     /\ p \in bitmap <=> first[p] # NULL
                     /\ p \in bitmap <=> last[p] # NULL
                     /\ p \in bitmap <=> inQ[p] # 0
  /\ count = Cardinality({l \in Link : on[l] # NONE})

(* MRT_plist_get returns NULL only when nothing is queued, and otherwise   *)
(* the head of a list such that no queued object has a higher priority.    *)
GetReturnsHighest ==
  LET g == MRT_plist_get
  IN  IF \A l \in Link : on[l] = NONE THEN g = NULL
      ELSE /\ g \in Link /\ on[g] # NONE /\ prev[g] = NULL
           /\ \A l \in Link : on[g] <= on[l]

-----------------------------------------------------------------------------
(* The inductive invariant.  LinksConsistent alone is not inductive: it    *)
(* allows a ring of objects that first does not reach, and a list that     *)
(* counts them when first is already NULL.  Numbering the objects of every *)
(* list rules that out: pos numbers the objects of list p from 1 to        *)
(* inQ[p], without gap or repetition, next steps to the following number,  *)
(* prev to the preceding one, and first and last name the two ends.        *)
Numbered(pos) ==
  /\ \A l \in Link : on[l] # NONE => pos[l] \in 1 .. inQ[on[l]]
  /\ \A l, k \in Link : on[l] = on[k] /\ on[l] # NONE /\ pos[l] = pos[k] => l = k
  /\ \A p \in Prty : \A i \in 1 .. inQ[p] : \E l \in Link : on[l] = p /\ pos[l] = i

Chained(pos) ==
  \A l \in Link : on[l] # NONE =>
    /\ IF next[l] = NULL THEN pos[l] = inQ[on[l]]
       ELSE on[next[l]] = on[l] /\ pos[next[l]] = pos[l] + 1
    /\ IF prev[l] = NULL THEN pos[l] = 1
       ELSE on[prev[l]] = on[l] /\ pos[prev[l]] = pos[l] - 1

Ends(pos) ==
  \A p \in Prty :
    /\ IF first[p] = NULL THEN inQ[p] = 0 ELSE on[first[p]] = p /\ pos[first[p]] = 1
    /\ IF last[p] = NULL THEN inQ[p] = 0 ELSE on[last[p]] = p /\ pos[last[p]] = inQ[p]

Detached == \A l \in Link : on[l] = NONE => next[l] = NULL /\ prev[l] = NULL

Totals == /\ bitmap = {p \in Prty : inQ[p] # 0}
          /\ count = Cardinality({l \in Link : on[l] # NONE})

Shape(pos) == Numbered(pos) /\ Chained(pos) /\ Ends(pos)

IInv == TypeOK /\ Detached /\ Totals /\ \E pos \in [Link -> Nat] : Shape(pos)
=============================================================================
