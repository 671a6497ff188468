---------------------------- MODULE TableProofs ----------------------------
(***************************************************************************)
(* Proofs about two tables of the system: the bit maps of FS, where        *)
(* alloc_bit and the search hints s_zsearch and s_isearch are shown never  *)
(* to hide a free bit, for maps of any size and words of any width, and    *)
(* the linked lists of the kernel, for any number of links and of          *)
(* priorities.                                                             *)
(***************************************************************************)
EXTENDS PriorityList, BitMap, FiniteSetTheorems, WellFoundedInduction, TLAPS

-----------------------------------------------------------------------------
(* The bit maps.                                                           *)

(* A set of bits that is not empty has a lowest one, so the CHOOSE of      *)
(* Lowest, the first bit a scan of super.c meets, is determined.           *)
LEMMA LowestIsLeast ==
  ASSUME NEW S \in SUBSET Nat, S # {}
  PROVE  Lowest(S) \in S /\ \A c \in S : Lowest(S) <= c
<1>1. PICK x \in S : \A y \in S : ~(<<y, x>> \in OpToRel(<, Nat))
  <2>1. S \subseteq Nat
    BY Zenon
  <2> QED
    BY Zenon, <2>1, NatLessThanWellFounded, WFMin
<1>2. \A y \in S : x <= y
  <2> SUFFICES ASSUME NEW y \in S PROVE x <= y
    BY Zenon
  <2>1. x \in Nat /\ y \in Nat
    BY Zenon
  <2>2. ~(y < x)
    BY Zenon, <1>1, <2>1 DEF OpToRel
  <2> QED
    BY <2>1, <2>2
<1> QED
  BY Zenon, <1>2 DEF Lowest

(* The word where the search starts holds the origin or is the first one.  *)
LEMMA WordStartBelow ==
  ASSUME NEW n \in Nat, NEW origin \in Nat, NEW word \in Nat \ {0}
  PROVE  WordStart(n, origin, word) \in Nat /\ WordStart(n, origin, word) <= origin
<1>1. (origin \div word) * word \in Nat /\ (origin \div word) * word <= origin
  <2>1. origin \div word \in Nat
    OBVIOUS
  <2>2. origin = word * (origin \div word) + (origin % word)
    OBVIOUS
  <2>3. origin % word \in Nat
    OBVIOUS
  <2> QED
    BY <2>1, <2>2, <2>3
<1> QED
  BY <1>1 DEF WordStart

(* alloc_bit returns a bit of the map that is free, from any origin, and   *)
(* "no bit" only when the map is full: the search that wraps around once   *)
(* misses nothing.                                                         *)
THEOREM AllocFindsFree ==
  ASSUME NEW n \in Nat, NEW map, 0 \in map, NEW origin \in Nat, NEW word \in Nat \ {0}
  PROVE  /\ Bits(n) \subseteq map => alloc_bit(map, n, origin, word) = NO_BIT
         /\ ~(Bits(n) \subseteq map) =>
              alloc_bit(map, n, origin, word) \in Bits(n) \ map
         /\ ~(Bits(n) \subseteq map) =>
              alloc_bit(map, n, origin, word) # NO_BIT
<1> DEFINE free == Bits(n) \ map
           after == { b \in free : b >= WordStart(n, origin, word) }
<1>1. free \in SUBSET Nat /\ after \in SUBSET Nat /\ after \subseteq free
  BY DEF Bits
<1>2. alloc_bit(map, n, origin, word)
        = IF free = {} THEN NO_BIT
          ELSE IF after # {} THEN Lowest(after) ELSE Lowest(free)
  BY Zenon DEF alloc_bit
<1>3. Bits(n) \subseteq map <=> free = {}
  BY Zenon
<1>4. 0 \notin free
  BY Zenon
<1>5. CASE free = {}
  BY Zenon, <1>2, <1>3, <1>5
<1>6. CASE free # {}
  <2>1. Lowest(free) \in free
    BY Zenon, <1>1, <1>6, LowestIsLeast
  <2>2. after # {} => Lowest(after) \in after
    BY Zenon, <1>1, LowestIsLeast
  <2> HIDE DEF free, after
  <2>3. alloc_bit(map, n, origin, word) \in free
    BY Zenon, <1>1, <1>2, <1>6, <2>1, <2>2
  <2> QED
    BY Zenon, <1>3, <1>4, <1>6, <2>3 DEF free, NO_BIT
<1> QED
  BY Zenon, <1>5, <1>6

(* A search that starts at the hint finds the lowest free bit, and the bit *)
(* found is the next hint (alloc_zone and alloc_inode): nothing below it   *)
(* is free.                                                                *)
THEOREM AllocKeepsHint ==
  ASSUME NEW n \in Nat, NEW map, 0 \in map, NEW search \in Nat, NEW word \in Nat \ {0},
         SkipsNoFree(map, search),
         alloc_bit(map, n, search, word) # NO_BIT
  PROVE  /\ \A b \in Bits(n) \ map : alloc_bit(map, n, search, word) <= b
         /\ SkipsNoFree(map \cup {alloc_bit(map, n, search, word)},
                        alloc_bit(map, n, search, word))
<1> DEFINE free == Bits(n) \ map
           start == WordStart(n, search, word)
           after == { b \in free : b >= start }
           found == alloc_bit(map, n, search, word)
<1>1. free \in SUBSET Nat /\ after \in SUBSET Nat
  BY DEF Bits
<1>2. free # {} /\ found = IF after # {} THEN Lowest(after) ELSE Lowest(free)
  BY Zenon DEF alloc_bit
<1>3. start \in Nat /\ start <= search
  BY Zenon, WordStartBelow
<1>4. after = free
  <2>1. ASSUME NEW b \in free PROVE b >= start
    <3>1. b \in Nat /\ b \notin map
      BY Zenon, <1>1
    <3>2. ~(b < search)
      BY <3>1 DEF SkipsNoFree
    <3> QED
      BY <1>3, <3>1, <3>2
  <2> QED
    BY Zenon, <2>1
<1>5. found = Lowest(free)
  BY Zenon, <1>2, <1>4
<1>6. Lowest(free) \in free /\ \A c \in free : Lowest(free) <= c
  BY Zenon, <1>1, <1>2, LowestIsLeast
<1>7. found \in Nat /\ found \in Bits(n) /\ \A b \in free : found <= b
  BY Zenon, <1>1, <1>5, <1>6
<1>8. ASSUME NEW b \in 0 .. found - 1 PROVE b \in map
  <2>1. b \in Bits(n) /\ b \in Nat /\ b < found
    BY <1>7 DEF Bits
  <2>2. ~(found <= b)
    BY <1>7, <2>1
  <2> QED
    BY Zenon, <1>7, <2>1, <2>2
<1> QED
  BY Zenon, <1>7, <1>8 DEF SkipsNoFree

(* Giving back a bit lowers the hint to it when it lies below (free_zone   *)
(* and free_inode), so that nothing below the hint is free.                *)
THEOREM FreeKeepsHint ==
  ASSUME NEW map, NEW search \in Nat, NEW b \in Nat, SkipsNoFree(map, search)
  PROVE  SkipsNoFree(map \ {b}, IF b < search THEN b ELSE search)
BY DEF SkipsNoFree

-----------------------------------------------------------------------------
(* The linked lists.                                                       *)
LEMMA NoneNotPrty == NONE \notin Prty /\ NONE \in Nat /\ Prty \subseteq Nat
BY PrtyAssumption DEF NONE, Prty

(* A set of priorities that is not empty has a least member.               *)
LEMMA LeastPrty ==
  ASSUME NEW B, B \subseteq Prty, B # {}
  PROVE  \E p \in B : \A r \in B : p <= r
<1> DEFINE R == OpToRel(<, Nat)
<1>1. \A x, y \in Nat : x < y => <<x, y>> \in R
  BY Zenon DEF OpToRel
<1>2. IsWellFoundedOn(R, Nat)
  BY Zenon, NatLessThanWellFounded
<1>3. B \subseteq Nat
  BY Zenon, NoneNotPrty
<1> HIDE DEF R
<1>4. PICK p \in B : \A r \in B : <<r, p>> \notin R
  BY Zenon, <1>2, <1>3, WFMin
<1>5. \A r \in B : ~(r < p)
  BY Zenon, <1>1, <1>3, <1>4
<1>6. QED
  BY <1>3, <1>5

(* The initial lists are numbered by any function, since all are empty.    *)
LEMMA InitIInv == Init => IInv
<1> SUFFICES ASSUME Init PROVE IInv
  BY Zenon
<1> USE DEF Init, MRT_plist_rst, MRT_link_rst
<1>1. TypeOK
  BY Zenon, NoneNotPrty DEF TypeOK
<1>2. Detached
  BY Zenon DEF Detached
<1>3. Totals
  <2>1. {l \in Link : on[l] # NONE} = {}
    BY Zenon
  <2>2. Cardinality({}) = 0
    BY Zenon, FS_EmptySet
  <2>3. bitmap = {p \in Prty : inQ[p] # 0}
    BY Zenon
  <2>4. QED
    BY Zenon, <2>1, <2>2, <2>3 DEF Totals
<1>4. \E pos \in [Link -> Nat] : Shape(pos)
  <2>1. [l \in Link |-> 0] \in [Link -> Nat]
    BY Zenon
  <2>2. Shape([l \in Link |-> 0])
    BY NoneNotPrty DEF Shape, Numbered, Chained, Ends
  <2>3. QED
    BY Zenon, <2>1, <2>2
<1>5. QED
  BY Zenon, <1>1, <1>2, <1>3, <1>4 DEF IInv

(* The number of queued objects when one is added or taken away.           *)
LEMMA CardAdd ==
  ASSUME TypeOK, NEW l \in Link, NEW p \in Prty, on[l] = NONE,
         on' = [on EXCEPT ![l] = p]
  PROVE  Cardinality({k \in Link : on'[k] # NONE})
           = Cardinality({k \in Link : on[k] # NONE}) + 1
<1> DEFINE Q == {k \in Link : on[k] # NONE}
<1>1. IsFiniteSet(Q)
  BY Zenon, LinkAssumption, FS_Subset
<1>2. {k \in Link : on'[k] # NONE} = Q \cup {l}
  BY Zenon, NoneNotPrty DEF TypeOK
<1>3. l \notin Q
  BY Zenon
<1> HIDE DEF Q
<1>4. Cardinality(Q \cup {l}) = Cardinality(Q) + 1
  BY Zenon, <1>1, <1>3, FS_AddElement
<1>5. QED
  BY Zenon, <1>2, <1>4 DEF Q

LEMMA CardRemove ==
  ASSUME TypeOK, NEW l \in Link, NEW p \in Prty, on[l] = p,
         on' = [on EXCEPT ![l] = NONE]
  PROVE  /\ Cardinality({k \in Link : on'[k] # NONE})
              = Cardinality({k \in Link : on[k] # NONE}) - 1
         /\ Cardinality({k \in Link : on[k] # NONE}) - 1 \in Nat
<1> DEFINE Q == {k \in Link : on[k] # NONE}
<1>1. IsFiniteSet(Q)
  BY Zenon, LinkAssumption, FS_Subset
<1>2. {k \in Link : on'[k] # NONE} = Q \ {l}
  BY Zenon, NoneNotPrty DEF TypeOK
<1>3. l \in Q
  BY Zenon, NoneNotPrty
<1> HIDE DEF Q
<1>4. IsFiniteSet(Q \ {l}) /\ Cardinality(Q \ {l}) = Cardinality(Q) - 1
  BY Zenon, <1>1, <1>3, FS_RemoveElement
<1>5. Cardinality(Q \ {l}) \in Nat
  BY Zenon, <1>4, FS_CardinalityType
<1>6. QED
  BY Zenon, <1>2, <1>4, <1>5 DEF Q

(* Appending an object gives it the number after the last.                 *)
LEMMA AppShape ==
  ASSUME TypeOK, Detached, NEW pos \in [Link -> Nat], Shape(pos),
         NEW l \in Link, NEW p \in Prty, MRT_plist_app(l, p)
  PROVE  \E q \in [Link -> Nat] : Shape(q)'
<1> USE NoneNotPrty, LinkAssumption DEF TypeOK
<1>0. PICK q \in [Link -> Nat] : q = [pos EXCEPT ![l] = inQ[p] + 1]
  <2>1. [pos EXCEPT ![l] = inQ[p] + 1] \in [Link -> Nat]
    OBVIOUS
  <2>2. QED
    BY <2>1, Zenon
<1>a. /\ on[l] = NONE
      /\ on' = [on EXCEPT ![l] = p]
      /\ inQ' = [inQ EXCEPT ![p] = @ + 1]
      /\ prev' = [prev EXCEPT ![l] = IF first[p] = NULL THEN NULL ELSE last[p]]
      /\ next' = [k \in Link |-> IF k = l THEN NULL
                             ELSE IF first[p] # NULL /\ k = last[p] THEN l
                             ELSE next[k]]
      /\ first' = IF first[p] = NULL THEN [first EXCEPT ![p] = l] ELSE first
      /\ last' = [last EXCEPT ![p] = l]
  BY Zenon DEF MRT_plist_app, MRT_list_app
<1>1. Numbered(q)'
  <2>1. \A k \in Link : on'[k] # NONE => q[k] \in 1 .. inQ'[on'[k]]
    BY <1>0, <1>a DEF Shape, Numbered
  <2>2. ASSUME NEW j \in Link, NEW k \in Link,
               on'[j] = on'[k], on'[j] # NONE, q[j] = q[k]
        PROVE  j = k
    BY <2>2, <1>0, <1>a DEF Shape, Numbered
  <2>3. ASSUME NEW r \in Prty, NEW i \in 1 .. inQ'[r]
        PROVE  \E k \in Link : on'[k] = r /\ q[k] = i
    <3>1. CASE r = p /\ i = inQ[p] + 1
      BY Zenon, <3>1, <1>0, <1>a
    <3>2. CASE ~(r = p /\ i = inQ[p] + 1)
      <4>1. i \in 1 .. inQ[r]
        BY <3>2, <1>a
      <4>2. PICK k \in Link : on[k] = r /\ pos[k] = i
        BY Zenon, <4>1 DEF Shape, Numbered
      <4>3. QED
        BY Zenon, <4>2, <1>0, <1>a
    <3>3. QED
      BY Zenon, <3>1, <3>2
  <2>4. QED
    BY Zenon, <2>1, <2>2, <2>3 DEF Numbered
<1>2. Chained(q)'
  <2>1. ASSUME NEW k \in Link, on'[k] # NONE
        PROVE  IF next'[k] = NULL THEN q[k] = inQ'[on'[k]]
               ELSE on'[next'[k]] = on'[k] /\ q[next'[k]] = q[k] + 1
    <3>1. CASE k = l
      BY Zenon, <3>1, <1>0, <1>a
    <3>2. CASE k # l /\ first[p] # NULL /\ k = last[p]
      BY <3>2, <1>0, <1>a DEF Shape, Ends
    <3>3. CASE k # l /\ ~(first[p] # NULL /\ k = last[p])
      <4>1. next'[k] = next[k] /\ on'[k] = on[k] /\ q[k] = pos[k]
        BY Zenon, <3>3, <1>0, <1>a
      <4>2. CASE next[k] = NULL
        BY <2>1, <3>3, <4>1, <4>2, <1>0, <1>a DEF Shape, Numbered, Chained, Ends
      <4>3. CASE next[k] # NULL
        BY <2>1, <4>1, <4>3, <1>0, <1>a DEF Shape, Chained
      <4>4. QED
        BY Zenon, <4>2, <4>3
    <3>4. QED
      BY Zenon, <3>1, <3>2, <3>3
  <2>2. ASSUME NEW k \in Link, on'[k] # NONE
        PROVE  IF prev'[k] = NULL THEN q[k] = 1
               ELSE on'[prev'[k]] = on'[k] /\ q[prev'[k]] = q[k] - 1
    <3>1. CASE k = l
      BY <3>1, <1>0, <1>a DEF Shape, Ends
    <3>2. CASE k # l
      BY <2>2, <3>2, <1>0, <1>a DEF Shape, Chained
    <3>3. QED
      BY Zenon, <3>1, <3>2
  <2>3. QED
    BY Zenon, <2>1, <2>2 DEF Chained
<1>3. Ends(q)'
  BY <1>0, <1>a DEF Shape, Numbered, Ends
<1>4. QED
  BY Zenon, <1>0, <1>1, <1>2, <1>3 DEF Shape

(* Inserting an object at the head moves the others of its list up by one. *)
LEMMA InsShape ==
  ASSUME TypeOK, NEW pos \in [Link -> Nat], Shape(pos),
         NEW l \in Link, NEW p \in Prty, MRT_plist_ins(l, p)
  PROVE  \E q \in [Link -> Nat] : Shape(q)'
<1> USE NoneNotPrty, LinkAssumption DEF TypeOK
<1>0. PICK q \in [Link -> Nat] :
         \A k \in Link : q[k] = IF k = l THEN 1
                                ELSE IF on[k] = p THEN pos[k] + 1 ELSE pos[k]
  <2> DEFINE r == [k \in Link |-> IF k = l THEN 1
                                  ELSE IF on[k] = p THEN pos[k] + 1 ELSE pos[k]]
  <2>1. r \in [Link -> Nat]
    OBVIOUS
  <2>2. \A k \in Link : r[k] = IF k = l THEN 1
                               ELSE IF on[k] = p THEN pos[k] + 1 ELSE pos[k]
    BY Zenon
  <2> HIDE DEF r
  <2>3. QED
    BY Zenon, <2>1, <2>2
<1>a. /\ on[l] = NONE
      /\ on' = [on EXCEPT ![l] = p]
      /\ inQ' = [inQ EXCEPT ![p] = @ + 1]
      /\ next' = [next EXCEPT ![l] = first[p]]
      /\ prev' = [k \in Link |-> IF k = l THEN NULL
                                 ELSE IF k = first[p] THEN l
                                 ELSE prev[k]]
      /\ last' = IF first[p] = NULL THEN [last EXCEPT ![p] = l] ELSE last
      /\ first' = [first EXCEPT ![p] = l]
  BY Zenon DEF MRT_plist_ins, MRT_list_ins
<1>1. Numbered(q)'
  <2>1. ASSUME NEW k \in Link, on'[k] # NONE
        PROVE  q[k] \in 1 .. inQ'[on'[k]]
    <3>1. CASE k = l
      BY <3>1, <1>0, <1>a
    <3>2. CASE k # l
      BY <2>1, <3>2, <1>0, <1>a DEF Shape, Numbered
    <3>3. QED
      BY Zenon, <3>1, <3>2
  <2>2. ASSUME NEW j \in Link, NEW k \in Link,
               on'[j] = on'[k], on'[j] # NONE, q[j] = q[k]
        PROVE  j = k
    <3>1. CASE j = l \/ k = l
      BY <2>2, <3>1, <1>0, <1>a DEF Shape, Numbered
    <3>2. CASE j # l /\ k # l
      <4>1. on[j] = on[k] /\ on[j] # NONE
        BY Zenon, <2>2, <3>2, <1>a
      <4>2. pos[j] = pos[k]
        BY <2>2, <3>2, <4>1, <1>0
      <4>3. QED
        BY Zenon, <4>1, <4>2 DEF Shape, Numbered
    <3>3. QED
      BY Zenon, <3>1, <3>2
  <2>3. ASSUME NEW r \in Prty, NEW i \in 1 .. inQ'[r]
        PROVE  \E k \in Link : on'[k] = r /\ q[k] = i
    <3>1. CASE r = p /\ i = 1
      BY Zenon, <3>1, <1>0, <1>a
    <3>2. CASE r = p /\ i # 1
      <4>1. i - 1 \in 1 .. inQ[p]
        BY <3>2, <1>a
      <4>2. PICK k \in Link : on[k] = p /\ pos[k] = i - 1
        BY <4>1 DEF Shape, Numbered
      <4>3. k # l /\ on'[k] = p
        BY Zenon, <4>2, <1>a
      <4>4. q[k] = i
        BY <4>2, <4>3, <1>0
      <4>5. QED
        BY Zenon, <3>2, <4>3, <4>4
    <3>3. CASE r # p
      <4>1. PICK k \in Link : on[k] = r /\ pos[k] = i
        BY <3>3, <1>a DEF Shape, Numbered
      <4>2. k # l /\ on'[k] = r
        BY Zenon, <3>3, <4>1, <1>a
      <4>3. q[k] = i
        BY Zenon, <3>3, <4>1, <4>2, <1>0
      <4>4. QED
        BY Zenon, <4>2, <4>3
    <3>4. QED
      BY Zenon, <3>1, <3>2, <3>3
  <2>4. QED
    BY Zenon, <2>1, <2>2, <2>3 DEF Numbered
<1>2. Chained(q)'
  <2>1. ASSUME NEW k \in Link, on'[k] # NONE
        PROVE  IF next'[k] = NULL THEN q[k] = inQ'[on'[k]]
               ELSE on'[next'[k]] = on'[k] /\ q[next'[k]] = q[k] + 1
    <3>1. CASE k = l
      BY <3>1, <1>0, <1>a DEF Shape, Ends
    <3>2. CASE k # l
      BY <2>1, <3>2, <1>0, <1>a DEF Shape, Chained
    <3>3. QED
      BY Zenon, <3>1, <3>2
  <2>2. ASSUME NEW k \in Link, on'[k] # NONE
        PROVE  IF prev'[k] = NULL THEN q[k] = 1
               ELSE on'[prev'[k]] = on'[k] /\ q[prev'[k]] = q[k] - 1
    <3>1. CASE k = l
      BY Zenon, <3>1, <1>0, <1>a
    <3>2. CASE k # l /\ k = first[p]
      BY <3>2, <1>0, <1>a DEF Shape, Ends
    <3>3. CASE k # l /\ k # first[p]
      <4>1. prev'[k] = prev[k] /\ on'[k] = on[k]
        BY Zenon, <3>3, <1>0, <1>a
      <4>2. CASE prev[k] = NULL
        BY <2>2, <3>3, <4>1, <4>2, <1>0, <1>a DEF Shape, Numbered, Chained, Ends
      <4>3. CASE prev[k] # NULL
        BY <2>2, <3>3, <4>1, <4>3, <1>0, <1>a DEF Shape, Chained
      <4>4. QED
        BY Zenon, <4>2, <4>3
    <3>4. QED
      BY Zenon, <3>1, <3>2, <3>3
  <2>3. QED
    BY Zenon, <2>1, <2>2 DEF Chained
<1>3. Ends(q)'
  BY <1>0, <1>a DEF Shape, Numbered, Ends
<1>4. QED
  BY Zenon, <1>1, <1>2, <1>3 DEF Shape

(* Removing an object moves those behind it down by one.                   *)
LEMMA RmvShape ==
  ASSUME TypeOK, NEW pos \in [Link -> Nat], Shape(pos),
         NEW l \in Link, NEW p \in Prty, MRT_plist_rmv(l, p)
  PROVE  /\ \E q \in [Link -> Nat] : Shape(q)'
         /\ inQ[p] - 1 \in Nat
<1> USE NoneNotPrty, LinkAssumption DEF TypeOK
<1>a. /\ on[l] = p
      /\ on' = [on EXCEPT ![l] = NONE]
      /\ inQ' = [inQ EXCEPT ![p] = @ - 1]
      /\ first' = IF prev[l] = NULL THEN [first EXCEPT ![p] = next[l]] ELSE first
      /\ last' = IF next[l] = NULL THEN [last EXCEPT ![p] = prev[l]] ELSE last
      /\ next' = [k \in Link |-> IF k = l THEN NULL
                                 ELSE IF k = prev[l] THEN next[l]
                                 ELSE next[k]]
      /\ prev' = [k \in Link |-> IF k = l THEN NULL
                                 ELSE IF k = next[l] THEN prev[l]
                                 ELSE prev[k]]
  BY Zenon DEF MRT_plist_rmv, MRT_list_rmv
<1>b. pos[l] \in 1 .. inQ[p]
  BY Zenon, <1>a DEF Shape, Numbered
<1>0. PICK q \in [Link -> Nat] :
         \A k \in Link : q[k] = IF on[k] = p /\ pos[k] > pos[l] THEN pos[k] - 1
                                ELSE pos[k]
  <2> DEFINE r == [k \in Link |-> IF on[k] = p /\ pos[k] > pos[l] THEN pos[k] - 1
                                  ELSE pos[k]]
  <2>1. r \in [Link -> Nat]
    BY <1>b
  <2>2. \A k \in Link : r[k] = IF on[k] = p /\ pos[k] > pos[l] THEN pos[k] - 1
                               ELSE pos[k]
    BY Zenon
  <2> HIDE DEF r
  <2>3. QED
    BY Zenon, <2>1, <2>2
<1>1. Numbered(q)'
  <2>1. ASSUME NEW k \in Link, on'[k] # NONE
        PROVE  q[k] \in 1 .. inQ'[on'[k]]
    <3>1. k # l /\ on'[k] = on[k]
      BY Zenon, <2>1, <1>a
    <3>2. pos[k] \in 1 .. inQ[on[k]] /\ (on[k] = p => pos[k] # pos[l])
      BY Zenon, <2>1, <3>1, <1>a DEF Shape, Numbered
    <3>3. QED
      BY <2>1, <3>1, <3>2, <1>0, <1>a, <1>b
  <2>2. ASSUME NEW j \in Link, NEW k \in Link,
               on'[j] = on'[k], on'[j] # NONE, q[j] = q[k]
        PROVE  j = k
    <3>1. j # l /\ k # l /\ on[j] = on[k] /\ on[j] # NONE
      BY Zenon, <2>2, <1>a
    <3>2. on[j] = p => pos[j] # pos[l] /\ pos[k] # pos[l]
      BY Zenon, <3>1, <1>a DEF Shape, Numbered
    <3>3. pos[j] = pos[k]
      <4>1. pos[j] \in Nat /\ pos[k] \in Nat /\ pos[l] \in Nat
        BY Zenon
      <4>2. CASE on[j] # p
        BY Zenon, <2>2, <3>1, <4>2, <1>0
      <4>3. CASE on[j] = p
        <5>1. /\ q[j] = IF pos[j] > pos[l] THEN pos[j] - 1 ELSE pos[j]
              /\ q[k] = IF pos[k] > pos[l] THEN pos[k] - 1 ELSE pos[k]
          BY Zenon, <3>1, <4>3, <1>0
        <5>2. \A a, b, c \in Nat :
                a # c /\ b # c /\ (IF a > c THEN a - 1 ELSE a) = (IF b > c THEN b - 1 ELSE b)
                  => a = b
          OBVIOUS
        <5>3. QED
          BY Zenon, <2>2, <3>2, <4>1, <4>3, <5>1, <5>2
      <4>4. QED
        BY Zenon, <4>2, <4>3
    <3>4. QED
      BY Zenon, <3>1, <3>3 DEF Shape, Numbered
  <2>3. ASSUME NEW r \in Prty, NEW i \in 1 .. inQ'[r]
        PROVE  \E k \in Link : on'[k] = r /\ q[k] = i
    <3>1. CASE r = p /\ i >= pos[l]
      <4>1. i + 1 \in 1 .. inQ[p]
        BY <3>1, <1>a
      <4>2. PICK k \in Link : on[k] = p /\ pos[k] = i + 1
        BY <4>1 DEF Shape, Numbered
      <4>3. k # l /\ on'[k] = p
        BY <3>1, <4>2, <1>a, <1>b
      <4>4. q[k] = i
        BY <3>1, <4>2, <1>0, <1>b
      <4>5. QED
        BY Zenon, <3>1, <4>3, <4>4
    <3>2. CASE r = p /\ i < pos[l]
      <4>1. i \in 1 .. inQ[p]
        BY <3>2, <1>a
      <4>2. PICK k \in Link : on[k] = p /\ pos[k] = i
        BY Zenon, <4>1 DEF Shape, Numbered
      <4>3. k # l /\ on'[k] = p
        BY <3>2, <4>2, <1>a
      <4>4. q[k] = i
        BY <3>2, <4>2, <1>0
      <4>5. QED
        BY Zenon, <3>2, <4>3, <4>4
    <3>3. CASE r # p
      <4>1. PICK k \in Link : on[k] = r /\ pos[k] = i
        BY <3>3, <1>a DEF Shape, Numbered
      <4>2. k # l /\ on'[k] = r
        BY Zenon, <3>3, <4>1, <1>a
      <4>3. q[k] = i
        BY Zenon, <3>3, <4>1, <4>2, <1>0
      <4>4. QED
        BY Zenon, <4>2, <4>3
    <3>4. QED
      BY <3>1, <3>2, <3>3, <1>b
  <2>4. QED
    BY Zenon, <2>1, <2>2, <2>3 DEF Numbered
<1>2. Chained(q)'
  <2>0. ASSUME NEW k \in Link, on'[k] # NONE
        PROVE  k # l /\ on'[k] = on[k] /\ on[k] # NONE
    BY Zenon, <2>0, <1>a
  <2>1. ASSUME NEW k \in Link, on'[k] # NONE
        PROVE  IF next'[k] = NULL THEN q[k] = inQ'[on'[k]]
               ELSE on'[next'[k]] = on'[k] /\ q[next'[k]] = q[k] + 1
    <3>0. k # l /\ on'[k] = on[k] /\ on[k] # NONE
      BY Zenon, <2>0, <2>1
    <3>1. CASE k = prev[l]
      <4>1. on[k] = p /\ pos[k] = pos[l] - 1 /\ next'[k] = next[l] /\ q[k] = pos[k]
        BY <3>0, <3>1, <1>0, <1>a, <1>b DEF Shape, Chained
      <4>2. CASE next[l] = NULL
        <5>1. pos[l] = inQ[p]
          BY Zenon, <4>2, <1>a DEF Shape, Chained
        <5>2. QED
          BY Zenon, <3>0, <4>1, <4>2, <5>1, <1>a
      <4>3. CASE next[l] # NULL
        <5>1. next[l] \in Link /\ on[next[l]] = p /\ pos[next[l]] = pos[l] + 1
          BY Zenon, <4>3, <1>a DEF Shape, Chained
        <5>2. next[l] # l /\ q[next[l]] = pos[l]
          BY <5>1, <1>0
        <5>3. QED
          BY <3>0, <4>1, <4>3, <5>1, <5>2, <1>a, <1>b
      <4>4. QED
        BY Zenon, <4>2, <4>3
    <3>2. CASE k # prev[l]
      <4>1. next'[k] = next[k]
        BY Zenon, <3>0, <3>2, <1>a
      <4>2. CASE next[k] = NULL
        <5>1. pos[k] = inQ[on[k]]
          BY Zenon, <3>0, <4>2 DEF Shape, Chained
        <5>2. on[k] = p => pos[k] # pos[l]
          BY Zenon, <3>0, <1>a DEF Shape, Numbered
        <5>3. QED
          BY <3>0, <4>1, <4>2, <5>1, <5>2, <1>0, <1>a, <1>b
      <4>3. CASE next[k] # NULL
        <5>1. next[k] \in Link /\ on[next[k]] = on[k] /\ pos[next[k]] = pos[k] + 1
          BY Zenon, <3>0, <4>3 DEF Shape, Chained
        <5>2. next[k] # l
          <6>1. SUFFICES ASSUME next[k] = l PROVE FALSE
            BY Zenon
          <6>a. on[k] = p /\ pos[l] = pos[k] + 1
            BY Zenon, <6>1, <5>1, <1>a
          <6>2. on[k] = p /\ pos[l] = pos[k] + 1 /\ pos[k] \in 1 .. inQ[p]
            BY Zenon, <6>a, <3>0 DEF Shape, Numbered
          <6>3. prev[l] # NULL /\ on[prev[l]] = p /\ pos[prev[l]] = pos[k]
            BY <6>2, <1>a DEF Shape, Chained
          <6>4. QED
            BY <6>2, <6>3, <3>0, <3>2 DEF Shape, Numbered
        <5>3. on[k] = p => pos[k] # pos[l] /\ pos[next[k]] # pos[l]
          BY <3>0, <5>1, <5>2, <1>a DEF Shape, Numbered
        <5>4. on'[next[k]] = on[k]
          BY Zenon, <5>1, <5>2, <1>a
        <5>5. q[next[k]] = q[k] + 1
          <6>1. CASE on[k] = p /\ pos[k] > pos[l]
            BY <6>1, <5>1, <5>3, <1>0, <1>b
          <6>2. CASE on[k] = p /\ pos[k] < pos[l]
            BY <6>2, <5>1, <5>3, <1>0, <1>b
          <6>3. CASE on[k] # p
            BY Zenon, <6>3, <5>1, <1>0
          <6>4. QED
            BY <6>1, <6>2, <6>3, <5>3, <1>b
        <5>6. QED
          BY Zenon, <3>0, <4>1, <4>3, <5>4, <5>5
      <4>4. QED
        BY Zenon, <4>2, <4>3
    <3>3. QED
      BY Zenon, <3>1, <3>2
  <2>2. ASSUME NEW k \in Link, on'[k] # NONE
        PROVE  IF prev'[k] = NULL THEN q[k] = 1
               ELSE on'[prev'[k]] = on'[k] /\ q[prev'[k]] = q[k] - 1
    <3>0. k # l /\ on'[k] = on[k] /\ on[k] # NONE
      BY Zenon, <2>0, <2>2
    <3>1. CASE k = next[l]
      <4>1. on[k] = p /\ pos[k] = pos[l] + 1 /\ prev'[k] = prev[l] /\ q[k] = pos[l]
        BY <3>0, <3>1, <1>0, <1>a, <1>b DEF Shape, Chained
      <4>2. CASE prev[l] = NULL
        <5>1. pos[l] = 1
          BY Zenon, <4>2, <1>a DEF Shape, Chained
        <5>2. QED
          BY Zenon, <3>0, <4>1, <4>2, <5>1, <1>a
      <4>3. CASE prev[l] # NULL
        <5>1. prev[l] \in Link /\ on[prev[l]] = p /\ pos[prev[l]] = pos[l] - 1
          BY Zenon, <4>3, <1>a DEF Shape, Chained
        <5>2. prev[l] # l /\ q[prev[l]] = pos[l] - 1
          BY <5>1, <1>0, <1>b
        <5>3. QED
          BY Zenon, <3>0, <4>1, <4>3, <5>1, <5>2, <1>a, <1>b
      <4>4. QED
        BY Zenon, <4>2, <4>3
    <3>2. CASE k # next[l]
      <4>1. prev'[k] = prev[k]
        BY Zenon, <3>0, <3>2, <1>a
      <4>2. CASE prev[k] = NULL
        <5>1. pos[k] = 1
          BY Zenon, <3>0, <4>2 DEF Shape, Chained
        <5>2. QED
          BY <3>0, <4>1, <4>2, <5>1, <1>0, <1>b
      <4>3. CASE prev[k] # NULL
        <5>1. prev[k] \in Link /\ on[prev[k]] = on[k] /\ pos[prev[k]] = pos[k] - 1
          BY Zenon, <3>0, <4>3 DEF Shape, Chained
        <5>2. prev[k] # l
          <6>1. SUFFICES ASSUME prev[k] = l PROVE FALSE
            BY Zenon
          <6>2. on[k] = p /\ pos[l] = pos[k] - 1 /\ pos[k] \in 1 .. inQ[p]
            BY Zenon, <6>1, <5>1, <3>0, <1>a DEF Shape, Numbered
          <6>3. next[l] # NULL /\ on[next[l]] = p /\ pos[next[l]] = pos[k]
            BY <6>2, <1>a DEF Shape, Chained
          <6>4. QED
            BY <6>2, <6>3, <3>0, <3>2 DEF Shape, Numbered
        <5>3. on[k] = p => pos[k] # pos[l] /\ pos[prev[k]] # pos[l]
          BY <3>0, <5>1, <5>2, <1>a DEF Shape, Numbered
        <5>4. QED
          BY <3>0, <4>1, <4>3, <5>1, <5>2, <5>3, <1>0, <1>a, <1>b
      <4>4. QED
        BY Zenon, <4>2, <4>3
    <3>3. QED
      BY Zenon, <3>1, <3>2
  <2>3. QED
    BY Zenon, <2>1, <2>2 DEF Chained
<1>3. Ends(q)'
  <2>1. ASSUME NEW r \in Prty
        PROVE  IF first'[r] = NULL THEN inQ'[r] = 0
               ELSE on'[first'[r]] = r /\ q[first'[r]] = 1
    BY <1>0, <1>a, <1>b DEF Shape, Numbered, Chained, Ends
  <2>2. ASSUME NEW r \in Prty
        PROVE  IF last'[r] = NULL THEN inQ'[r] = 0
               ELSE on'[last'[r]] = r /\ q[last'[r]] = inQ'[r]
    BY <1>0, <1>a, <1>b DEF Shape, Numbered, Chained, Ends
  <2>3. QED
    BY Zenon, <2>1, <2>2 DEF Ends
<1>4. QED
  BY <1>1, <1>2, <1>3, <1>b DEF Shape

LEMMA NextIInv == IInv /\ [Next]_vars => IInv'
<1> SUFFICES ASSUME IInv, [Next]_vars PROVE IInv'
  BY Zenon
<1>0. PICK pos \in [Link -> Nat] : Shape(pos)
  BY Zenon DEF IInv
<1>a. TypeOK /\ Detached /\ Totals
  BY Zenon DEF IInv
<1> USE NoneNotPrty, LinkAssumption
<1>1. ASSUME NEW l \in Link, NEW p \in Prty, MRT_plist_app(l, p)
      PROVE  IInv'
  <2>1. \E q \in [Link -> Nat] : Shape(q)'
    BY Zenon, <1>0, <1>1, <1>a, AppShape
  <2>2. TypeOK'
    BY <1>1, <1>a DEF TypeOK, MRT_plist_app, MRT_list_app
  <2>3. Detached'
    BY <1>0, <1>1, <1>a DEF TypeOK, Detached, Shape, Ends, MRT_plist_app, MRT_list_app
  <2>4. Totals'
    <3>1. Cardinality({k \in Link : on'[k] # NONE}) = count + 1
      BY Zenon, <1>1, <1>a, CardAdd DEF Totals, MRT_plist_app
    <3>2. bitmap' = {r \in Prty : inQ'[r] # 0}
      BY <1>1, <1>a DEF TypeOK, Totals, MRT_plist_app, MRT_list_app
    <3>3. QED
      BY Zenon, <3>1, <3>2, <1>1 DEF Totals, MRT_plist_app
  <2>5. QED
    BY Zenon, <2>1, <2>2, <2>3, <2>4 DEF IInv
<1>2. ASSUME NEW l \in Link, NEW p \in Prty, MRT_plist_ins(l, p)
      PROVE  IInv'
  <2>1. \E q \in [Link -> Nat] : Shape(q)'
    BY Zenon, <1>0, <1>2, <1>a, InsShape
  <2>2. TypeOK'
    BY <1>2, <1>a DEF TypeOK, MRT_plist_ins, MRT_list_ins
  <2>3. Detached'
    BY <1>0, <1>2, <1>a DEF TypeOK, Detached, Shape, Ends, MRT_plist_ins, MRT_list_ins
  <2>4. Totals'
    <3>1. Cardinality({k \in Link : on'[k] # NONE}) = count + 1
      BY Zenon, <1>2, <1>a, CardAdd DEF Totals, MRT_plist_ins
    <3>2. bitmap' = {r \in Prty : inQ'[r] # 0}
      BY <1>2, <1>a DEF TypeOK, Totals, MRT_plist_ins, MRT_list_ins
    <3>3. QED
      BY Zenon, <3>1, <3>2, <1>2 DEF Totals, MRT_plist_ins
  <2>5. QED
    BY Zenon, <2>1, <2>2, <2>3, <2>4 DEF IInv
<1>3. ASSUME NEW l \in Link, NEW p \in Prty, MRT_plist_rmv(l, p)
      PROVE  IInv'
  <2>1. /\ \E q \in [Link -> Nat] : Shape(q)'
        /\ inQ[p] - 1 \in Nat
    BY Zenon, <1>0, <1>3, <1>a, RmvShape
  <2>2. /\ Cardinality({k \in Link : on'[k] # NONE}) = count - 1
        /\ count - 1 \in Nat
    BY Zenon, <1>3, <1>a, CardRemove DEF Totals, MRT_plist_rmv
  <2>3. TypeOK'
    BY Zenon, <1>3, <1>a, <2>1, <2>2 DEF TypeOK, MRT_plist_rmv, MRT_list_rmv
  <2>4. Detached'
    BY <1>0, <1>3, <1>a DEF TypeOK, Detached, Shape, Chained, MRT_plist_rmv, MRT_list_rmv
  <2>5. Totals'
    BY <1>3, <1>a, <2>1, <2>2 DEF TypeOK, Totals, MRT_plist_rmv, MRT_list_rmv
  <2>6. QED
    BY Zenon, <2>1, <2>3, <2>4, <2>5 DEF IInv
<1>4. CASE UNCHANGED vars
  <2>1. TypeOK' /\ Detached' /\ Totals'
    BY Zenon, <1>4, <1>a DEF vars, TypeOK, Detached, Totals
  <2>2. Shape(pos)'
    BY <1>0, <1>4 DEF vars, Shape, Numbered, Chained, Ends
  <2>3. QED
    BY Zenon, <2>1, <2>2 DEF IInv
<1>5. QED
  BY Zenon, <1>1, <1>2, <1>3, <1>4 DEF Next

(* For every number of links and priorities, the inductive invariant holds *)
(* in every reachable state of the lists of mrtlib.c.                      *)
THEOREM Invariance == Spec => []IInv
<1>1. QED
  BY InitIInv, NextIInv, PTL DEF Spec

LEMMA IInvLinks == IInv => LinksConsistent
<1> SUFFICES ASSUME IInv PROVE LinksConsistent
  BY Zenon
<1>0. PICK pos \in [Link -> Nat] : Shape(pos)
  BY Zenon DEF IInv
<1>a. TypeOK /\ Detached
  BY Zenon DEF IInv
<1> USE NoneNotPrty, LinkAssumption
<1>1. ASSUME NEW l \in Link, on[l] # NONE
      PROVE  IF next[l] = NULL THEN last[on[l]] = l
             ELSE prev[next[l]] = l /\ on[next[l]] = on[l]
  <2>0. on[l] \in Prty /\ pos[l] \in 1 .. inQ[on[l]]
    BY <1>0, <1>1, <1>a DEF TypeOK, Shape, Numbered
  <2>1. CASE next[l] = NULL
    <3>1. pos[l] = inQ[on[l]]
      BY Zenon, <2>1, <1>0, <1>1 DEF Shape, Chained
    <3>2. last[on[l]] \in Link /\ on[last[on[l]]] = on[l] /\ pos[last[on[l]]] = pos[l]
      <4>1. inQ[on[l]] # 0
        BY <2>0, <3>1, <1>a DEF TypeOK
      <4>2. last[on[l]] # NULL
        BY Zenon, <2>0, <4>1, <1>0 DEF Shape, Ends
      <4>3. last[on[l]] \in Link
        BY Zenon, <2>0, <4>2, <1>a DEF TypeOK
      <4>4. QED
        BY Zenon, <2>0, <3>1, <4>2, <4>3, <1>0 DEF Shape, Ends
    <3>3. QED
      BY Zenon, <2>1, <3>2, <1>0, <1>1 DEF Shape, Numbered
  <2>2. CASE next[l] # NULL
    <3>1. next[l] \in Link /\ on[next[l]] = on[l] /\ pos[next[l]] = pos[l] + 1
      BY Zenon, <2>2, <1>0, <1>1, <1>a DEF TypeOK, Shape, Chained
    <3>2. prev[next[l]] # NULL
      BY <2>0, <3>1, <1>0, <1>1, <1>a DEF Shape, Chained
    <3>3. /\ prev[next[l]] \in Link /\ on[prev[next[l]]] = on[l]
          /\ pos[prev[next[l]]] = (pos[l] + 1) - 1
      BY <3>1, <3>2, <1>0, <1>1, <1>a DEF TypeOK, Shape, Chained
    <3>4. QED
      BY <2>0, <2>2, <3>1, <3>3, <1>0, <1>1 DEF Shape, Numbered
  <2>3. QED
    BY Zenon, <2>1, <2>2
<1>2. ASSUME NEW l \in Link, on[l] # NONE
      PROVE  IF prev[l] = NULL THEN first[on[l]] = l
             ELSE next[prev[l]] = l /\ on[prev[l]] = on[l]
  <2>0. on[l] \in Prty /\ pos[l] \in 1 .. inQ[on[l]]
    BY <1>0, <1>2, <1>a DEF TypeOK, Shape, Numbered
  <2>1. CASE prev[l] = NULL
    <3>1. pos[l] = 1
      BY Zenon, <2>1, <1>0, <1>2 DEF Shape, Chained
    <3>2. first[on[l]] \in Link /\ on[first[on[l]]] = on[l] /\ pos[first[on[l]]] = 1
      <4>1. inQ[on[l]] # 0
        BY <2>0, <1>a DEF TypeOK
      <4>2. first[on[l]] # NULL
        BY Zenon, <2>0, <4>1, <1>0 DEF Shape, Ends
      <4>3. first[on[l]] \in Link
        BY Zenon, <2>0, <4>2, <1>a DEF TypeOK
      <4>4. QED
        BY Zenon, <2>0, <4>2, <4>3, <1>0 DEF Shape, Ends
    <3>3. QED
      BY <2>1, <3>1, <3>2, <1>0, <1>2 DEF Shape, Numbered
  <2>2. CASE prev[l] # NULL
    <3>1. prev[l] \in Link /\ on[prev[l]] = on[l] /\ pos[prev[l]] = pos[l] - 1
      BY Zenon, <2>2, <1>0, <1>2, <1>a DEF TypeOK, Shape, Chained
    <3>2. next[prev[l]] # NULL
      BY <2>0, <3>1, <1>0, <1>2, <1>a DEF Shape, Chained, TypeOK
    <3>3. /\ next[prev[l]] \in Link /\ on[next[prev[l]]] = on[l]
          /\ pos[next[prev[l]]] = (pos[l] - 1) + 1
      BY <3>1, <3>2, <1>0, <1>2, <1>a DEF TypeOK, Shape, Chained
    <3>4. QED
      BY <2>0, <2>2, <3>1, <3>3, <1>0, <1>2 DEF Shape, Numbered
  <2>3. QED
    BY Zenon, <2>1, <2>2
<1>3. QED
  BY Zenon, <1>1, <1>2, <1>a DEF LinksConsistent, Detached

LEMMA IInvSummaries == IInv => SummariesExact
<1> SUFFICES ASSUME IInv PROVE SummariesExact
  BY Zenon
<1>0. PICK pos \in [Link -> Nat] : Shape(pos)
  BY Zenon DEF IInv
<1>a. TypeOK /\ Totals
  BY Zenon DEF IInv
<1> USE NoneNotPrty, LinkAssumption
<1>1. ASSUME NEW p \in Prty
      PROVE  /\ p \in bitmap <=> inQ[p] # 0
             /\ p \in bitmap <=> first[p] # NULL
             /\ p \in bitmap <=> last[p] # NULL
  BY <1>0, <1>a DEF TypeOK, Totals, Shape, Numbered, Ends
<1>2. ASSUME NEW p \in Prty
      PROVE  p \in bitmap <=> \E l \in Link : on[l] = p
  BY <1>0, <1>a, <1>1 DEF TypeOK, Shape, Numbered, Ends
<1>3. QED
  BY Zenon, <1>1, <1>2, <1>a DEF SummariesExact, Totals

LEMMA IInvGet == IInv => GetReturnsHighest
<1> SUFFICES ASSUME IInv PROVE GetReturnsHighest
  BY Zenon
<1>0. PICK pos \in [Link -> Nat] : Shape(pos)
  BY Zenon DEF IInv
<1>a. TypeOK /\ Totals /\ SummariesExact
  BY Zenon, IInvSummaries DEF IInv
<1> USE NoneNotPrty, LinkAssumption
<1>1. CASE \A l \in Link : on[l] = NONE
  <2>1. bitmap = {}
    BY <1>1, <1>a DEF TypeOK, SummariesExact
  <2>2. QED
    BY Zenon, <1>1, <2>1 DEF GetReturnsHighest, MRT_plist_get
<1>2. CASE \E l \in Link : on[l] # NONE
  <2>1. PICK k \in Link : on[k] # NONE
    BY Zenon, <1>2
  <2>2. on[k] \in bitmap
    BY Zenon, <2>1, <1>a DEF TypeOK, SummariesExact
  <2>3. count # 0
    <3>1. IsFiniteSet({l \in Link : on[l] # NONE})
      BY Zenon, FS_Subset
    <3>2. {l \in Link : on[l] # NONE} # {}
      BY Zenon, <2>1
    <3>3. QED
      BY Zenon, <3>1, <3>2, <1>a, FS_EmptySet DEF SummariesExact
  <2>4. \E p \in bitmap : \A r \in bitmap : p <= r
    BY Zenon, <2>2, <1>a, LeastPrty DEF TypeOK
  <2>5. PICK p \in bitmap : p = CHOOSE t \in bitmap : \A r \in bitmap : t <= r
    BY Zenon, <2>4
  <2>6. \A r \in bitmap : p <= r
    BY Zenon, <2>4, <2>5
  <2>7. MRT_plist_get = first[p]
    BY Zenon, <2>2, <2>3, <2>5 DEF MRT_plist_get
  <2>8. first[p] \in Link /\ on[first[p]] = p /\ pos[first[p]] = 1
    BY <1>0, <1>a DEF TypeOK, SummariesExact, Shape, Ends
  <2>9. prev[first[p]] = NULL
    <3>1. prev[first[p]] # NULL =>
            /\ prev[first[p]] \in Link
            /\ on[prev[first[p]]] = p
            /\ pos[prev[first[p]]] = 0
      BY <2>8, <1>0, <1>a DEF TypeOK, Shape, Chained
    <3>2. QED
      BY <3>1, <1>0, <1>a DEF TypeOK, Shape, Numbered
  <2>10. \A l \in Link : p <= on[l]
    <3>1. ASSUME NEW l \in Link PROVE p <= on[l]
      <4>1. CASE on[l] = NONE
        BY <4>1, <1>a, PrtyAssumption DEF TypeOK, NONE, Prty
      <4>2. CASE on[l] # NONE
        BY Zenon, <4>2, <2>6, <1>a DEF TypeOK, SummariesExact
      <4>3. QED
        BY Zenon, <4>1, <4>2
    <3>2. QED
      BY Zenon, <3>1
  <2>11. p # NONE
    BY Zenon, <1>a DEF TypeOK
  <2>12. QED
    BY Zenon, <1>2, <2>7, <2>8, <2>9, <2>10, <2>11 DEF GetReturnsHighest
<1>3. QED
  BY Zenon, <1>1, <1>2

(* The kernel's priority lists keep their chains consistent in every       *)
(* reachable state, whatever the number of objects and of priorities.      *)
THEOREM LinksAlwaysConsistent == Spec => []LinksConsistent
<1>1. QED
  BY Invariance, IInvLinks, PTL

(* The bitmap, the ends and the counts of the lists are always exact.      *)
THEOREM SummariesAlwaysExact == Spec => []SummariesExact
<1>1. QED
  BY Invariance, IInvSummaries, PTL

(* MRT_plist_get always returns an object of the highest priority queued.  *)
THEOREM GetAlwaysReturnsHighest == Spec => []GetReturnsHighest
<1>1. QED
  BY Invariance, IInvGet, PTL

(* The types of the pointers, counts and bitmap are preserved; no count is *)
(* ever decremented below zero.                                            *)
THEOREM TypeCorrect == Spec => []TypeOK
<1>1. IInv => TypeOK
  BY Zenon DEF IInv
<1>2. QED
  BY Invariance, <1>1, PTL
=============================================================================
