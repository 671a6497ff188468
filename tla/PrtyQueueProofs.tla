-------------------------- MODULE PrtyQueueProofs --------------------------
(***************************************************************************)
(* Lemmas about priority queues of any objects: what is a member of which  *)
(* list after MRT_plist_app, its insertion at the front and the removal of *)
(* a link, and which object MRT_plist's search for the highest finds.      *)
(***************************************************************************)
EXTENDS PrtyQueues, Integers, TLAPS

(* The members of a list, and that none is in it twice.                    *)
Members(s) == {s[i] : i \in 1 .. Len(s)}

Once(s) == \A i, j \in 1 .. Len(s) : s[i] = s[j] => i = j

(* The sequence without its i-th member.                                   *)
Cut(s, i) == SubSeq(s, 1, i - 1) \o SubSeq(s, i + 1, Len(s))

-----------------------------------------------------------------------------
(* Cut takes one member out and moves those after it by one.               *)
LEMMA CutShifts ==
  ASSUME NEW S, NEW s \in Seq(S), NEW i \in 1 .. Len(s)
  PROVE  /\ Cut(s, i) \in Seq(S) /\ Len(Cut(s, i)) = Len(s) - 1
         /\ \A k \in 1 .. Len(s) - 1 : Cut(s, i)[k] = IF k < i THEN s[k] ELSE s[k + 1]
<1> DEFINE a == SubSeq(s, 1, i - 1)
           b == SubSeq(s, i + 1, Len(s))
<1>0. Len(s) \in Nat /\ \A k \in 1 .. Len(s) : s[k] \in S
  OBVIOUS
<1>1. /\ a \in Seq(S) /\ Len(a) = i - 1
      /\ \A k \in 1 .. i - 1 : a[k] = s[k]
  BY <1>0
<1>2. /\ b \in Seq(S) /\ Len(b) = Len(s) - i
      /\ \A k \in 1 .. Len(s) - i : b[k] = s[i + k]
  BY <1>0
<1> HIDE DEF a, b
<1>3. /\ a \o b \in Seq(S) /\ Len(a \o b) = Len(a) + Len(b)
      /\ \A k \in 1 .. Len(a) + Len(b) : (a \o b)[k] = IF k <= Len(a) THEN a[k] ELSE b[k - Len(a)]
  <2>1. a \in Seq(S) /\ b \in Seq(S)
    BY <1>1, <1>2
  <2>2. QED
    BY <2>1
<1>4. Cut(s, i) = a \o b
  BY DEF Cut, a, b
<1>5. Len(a \o b) = Len(s) - 1
  BY <1>0, <1>1, <1>2, <1>3
<1>6. ASSUME NEW k \in 1 .. Len(s) - 1
      PROVE  (a \o b)[k] = IF k < i THEN s[k] ELSE s[k + 1]
  <2>1. CASE k < i
    BY <2>1, <1>0, <1>1, <1>2, <1>3
  <2>2. CASE k >= i
    <3>1. (a \o b)[k] = b[k - (i - 1)] /\ k - (i - 1) \in 1 .. Len(s) - i
      BY <2>2, <1>0, <1>1, <1>2, <1>3
    <3>2. b[k - (i - 1)] = s[i + (k - (i - 1))]
      BY <3>1, <1>2
    <3>3. QED
      BY <2>2, <3>1, <3>2
  <2>3. k < i \/ k >= i
    BY <1>0
  <2>4. QED
    BY Zenon, <2>1, <2>2, <2>3
<1>7. QED
  BY <1>3, <1>4, <1>5, <1>6

(* A list where nobody is twice loses exactly the member that is cut.      *)
LEMMA CutMembers ==
  ASSUME NEW S, NEW s \in Seq(S), NEW i \in 1 .. Len(s), Once(s)
  PROVE  /\ Cut(s, i) \in Seq(S) /\ Once(Cut(s, i))
         /\ Members(Cut(s, i)) = Members(s) \ {s[i]}
<1> DEFINE t == Cut(s, i)
           n == Len(s)
           At(k) == IF k < i THEN k ELSE k + 1
<1>1. /\ t \in Seq(S) /\ Len(t) = n - 1 /\ n \in Nat
      /\ \A k \in 1 .. n - 1 : t[k] = IF k < i THEN s[k] ELSE s[k + 1]
  BY CutShifts
<1> HIDE DEF t
<1>2. \A k \in 1 .. n - 1 : At(k) \in 1 .. n /\ At(k) # i /\ t[k] = s[At(k)]
  BY <1>1
<1>3. Once(t)
  <2> SUFFICES ASSUME NEW j \in 1 .. n - 1, NEW k \in 1 .. n - 1, t[j] = t[k] PROVE j = k
    BY <1>1 DEF Once
  <2>1. At(j) = At(k)
    BY <1>2 DEF Once
  <2>2. QED
    BY <2>1, <1>1
<1>4. ASSUME NEW x \in Members(t) PROVE x \in Members(s) /\ x # s[i]
  <2>1. PICK k \in 1 .. n - 1 : x = t[k]
    BY <1>1, <1>4 DEF Members
  <2>2. QED
    BY Zenon, <2>1, <1>2 DEF Members, Once
<1>5. ASSUME NEW x \in Members(s), x # s[i] PROVE x \in Members(t)
  <2>1. PICK k \in 1 .. n : x = s[k]
    BY DEF Members
  <2>2. k # i
    BY <2>1, <1>5
  <2>3. CASE k < i
    <3>1. k \in 1 .. n - 1 /\ t[k] = x
      BY <2>1, <2>3, <1>1
    <3>2. QED
      BY <3>1, <1>1 DEF Members
  <2>4. CASE k > i
    <3>1. k - 1 \in 1 .. n - 1 /\ ~(k - 1 < i) /\ (k - 1) + 1 = k
      BY <2>4, <1>1
    <3>2. t[k - 1] = x
      BY <3>1, <2>1, <1>1
    <3>3. QED
      BY <3>1, <3>2, <1>1 DEF Members
  <2>5. QED
    BY <2>2, <2>3, <2>4
<1>6. QED
  BY <1>1, <1>3, <1>4, <1>5 DEF t

(* Appending adds a member at the end.                                     *)
LEMMA AppendMembers ==
  ASSUME NEW S, NEW s \in Seq(S), NEW x \in S
  PROVE  /\ Append(s, x) \in Seq(S) /\ Members(Append(s, x)) = Members(s) \cup {x}
         /\ Once(s) /\ x \notin Members(s) => Once(Append(s, x))
<1> DEFINE t == Append(s, x)
<1>1. /\ t \in Seq(S) /\ Len(t) = Len(s) + 1 /\ Len(s) \in Nat
      /\ \A k \in 1 .. Len(s) : t[k] = s[k]
      /\ t[Len(s) + 1] = x
  OBVIOUS
<1> HIDE DEF t
<1>2. Members(t) = Members(s) \cup {x}
  BY <1>1 DEF Members
<1>3. ASSUME Once(s), x \notin Members(s) PROVE Once(t)
  BY <1>1, <1>3 DEF Members, Once
<1>4. QED
  BY <1>1, <1>2, <1>3 DEF t

(* So does putting it in front.                                            *)
LEMMA PrependMembers ==
  ASSUME NEW S, NEW s \in Seq(S), NEW x \in S
  PROVE  /\ <<x>> \o s \in Seq(S) /\ Members(<<x>> \o s) = Members(s) \cup {x}
         /\ Once(s) /\ x \notin Members(s) => Once(<<x>> \o s)
<1> DEFINE t == <<x>> \o s
<1>0. <<x>> \in Seq(S) /\ Len(<<x>>) = 1 /\ <<x>>[1] = x /\ Len(s) \in Nat
  OBVIOUS
<1>1. /\ t \in Seq(S) /\ Len(t) = 1 + Len(s)
      /\ \A k \in 1 .. 1 + Len(s) : t[k] = IF k <= 1 THEN <<x>>[k] ELSE s[k - 1]
  BY <1>0
<1> HIDE DEF t
<1>2. /\ Len(t) = Len(s) + 1 /\ t[1] = x
      /\ \A k \in 1 .. Len(s) : k + 1 \in 1 .. Len(t) /\ t[k + 1] = s[k]
      /\ \A k \in 1 .. Len(t) : k # 1 => k - 1 \in 1 .. Len(s) /\ t[k] = s[k - 1]
  BY <1>0, <1>1
<1>3. 1 \in 1 .. Len(t)
  BY <1>0, <1>2
<1>4. Members(t) = Members(s) \cup {x}
  <2>1. Members(t) \subseteq Members(s) \cup {x}
    BY <1>2 DEF Members
  <2>2. x \in Members(t)
    BY <1>2, <1>3 DEF Members
  <2>3. Members(s) \subseteq Members(t)
    BY <1>2 DEF Members
  <2>4. QED
    BY <2>1, <2>2, <2>3
<1>5. ASSUME Once(s), x \notin Members(s) PROVE Once(t)
  <2> SUFFICES ASSUME NEW j \in 1 .. Len(t), NEW k \in 1 .. Len(t), t[j] = t[k] PROVE j = k
    BY DEF Once
  <2>1. ASSUME NEW i \in 1 .. Len(t), i # 1 PROVE t[i] \in Members(s) /\ t[i] # x
    BY <2>1, <1>2, <1>5 DEF Members
  <2>2. CASE j = 1 \/ k = 1
    BY <2>1, <2>2, <1>2
  <2>3. CASE j # 1 /\ k # 1
    <3>1. j - 1 \in 1 .. Len(s) /\ k - 1 \in 1 .. Len(s) /\ s[j - 1] = s[k - 1]
      BY <2>3, <1>2
    <3>2. j - 1 = k - 1
      BY <3>1, <1>5 DEF Once
    <3>3. QED
      BY <3>2, <1>0, <1>2
  <2>4. QED
    BY <2>2, <2>3
<1>6. QED
  BY <1>1, <1>4, <1>5 DEF t

-----------------------------------------------------------------------------
(* The queues of a set of objects.                                         *)
Queues(S) == [Prty -> Seq(S)]

(* The members of the list of one priority.                                *)
QMembers(q, r) == Members(q[r])

(* No object is in a list of q twice.                                      *)
QOnce(q) == \A r \in Prty : Once(q[r])

(* The model's ways to say that an object is in a queue.                   *)
LEMMA QMembership ==
  ASSUME NEW q, NEW x
  PROVE  /\ \A r \in Prty : QPositions(q, r, x) # {} <=> x \in QMembers(q, r)
         /\ QHas(q, x) <=> \E r \in Prty : x \in QMembers(q, r)
<1>1. \A r \in Prty : QPositions(q, r, x) # {} <=> x \in QMembers(q, r)
  BY DEF QPositions, QMembers, Members
<1>2. QED
  BY <1>1 DEF QHas

(* Members are objects.                                                    *)
LEMMA QMembersType ==
  ASSUME NEW S, NEW q \in Queues(S), NEW r \in Prty
  PROVE  q[r] \in Seq(S) /\ QMembers(q, r) \subseteq S
<1>1. q[r] \in Seq(S)
  BY DEF Queues
<1>2. QED
  BY <1>1 DEF QMembers, Members

(* The empty queue.                                                        *)
LEMMA QEmptyFacts ==
  ASSUME NEW S
  PROVE  QEmpty \in Queues(S) /\ QOnce(QEmpty) /\ \A r \in Prty : QMembers(QEmpty, r) = {}
<1>1. << >> \in Seq(S) /\ Len(<< >>) = 0
  OBVIOUS
<1>2. \A i : i \notin 1 .. 0
  OBVIOUS
<1>3. \A r \in Prty : QEmpty[r] = << >>
  BY DEF QEmpty
<1>4. QEmpty \in Queues(S)
  BY <1>1 DEF QEmpty, Queues
<1>5. Once(<< >>) /\ Members(<< >>) = {}
  BY <1>1, <1>2 DEF Once, Members
<1>6. QED
  BY <1>3, <1>4, <1>5 DEF QOnce, QMembers

(* What QAppend and QPrepend add.                                          *)
LEMMA QAppendFacts ==
  ASSUME NEW S, NEW q \in Queues(S), NEW r \in Prty, NEW x \in S
  PROVE  /\ QAppend(q, r, x) \in Queues(S)
         /\ QMembers(QAppend(q, r, x), r) = QMembers(q, r) \cup {x}
         /\ \A t \in Prty : t # r => QMembers(QAppend(q, r, x), t) = QMembers(q, t)
         /\ QOnce(q) /\ x \notin QMembers(q, r) => QOnce(QAppend(q, r, x))
<1>1. q[r] \in Seq(S) /\ q \in [Prty -> Seq(S)]
  BY DEF Queues
<1>2. /\ Append(q[r], x) \in Seq(S) /\ Members(Append(q[r], x)) = Members(q[r]) \cup {x}
      /\ Once(q[r]) /\ x \notin Members(q[r]) => Once(Append(q[r], x))
  BY <1>1, AppendMembers
<1>3. QAppend(q, r, x) = [q EXCEPT ![r] = Append(q[r], x)]
  BY DEF QAppend
<1>4. QED
  BY <1>1, <1>2, <1>3 DEF Queues, QMembers, QOnce

LEMMA QPrependFacts ==
  ASSUME NEW S, NEW q \in Queues(S), NEW r \in Prty, NEW x \in S
  PROVE  /\ QPrepend(q, r, x) \in Queues(S)
         /\ QMembers(QPrepend(q, r, x), r) = QMembers(q, r) \cup {x}
         /\ \A t \in Prty : t # r => QMembers(QPrepend(q, r, x), t) = QMembers(q, t)
         /\ QOnce(q) /\ x \notin QMembers(q, r) => QOnce(QPrepend(q, r, x))
<1>1. q[r] \in Seq(S) /\ q \in [Prty -> Seq(S)]
  BY DEF Queues
<1>2. /\ <<x>> \o q[r] \in Seq(S) /\ Members(<<x>> \o q[r]) = Members(q[r]) \cup {x}
      /\ Once(q[r]) /\ x \notin Members(q[r]) => Once(<<x>> \o q[r])
  BY <1>1, PrependMembers
<1>3. QPrepend(q, r, x) = [q EXCEPT ![r] = <<x>> \o q[r]]
  BY DEF QPrepend
<1>4. QED
  BY <1>1, <1>2, <1>3 DEF Queues, QMembers, QOnce

(* What QRemove takes out of a list the object is in.                      *)
LEMMA QRemoveFacts ==
  ASSUME NEW S, NEW q \in Queues(S), QOnce(q), NEW r \in Prty, NEW x \in QMembers(q, r)
  PROVE  /\ QRemove(q, r, x) \in Queues(S) /\ QOnce(QRemove(q, r, x))
         /\ QMembers(QRemove(q, r, x), r) = QMembers(q, r) \ {x}
         /\ \A t \in Prty : t # r => QMembers(QRemove(q, r, x), t) = QMembers(q, t)
<1> DEFINE i == CHOOSE j \in QPositions(q, r, x) : TRUE
<1>1. q[r] \in Seq(S) /\ q \in [Prty -> Seq(S)] /\ Once(q[r])
  BY DEF Queues, QOnce
<1>2. i \in QPositions(q, r, x)
  BY Zenon, QMembership
<1>3. i \in 1 .. Len(q[r]) /\ q[r][i] = x
  BY <1>2 DEF QPositions
<1>4. QRemove(q, r, x) = [q EXCEPT ![r] = Cut(q[r], i)]
  BY DEF QRemove, Cut
<1> HIDE DEF i
<1>5. /\ Cut(q[r], i) \in Seq(S) /\ Once(Cut(q[r], i))
      /\ Members(Cut(q[r], i)) = Members(q[r]) \ {x}
  BY <1>1, <1>3, CutMembers
<1>6. QED
  BY <1>1, <1>4, <1>5 DEF Queues, QMembers, QOnce

-----------------------------------------------------------------------------
(* Every set of natural numbers that is not empty has a least member: what *)
(* the lemmas below need from the theory of well-founded relations.  The   *)
(* modules that use them prove it where they state their theorems.         *)
WellOrdered == \A N \in SUBSET Nat : N # {} => \E m \in N : \A n \in N : m <= n

(* A set of priorities that is not empty has a highest one.                *)
LEMMA LeastPrty ==
  ASSUME WellOrdered, NEW P \in SUBSET Prty, P # {}
  PROVE  \E r \in P : \A t \in P : r <= t
<1>1. P \subseteq Nat
  BY PrtyAssumption DEF Prty
<1>2. QED
  BY <1>1 DEF WellOrdered

(* A list without members is empty, and the first of another is a member.  *)
LEMMA HeadMember ==
  ASSUME NEW S, NEW s \in Seq(S)
  PROVE  /\ s = << >> <=> Members(s) = {}
         /\ s # << >> => Len(s) > 0 /\ Head(s) = s[1] /\ Head(s) \in Members(s)
<1>1. Len(s) \in Nat /\ (s = << >> <=> Len(s) = 0)
  OBVIOUS
<1>2. ASSUME s # << >> PROVE Len(s) > 0 /\ Head(s) = s[1] /\ 1 \in 1 .. Len(s)
  BY <1>1, <1>2
<1>3. s = << >> => Members(s) = {}
  BY <1>1 DEF Members
<1>4. QED
  BY <1>2, <1>3 DEF Members

(* The queue is empty when no list has a member.                           *)
LEMMA QIsEmptyFacts ==
  ASSUME NEW S, NEW q \in Queues(S)
  PROVE  QIsEmpty(q) <=> \A r \in Prty : QMembers(q, r) = {}
<1>1. \A r \in Prty : q[r] \in Seq(S)
  BY DEF Queues
<1>2. QED
  BY Zenon, <1>1, HeadMember DEF QIsEmpty, QMembers

(* QHighest finds the first object of the highest list that has one.       *)
LEMMA QHighestFacts ==
  ASSUME WellOrdered, NEW S, NEW q \in Queues(S), ~QIsEmpty(q)
  PROVE  /\ QTop(q) \in Prty /\ q[QTop(q)] # << >>
         /\ \A r \in Prty : QMembers(q, r) # {} => QTop(q) <= r
         /\ QHighest(q) \in QMembers(q, QTop(q)) /\ QHighest(q) \in S
         /\ QHighest(q) = q[QTop(q)][1]
<1> DEFINE P == {r \in Prty : q[r] # << >>}
           t == QTop(q)
<1>1. P # {} /\ P \in SUBSET Prty
  BY DEF QIsEmpty
<1>2. \E r \in Prty : q[r] # << >> /\ \A u \in Prty : q[u] # << >> => r <= u
  BY Zenon, <1>1, LeastPrty
<1>3. t \in Prty /\ q[t] # << >> /\ \A u \in Prty : q[u] # << >> => t <= u
  BY <1>2 DEF QTop
<1> HIDE DEF t
<1>4. \A r \in Prty : q[r] \in Seq(S) /\ QMembers(q, r) \subseteq S
  BY QMembersType
<1>5. \A r \in Prty : QMembers(q, r) # {} => q[r] # << >>
  BY <1>4, HeadMember DEF QMembers
<1>6. Head(q[t]) \in QMembers(q, t) /\ Head(q[t]) = q[t][1]
  BY <1>3, <1>4, HeadMember DEF QMembers
<1>7. QHighest(q) = Head(q[t])
  BY DEF QHighest, t
<1>8. QED
  BY <1>3, <1>4, <1>5, <1>6, <1>7 DEF t
=============================================================================
