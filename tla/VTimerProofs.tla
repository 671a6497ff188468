---------------------------- MODULE VTimerProofs ---------------------------
(***************************************************************************)
(* Proofs about the virtual timers, for any number of timers and of        *)
(* priorities and any periods: the delta queue is exact, every timer is in *)
(* one place, and together they implement timers that count on their own.  *)
(*                                                                         *)
(* First, lemmas about the delta queue: taking a timer out and putting one *)
(* in keep the differences exact and move no other timer's expiration.     *)
(* Then the inductive invariant, and what every step does to the active    *)
(* queue and to the places where timers are.                               *)
(***************************************************************************)
EXTENDS MCVTimer, TLAPS

(* The sequence t is s without its i-th member, or with v put before it.   *)
Removed(s, t, i) ==
  /\ t \in Seq(VT) /\ Len(t) = Len(s) - 1
  /\ \A k \in 1 .. Len(t) : t[k] = IF k < i THEN s[k] ELSE s[k + 1]

Inserted(s, t, i, v) ==
  /\ t \in Seq(VT) /\ Len(t) = Len(s) + 1
  /\ \A k \in 1 .. Len(t) : t[k] = IF k < i THEN s[k] ELSE IF k = i THEN v ELSE s[k - 1]

-----------------------------------------------------------------------------
(* A sequence of timers has a length, and timers as members.               *)
LEMMA SeqFacts ==
  ASSUME NEW s \in Seq(VT)
  PROVE  Len(s) \in Nat /\ \A i \in 1 .. Len(s) : s[i] \in VT
OBVIOUS

(* The empty queue is the one of length 0.                                 *)
LEMMA EmptyQueue ==
  /\ << >> \in Seq(VT) /\ Len(<< >>) = 0
  /\ \A s \in Seq(VT) : s # << >> => Len(s) \in Nat \ {0}
<1>1. ASSUME NEW s \in Seq(VT) PROVE s # << >> => Len(s) \in Nat \ {0}
  OBVIOUS
<1>2. << >> \in Seq(VT) /\ Len(<< >>) = 0
  OBVIOUS
<1>3. QED
  BY Zenon, <1>1, <1>2

(* SeqRemove is what its name says.                                        *)
LEMMA SeqRemoveRemoves ==
  ASSUME NEW s \in Seq(VT), NEW i \in 1 .. Len(s)
  PROVE  Removed(s, SeqRemove(s, i), i)
<1> DEFINE a == SubSeq(s, 1, i - 1)
           b == SubSeq(s, i + 1, Len(s))
<1>0. Len(s) \in Nat /\ \A k \in 1 .. Len(s) : s[k] \in VT
  OBVIOUS
<1>1. /\ a \in Seq(VT) /\ Len(a) = i - 1
      /\ \A k \in 1 .. i - 1 : a[k] = s[k]
  BY <1>0
<1>2. /\ b \in Seq(VT) /\ Len(b) = Len(s) - i
      /\ \A k \in 1 .. Len(s) - i : b[k] = s[i + k]
  BY <1>0
<1> HIDE DEF a, b
<1>3. /\ a \o b \in Seq(VT) /\ Len(a \o b) = Len(a) + Len(b)
      /\ \A k \in 1 .. Len(a) + Len(b) : (a \o b)[k] = IF k <= Len(a) THEN a[k] ELSE b[k - Len(a)]
  <2>1. a \in Seq(VT) /\ b \in Seq(VT)
    BY Zenon, <1>1, <1>2
  <2>2. QED
    BY <2>1
<1>4. SeqRemove(s, i) = a \o b
  BY Zenon DEF SeqRemove, a, b
<1>5. Len(a \o b) = Len(s) - 1
  BY <1>0, <1>1, <1>2, <1>3
<1>6. ASSUME NEW k \in 1 .. Len(s) - 1
      PROVE  (a \o b)[k] = IF k < i THEN s[k] ELSE s[k + 1]
  <2>1. CASE k < i
    BY <2>1, <1>0, <1>1, <1>2, <1>3
  <2>2. CASE k >= i
    <3>1. (a \o b)[k] = b[k - (i - 1)] /\ k - (i - 1) \in 1 .. Len(s) - i
      <4>1. k \in 1 .. Len(a) + Len(b) /\ ~(k <= Len(a)) /\ k - (i - 1) \in 1 .. Len(s) - i
        BY <2>2, <1>0, <1>1, <1>2
      <4>2. QED
        BY Zenon, <4>1, <1>1, <1>3
    <3>2. b[k - (i - 1)] = s[i + (k - (i - 1))]
      BY Zenon, <3>1, <1>2
    <3>3. i + (k - (i - 1)) = k + 1 /\ ~(k < i)
      BY <2>2, <1>0
    <3>4. QED
      BY Zenon, <3>1, <3>2, <3>3
  <2>3. k < i \/ k >= i
    BY <1>0
  <2>4. QED
    BY Zenon, <2>1, <2>2, <2>3
<1>7. QED
  BY Zenon, <1>3, <1>4, <1>5, <1>6 DEF Removed

(* A timer put before the whole queue is inserted at the first place.      *)
LEMMA ConcatInserts ==
  ASSUME NEW s \in Seq(VT), NEW v \in VT
  PROVE  Inserted(s, <<v>> \o s, 1, v)
<1>1. <<v>> \in Seq(VT) /\ Len(<<v>>) = 1 /\ <<v>>[1] = v /\ Len(s) \in Nat
  OBVIOUS
<1>2. /\ <<v>> \o s \in Seq(VT) /\ Len(<<v>> \o s) = 1 + Len(s)
      /\ \A k \in 1 .. 1 + Len(s) : (<<v>> \o s)[k] = IF k <= 1 THEN <<v>>[k] ELSE s[k - 1]
  BY <1>1
<1>3. QED
  BY <1>1, <1>2 DEF Inserted

(* A timer appended to the queue is inserted at the place after the last.  *)
LEMMA AppendInserts ==
  ASSUME NEW s \in Seq(VT), NEW v \in VT
  PROVE  Inserted(s, Append(s, v), Len(s) + 1, v)
<1>1. Len(s) \in Nat
  OBVIOUS
<1>2. QED
  BY <1>1 DEF Inserted

(* SeqInsert is what its name says.                                        *)
LEMMA SeqInsertInserts ==
  ASSUME NEW s \in Seq(VT), NEW v \in VT, NEW i \in 1 .. Len(s)
  PROVE  Inserted(s, SeqInsert(s, i, v), i, v)
<1> DEFINE a == SubSeq(s, 1, i - 1)
           b == SubSeq(s, i, Len(s))
           c == a \o <<v>>
<1>0. Len(s) \in Nat /\ \A k \in 1 .. Len(s) : s[k] \in VT
  OBVIOUS
<1>1. /\ a \in Seq(VT) /\ Len(a) = i - 1
      /\ \A k \in 1 .. i - 1 : a[k] = s[k]
  BY <1>0
<1>2. /\ b \in Seq(VT) /\ Len(b) = Len(s) - i + 1
      /\ \A k \in 1 .. Len(s) - i + 1 : b[k] = s[i + k - 1]
  BY <1>0
<1>3. <<v>> \in Seq(VT) /\ Len(<<v>>) = 1 /\ <<v>>[1] = v
  OBVIOUS
<1>4. SeqInsert(s, i, v) = c \o b
  BY Zenon DEF SeqInsert
<1> HIDE DEF a, b
<1>5. /\ c \in Seq(VT) /\ Len(c) = i
      /\ \A k \in 1 .. i : c[k] = IF k <= i - 1 THEN a[k] ELSE <<v>>[k - (i - 1)]
  <2>1. a \in Seq(VT) /\ <<v>> \in Seq(VT)
    BY Zenon, <1>1, <1>3
  <2>2. /\ c \in Seq(VT) /\ Len(c) = Len(a) + Len(<<v>>)
        /\ \A k \in 1 .. Len(a) + Len(<<v>>) :
             c[k] = IF k <= Len(a) THEN a[k] ELSE <<v>>[k - Len(a)]
    BY <2>1
  <2>3. Len(a) + Len(<<v>>) = i
    BY <1>0, <1>1, <1>3
  <2>4. QED
    BY Zenon, <1>1, <2>2, <2>3
<1>6. c[i] = v /\ \A k \in 1 .. i - 1 : c[k] = s[k]
  BY <1>1, <1>3, <1>5
<1> HIDE DEF c
<1>7. /\ c \o b \in Seq(VT) /\ Len(c \o b) = Len(c) + Len(b)
      /\ \A k \in 1 .. Len(c) + Len(b) : (c \o b)[k] = IF k <= Len(c) THEN c[k] ELSE b[k - Len(c)]
  <2>1. b \in Seq(VT) /\ c \in Seq(VT)
    BY Zenon, <1>2, <1>5
  <2>2. QED
    BY <2>1
<1>8. Len(c \o b) = Len(s) + 1
  BY <1>0, <1>2, <1>5, <1>7
<1>9. ASSUME NEW k \in 1 .. Len(s) + 1
      PROVE  (c \o b)[k] = IF k < i THEN s[k] ELSE IF k = i THEN v ELSE s[k - 1]
  <2>1. CASE k <= i
    BY <2>1, <1>0, <1>2, <1>5, <1>6, <1>7
  <2>2. CASE k > i
    <3>1. (c \o b)[k] = b[k - i] /\ k - i \in 1 .. Len(s) - i + 1
      BY <2>2, <1>0, <1>2, <1>5, <1>7
    <3>2. b[k - i] = s[i + (k - i) - 1]
      BY Zenon, <3>1, <1>2
    <3>3. i + (k - i) - 1 = k - 1 /\ ~(k < i) /\ k # i
      BY <2>2, <1>0
    <3>4. QED
      BY Zenon, <3>1, <3>2, <3>3
  <2>3. k <= i \/ k > i
    BY <1>0
  <2>4. QED
    BY Zenon, <2>1, <2>2, <2>3
<1>10. QED
  BY Zenon, <1>4, <1>7, <1>8, <1>9 DEF Inserted

-----------------------------------------------------------------------------
(* What MRT_vtimer_rmv does to the queue when it takes the k-th timer out. *)
Removal(l, d, n, e, m, k, l2, d2, n2, e2, m2) ==
  /\ Removed(l, l2, k)
  /\ d2 = [d EXCEPT ![l[k]] = Off]
  /\ n2 \in [VT -> Nat] /\ e2 \in Nat /\ m2 \in Nat
  /\ \A i \in 1 .. Len(l) - 1 : i # k /\ i # k - 1 => n2[l[i]] = n[l[i]]
  /\ k > 1 /\ k < Len(l) => n2[l[k - 1]] = n[l[k - 1]] + n[l[k]]
  /\ k > 1 => e2 = e
  /\ k = 1 /\ Len(l) > 1 => e2 = e + n[l[1]]
  /\ k < Len(l) => e2 + m2 = e + m
  /\ k = Len(l) /\ k > 1 => e2 + m2 = d[l[k - 1]]

(* Taking a timer out moves no other expiration.                           *)
LEMMA ChainRemove ==
  ASSUME NEW l, NEW d, NEW n, NEW e, NEW m, ChainType(l, d, n, e, m), Chain(l, d, n, e, m),
         NEW k \in 1 .. Len(l), NEW l2, NEW d2, NEW n2, NEW e2, NEW m2,
         Removal(l, d, n, e, m, k, l2, d2, n2, e2, m2)
  PROVE  ChainType(l2, d2, n2, e2, m2) /\ Chain(l2, d2, n2, e2, m2)
<1>a. /\ Removed(l, l2, k) /\ d2 = [d EXCEPT ![l[k]] = Off]
      /\ n2 \in [VT -> Nat] /\ e2 \in Nat /\ m2 \in Nat
  BY Zenon DEF Removal
<1>b. \A i \in 1 .. Len(l) - 1 : i # k /\ i # k - 1 => n2[l[i]] = n[l[i]]
  BY Zenon DEF Removal
<1>c. k > 1 /\ k < Len(l) => n2[l[k - 1]] = n[l[k - 1]] + n[l[k]]
  BY Zenon DEF Removal
<1>d. /\ k > 1 => e2 = e
      /\ k = 1 /\ Len(l) > 1 => e2 = e + n[l[1]]
      /\ k < Len(l) => e2 + m2 = e + m
      /\ k = Len(l) /\ k > 1 => e2 + m2 = d[l[k - 1]]
  BY Zenon DEF Removal
<1>e. \A i \in 1 .. Len(l) - 1 : d[l[i + 1]] = d[l[i]] + n[l[i]]
  BY Zenon DEF Chain
<1>0. l \in Seq(VT) /\ Len(l) \in Nat /\ \A i \in 1 .. Len(l) : l[i] \in VT
  <2>1. l \in Seq(VT)
    BY Zenon DEF ChainType
  <2>2. QED
    BY Zenon, <2>1, SeqFacts
<1>1. d2 \in [VT -> Nat \cup {Off}] /\ \A v \in VT : v # l[k] => d2[v] = d[v]
  BY Zenon, <1>a DEF ChainType
<1>2. d2[l[k]] = Off
  BY Zenon, <1>0, <1>a DEF ChainType
<1>3. ChainType(l2, d2, n2, e2, m2)
  <2>1. l2 \in Seq(VT)
    BY Zenon, <1>a DEF Removed
  <2>2. QED
    BY Zenon, <2>1, <1>1, <1>a DEF ChainType
<1>4. Len(l) \in Nat /\ k \in Nat /\ 1 <= k /\ k <= Len(l) /\ Len(l2) = Len(l) - 1
  BY <1>0, <1>a DEF Removed
<1> DEFINE f(i) == IF i < k THEN i ELSE i + 1
<1>5. ASSUME NEW i \in 1 .. Len(l2)
      PROVE  /\ f(i) \in 1 .. Len(l) /\ f(i) # k
             /\ l2[i] = l[f(i)] /\ l[f(i)] # l[k] /\ d2[l2[i]] = d[l[f(i)]]
  <2>1. f(i) \in 1 .. Len(l) /\ f(i) # k
    BY <1>4
  <2>2. l2[i] = l[f(i)]
    BY Zenon, <1>a DEF Removed
  <2>3. l[f(i)] # l[k]
    BY Zenon, <2>1 DEF Chain
  <2>4. QED
    BY Zenon, <2>1, <2>2, <2>3, <1>0, <1>1
<1>6. \A i, j \in 1 .. Len(l2) : i <= j => f(i) <= f(j)
  BY <1>4
<1>7. \A i, j \in 1 .. Len(l2) : f(i) = f(j) => i = j
  BY <1>4
<1>8. \A i, j \in 1 .. Len(l2) : l2[i] = l2[j] => i = j
  <2> SUFFICES ASSUME NEW i \in 1 .. Len(l2), NEW j \in 1 .. Len(l2), l2[i] = l2[j]
               PROVE  i = j
    BY Zenon
  <2>1. /\ f(i) \in 1 .. Len(l) /\ f(j) \in 1 .. Len(l)
        /\ l[f(i)] = l[f(j)]
    BY Zenon, <1>5
  <2> HIDE DEF f
  <2>2. f(i) = f(j)
    BY Zenon, <2>1 DEF Chain
  <2>3. QED
    BY Zenon, <2>2, <1>7
<1>9. \A i \in 1 .. Len(l2) : d2[l2[i]] \in Nat
  BY <1>5 DEF Chain
<1>10. \A i, j \in 1 .. Len(l2) : i <= j => d2[l2[i]] <= d2[l2[j]]
  <2> SUFFICES ASSUME NEW i \in 1 .. Len(l2), NEW j \in 1 .. Len(l2), i <= j
               PROVE  d2[l2[i]] <= d2[l2[j]]
    BY Zenon
  <2>1. f(i) <= f(j) /\ f(i) \in 1 .. Len(l) /\ f(j) \in 1 .. Len(l)
    BY Zenon, <1>5, <1>6
  <2> HIDE DEF f
  <2>2. d[l[f(i)]] <= d[l[f(j)]]
    BY Zenon, <2>1 DEF Chain
  <2>3. QED
    BY Zenon, <2>2, <1>5
<1>11. \A v \in VT : d2[v] # Off => \E i \in 1 .. Len(l2) : l2[i] = v
  <2> SUFFICES ASSUME NEW v \in VT, d2[v] # Off
               PROVE  \E i \in 1 .. Len(l2) : l2[i] = v
    BY Zenon
  <2>1. v # l[k] /\ d[v] # Off
    BY Zenon, <1>1, <1>2
  <2>2. PICK j \in 1 .. Len(l) : l[j] = v
    BY Zenon, <2>1 DEF Chain
  <2>3. CASE j < k
    <3>1. j \in 1 .. Len(l2)
      BY <2>3, <1>4
    <3>2. l2[j] = v
      BY Zenon, <2>2, <2>3, <3>1, <1>a DEF Removed
    <3>3. QED
      BY Zenon, <3>1, <3>2
  <2>4. CASE j > k
    <3>1. j - 1 \in 1 .. Len(l2) /\ ~(j - 1 < k) /\ (j - 1) + 1 = j
      BY <2>4, <1>4
    <3>2. l2[j - 1] = v
      BY Zenon, <2>2, <3>1, <1>a DEF Removed
    <3>3. QED
      BY Zenon, <3>1, <3>2
  <2>5. j # k
    BY Zenon, <2>1, <2>2
  <2>6. j < k \/ j > k
    BY <2>5, <1>0
  <2>7. QED
    BY Zenon, <2>3, <2>4, <2>6
<1>12. Len(l2) > 0 => d2[l2[1]] = e2
  <2> SUFFICES ASSUME Len(l2) > 0 PROVE d2[l2[1]] = e2
    BY Zenon
  <2>1. 1 \in 1 .. Len(l2) /\ Len(l) > 1
    BY <1>4
  <2>2. CASE k > 1
    BY <2>1, <2>2, <1>5, <1>d DEF Chain
  <2>3. CASE k = 1
    <3>1. d2[l2[1]] = d[l[2]]
      BY <2>1, <2>3, <1>5
    <3>2. d[l[2]] = d[l[1]] + n[l[1]]
      <4>1. 1 \in 1 .. Len(l) - 1
        BY <2>1, <1>0
      <4>2. QED
        BY <4>1 DEF Chain
    <3>3. QED
      BY <2>1, <2>3, <3>1, <3>2, <1>d DEF Chain
  <2>4. QED
    BY <2>2, <2>3, <1>0
<1>13. \A i \in 1 .. Len(l2) - 1 : d2[l2[i + 1]] = d2[l2[i]] + n2[l2[i]]
  <2> SUFFICES ASSUME NEW i \in 1 .. Len(l2) - 1
               PROVE  d2[l2[i + 1]] = d2[l2[i]] + n2[l2[i]]
    BY Zenon
  <2>1. i \in 1 .. Len(l2) /\ i + 1 \in 1 .. Len(l2)
    BY <1>4
  <2>2. d2[l2[i]] = d[l[f(i)]] /\ d2[l2[i + 1]] = d[l[f(i + 1)]] /\ l2[i] = l[f(i)]
    BY Zenon, <2>1, <1>5
  <2>3. CASE i + 1 = k
    <3>1. f(i) = k - 1 /\ f(i + 1) = k + 1 /\ k > 1 /\ k < Len(l)
      BY <2>3, <2>1, <1>4
    <3>2. /\ k - 1 \in 1 .. Len(l) - 1 /\ k \in 1 .. Len(l) - 1 /\ (k - 1) + 1 = k
          /\ k - 1 \in 1 .. Len(l)
      BY <3>1, <1>4
    <3>3. d[l[k]] = d[l[k - 1]] + n[l[k - 1]] /\ d[l[k + 1]] = d[l[k]] + n[l[k]]
      BY Zenon, <3>2 DEF Chain
    <3>4. n2[l[k - 1]] = n[l[k - 1]] + n[l[k]]
      BY Zenon, <3>1, <1>c
    <3>5. d[l[k - 1]] \in Nat
      BY Zenon, <3>2 DEF Chain
    <3>5a. n[l[k - 1]] \in Nat /\ n[l[k]] \in Nat
      BY Zenon, <3>2, <1>0 DEF ChainType
    <3>6. d2[l2[i]] = d[l[k - 1]] /\ d2[l2[i + 1]] = d[l[k + 1]] /\ l2[i] = l[k - 1]
      BY <2>2, <3>1
    <3>7. d[l[k + 1]] = (d[l[k - 1]] + n[l[k - 1]]) + n[l[k]]
      BY Zenon, <3>3
    <3>8. PICK x \in Nat, y \in Nat, z \in Nat :
              x = d[l[k - 1]] /\ y = n[l[k - 1]] /\ z = n[l[k]]
      BY Zenon, <3>5, <3>5a
    <3>8a. d[l[k + 1]] = (x + y) + z /\ n2[l[k - 1]] = y + z
      BY Zenon, <3>4, <3>7, <3>8
    <3>8b. (x + y) + z = x + (y + z)
      OBVIOUS
    <3>9. d[l[k + 1]] = d[l[k - 1]] + n2[l[k - 1]]
      BY Zenon, <3>8, <3>8a, <3>8b
    <3> HIDE DEF f
    <3>10. QED
      BY Zenon, <3>6, <3>9
  <2>4. CASE i + 1 # k
    <3>1. /\ f(i) \in 1 .. Len(l) - 1 /\ f(i + 1) = f(i) + 1
          /\ f(i) # k /\ f(i) # k - 1
      BY <2>4, <2>1, <1>4
    <3> HIDE DEF f
    <3>2. d[l[f(i) + 1]] = d[l[f(i)]] + n[l[f(i)]]
      BY Zenon, <3>1, <1>e
    <3>3. n2[l[f(i)]] = n[l[f(i)]]
      BY Zenon, <3>1, <1>b
    <3>4. QED
      BY Zenon, <2>2, <3>1, <3>2, <3>3
  <2>5. QED
    BY Zenon, <2>3, <2>4
<1>14. Len(l2) > 0 => d2[l2[Len(l2)]] = e2 + m2
  <2> SUFFICES ASSUME Len(l2) > 0 PROVE d2[l2[Len(l2)]] = e2 + m2
    BY Zenon
  <2>1. Len(l2) \in 1 .. Len(l2) /\ Len(l) > 1
    BY <1>4
  <2>2. d2[l2[Len(l2)]] = d[l[f(Len(l2))]]
    BY Zenon, <2>1, <1>5
  <2>3. CASE k < Len(l)
    <3>1. f(Len(l2)) = Len(l)
      BY <2>3, <1>4
    <3>2. QED
      BY <2>1, <2>2, <2>3, <3>1, <1>d DEF Chain
  <2>4. CASE k = Len(l)
    <3>1. f(Len(l2)) = k - 1 /\ k > 1
      BY <2>1, <2>4, <1>4
    <3>2. QED
      BY Zenon, <2>2, <2>4, <3>1, <1>d
  <2>5. QED
    BY <2>3, <2>4, <1>0
<1>15. Chain(l2, d2, n2, e2, m2)
  BY Zenon, <1>8, <1>9, <1>10, <1>11, <1>12, <1>13, <1>14 DEF Chain
<1>16. QED
  BY Zenon, <1>3, <1>15

(* What a branch of MRT_vtimer_ins does to put v at the k-th place.        *)
Insertion(l, d, n, e, m, k, v, per, l2, d2, n2, e2, m2) ==
  /\ Inserted(l, l2, k, v)
  /\ d2 = [d EXCEPT ![v] = per]
  /\ \A i \in 1 .. Len(l) : l[i] # v
  /\ \A i \in 1 .. Len(l) : i < k => d[l[i]] <= per
  /\ \A i \in 1 .. Len(l) : i >= k => per <= d[l[i]]
  /\ n2 \in [VT -> Nat] /\ e2 \in Nat /\ m2 \in Nat
  /\ \A i \in 1 .. Len(l) - 1 : i # k - 1 => n2[l[i]] = n[l[i]]
  /\ k > 1 => per = d[l[k - 1]] + n2[l[k - 1]]
  /\ k <= Len(l) => d[l[k]] = per + n2[v]
  /\ k > 1 => e2 = e
  /\ k = 1 => e2 = per
  /\ k <= Len(l) => e2 + m2 = e + m
  /\ k = Len(l) + 1 => e2 + m2 = per

(* Putting a timer in moves no other expiration, and it expires after its  *)
(* period.                                                                 *)
LEMMA ChainInsert ==
  ASSUME NEW l, NEW d, NEW n, NEW e, NEW m, ChainType(l, d, n, e, m), Chain(l, d, n, e, m),
         NEW k \in 1 .. Len(l) + 1, NEW v \in VT, NEW per \in Nat,
         NEW l2, NEW d2, NEW n2, NEW e2, NEW m2,
         Insertion(l, d, n, e, m, k, v, per, l2, d2, n2, e2, m2)
  PROVE  ChainType(l2, d2, n2, e2, m2) /\ Chain(l2, d2, n2, e2, m2)
<1>a. /\ Inserted(l, l2, k, v) /\ d2 = [d EXCEPT ![v] = per]
      /\ n2 \in [VT -> Nat] /\ e2 \in Nat /\ m2 \in Nat
  BY Zenon DEF Insertion
<1>b. /\ \A i \in 1 .. Len(l) : l[i] # v
      /\ \A i \in 1 .. Len(l) : i < k => d[l[i]] <= per
      /\ \A i \in 1 .. Len(l) : i >= k => per <= d[l[i]]
  BY Zenon DEF Insertion
<1>c. \A i \in 1 .. Len(l) - 1 : i # k - 1 => n2[l[i]] = n[l[i]]
  BY Zenon DEF Insertion
<1>d. /\ k > 1 => per = d[l[k - 1]] + n2[l[k - 1]]
      /\ k <= Len(l) => d[l[k]] = per + n2[v]
      /\ k > 1 => e2 = e
      /\ k = 1 => e2 = per
      /\ k <= Len(l) => e2 + m2 = e + m
      /\ k = Len(l) + 1 => e2 + m2 = per
  BY Zenon DEF Insertion
<1>e. \A i \in 1 .. Len(l) - 1 : d[l[i + 1]] = d[l[i]] + n[l[i]]
  BY Zenon DEF Chain
<1>0. l \in Seq(VT) /\ Len(l) \in Nat /\ \A i \in 1 .. Len(l) : l[i] \in VT
  <2>1. l \in Seq(VT)
    BY Zenon DEF ChainType
  <2>2. QED
    BY Zenon, <2>1, SeqFacts
<1>1. d2 \in [VT -> Nat \cup {Off}] /\ \A w \in VT : w # v => d2[w] = d[w]
  BY Zenon, <1>a DEF ChainType
<1>2. d2[v] = per
  BY Zenon, <1>a DEF ChainType
<1>3. ChainType(l2, d2, n2, e2, m2)
  <2>1. l2 \in Seq(VT)
    BY Zenon, <1>a DEF Inserted
  <2>2. QED
    BY Zenon, <2>1, <1>1, <1>a DEF ChainType
<1>4. Len(l) \in Nat /\ k \in Nat /\ 1 <= k /\ k <= Len(l) + 1 /\ Len(l2) = Len(l) + 1
  BY <1>0, <1>a DEF Inserted
<1>5. k \in 1 .. Len(l2) /\ l2[k] = v /\ d2[l2[k]] = per
  <2>1. k \in 1 .. Len(l2)
    BY Zenon, <1>4
  <2>2. l2[k] = v
    BY <2>1, <1>4, <1>a DEF Inserted
  <2>3. QED
    BY Zenon, <2>1, <2>2, <1>2
<1> DEFINE f(i) == IF i < k THEN i ELSE i - 1
<1>6. ASSUME NEW i \in 1 .. Len(l2), i # k
      PROVE  /\ f(i) \in 1 .. Len(l)
             /\ l2[i] = l[f(i)] /\ l2[i] # v /\ l2[i] \in VT /\ d2[l2[i]] = d[l[f(i)]]
  <2>1. f(i) \in 1 .. Len(l)
    BY <1>4, <1>6
  <2>2. l2[i] = l[f(i)]
    BY Zenon, <1>4, <1>6, <1>a DEF Inserted
  <2> HIDE DEF f
  <2>3. l2[i] # v /\ l2[i] \in VT
    BY Zenon, <2>1, <2>2, <1>0, <1>b
  <2>4. QED
    BY Zenon, <2>1, <2>2, <2>3, <1>1
<1>7. \A i, j \in 1 .. Len(l2) : l2[i] = l2[j] => i = j
  <2> SUFFICES ASSUME NEW i \in 1 .. Len(l2), NEW j \in 1 .. Len(l2), l2[i] = l2[j]
               PROVE  i = j
    BY Zenon
  <2>1. CASE i = k \/ j = k
    BY <2>1, <1>5, <1>6
  <2>2. CASE i # k /\ j # k
    <3>1. f(i) \in 1 .. Len(l) /\ f(j) \in 1 .. Len(l) /\ l[f(i)] = l[f(j)]
      BY Zenon, <2>2, <1>6
    <3>2. f(i) = f(j)
      <4> HIDE DEF f
      <4>1. QED
        BY Zenon, <3>1 DEF Chain
    <3>3. QED
      BY <2>2, <3>2, <1>4
  <2>3. QED
    BY Zenon, <2>1, <2>2
<1>8. \A i \in 1 .. Len(l2) : d2[l2[i]] \in Nat
  <2> SUFFICES ASSUME NEW i \in 1 .. Len(l2) PROVE d2[l2[i]] \in Nat
    BY Zenon
  <2>1. CASE i = k
    BY Zenon, <2>1, <1>5
  <2>2. CASE i # k
    <3>1. f(i) \in 1 .. Len(l) /\ d2[l2[i]] = d[l[f(i)]]
      BY Zenon, <2>2, <1>6
    <3> HIDE DEF f
    <3>2. QED
      BY Zenon, <3>1 DEF Chain
  <2>3. QED
    BY Zenon, <2>1, <2>2
<1>9. \A i, j \in 1 .. Len(l2) : i <= j => d2[l2[i]] <= d2[l2[j]]
  <2> SUFFICES ASSUME NEW i \in 1 .. Len(l2), NEW j \in 1 .. Len(l2), i <= j
               PROVE  d2[l2[i]] <= d2[l2[j]]
    BY Zenon
  <2>1. CASE i = k /\ j = k
    <3>1. per <= per
      OBVIOUS
    <3>2. QED
      BY Zenon, <2>1, <3>1, <1>5
  <2>2. CASE i # k /\ j = k
    <3>1. f(i) \in 1 .. Len(l) /\ d2[l2[i]] = d[l[f(i)]] /\ f(i) < k
      BY <2>2, <1>4, <1>6
    <3> HIDE DEF f
    <3>2. QED
      BY Zenon, <2>2, <3>1, <1>5, <1>b
  <2>3. CASE i = k /\ j # k
    <3>1. f(j) \in 1 .. Len(l) /\ d2[l2[j]] = d[l[f(j)]] /\ f(j) >= k
      BY <2>3, <1>4, <1>6
    <3> HIDE DEF f
    <3>2. QED
      BY Zenon, <2>3, <3>1, <1>5, <1>b
  <2>4. CASE i # k /\ j # k
    <3>1. /\ f(i) \in 1 .. Len(l) /\ d2[l2[i]] = d[l[f(i)]]
          /\ f(j) \in 1 .. Len(l) /\ d2[l2[j]] = d[l[f(j)]]
      BY Zenon, <2>4, <1>6
    <3>2. f(i) <= f(j)
      BY <2>4, <1>4
    <3> HIDE DEF f
    <3>3. d[l[f(i)]] <= d[l[f(j)]]
      BY Zenon, <3>1, <3>2 DEF Chain
    <3>4. QED
      BY Zenon, <3>1, <3>3
  <2>5. QED
    BY Zenon, <2>1, <2>2, <2>3, <2>4
<1>10. \A w \in VT : d2[w] # Off => \E i \in 1 .. Len(l2) : l2[i] = w
  <2> SUFFICES ASSUME NEW w \in VT, d2[w] # Off
               PROVE  \E i \in 1 .. Len(l2) : l2[i] = w
    BY Zenon
  <2>1. CASE w = v
    BY Zenon, <2>1, <1>5
  <2>2. CASE w # v
    <3>1. d[w] # Off
      BY Zenon, <2>2, <1>1
    <3>2. PICK j \in 1 .. Len(l) : l[j] = w
      BY Zenon, <3>1 DEF Chain
    <3>3. CASE j < k
      <4>1. j \in 1 .. Len(l2)
        BY <1>4
      <4>2. l2[j] = w
        BY Zenon, <3>2, <3>3, <4>1, <1>a DEF Inserted
      <4>3. QED
        BY Zenon, <4>1, <4>2
    <3>4. CASE j >= k
      <4>1. j + 1 \in 1 .. Len(l2) /\ ~(j + 1 < k) /\ j + 1 # k /\ (j + 1) - 1 = j
        BY <3>4, <1>4
      <4>2. l2[j + 1] = w
        BY Zenon, <3>2, <4>1, <1>a DEF Inserted
      <4>3. QED
        BY Zenon, <4>1, <4>2
    <3>5. j < k \/ j >= k
      BY <1>4
    <3>6. QED
      BY Zenon, <3>3, <3>4, <3>5
  <2>3. QED
    BY Zenon, <2>1, <2>2
<1>11. d2[l2[1]] = e2
  <2>1. CASE k = 1
    BY Zenon, <2>1, <1>5, <1>d
  <2>2. CASE k > 1
    <3>1. 1 \in 1 .. Len(l2) /\ 1 # k /\ f(1) = 1 /\ Len(l) > 0
      BY <2>2, <1>4
    <3>2. d2[l2[1]] = d[l[f(1)]]
      BY Zenon, <3>1, <1>6
    <3>2a. d2[l2[1]] = d[l[1]]
      BY Zenon, <3>1, <3>2
    <3>3. QED
      BY Zenon, <2>2, <3>1, <3>2a, <1>d DEF Chain
  <2>3. QED
    BY <2>1, <2>2, <1>4
<1>12. \A i \in 1 .. Len(l2) - 1 : d2[l2[i + 1]] = d2[l2[i]] + n2[l2[i]]
  <2> SUFFICES ASSUME NEW i \in 1 .. Len(l2) - 1
               PROVE  d2[l2[i + 1]] = d2[l2[i]] + n2[l2[i]]
    BY Zenon
  <2>1. i \in 1 .. Len(l2) /\ i + 1 \in 1 .. Len(l2)
    BY <1>4
  <2>2. CASE i = k
    <3>1. i + 1 # k /\ f(i + 1) = k /\ k <= Len(l)
      BY <2>2, <1>4
    <3>2. d2[l2[i + 1]] = d[l[k]]
      BY Zenon, <3>1, <2>1, <1>6
    <3>3. QED
      BY Zenon, <2>2, <3>1, <3>2, <1>5, <1>d
  <2>3. CASE i + 1 = k
    <3>1. i # k /\ f(i) = k - 1 /\ k > 1
      BY <2>3, <1>4
    <3>2. d2[l2[i]] = d[l[k - 1]] /\ l2[i] = l[k - 1]
      BY <3>1, <2>1, <1>6
    <3>3. QED
      BY Zenon, <2>3, <3>1, <3>2, <1>5, <1>d
  <2>4. CASE i # k /\ i + 1 # k
    <3>1. f(i) \in 1 .. Len(l) - 1 /\ f(i + 1) = f(i) + 1 /\ f(i) # k - 1
      BY <2>4, <2>1, <1>4
    <3>2. d2[l2[i]] = d[l[f(i)]] /\ l2[i] = l[f(i)] /\ d2[l2[i + 1]] = d[l[f(i + 1)]]
      BY Zenon, <2>4, <2>1, <1>6
    <3> HIDE DEF f
    <3>3. d[l[f(i) + 1]] = d[l[f(i)]] + n[l[f(i)]]
      BY Zenon, <3>1, <1>e
    <3>4. n2[l[f(i)]] = n[l[f(i)]]
      BY Zenon, <3>1, <1>c
    <3>5. QED
      BY Zenon, <3>1, <3>2, <3>3, <3>4
  <2>5. QED
    BY Zenon, <2>2, <2>3, <2>4
<1>13. d2[l2[Len(l2)]] = e2 + m2
  <2>1. Len(l2) \in 1 .. Len(l2)
    BY <1>4
  <2>2. CASE k = Len(l) + 1
    BY Zenon, <2>2, <1>4, <1>5, <1>d
  <2>3. CASE k <= Len(l)
    <3>1. Len(l2) # k /\ f(Len(l2)) = Len(l) /\ Len(l) > 0
      BY <2>3, <1>4
    <3>2. d2[l2[Len(l2)]] = d[l[Len(l)]]
      BY Zenon, <2>1, <3>1, <1>6
    <3>3. QED
      BY Zenon, <2>3, <3>1, <3>2, <1>d DEF Chain
  <2>4. QED
    BY <2>2, <2>3, <1>4
<1>14. Chain(l2, d2, n2, e2, m2)
  BY Zenon, <1>7, <1>8, <1>9, <1>10, <1>11, <1>12, <1>13 DEF Chain
<1>15. QED
  BY Zenon, <1>3, <1>14

-----------------------------------------------------------------------------
(* What removal and insertion do to the members of a queue.                *)
LEMMA MemRemoved ==
  ASSUME NEW s \in Seq(VT), NEW i \in 1 .. Len(s), NEW t, Inj(s), Removed(s, t, i)
  PROVE  Inj(t) /\ Mem(t) = Mem(s) \ {s[i]}
<1>1. Len(s) \in Nat /\ i \in Nat /\ 1 <= i /\ i <= Len(s) /\ Len(t) = Len(s) - 1
  BY SeqFacts DEF Removed
<1> DEFINE f(k) == IF k < i THEN k ELSE k + 1
<1>2. \A k \in 1 .. Len(t) : f(k) \in 1 .. Len(s) /\ f(k) # i
  BY <1>1
<1>3. \A k \in 1 .. Len(t) : t[k] = s[f(k)]
  BY Zenon DEF Removed
<1>4. \A j, k \in 1 .. Len(t) : f(j) = f(k) => j = k
  BY <1>1
<1>5. \A j \in 1 .. Len(s) : j # i => \E k \in 1 .. Len(t) : f(k) = j
  <2> SUFFICES ASSUME NEW j \in 1 .. Len(s), j # i
               PROVE  \E k \in 1 .. Len(t) : f(k) = j
    BY Zenon
  <2>1. CASE j < i
    <3>1. j \in 1 .. Len(t) /\ f(j) = j
      BY <2>1, <1>1
    <3>2. QED
      BY Zenon, <3>1
  <2>2. CASE j > i
    <3>1. j - 1 \in 1 .. Len(t) /\ f(j - 1) = j
      BY <2>2, <1>1
    <3>2. QED
      BY Zenon, <3>1
  <2>3. QED
    BY <2>1, <2>2, <1>1
<1> HIDE DEF f
<1>6. Inj(t)
  BY Zenon, <1>2, <1>3, <1>4 DEF Inj
<1>7. Mem(t) \subseteq Mem(s) \ {s[i]}
  BY <1>2, <1>3 DEF Mem, Inj
<1>8. Mem(s) \ {s[i]} \subseteq Mem(t)
  BY <1>3, <1>5 DEF Mem
<1>9. QED
  BY Zenon, <1>6, <1>7, <1>8

(* An insertion adds one member.                                           *)
LEMMA MemInserted ==
  ASSUME NEW s \in Seq(VT), NEW i \in 1 .. Len(s) + 1, NEW v, NEW t,
         Inj(s), v \notin Mem(s), Inserted(s, t, i, v)
  PROVE  Inj(t) /\ Mem(t) = Mem(s) \cup {v}
<1>1. Len(s) \in Nat /\ i \in Nat /\ 1 <= i /\ i <= Len(s) + 1 /\ Len(t) = Len(s) + 1
  BY SeqFacts DEF Inserted
<1> DEFINE f(k) == IF k < i THEN k ELSE k - 1
<1>2. \A k \in 1 .. Len(t) : k # i => f(k) \in 1 .. Len(s)
  BY <1>1
<1>3. \A k \in 1 .. Len(t) : k # i => t[k] = s[f(k)]
  BY Zenon DEF Inserted
<1>4. i \in 1 .. Len(t) /\ t[i] = v
  <2>1. i \in 1 .. Len(t)
    BY Zenon, <1>1
  <2>2. QED
    BY <2>1, <1>1 DEF Inserted
<1>5. \A j, k \in 1 .. Len(t) : j # i /\ k # i /\ f(j) = f(k) => j = k
  BY <1>1
<1>6. \A j \in 1 .. Len(s) : \E k \in 1 .. Len(t) : k # i /\ f(k) = j
  <2> SUFFICES ASSUME NEW j \in 1 .. Len(s)
               PROVE  \E k \in 1 .. Len(t) : k # i /\ f(k) = j
    BY Zenon
  <2>1. CASE j < i
    <3>1. j \in 1 .. Len(t) /\ j # i /\ f(j) = j
      BY <2>1, <1>1
    <3>2. QED
      BY Zenon, <3>1
  <2>2. CASE j >= i
    <3>1. j + 1 \in 1 .. Len(t) /\ j + 1 # i /\ f(j + 1) = j
      BY <2>2, <1>1
    <3>2. QED
      BY Zenon, <3>1
  <2>3. QED
    BY <2>1, <2>2, <1>1
<1> HIDE DEF f
<1>7. \A k \in 1 .. Len(t) : k # i => t[k] \in Mem(s)
  BY Zenon, <1>2, <1>3 DEF Mem
<1>8. Inj(t)
  <2> SUFFICES ASSUME NEW j \in 1 .. Len(t), NEW k \in 1 .. Len(t), t[j] = t[k]
               PROVE  j = k
    BY Zenon DEF Inj
  <2>1. CASE j = i \/ k = i
    BY Zenon, <2>1, <1>4, <1>7
  <2>2. CASE j # i /\ k # i
    BY <2>2, <1>2, <1>3, <1>5 DEF Inj
  <2>3. QED
    BY Zenon, <2>1, <2>2
<1>9. Mem(t) \subseteq Mem(s) \cup {v}
  BY Zenon, <1>4, <1>7 DEF Mem
<1>10. Mem(s) \cup {v} \subseteq Mem(t)
  <2>1. v \in Mem(t)
    BY Zenon, <1>4 DEF Mem
  <2>2. Mem(s) \subseteq Mem(t)
    BY <1>3, <1>6 DEF Mem
  <2>3. QED
    BY Zenon, <2>1, <2>2
<1>11. QED
  BY Zenon, <1>8, <1>9, <1>10

(* The head of a queue is its first member and Tail takes it away.         *)
LEMMA TailRemoves ==
  ASSUME NEW s \in Seq(VT), s # << >>
  PROVE  /\ 1 \in 1 .. Len(s) /\ Head(s) = s[1] /\ Head(s) \in VT
         /\ Removed(s, Tail(s), 1)
<1>1. Len(s) \in Nat /\ Len(s) > 0
  BY EmptyQueue
<1>2. /\ Tail(s) \in Seq(VT) /\ Len(Tail(s)) = Len(s) - 1
      /\ \A i \in 1 .. Len(s) - 1 : Tail(s)[i] = s[i + 1]
  OBVIOUS
<1>3. 1 \in 1 .. Len(s) /\ Head(s) = s[1] /\ Head(s) \in VT
  BY <1>1
<1>4. QED
  BY <1>1, <1>2, <1>3 DEF Removed

(* A tick brings every expiration one nearer and keeps the differences.    *)
LEMMA ChainTick ==
  ASSUME NEW l, NEW d, NEW n, NEW e, NEW m, ChainType(l, d, n, e, m), Chain(l, d, n, e, m),
         e > 0
  PROVE  LET d2 == [v \in VT |-> IF d[v] = Off THEN Off ELSE d[v] - 1]
         IN  ChainType(l, d2, n, e - 1, m) /\ Chain(l, d2, n, e - 1, m)
<1> DEFINE d2 == [v \in VT |-> IF d[v] = Off THEN Off ELSE d[v] - 1]
<1>1. l \in Seq(VT) /\ d \in [VT -> Nat \cup {Off}] /\ n \in [VT -> Nat] /\ e \in Nat /\ m \in Nat
  BY Zenon DEF ChainType
<1>2. Len(l) \in Nat /\ \A i \in 1 .. Len(l) : l[i] \in VT
  BY Zenon, <1>1, SeqFacts
<1>3. \A i \in 1 .. Len(l) : d[l[i]] \in Nat /\ d[l[i]] > 0
  <2> SUFFICES ASSUME NEW i \in 1 .. Len(l) PROVE d[l[i]] \in Nat /\ d[l[i]] > 0
    BY Zenon
  <2>1. 1 \in 1 .. Len(l) /\ 1 <= i /\ Len(l) > 0
    BY <1>2
  <2>2. d[l[i]] \in Nat /\ e <= d[l[i]]
    BY <2>1 DEF Chain
  <2>3. QED
    BY <2>2, <1>1
<1>4. \A i \in 1 .. Len(l) : d2[l[i]] = d[l[i]] - 1 /\ d2[l[i]] \in Nat
  <2> SUFFICES ASSUME NEW i \in 1 .. Len(l) PROVE d2[l[i]] = d[l[i]] - 1 /\ d2[l[i]] \in Nat
    BY Zenon
  <2>1. d[l[i]] \in Nat /\ d[l[i]] > 0 /\ d[l[i]] # Off
    BY <1>3 DEF Off
  <2>2. d2[l[i]] = d[l[i]] - 1
    BY Zenon, <2>1, <1>2
  <2>3. d[l[i]] - 1 \in Nat
    BY <2>1
  <2>4. QED
    BY Zenon, <2>2, <2>3
<1>5. \A v \in VT : d2[v] # Off => d[v] # Off
  BY Zenon
<1>6. \A v \in VT : d2[v] \in Nat \cup {Off}
  <2> SUFFICES ASSUME NEW v \in VT, d2[v] # Off PROVE d2[v] \in Nat
    BY Zenon
  <2>1. PICK i \in 1 .. Len(l) : l[i] = v
    BY Zenon, <1>5 DEF Chain
  <2>2. QED
    BY Zenon, <2>1, <1>4
<1>7. d2 \in [VT -> Nat \cup {Off}]
  BY Zenon, <1>6
<1> HIDE DEF d2
<1>8. ChainType(l, d2, n, e - 1, m)
  BY <1>1, <1>7 DEF ChainType
<1>9. \A i, j \in 1 .. Len(l) : i <= j => d2[l[i]] <= d2[l[j]]
  <2> SUFFICES ASSUME NEW i \in 1 .. Len(l), NEW j \in 1 .. Len(l), i <= j
               PROVE  d2[l[i]] <= d2[l[j]]
    BY Zenon
  <2>1. d[l[i]] <= d[l[j]] /\ d[l[i]] \in Nat /\ d[l[j]] \in Nat
    BY Zenon, <1>3 DEF Chain
  <2>2. d2[l[i]] = d[l[i]] - 1 /\ d2[l[j]] = d[l[j]] - 1
    BY Zenon, <1>4
  <2>3. QED
    BY <2>1, <2>2
<1>10. \A i \in 1 .. Len(l) - 1 : d2[l[i + 1]] = d2[l[i]] + n[l[i]]
  <2> SUFFICES ASSUME NEW i \in 1 .. Len(l) - 1 PROVE d2[l[i + 1]] = d2[l[i]] + n[l[i]]
    BY Zenon
  <2>1. i \in 1 .. Len(l) /\ i + 1 \in 1 .. Len(l)
    BY <1>2
  <2>2. d[l[i + 1]] = d[l[i]] + n[l[i]]
    BY Zenon DEF Chain
  <2>3. PICK x \in Nat, y \in Nat, z \in Nat : x = d[l[i]] /\ y = d[l[i + 1]] /\ z = n[l[i]]
    BY Zenon, <2>1, <1>1, <1>2, <1>3
  <2>4. d2[l[i]] = x - 1 /\ d2[l[i + 1]] = y - 1 /\ y = x + z
    BY Zenon, <2>1, <2>2, <2>3, <1>4
  <2>5. y - 1 = (x - 1) + z
    BY <2>4
  <2>6. QED
    BY Zenon, <2>3, <2>4, <2>5
<1>11. Len(l) > 0 => d2[l[1]] = e - 1 /\ d2[l[Len(l)]] = (e - 1) + m
  <2> SUFFICES ASSUME Len(l) > 0 PROVE d2[l[1]] = e - 1 /\ d2[l[Len(l)]] = (e - 1) + m
    BY Zenon
  <2>1. 1 \in 1 .. Len(l) /\ Len(l) \in 1 .. Len(l)
    BY <1>2
  <2>2. d[l[1]] = e /\ d[l[Len(l)]] = e + m
    BY Zenon DEF Chain
  <2>3. d2[l[1]] = e - 1 /\ d2[l[Len(l)]] = (e + m) - 1
    BY Zenon, <2>1, <2>2, <1>4
  <2>4. (e + m) - 1 = (e - 1) + m
    BY <1>1
  <2>5. QED
    BY Zenon, <2>3, <2>4
<1>12. Chain(l, d2, n, e - 1, m)
  BY Zenon, <1>4, <1>5, <1>9, <1>10, <1>11 DEF Chain
<1>13. QED
  BY Zenon, <1>8, <1>12 DEF d2

(* The members of a queue of timers are timers.                            *)
LEMMA MemType ==
  ASSUME NEW s \in Seq(VT)
  PROVE  Mem(s) \subseteq VT
BY Zenon, SeqFacts DEF Mem

-----------------------------------------------------------------------------
(* The inductive invariant.                                                *)
Queue == /\ ChainType(list, due, nextexp, earliest, maxper)
         /\ Chain(list, due, nextexp, earliest, maxper)

Places ==
  /\ Inj(freeQ) /\ Inj(list) /\ \A q \in Prty : Inj(expQ[q])
  /\ \A v \in Mem(list) : v \notin Mem(freeQ) /\ period[v] \in Periods
  /\ \A v \in VT : flags[v] = "VT_ACTIVEQ" <=> v \in Mem(list) \/ v = pvt
  /\ pvt \notin Mem(list) /\ pvt \notin Mem(freeQ)
  /\ pvt # NoVT => period[pvt] \in Periods
  /\ \A q \in Prty : \A v \in Mem(expQ[q]) : v \notin Mem(list)
  /\ fault = "none" =>
       \A q \in Prty : \A v \in Mem(expQ[q]) :
         v \notin Mem(freeQ) /\ v # pvt /\ priority[v] = q /\ period[v] \in Periods

Control ==
  /\ pvt # NoVT <=> pc \in {"ins", "scan"}
  /\ pc = "scan" =>
       /\ plnext \in 1 .. Len(list)
       /\ ticksum = due[list[plnext]]
       /\ earliest <= period[pvt] /\ period[pvt] < maxper + earliest
       /\ plnext > 1 => due[list[plnext - 1]] <= period[pvt]
  /\ pc # "clock" /\ list # << >> => earliest > 0
  /\ ret # "user" => pc \in {"ins", "scan", "clock"}
  /\ pc \in {"list", "irq"} \/ ret # "user" => p < NR_PRTY

IInv == TypeOK /\ Queue /\ Places /\ Control

-----------------------------------------------------------------------------
(* MRT_vtimer_rmv keeps the queue exact and takes one member out.          *)
LEMMA RmvStep ==
  ASSUME TypeOK, Queue, NEW i \in 1 .. Len(list), MRT_vtimer_rmv(i)
  PROVE  /\ Queue' /\ Inj(list') /\ Mem(list') = Mem(list) \ {list[i]}
<1> DEFINE v == list[i]
           n == Len(list)
<1>1. /\ list \in Seq(VT) /\ n \in Nat /\ \A k \in 1 .. n : list[k] \in VT
  BY Zenon, SeqFacts DEF TypeOK
<1>2. /\ list' = SeqRemove(list, i) /\ due' = [due EXCEPT ![v] = Off]
  BY Zenon DEF MRT_vtimer_rmv
<1>3. Removed(list, list', i)
  BY Zenon, <1>1, <1>2, SeqRemoveRemoves
<1>4. Inj(list)
  BY Zenon DEF Queue, Chain, Inj
<1>5. Inj(list') /\ Mem(list') = Mem(list) \ {list[i]}
  BY Zenon, <1>1, <1>3, <1>4, MemRemoved
<1>6. /\ ChainType(list, due, nextexp, earliest, maxper)
      /\ Chain(list, due, nextexp, earliest, maxper)
  BY Zenon DEF Queue
<1>7. /\ earliest \in Nat /\ maxper \in Nat /\ nextexp \in [VT -> Nat] /\ v \in VT
      /\ \A k \in 1 .. n : nextexp[list[k]] \in Nat /\ due[list[k]] \in Nat
  <2>1. \A k \in 1 .. n : due[list[k]] \in Nat
    BY Zenon, <1>6 DEF Chain
  <2>2. earliest \in Nat /\ maxper \in Nat /\ nextexp \in [VT -> Nat]
    BY Zenon DEF TypeOK
  <2>3. QED
    BY Zenon, <2>1, <2>2, <1>1
<1>7a. earliest \in Nat /\ maxper \in Nat /\ nextexp \in [VT -> Nat]
  BY Zenon, <1>7
<1>8. n > 0 => /\ due[list[1]] = earliest
               /\ due[list[n]] = earliest + maxper
  BY Zenon, <1>6 DEF Chain
<1>9. \A k \in 1 .. n - 1 : due[list[k + 1]] = due[list[k]] + nextexp[list[k]]
  BY Zenon, <1>6 DEF Chain
<1>10. \A j, k \in 1 .. n : j <= k => due[list[j]] <= due[list[k]]
  BY Zenon, <1>6 DEF Chain
<1>11. \A k \in 1 .. n : k # i => list[k] # v
  BY Zenon, <1>4 DEF Inj
<1>n. n \in Nat /\ i \in Nat /\ 1 <= i /\ i <= n
  BY <1>1
<1>o. \A k \in 1 .. n - 1 : k # i => list[k] # v /\ list[k] \in VT
  <2>1. \A k \in 1 .. n - 1 : k \in 1 .. n
    BY <1>n
  <2>2. QED
    BY Zenon, <2>1, <1>1, <1>11
<1>r. SUFFICES Removal(list, due, nextexp, earliest, maxper, i, list', due', nextexp', earliest', maxper')
  BY Zenon, <1>5, <1>6, ChainRemove DEF Queue
<1>12. CASE n = 1 /\ earliest' = 0 /\ maxper' = 0 /\ nextexp' = [nextexp EXCEPT ![v] = 0]
  <2>1. i = 1
    BY <1>12, <1>n
  <2>2. nextexp' \in [VT -> Nat] /\ earliest' \in Nat /\ maxper' \in Nat
    BY Zenon, <1>7, <1>12
  <2>3. QED
    BY <2>1, <2>2, <1>3, <1>12, <1>2, <1>n DEF Removal
<1>13. CASE /\ n > 1 /\ i = 1 /\ earliest' = earliest + nextexp[v]
            /\ maxper' = maxper - nextexp[v] /\ nextexp' = [nextexp EXCEPT ![v] = 0]
  <2>1. 1 \in 1 .. n /\ 2 \in 1 .. n /\ 1 \in 1 .. n - 1 /\ n \in 1 .. n /\ 2 <= n
    BY <1>n, <1>13
  <2>2. due[list[2]] = earliest + nextexp[v]
    BY <2>1, <1>8, <1>9, <1>13
  <2>3. due[list[2]] <= earliest + maxper
    BY <2>1, <1>8, <1>10, <1>13
  <2>4. /\ nextexp[v] \in Nat /\ maxper - nextexp[v] \in Nat
        /\ (earliest + nextexp[v]) + (maxper - nextexp[v]) = earliest + maxper
    BY <2>2, <2>3, <1>7
  <2>5. /\ nextexp' \in [VT -> Nat] /\ earliest' \in Nat /\ maxper' \in Nat
        /\ earliest' + maxper' = earliest + maxper
    <3>1. nextexp' \in [VT -> Nat]
      BY Zenon, <1>7a, <1>13
    <3>2. PICK x \in Nat : x = nextexp[v]
      BY Zenon, <2>4
    <3>3. earliest' = earliest + x /\ maxper' = maxper - x
      BY Zenon, <3>2, <1>13
    <3>4. maxper - x \in Nat
      BY Zenon, <3>2, <2>4
    <3>5. QED
      BY <3>1, <3>3, <3>4, <1>7a
  <2>6. \A k \in 1 .. n - 1 : k # i /\ k # i - 1 => nextexp'[list[k]] = nextexp[list[k]]
    BY Zenon, <1>o, <1>7, <1>13
  <2>7. QED
    <3>0. i = 1 /\ n > 1
      BY Zenon, <1>13
    <3>a. \A b \in Nat : b > 1 => 1 # b /\ ~(1 > 1)
      OBVIOUS
    <3>1. i # n /\ ~(i > 1)
      BY Zenon, <1>n, <3>0, <3>a
    <3>2. QED
      BY Zenon, <3>1, <2>5, <2>6, <1>3, <1>13, <1>2 DEF Removal
<1>14. CASE /\ i > 1 /\ i = n /\ maxper' = maxper - nextexp[list[i - 1]]
            /\ nextexp' = [nextexp EXCEPT ![v] = 0] /\ earliest' = earliest
  <2>1. i - 1 \in 1 .. n /\ i - 1 \in 1 .. n - 1 /\ 1 \in 1 .. n /\ 1 <= i - 1 /\ (i - 1) + 1 = i
    BY <1>n, <1>14
  <2>2. earliest + maxper = due[list[i - 1]] + nextexp[list[i - 1]]
    BY <2>1, <1>8, <1>9, <1>14
  <2>3. earliest <= due[list[i - 1]]
    BY <2>1, <1>8, <1>10, <1>14
  <2>4. nextexp[list[i - 1]] \in Nat /\ due[list[i - 1]] \in Nat
    BY Zenon, <2>1, <1>7
  <2>5. PICK x \in Nat, y \in Nat : x = due[list[i - 1]] /\ y = nextexp[list[i - 1]]
    BY Zenon, <2>4
  <2>6. maxper - y \in Nat /\ earliest + (maxper - y) = x
    <3>1. earliest + maxper = x + y /\ earliest <= x
      BY Zenon, <2>2, <2>3, <2>5
    <3>2. QED
      BY <3>1, <1>7a
  <2>7. /\ nextexp' \in [VT -> Nat] /\ earliest' \in Nat /\ maxper' \in Nat
        /\ earliest' + maxper' = due[list[i - 1]]
    BY Zenon, <2>5, <2>6, <1>7, <1>14
  <2>8. \A k \in 1 .. n - 1 : k # i /\ k # i - 1 => nextexp'[list[k]] = nextexp[list[k]]
    BY Zenon, <1>o, <1>7, <1>14
  <2>9. QED
    <3>0. i = n /\ n > 1
      BY Zenon, <1>14
    <3>1. i # 1 /\ ~(i < n)
      BY <1>n, <3>0
    <3>2. QED
      BY Zenon, <3>1, <2>7, <2>8, <1>3, <1>14, <1>2 DEF Removal
<1>15. CASE /\ i > 1 /\ i < n
            /\ nextexp' = [nextexp EXCEPT ![list[i - 1]] = @ + nextexp[v], ![v] = 0]
            /\ earliest' = earliest /\ maxper' = maxper
  <2>1. i - 1 \in 1 .. n /\ i - 1 # i
    BY <1>n, <1>15
  <2>2. list[i - 1] \in VT /\ list[i - 1] # v /\ nextexp[list[i - 1]] + nextexp[v] \in Nat
    BY <2>1, <1>1, <1>7, <1>11
  <2>3. /\ nextexp' \in [VT -> Nat] /\ earliest' \in Nat /\ maxper' \in Nat
        /\ earliest' + maxper' = earliest + maxper
    BY Zenon, <2>2, <1>7, <1>15
  <2>4. nextexp'[list[i - 1]] = nextexp[list[i - 1]] + nextexp[list[i]]
    BY Zenon, <2>2, <1>7, <1>15
  <2>5. \A k \in 1 .. n - 1 : k # i /\ k # i - 1 => nextexp'[list[k]] = nextexp[list[k]]
    <3> SUFFICES ASSUME NEW k \in 1 .. n - 1, k # i, k # i - 1
                 PROVE  nextexp'[list[k]] = nextexp[list[k]]
      BY Zenon
    <3>1. k \in 1 .. n
      BY <1>1
    <3>2. list[k] # v /\ list[k] # list[i - 1] /\ list[k] \in VT
      BY Zenon, <3>1, <2>1, <1>1, <1>4, <1>11 DEF Inj
    <3>3. QED
      BY Zenon, <3>2, <1>7, <1>15
  <2>6. QED
    <3>1. i # 1 /\ i # n
      BY <1>n, <1>15
    <3>2. QED
      BY Zenon, <3>1, <2>3, <2>4, <2>5, <1>3, <1>15, <1>2 DEF Removal
<1>16. QED
  BY Zenon, <1>12, <1>13, <1>14, <1>15 DEF MRT_vtimer_rmv

-----------------------------------------------------------------------------
(* What is known of the timer that is being inserted.                      *)
LEMMA InsertFacts ==
  ASSUME IInv, pc \in {"ins", "scan"}
  PROVE  /\ pvt \in VT /\ period[pvt] \in Periods /\ period[pvt] \in Nat /\ period[pvt] > 0
         /\ pvt \notin Mem(list) /\ \A k \in 1 .. Len(list) : list[k] # pvt
         /\ list \in Seq(VT) /\ Len(list) \in Nat /\ \A k \in 1 .. Len(list) : list[k] \in VT
         /\ Inj(list)
         /\ ChainType(list, due, nextexp, earliest, maxper)
         /\ Chain(list, due, nextexp, earliest, maxper)
<1>1. pvt # NoVT /\ pvt \in VT
  BY Zenon DEF IInv, Control, TypeOK
<1>3. pvt \notin Mem(list) /\ Inj(list) /\ period[pvt] \in Periods
  BY Zenon, <1>1 DEF IInv, Places
<1>2. period[pvt] \in Nat /\ period[pvt] > 0
  <2>1. \A x \in Periods : x \in Nat \ {0}
    BY Zenon, VTAssumption
  <2>2. QED
    BY <1>3, <2>1
<1>4. \A k \in 1 .. Len(list) : list[k] # pvt
  BY Zenon, <1>3 DEF Mem
<1>5. list \in Seq(VT)
  BY Zenon DEF IInv, TypeOK
<1>6. QED
  BY Zenon, <1>1, <1>2, <1>3, <1>4, <1>5, SeqFacts DEF IInv, Queue

(* An insertion keeps the queue exact and adds the timer to its members.   *)
LEMMA InsertStep ==
  ASSUME IInv, pc \in {"ins", "scan"}, NEW k \in 1 .. Len(list) + 1,
         Insertion(list, due, nextexp, earliest, maxper, k, pvt, period[pvt],
                   list', due', nextexp', earliest', maxper')
  PROVE  Queue' /\ Inj(list') /\ Mem(list') = Mem(list) \cup {pvt}
<1>1. Queue'
  BY Zenon, InsertFacts, ChainInsert DEF Queue
<1>2. Inserted(list, list', k, pvt)
  BY Zenon DEF Insertion
<1>3. QED
  BY Zenon, <1>1, <1>2, InsertFacts, MemInserted

(* The branch of MRT_vtimer_ins for an empty queue.                        *)
LEMMA InsEmptyInserts ==
  ASSUME IInv, InsEmpty
  PROVE  Queue' /\ Inj(list') /\ Mem(list') = Mem(list) \cup {pvt}
<1>1. pc \in {"ins", "scan"}
  BY Zenon DEF InsEmpty, At
<1>2. Len(list) = 0 /\ list = << >> /\ 1 \in 1 .. Len(list) + 1
  BY DEF InsEmpty
<1>3. pvt \in VT /\ period[pvt] \in Nat
  BY Zenon, <1>1, InsertFacts
<1>4. /\ list' = <<pvt>> /\ earliest' = period[pvt] /\ maxper' = 0
      /\ due' = [due EXCEPT ![pvt] = period[pvt]]
      /\ nextexp' = [nextexp EXCEPT ![pvt] = 0]
  BY Zenon DEF InsEmpty, InsReturn
<1>5. Inserted(list, list', 1, pvt)
  BY <1>2, <1>3, <1>4 DEF Inserted
<1>6. nextexp' \in [VT -> Nat] /\ earliest' \in Nat /\ maxper' \in Nat /\ earliest' + maxper' = period[pvt]
  BY <1>3, <1>4 DEF IInv, TypeOK
<1>7. Insertion(list, due, nextexp, earliest, maxper, 1, pvt, period[pvt],
                list', due', nextexp', earliest', maxper')
  BY <1>2, <1>4, <1>5, <1>6 DEF Insertion
<1>8. QED
  BY Zenon, <1>1, <1>2, <1>7, InsertStep

(* The branch for a timer that expires before all others.                  *)
LEMMA InsFirstInserts ==
  ASSUME IInv, InsFirst
  PROVE  Queue' /\ Inj(list') /\ Mem(list') = Mem(list) \cup {pvt}
<1> DEFINE per == period[pvt]
<1>1. pc \in {"ins", "scan"}
  BY Zenon DEF InsFirst, At
<1>2. /\ pvt \in VT /\ per \in Nat /\ list \in Seq(VT) /\ Len(list) \in Nat
      /\ \A k \in 1 .. Len(list) : list[k] # pvt
      /\ Chain(list, due, nextexp, earliest, maxper)
  BY Zenon, <1>1, InsertFacts
<1>3. list # << >> /\ earliest > per /\ Len(list) > 0
  BY <1>2, EmptyQueue DEF InsFirst
<1>4. /\ list' = <<pvt>> \o list /\ earliest' = per
      /\ maxper' = maxper + (earliest - per)
      /\ due' = [due EXCEPT ![pvt] = per]
      /\ nextexp' = [nextexp EXCEPT ![pvt] = earliest - per]
  BY Zenon DEF InsFirst, InsReturn
<1>5. Inserted(list, list', 1, pvt)
  BY Zenon, <1>2, <1>4, ConcatInserts
<1>6. earliest \in Nat /\ maxper \in Nat /\ nextexp \in [VT -> Nat]
  BY Zenon DEF IInv, TypeOK
<1> HIDE DEF per
<1>7. earliest - per \in Nat
  BY <1>2, <1>3, <1>6
<1>8. nextexp' \in [VT -> Nat] /\ nextexp'[pvt] = earliest - per
  BY Zenon, <1>2, <1>4, <1>6, <1>7
<1>9. /\ earliest' \in Nat /\ maxper' \in Nat /\ earliest' + maxper' = earliest + maxper
      /\ earliest = per + (earliest - per)
  BY <1>2, <1>3, <1>4, <1>6, <1>7
<1>10. \A i \in 1 .. Len(list) : nextexp'[list[i]] = nextexp[list[i]]
  BY Zenon, <1>2, <1>4, <1>6, SeqFacts
<1>11. due[list[1]] = earliest
  BY Zenon, <1>2, <1>3 DEF Chain
<1>12. \A i \in 1 .. Len(list) : per <= due[list[i]]
  <2> SUFFICES ASSUME NEW i \in 1 .. Len(list) PROVE per <= due[list[i]]
    BY Zenon
  <2>1. due[list[i]] \in Nat /\ due[list[1]] <= due[list[i]]
    BY <1>2, <1>3 DEF Chain
  <2>2. QED
    BY <2>1, <1>2, <1>3, <1>6, <1>11
<1>13. 1 <= Len(list) /\ 1 # Len(list) + 1 /\ 1 \in 1 .. Len(list) + 1
       /\ \A i \in 1 .. Len(list) : ~(i < 1)
  BY <1>2, <1>3
<1>14. \A i \in 1 .. Len(list) - 1 : nextexp'[list[i]] = nextexp[list[i]]
  BY <1>2, <1>10
<1>15. Insertion(list, due, nextexp, earliest, maxper, 1, pvt, per,
                 list', due', nextexp', earliest', maxper')
  BY <1>2, <1>4, <1>5, <1>8, <1>9, <1>11, <1>12, <1>13, <1>14 DEF Insertion
<1>16. QED
  BY Zenon, <1>1, <1>13, <1>15, InsertStep DEF per

(* The branch for a timer that expires after all others.                   *)
LEMMA InsLastInserts ==
  ASSUME IInv, InsLast
  PROVE  Queue' /\ Inj(list') /\ Mem(list') = Mem(list) \cup {pvt}
<1> DEFINE per == period[pvt]
           n == Len(list)
<1>1. pc \in {"ins", "scan"}
  BY Zenon DEF InsLast, At
<1>2. /\ pvt \in VT /\ per \in Nat /\ list \in Seq(VT) /\ n \in Nat
      /\ \A k \in 1 .. n : list[k] # pvt /\ list[k] \in VT
      /\ Inj(list) /\ Chain(list, due, nextexp, earliest, maxper)
  BY Zenon, <1>1, InsertFacts
<1>3. list # << >> /\ earliest <= per /\ maxper + earliest <= per
  BY Zenon DEF InsLast
<1>4. n \in Nat /\ n > 0
  BY <1>2, <1>3, EmptyQueue
<1>5. /\ list' = Append(list, pvt) /\ earliest' = earliest
      /\ maxper' = per - earliest
      /\ due' = [due EXCEPT ![pvt] = per]
      /\ nextexp' = [nextexp EXCEPT ![list[n]] = per - (maxper + earliest), ![pvt] = 0]
  BY Zenon DEF InsLast, InsReturn
<1>6. Inserted(list, list', n + 1, pvt)
  BY Zenon, <1>2, <1>5, AppendInserts
<1>7. earliest \in Nat /\ maxper \in Nat /\ nextexp \in [VT -> Nat]
  BY Zenon DEF IInv, TypeOK
<1>8. n \in 1 .. n /\ list[n] \in VT /\ list[n] # pvt
  BY <1>2, <1>4
<1> HIDE DEF per
<1>9. per - (maxper + earliest) \in Nat
  BY <1>2, <1>3, <1>7
<1>10. nextexp' \in [VT -> Nat] /\ nextexp'[list[n]] = per - (maxper + earliest)
  BY Zenon, <1>2, <1>5, <1>7, <1>8, <1>9
<1>11. \A i \in 1 .. n - 1 : nextexp'[list[i]] = nextexp[list[i]]
  <2> SUFFICES ASSUME NEW i \in 1 .. n - 1 PROVE nextexp'[list[i]] = nextexp[list[i]]
    BY Zenon
  <2>1. i \in 1 .. n /\ i # n
    BY <1>4
  <2>2. list[i] # list[n] /\ list[i] # pvt /\ list[i] \in VT
    BY Zenon, <2>1, <1>2, <1>8 DEF Inj
  <2>3. QED
    BY Zenon, <2>2, <1>5, <1>7
<1>12. /\ earliest' \in Nat /\ maxper' \in Nat /\ earliest' + maxper' = per
       /\ per = (earliest + maxper) + (per - (maxper + earliest))
  BY <1>2, <1>3, <1>5, <1>7
<1>13. due[list[n]] = earliest + maxper
  BY Zenon, <1>2, <1>4 DEF Chain
<1>14. \A i \in 1 .. n : due[list[i]] <= per
  <2> SUFFICES ASSUME NEW i \in 1 .. n PROVE due[list[i]] <= per
    BY Zenon
  <2>1. i <= n /\ i \in 1 .. n /\ n \in 1 .. n
    BY <1>4
  <2>2. due[list[i]] \in Nat /\ due[list[i]] <= due[list[n]]
    BY Zenon, <1>2, <2>1 DEF Chain
  <2>3. QED
    BY <2>2, <1>2, <1>3, <1>7, <1>13
<1>15. /\ n + 1 \in 1 .. n + 1 /\ n + 1 > 1 /\ n + 1 # 1 /\ ~(n + 1 <= n) /\ (n + 1) - 1 = n
       /\ \A i \in 1 .. n : ~(i >= n + 1)
  BY <1>4
<1>16. Insertion(list, due, nextexp, earliest, maxper, n + 1, pvt, per,
                 list', due', nextexp', earliest', maxper')
  <2>1. per = due[list[n]] + nextexp'[list[n]]
    BY Zenon, <1>10, <1>12, <1>13
  <2>2. QED
    BY Zenon, <2>1, <1>2, <1>5, <1>6, <1>10, <1>11, <1>12, <1>14, <1>15 DEF Insertion
<1>17. QED
  BY Zenon, <1>1, <1>15, <1>16, InsertStep DEF per

(* The end of the scan: the timer expires between two others.              *)
LEMMA ScanInsertInserts ==
  ASSUME IInv, ScanInsert
  PROVE  Queue' /\ Inj(list') /\ Mem(list') = Mem(list) \cup {pvt}
<1> DEFINE per == period[pvt]
           n == Len(list)
           k == plnext
           x == ticksum - per
<1>1. pc = "scan" /\ pc \in {"ins", "scan"}
  BY Zenon DEF ScanInsert, At
<1>2. /\ pvt \in VT /\ per \in Nat /\ list \in Seq(VT) /\ n \in Nat
      /\ \A i \in 1 .. n : list[i] # pvt /\ list[i] \in VT
      /\ Inj(list) /\ Chain(list, due, nextexp, earliest, maxper)
  BY Zenon, <1>1, InsertFacts
<1>3. /\ k \in 1 .. n /\ ticksum = due[list[k]] /\ earliest <= per /\ per < maxper + earliest
      /\ k > 1 => due[list[k - 1]] <= per
  BY Zenon, <1>1 DEF IInv, Control
<1>5. earliest \in Nat /\ maxper \in Nat /\ nextexp \in [VT -> Nat] /\ ticksum \in Nat
  BY Zenon DEF IInv, TypeOK
<1>4. ticksum > per \/ ~(k < n)
  <2>1. ~(ticksum <= per /\ k < n)
    BY Zenon DEF ScanInsert, ScanMore
  <2>2. QED
    BY <2>1, <1>2, <1>5
<1>6. /\ list' = SeqInsert(list, k, pvt) /\ earliest' = earliest /\ maxper' = maxper
      /\ due' = [due EXCEPT ![pvt] = per]
      /\ nextexp' = [nextexp EXCEPT ![pvt] = x, ![list[k - 1]] = @ - x]
  BY Zenon DEF ScanInsert, InsReturn
<1>7. Inserted(list, list', k, pvt)
  BY Zenon, <1>2, <1>3, <1>6, SeqInsertInserts
<1>8. n > 0 => due[list[1]] = earliest /\ due[list[n]] = earliest + maxper
  BY Zenon, <1>2 DEF Chain
<1>9. ticksum > per
  <2>1. CASE ~(k < n)
    <3>1. k = n /\ n > 0
      BY <2>1, <1>2, <1>3
    <3>2. ticksum = earliest + maxper
      BY Zenon, <3>1, <1>3, <1>8
    <3>3. QED
      BY <3>2, <1>3, <1>5, <1>2
  <2>2. QED
    BY Zenon, <2>1, <1>4
<1>10. k # 1
  <2> SUFFICES ASSUME k = 1 PROVE FALSE
    BY Zenon
  <2>1. n > 0
    BY <1>2, <1>3
  <2>2. ticksum = earliest
    BY Zenon, <2>1, <1>3, <1>8
  <2>3. QED
    BY <2>2, <1>2, <1>3, <1>5, <1>9
<1>11. /\ k \in Nat /\ k > 1 /\ k <= n /\ n \in Nat /\ k - 1 \in 1 .. n /\ k - 1 \in 1 .. n - 1
       /\ (k - 1) + 1 = k /\ k - 1 # k /\ k # 1 /\ k # n + 1 /\ k \in 1 .. n + 1
  BY <1>2, <1>3, <1>10
<1>12. due[list[k]] = due[list[k - 1]] + nextexp[list[k - 1]] /\ due[list[k - 1]] \in Nat
  BY Zenon, <1>2, <1>11 DEF Chain
<1>13. list[k - 1] \in VT /\ list[k - 1] # pvt
  BY Zenon, <1>2, <1>11
<1>14. PICK a \in Nat, b \in Nat : a = due[list[k - 1]] /\ b = nextexp[list[k - 1]]
  BY Zenon, <1>5, <1>12, <1>13
<1>15. /\ x \in Nat /\ b - x \in Nat /\ per = a + (b - x) /\ ticksum = per + x
  <2>1. ticksum = a + b /\ a <= per
    BY Zenon, <1>3, <1>11, <1>12, <1>14
  <2>2. QED
    BY <2>1, <1>2, <1>5, <1>9
<1> HIDE DEF per, x
<1>16. /\ nextexp' \in [VT -> Nat] /\ nextexp'[list[k - 1]] = b - x /\ nextexp'[pvt] = x
  <2>1. nextexp[list[k - 1]] - x = b - x
    BY Zenon, <1>14
  <2>2. nextexp' = [nextexp EXCEPT ![pvt] = x, ![list[k - 1]] = b - x]
    BY Zenon, <1>6, <1>13, <1>14, <1>5
  <2>3. QED
    BY Zenon, <2>2, <1>2, <1>5, <1>13, <1>15
<1>17. \A i \in 1 .. n - 1 : i # k - 1 => nextexp'[list[i]] = nextexp[list[i]]
  <2> SUFFICES ASSUME NEW i \in 1 .. n - 1, i # k - 1 PROVE nextexp'[list[i]] = nextexp[list[i]]
    BY Zenon
  <2>1. i \in 1 .. n
    BY <1>11
  <2>2. list[i] # list[k - 1] /\ list[i] # pvt /\ list[i] \in VT
    BY Zenon, <2>1, <1>2, <1>11 DEF Inj
  <2>3. QED
    BY Zenon, <2>2, <1>5, <1>6
<1>18. \A i \in 1 .. n : i < k => due[list[i]] <= per
  <2> SUFFICES ASSUME NEW i \in 1 .. n, i < k PROVE due[list[i]] <= per
    BY Zenon
  <2>1. i <= k - 1
    BY <1>11
  <2>2. due[list[i]] \in Nat /\ due[list[i]] <= due[list[k - 1]]
    BY Zenon, <2>1, <1>2, <1>11 DEF Chain
  <2>3. QED
    BY <2>2, <1>2, <1>3, <1>11, <1>12
<1>19. \A i \in 1 .. n : i >= k => per <= due[list[i]]
  <2> SUFFICES ASSUME NEW i \in 1 .. n, i >= k PROVE per <= due[list[i]]
    BY Zenon
  <2>1. k <= i
    BY Zenon, <1>11
  <2>2. due[list[i]] \in Nat /\ due[list[k]] <= due[list[i]]
    BY Zenon, <2>1, <1>2, <1>3 DEF Chain
  <2>3. due[list[k]] = ticksum /\ ticksum > per /\ per \in Nat /\ ticksum \in Nat
    BY Zenon, <1>2, <1>3, <1>5, <1>9
  <2>4. QED
    BY <2>2, <2>3
<1>20. Insertion(list, due, nextexp, earliest, maxper, k, pvt, per,
                 list', due', nextexp', earliest', maxper')
  <2>1. per = due[list[k - 1]] + nextexp'[list[k - 1]] /\ due[list[k]] = per + nextexp'[pvt]
    BY Zenon, <1>3, <1>14, <1>15, <1>16
  <2>2. earliest' \in Nat /\ maxper' \in Nat
    BY Zenon, <1>5, <1>6
  <2>3. QED
    BY Zenon, <2>1, <2>2, <1>2, <1>6, <1>7, <1>11, <1>16, <1>17, <1>18, <1>19 DEF Insertion
<1>21. QED
  BY Zenon, <1>1, <1>11, <1>20, InsertStep DEF per

-----------------------------------------------------------------------------
(* Being in a priority queue is being a member of one of its lists.        *)
LEMMA HasMem ==
  ASSUME NEW q, NEW v
  PROVE  QHas(q, v) <=> \E r \in Prty : v \in Mem(q[r])
<1>1. \A r \in Prty : QPositions(q, r, v) # {} <=> v \in Mem(q[r])
  BY Zenon DEF QPositions, Mem
<1>2. QED
  BY Zenon, <1>1 DEF QHas

(* Membership in the queues, in the model's words and in the proof's.      *)
LEMMA Bridges ==
  ASSUME NEW v
  PROVE  /\ InFree(v) <=> v \in Mem(freeQ)
         /\ InAct(v) <=> v \in Mem(list)
         /\ InExp(v) <=> \E q \in Prty : v \in Mem(expQ[q])
<1>1. InFree(v) <=> v \in Mem(freeQ)
  BY Zenon DEF InFree, Mem
<1>2. InAct(v) <=> v \in Mem(list)
  BY Zenon DEF InAct, Mem
<1>3. QED
  BY Zenon, <1>1, <1>2, HasMem DEF InExp

(* The members of all queues are timers.                                   *)
LEMMA QueueTypes ==
  ASSUME TypeOK
  PROVE  /\ Mem(list) \subseteq VT /\ Mem(freeQ) \subseteq VT
         /\ \A q \in Prty : expQ[q] \in Seq(VT) /\ Mem(expQ[q]) \subseteq VT
<1>1. \A q \in Prty : expQ[q] \in Seq(VT)
  BY Zenon DEF TypeOK
<1>2. list \in Seq(VT) /\ freeQ \in Seq(VT)
  BY Zenon DEF TypeOK
<1>3. QED
  BY Zenon, <1>1, <1>2, MemType

(* Unlink takes v out of the active queue, where it was.                   *)
LEMMA UnlinkStep ==
  ASSUME TypeOK, Queue, NEW v \in VT, Unlink(v)
  PROVE  /\ Queue' /\ Inj(list') /\ Mem(list') = Mem(list) \ {v}
         /\ v \in Mem(list)
<1>1. PICK i \in 1 .. Len(list) : list[i] = v /\ MRT_vtimer_rmv(i)
  BY Zenon DEF Unlink
<1>2. v \in Mem(list)
  BY Zenon, <1>1 DEF Mem
<1>3. QED
  BY Zenon, <1>1, <1>2, RmvStep

(* The clock handler takes the first timer out of the active queue.        *)
LEMMA ClockExpireStep ==
  ASSUME IInv, ClockExpire
  PROVE  /\ list[1] \in Mem(list)
         /\ Queue' /\ Inj(list') /\ Mem(list') = Mem(list) \ {list[1]}
<1>1. list \in Seq(VT) /\ list # << >>
  BY Zenon DEF IInv, TypeOK, ClockExpire
<1>2. 1 \in 1 .. Len(list)
  BY Zenon, <1>1, TailRemoves
<1>3. list[1] \in Mem(list)
  BY Zenon, <1>2 DEF Mem
<1>4. MRT_vtimer_rmv(1)
  BY Zenon DEF ClockExpire
<1>5. QED
  BY Zenon, <1>2, <1>3, <1>4, RmvStep DEF IInv

(* Every step keeps the differences exact.                                 *)
LEMMA QueueStep ==
  ASSUME IInv, Next
  PROVE  Queue'
<1>1. ASSUME UNCHANGED actQ PROVE Queue'
  BY Zenon, <1>1 DEF IInv, Queue, actQ
<1>2. TypeOK /\ Queue
  BY Zenon DEF IInv
<1>3. ASSUME NEW v \in VT, Stop(v) PROVE Queue'
  <2>1. CASE Unlink(v)
    BY Zenon, <2>1, <1>2, UnlinkStep
  <2>2. CASE UNCHANGED actQ
    BY Zenon, <2>2, <1>1
  <2>3. QED
    BY Zenon, <1>3, <2>1, <2>2 DEF Stop, MRT_vtimer_stop
<1>4. ASSUME NEW v \in VT, MRT_vtimer_free(v) PROVE Queue'
  <2>1. CASE Unlink(v)
    BY Zenon, <2>1, <1>2, UnlinkStep
  <2>2. CASE UNCHANGED actQ
    BY Zenon, <2>2, <1>1
  <2>3. QED
    BY Zenon, <1>4, <2>1, <2>2 DEF MRT_vtimer_free
<1>5. CASE \E pty \in TimerPrty : AllocIpc(pty) \/ \E per \in Periods : AllocIrq(per, pty)
  BY Zenon, <1>1, <1>5 DEF AllocIpc, AllocIrq
<1>6. CASE \E v \in VT : \E per \in Periods, act \in Waits, pty \in TimerPrty : VTSET(v, per, act, pty)
  BY Zenon, <1>1, <1>6 DEF VTSET
<1>7. CASE \E q \in Prty : MRT_prtylvl_set(q)
  BY Zenon, <1>1, <1>7 DEF MRT_prtylvl_set
<1>8. CASE Tick
  <2>1. /\ list' = list /\ maxper' = maxper /\ nextexp' = nextexp /\ earliest' = earliest - 1
        /\ due' = [v \in VT |-> IF due[v] = Off THEN Off ELSE due[v] - 1]
    BY Zenon, <1>8 DEF Tick
  <2>2. earliest > 0
    BY Zenon, <1>8 DEF Tick, At, IInv, Control
  <2>3. ChainType(list, due', nextexp, earliest - 1, maxper) /\ Chain(list, due', nextexp, earliest - 1, maxper)
    BY Zenon, <1>2, <2>1, <2>2, ChainTick DEF Queue
  <2>4. QED
    BY Zenon, <2>1, <2>3 DEF Queue
<1>9. CASE InsStep
  BY Zenon, <1>1, <1>9, InsEmptyInserts, InsFirstInserts, InsLastInserts, ScanInsertInserts
     DEF InsStep, InsMiddle, ScanStep
<1>10. CASE ClockStep
  BY Zenon, <1>1, <1>10, ClockExpireStep DEF ClockStep, ClockReturn
<1>11. CASE FlushStep
  BY Zenon, <1>1, <1>11 DEF FlushStep, FlushList, FlushReturn, MRT_vtimer_run, NextPrty
<1>12. CASE Handlers
  BY Zenon, <1>1, <1>12 DEF Handlers
<1>13. CASE Halted
  BY Zenon, <1>1, <1>13 DEF Halted, vars
<1>14. QED
  BY Zenon, <1>3, <1>4, <1>5, <1>6, <1>7, <1>8, <1>9, <1>10, <1>11, <1>12, <1>13 DEF Next, Request

-----------------------------------------------------------------------------
(* Every timer stays in one place.  First the insertions, which turn the   *)
(* timer at hand into a member of the active queue.                        *)
LEMMA InsertPlaces ==
  ASSUME IInv, fault = "none", pc \in {"ins", "scan"},
         Inj(list'), Mem(list') = Mem(list) \cup {pvt}, InsReturn
  PROVE  Places'
<1>1. /\ freeQ' = freeQ /\ expQ' = expQ /\ flags' = flags /\ period' = period
      /\ priority' = priority /\ pvt' = NoVT
  BY Zenon DEF InsReturn, desc
<1>2. Places /\ TypeOK /\ pvt \in VT /\ pvt # NoVT
  BY Zenon, InsertFacts, VTAssumption DEF IInv
<1>3. NoVT \notin Mem(list') /\ NoVT \notin Mem(freeQ)
  BY Zenon, <1>2, QueueTypes, VTAssumption
<1>4. \A v \in Mem(list') : v \notin Mem(freeQ) /\ period[v] \in Periods
  BY Zenon, <1>2 DEF Places
<1>5. \A v \in VT : flags[v] = "VT_ACTIVEQ" <=> v \in Mem(list') \/ v = NoVT
  BY Zenon, <1>2, VTAssumption DEF Places
<1>6. \A q \in Prty : \A v \in Mem(expQ[q]) :
        v \notin Mem(list') /\ v \notin Mem(freeQ) /\ v # NoVT /\ priority[v] = q /\ period[v] \in Periods
  BY <1>2, QueueTypes, VTAssumption DEF Places
<1>7. Inj(freeQ) /\ \A q \in Prty : Inj(expQ[q])
  BY Zenon, <1>2 DEF Places
<1>8. QED
  BY Zenon, <1>1, <1>3, <1>4, <1>5, <1>6, <1>7 DEF Places

(* VTALLOC takes the timer out of the free queue.                          *)
LEMMA AllocPlaces ==
  ASSUME IInv, NEW pty \in TimerPrty,
         AllocIpc(pty) \/ \E per \in Periods : AllocIrq(per, pty)
  PROVE  Places'
<1> DEFINE v == Head(freeQ)
<1>1. /\ Places /\ TypeOK /\ fault = "none" /\ fault' = fault /\ pvt = NoVT
      /\ freeQ # << >> /\ freeQ \in Seq(VT) /\ freeQ' = Tail(freeQ)
      /\ list' = list /\ expQ' = expQ
  BY Zenon DEF IInv, TypeOK, Control, AllocIpc, AllocIrq, MRT_vtimer_alloc, At, actQ
<1>2. v \in VT /\ v \in Mem(freeQ) /\ Inj(freeQ') /\ Mem(freeQ') = Mem(freeQ) \ {v}
  <2>1. 1 \in 1 .. Len(freeQ) /\ v = freeQ[1] /\ v \in VT /\ Removed(freeQ, freeQ', 1) /\ Inj(freeQ)
    BY Zenon, <1>1, TailRemoves DEF Places
  <2>2. v \in Mem(freeQ)
    BY Zenon, <2>1 DEF Mem
  <2>3. QED
    BY Zenon, <2>1, <2>2, <1>1, MemRemoved
<1>3. /\ v \notin Mem(list) /\ v # NoVT
      /\ \A q \in Prty : v \notin Mem(expQ[q])
  BY Zenon, <1>1, <1>2, VTAssumption DEF Places
<1>4. PICK per \in Nat \ {0} :
          /\ period' = [period EXCEPT ![v] = per]
          /\ priority' = [priority EXCEPT ![v] = pty]
          /\ \/ pvt' = NoVT /\ flags' = [flags EXCEPT ![v] = "VT_ALLOC"]
             \/ pvt' = v /\ flags' = [flags EXCEPT ![v] = "VT_ACTIVEQ"] /\ per \in Periods
  <2>1. CASE AllocIpc(pty)
    <3>1. /\ period' = [period EXCEPT ![v] = 1] /\ priority' = [priority EXCEPT ![v] = pty]
          /\ pvt' = NoVT /\ flags' = [flags EXCEPT ![v] = "VT_ALLOC"]
      BY Zenon, <1>1, <2>1 DEF AllocIpc, MRT_vtimer_alloc, insvars
    <3>2. 1 \in Nat \ {0}
      OBVIOUS
    <3>3. QED
      BY Zenon, <3>1, <3>2
  <2>2. CASE \E per \in Periods : AllocIrq(per, pty)
    <3>1. PICK per \in Periods : AllocIrq(per, pty)
      BY Zenon, <2>2
    <3>2. /\ period' = [period EXCEPT ![v] = per] /\ priority' = [priority EXCEPT ![v] = pty]
          /\ pvt' = v /\ flags' = [flags EXCEPT ![v] = "VT_ACTIVEQ"]
      BY Zenon, <3>1 DEF AllocIrq, MRT_vtimer_alloc
    <3>3. per \in Nat \ {0}
      BY Zenon, VTAssumption
    <3>4. QED
      BY Zenon, <3>2, <3>3
  <2>3. QED
    BY Zenon, <2>1, <2>2
<1> HIDE DEF v
<1>t. DOMAIN flags = VT /\ DOMAIN period = VT /\ DOMAIN priority = VT
  BY Zenon, <1>1 DEF TypeOK
<1>5. \A w \in VT : w # v => flags'[w] = flags[w] /\ period'[w] = period[w] /\ priority'[w] = priority[w]
  BY Zenon, <1>4, <1>t
<1>6. \/ pvt' = NoVT /\ flags'[v] = "VT_ALLOC"
      \/ pvt' = v /\ flags'[v] = "VT_ACTIVEQ" /\ period'[v] \in Periods
  BY Zenon, <1>2, <1>4, <1>t
<1>7. \A w \in Mem(list) : w \notin Mem(freeQ') /\ period'[w] \in Periods
  BY Zenon, <1>1, <1>2, <1>3, <1>5, QueueTypes DEF Places
<1>8. \A w \in VT : flags'[w] = "VT_ACTIVEQ" <=> w \in Mem(list) \/ w = pvt'
  <2> SUFFICES ASSUME NEW w \in VT PROVE flags'[w] = "VT_ACTIVEQ" <=> w \in Mem(list) \/ w = pvt'
    BY Zenon
  <2>1. flags[w] = "VT_ACTIVEQ" <=> w \in Mem(list)
    BY Zenon, <1>1, VTAssumption DEF Places
  <2>2. CASE w = v
    BY Zenon, <2>2, <1>3, <1>6
  <2>3. CASE w # v
    BY Zenon, <2>1, <2>3, <1>5, <1>6, VTAssumption
  <2>4. QED
    BY Zenon, <2>2, <2>3
<1>9. pvt' \notin Mem(list) /\ pvt' \notin Mem(freeQ')
  BY Zenon, <1>1, <1>2, <1>3, <1>6, QueueTypes, VTAssumption
<1>10. pvt' # NoVT => period'[pvt'] \in Periods
  BY Zenon, <1>6
<1>11. \A q \in Prty : \A w \in Mem(expQ[q]) :
         w \notin Mem(list) /\ w \notin Mem(freeQ') /\ w # pvt' /\ priority'[w] = q /\ period'[w] \in Periods
  <2> SUFFICES ASSUME NEW q \in Prty, NEW w \in Mem(expQ[q])
               PROVE  w \notin Mem(list) /\ w \notin Mem(freeQ') /\ w # pvt' /\ priority'[w] = q /\ period'[w] \in Periods
    BY Zenon
  <2>1. w \in VT
    BY Zenon, <1>1, QueueTypes
  <2>2. w \notin Mem(list) /\ w \notin Mem(freeQ) /\ priority[w] = q /\ period[w] \in Periods
    BY Zenon, <1>1 DEF Places
  <2>3. w # v /\ w \notin Mem(freeQ')
    BY Zenon, <2>2, <1>2, <1>3
  <2>4. w # pvt'
    BY Zenon, <2>1, <2>3, <1>6, VTAssumption
  <2>5. priority'[w] = priority[w] /\ period'[w] = period[w]
    BY Zenon, <2>1, <2>3, <1>5
  <2>6. QED
    BY Zenon, <2>2, <2>3, <2>4, <2>5
<1>12. Inj(list) /\ \A q \in Prty : Inj(expQ[q])
  BY Zenon, <1>1 DEF Places
<1>13. QED
  BY Zenon, <1>1, <1>2, <1>7, <1>8, <1>9, <1>10, <1>11, <1>12 DEF Places

(* VTSET hands a timer of no queue to MRT_vtimer_ins.                      *)
LEMMA VTSETPlaces ==
  ASSUME IInv, NEW v \in VT, NEW per \in Periods, NEW act, NEW pty \in TimerPrty,
         VTSET(v, per, act, pty)
  PROVE  Places'
<1>1. /\ Places /\ TypeOK /\ fault = "none" /\ pvt = NoVT
      /\ freeQ' = freeQ /\ list' = list /\ expQ' = expQ /\ pvt' = v
      /\ period' = [period EXCEPT ![v] = per]
      /\ priority' = [priority EXCEPT ![v] = pty]
      /\ flags' = [flags EXCEPT ![v] = "VT_ACTIVEQ"]
  BY Zenon DEF IInv, Control, VTSET, At, actQ
<1>2. v \notin Mem(freeQ) /\ v \notin Mem(list) /\ v # NoVT
  BY Zenon, Bridges, VTAssumption DEF VTSET, Ipc
<1>3. fault' = "none" => \A q \in Prty : v \notin Mem(expQ[q])
  BY Zenon, <1>1, Bridges DEF VTSET, LinkAgain
<1>4. \A w \in VT : w # v => flags'[w] = flags[w] /\ period'[w] = period[w] /\ priority'[w] = priority[w]
  BY Zenon, <1>1 DEF TypeOK
<1>5. period'[v] \in Periods /\ flags'[v] = "VT_ACTIVEQ"
  BY Zenon, <1>1 DEF TypeOK
<1>6. \A w \in Mem(list) : w \notin Mem(freeQ) /\ period'[w] \in Periods
  BY Zenon, <1>1, <1>2, <1>4, QueueTypes DEF Places
<1>7. \A w \in VT : flags'[w] = "VT_ACTIVEQ" <=> w \in Mem(list) \/ w = v
  BY <1>1, <1>2, <1>4, <1>5, VTAssumption DEF Places
<1>8. \A q \in Prty : \A w \in Mem(expQ[q]) : w \notin Mem(list)
  BY Zenon, <1>1 DEF Places
<1>9. fault' = "none" =>
        \A q \in Prty : \A w \in Mem(expQ[q]) :
          w \notin Mem(freeQ) /\ w # v /\ priority'[w] = q /\ period'[w] \in Periods
  BY <1>1, <1>3, <1>4, QueueTypes DEF Places
<1>10. Inj(freeQ) /\ Inj(list) /\ \A q \in Prty : Inj(expQ[q])
  BY Zenon, <1>1 DEF Places
<1>11. QED
  BY Zenon, <1>1, <1>2, <1>5, <1>6, <1>7, <1>8, <1>9, <1>10 DEF Places

(* MRT_vtimer_stop leaves the timer in no queue but the expired one.       *)
LEMMA StopPlaces ==
  ASSUME IInv, NEW v \in VT, Stop(v)
  PROVE  Places'
<1>1. /\ Places /\ TypeOK /\ Queue /\ fault = "none"
      /\ freeQ' = freeQ /\ expQ' = expQ /\ pvt' = pvt /\ period' = period /\ priority' = priority
      /\ flags' = [flags EXCEPT ![v] = "VT_ALLOC"]
  BY Zenon DEF IInv, Stop, MRT_vtimer_stop, At, insvars
<1>2. Inj(list') /\ Mem(list') = Mem(list) \ {v} /\ v # pvt
  <2>1. CASE flags[v] = "VT_ACTIVEQ" /\ Unlink(v)
    BY Zenon, <2>1, <1>1, UnlinkStep DEF Places
  <2>2. CASE flags[v] # "VT_ACTIVEQ" /\ list' = list
    <3>1. v \notin Mem(list) /\ v # pvt
      BY Zenon, <2>2, <1>1 DEF Places
    <3>2. Inj(list)
      BY Zenon, <1>1 DEF Places
    <3>3. Mem(list) \ {v} = Mem(list)
      BY Zenon, <3>1
    <3>4. QED
      BY Zenon, <3>1, <3>2, <3>3, <2>2
  <2>3. QED
    BY Zenon, <2>1, <2>2 DEF Stop, MRT_vtimer_stop, actQ
<1>3. DOMAIN flags = VT
  BY Zenon, <1>1 DEF TypeOK
<1>4. flags'[v] = "VT_ALLOC" /\ \A w \in VT : w # v => flags'[w] = flags[w]
  BY Zenon, <1>1, <1>3
<1>5. \A w \in VT : flags'[w] = "VT_ACTIVEQ" <=> w \in Mem(list') \/ w = pvt
  <2> SUFFICES ASSUME NEW w \in VT PROVE flags'[w] = "VT_ACTIVEQ" <=> w \in Mem(list') \/ w = pvt
    BY Zenon
  <2>1. CASE w = v
    BY Zenon, <2>1, <1>2, <1>4
  <2>2. CASE w # v
    BY Zenon, <2>2, <1>1, <1>2, <1>4 DEF Places
  <2>3. QED
    BY Zenon, <2>1, <2>2
<1>6. QED
  BY Zenon, <1>1, <1>2, <1>5 DEF Places

(* MRT_vtimer_free moves the timer to the free queue.                      *)
LEMMA FreePlaces ==
  ASSUME IInv, NEW v \in VT, MRT_vtimer_free(v)
  PROVE  Places'
<1>1. /\ Places /\ TypeOK /\ Queue /\ fault = "none" /\ pvt = NoVT
      /\ expQ' = expQ /\ pvt' = pvt /\ freeQ' = Append(freeQ, v)
      /\ period' = [period EXCEPT ![v] = 0]
      /\ priority' = [priority EXCEPT ![v] = PRILOWEST]
      /\ flags' = [flags EXCEPT ![v] = "VT_FREEQ"]
  BY Zenon DEF IInv, Control, MRT_vtimer_free, At, insvars
<1>2. v \notin Mem(freeQ) /\ v # NoVT
  BY Zenon, Bridges, VTAssumption DEF MRT_vtimer_free, Ipc
<1>3. Inj(freeQ') /\ Mem(freeQ') = Mem(freeQ) \cup {v}
  <2>1. freeQ \in Seq(VT) /\ Inserted(freeQ, freeQ', Len(freeQ) + 1, v) /\ Inj(freeQ)
    BY Zenon, <1>1, AppendInserts DEF TypeOK, Places
  <2>2. Len(freeQ) + 1 \in 1 .. Len(freeQ) + 1
    BY <2>1, SeqFacts
  <2>3. QED
    BY <2>1, <2>2, <1>2, MemInserted
<1>4. /\ Inj(list') /\ Mem(list') = Mem(list) \ {v}
      /\ fault' = "none" => \A q \in Prty : v \notin Mem(expQ[q])
  <2>1. CASE flags[v] = "VT_ACTIVEQ" /\ Unlink(v)
    <3>1. Inj(list') /\ Mem(list') = Mem(list) \ {v} /\ v \in Mem(list)
      BY Zenon, <2>1, <1>1, UnlinkStep
    <3>2. QED
      BY Zenon, <3>1, <1>1 DEF Places
  <2>2. CASE flags[v] # "VT_ACTIVEQ" /\ LinkAgain(v) /\ list' = list
    <3>1. v \notin Mem(list) /\ Inj(list)
      BY Zenon, <2>2, <1>1 DEF Places
    <3>2. fault' = "none" => \A q \in Prty : v \notin Mem(expQ[q])
      BY Zenon, <2>2, <1>1, Bridges DEF LinkAgain
    <3>3. QED
      BY Zenon, <3>1, <3>2, <2>2
  <2>3. QED
    BY Zenon, <2>1, <2>2 DEF MRT_vtimer_free, actQ
<1>5. DOMAIN flags = VT /\ DOMAIN period = VT /\ DOMAIN priority = VT
  BY Zenon, <1>1 DEF TypeOK
<1>6. /\ flags'[v] = "VT_FREEQ"
      /\ \A w \in VT : w # v => flags'[w] = flags[w] /\ period'[w] = period[w] /\ priority'[w] = priority[w]
  BY Zenon, <1>1, <1>5
<1>7. \A w \in Mem(list') : w \notin Mem(freeQ') /\ period'[w] \in Periods
  BY Zenon, <1>1, <1>3, <1>4, <1>6, QueueTypes DEF Places
<1>8. \A w \in VT : flags'[w] = "VT_ACTIVEQ" <=> w \in Mem(list') \/ w = NoVT
  <2> SUFFICES ASSUME NEW w \in VT PROVE flags'[w] = "VT_ACTIVEQ" <=> w \in Mem(list') \/ w = NoVT
    BY Zenon
  <2>1. CASE w = v
    BY Zenon, <2>1, <1>2, <1>4, <1>6
  <2>2. CASE w # v
    BY Zenon, <2>2, <1>1, <1>4, <1>6 DEF Places
  <2>3. QED
    BY Zenon, <2>1, <2>2
<1>9. NoVT \notin Mem(list') /\ NoVT \notin Mem(freeQ')
  BY Zenon, <1>1, <1>2, <1>3, <1>4, QueueTypes, VTAssumption
<1>10. \A q \in Prty : Inj(expQ[q]) /\ \A w \in Mem(expQ[q]) : w \notin Mem(list')
  BY Zenon, <1>1, <1>4 DEF Places
<1>11. fault' = "none" =>
         \A q \in Prty : \A w \in Mem(expQ[q]) :
           w \notin Mem(freeQ') /\ w # NoVT /\ priority'[w] = q /\ period'[w] \in Periods
  BY <1>1, <1>3, <1>4, <1>6, QueueTypes DEF Places
<1>12. QED
  BY Zenon, <1>1, <1>3, <1>4, <1>7, <1>8, <1>9, <1>10, <1>11 DEF Places

(* The clock handler moves the first timer to the expired queue.           *)
LEMMA ClockExpirePlaces ==
  ASSUME IInv, ClockExpire
  PROVE  Places' /\ \A w \in VT : InExp(w)' <=> InExp(w) \/ w = list[1]
<1> DEFINE v == list[1]
           r == priority[v]
<1>1. /\ Places /\ TypeOK /\ fault = "none" /\ pvt = NoVT
      /\ freeQ' = freeQ /\ pvt' = pvt /\ period' = period /\ priority' = priority
      /\ flags' = [flags EXCEPT ![v] = "VT_ALLOC"]
      /\ expQ' = [expQ EXCEPT ![r] = Append(@, v)]
  BY Zenon DEF IInv, Control, ClockExpire, At, insvars, QAppend
<1>2. v \in Mem(list) /\ Inj(list') /\ Mem(list') = Mem(list) \ {v}
  BY Zenon, ClockExpireStep
<1>3. v \in VT /\ r \in Prty
  BY Zenon, <1>1, <1>2, QueueTypes DEF TypeOK
<1>4. \A q \in Prty : v \notin Mem(expQ[q])
  BY Zenon, <1>1, <1>2 DEF Places
<1> HIDE DEF v, r
<1>5. \A q \in Prty : q # r => expQ'[q] = expQ[q]
  BY Zenon, <1>1, <1>3 DEF TypeOK
<1>6. expQ'[r] = Append(expQ[r], v)
  BY Zenon, <1>1, <1>3 DEF TypeOK
<1>7. Inj(expQ'[r]) /\ Mem(expQ'[r]) = Mem(expQ[r]) \cup {v}
  <2>1. expQ[r] \in Seq(VT) /\ Inj(expQ[r])
    BY Zenon, <1>1, <1>3 DEF TypeOK, Places
  <2>2. Inserted(expQ[r], expQ'[r], Len(expQ[r]) + 1, v)
    BY Zenon, <2>1, <1>3, <1>6, AppendInserts
  <2>3. Len(expQ[r]) + 1 \in 1 .. Len(expQ[r]) + 1
    BY <2>1, SeqFacts
  <2>4. QED
    BY <2>1, <2>2, <2>3, <1>3, <1>4, MemInserted
<1>8. \A q \in Prty : Inj(expQ'[q])
  BY Zenon, <1>1, <1>5, <1>7 DEF Places
<1>9. \A q \in Prty : \A w \in Mem(expQ'[q]) : w \in Mem(expQ[q]) \/ (w = v /\ q = r)
  BY Zenon, <1>5, <1>7
<1>10. v \notin Mem(freeQ) /\ v # NoVT /\ period[v] \in Periods
  BY Zenon, <1>1, <1>2, <1>3, VTAssumption DEF Places
<1>11. \A q \in Prty : \A w \in Mem(expQ'[q]) :
         w \notin Mem(list') /\ w \notin Mem(freeQ) /\ w # NoVT /\ priority[w] = q /\ period[w] \in Periods
  <2> SUFFICES ASSUME NEW q \in Prty, NEW w \in Mem(expQ'[q])
               PROVE  w \notin Mem(list') /\ w \notin Mem(freeQ) /\ w # NoVT /\ priority[w] = q /\ period[w] \in Periods
    BY Zenon
  <2>1. CASE w \in Mem(expQ[q])
    BY Zenon, <2>1, <1>1, <1>2 DEF Places
  <2>2. CASE w = v /\ q = r
    BY Zenon, <2>2, <1>2, <1>10 DEF r
  <2>3. QED
    BY Zenon, <2>1, <2>2, <1>9
<1>12. DOMAIN flags = VT
  BY Zenon, <1>1 DEF TypeOK
<1>13. flags'[v] = "VT_ALLOC" /\ \A w \in VT : w # v => flags'[w] = flags[w]
  BY Zenon, <1>1, <1>3, <1>12
<1>14. \A w \in VT : flags'[w] = "VT_ACTIVEQ" <=> w \in Mem(list') \/ w = NoVT
  <2> SUFFICES ASSUME NEW w \in VT PROVE flags'[w] = "VT_ACTIVEQ" <=> w \in Mem(list') \/ w = NoVT
    BY Zenon
  <2>1. CASE w = v
    BY Zenon, <2>1, <1>2, <1>10, <1>13
  <2>2. CASE w # v
    BY Zenon, <2>2, <1>1, <1>2, <1>13 DEF Places
  <2>3. QED
    BY Zenon, <2>1, <2>2
<1>15. /\ Inj(freeQ) /\ NoVT \notin Mem(list') /\ NoVT \notin Mem(freeQ)
       /\ \A w \in Mem(list') : w \notin Mem(freeQ) /\ period[w] \in Periods
  BY Zenon, <1>1, <1>2 DEF Places
<1>16. \A w \in VT : InExp(w)' <=> InExp(w) \/ w = v
  <2>1. \A w : InExp(w)' <=> \E q \in Prty : w \in Mem(expQ'[q])
    BY Zenon, HasMem DEF InExp
  <2>2. \A w \in VT : (\E q \in Prty : w \in Mem(expQ'[q])) <=> (\E q \in Prty : w \in Mem(expQ[q])) \/ w = v
    BY Zenon, <1>3, <1>5, <1>7
  <2>3. QED
    BY Zenon, <2>1, <2>2, Bridges
<1>17. QED
  BY Zenon, <1>1, <1>2, <1>8, <1>11, <1>14, <1>15, <1>16 DEF Places, v

(* MRT_vtimer_run takes the timer out of the expired queue.                *)
LEMMA RunPlaces ==
  ASSUME IInv, MRT_vtimer_run
  PROVE  /\ Places' /\ p \in Prty /\ Head(expQ[p]) \in VT /\ expQ' \in [Prty -> Seq(VT)]
         /\ InExp(Head(expQ[p])) /\ \A w \in VT : InExp(w)' <=> InExp(w) /\ w # Head(expQ[p])
<1> DEFINE v == Head(expQ[p])
           s == expQ[p]
<1>1. /\ Places /\ TypeOK /\ fault = "none" /\ fault' = fault /\ pvt = NoVT /\ s # << >>
      /\ freeQ' = freeQ /\ list' = list /\ period' = period /\ priority' = priority
      /\ expQ' = QRemove(expQ, priority[v], v)
      /\ \/ pvt' = v /\ flags' = [flags EXCEPT ![v] = "VT_ACTIVEQ"]
         \/ pvt' = pvt /\ flags' = flags
  BY Zenon DEF IInv, Control, MRT_vtimer_run, At, actQ
<1>2. p \in Prty
  <2>1. p < NR_PRTY /\ p \in 1 .. NR_PRTY
    BY Zenon DEF IInv, Control, TypeOK, MRT_vtimer_run, At
  <2>2. QED
    BY <2>1, PrtyAssumption DEF Prty
<1>3. s \in Seq(VT) /\ Inj(s)
  BY Zenon, <1>1, <1>2 DEF TypeOK, Places
<1>4. 1 \in 1 .. Len(s) /\ v = s[1] /\ v \in VT
  BY Zenon, <1>1, <1>3, TailRemoves
<1>5. v \in Mem(s)
  BY Zenon, <1>4 DEF Mem
<1>6. priority[v] = p
  BY Zenon, <1>1, <1>2, <1>5 DEF Places
<1>7. expQ' = [expQ EXCEPT ![p] = SeqRemove(s, 1)]
  <2>1. \A i \in QPositions(expQ, p, v) : i = 1
    BY Zenon, <1>3, <1>4 DEF QPositions, Inj
  <2>2. 1 \in QPositions(expQ, p, v)
    BY Zenon, <1>4 DEF QPositions
  <2>3. (CHOOSE i \in QPositions(expQ, p, v) : TRUE) = 1
    BY Zenon, <2>1, <2>2
  <2>4. expQ' = [expQ EXCEPT ![p] = SubSeq(@, 1, 1 - 1) \o SubSeq(@, 1 + 1, Len(@))]
    BY Zenon, <2>3, <1>1, <1>6 DEF QRemove
  <2>5. QED
    BY Zenon, <2>4, <1>1, <1>2 DEF SeqRemove, TypeOK
<1>8. Removed(s, SeqRemove(s, 1), 1)
  BY Zenon, <1>3, <1>4, SeqRemoveRemoves
<1> DEFINE t == SeqRemove(s, 1)
<1>9. t \in Seq(VT) /\ Inj(t) /\ Mem(t) = Mem(s) \ {v}
  <2>1. t \in Seq(VT)
    BY Zenon, <1>8 DEF Removed
  <2>2. QED
    BY <2>1, <1>3, <1>4, <1>8, MemRemoved
<1> HIDE DEF t, s
<1>10. expQ' = [expQ EXCEPT ![p] = t] /\ expQ \in [Prty -> Seq(VT)]
  BY Zenon, <1>1, <1>7 DEF t, TypeOK
<1>11. expQ' \in [Prty -> Seq(VT)] /\ expQ'[p] = t /\ \A q \in Prty : q # p => expQ'[q] = expQ[q]
  BY Zenon, <1>2, <1>9, <1>10
<1>12. \A q \in Prty : Inj(expQ'[q])
  BY Zenon, <1>1, <1>9, <1>11 DEF Places
<1>13. \A q \in Prty : \A w \in Mem(expQ'[q]) : w \in Mem(expQ[q]) /\ w # v
  <2> SUFFICES ASSUME NEW q \in Prty, NEW w \in Mem(expQ'[q])
               PROVE  w \in Mem(expQ[q]) /\ w # v
    BY Zenon
  <2>1. CASE q = p
    BY Zenon, <2>1, <1>9, <1>11 DEF s
  <2>2. CASE q # p
    <3>1. w \in Mem(expQ[q])
      BY Zenon, <2>2, <1>11
    <3>2. priority[w] = q
      BY Zenon, <3>1, <1>1 DEF Places
    <3>3. QED
      BY Zenon, <3>1, <3>2, <2>2, <1>6
  <2>3. QED
    BY Zenon, <2>1, <2>2
<1>14. v \notin Mem(list) /\ v \notin Mem(freeQ) /\ v # NoVT /\ period[v] \in Periods
  BY Zenon, <1>1, <1>2, <1>5, <1>4, VTAssumption DEF Places, s
<1> HIDE DEF v
<1>15. DOMAIN flags = VT
  BY Zenon, <1>1 DEF TypeOK
<1>16. \/ /\ pvt' = v /\ flags'[v] = "VT_ACTIVEQ"
          /\ \A w \in VT : w # v => flags'[w] = flags[w]
       \/ pvt' = NoVT /\ flags' = flags
  BY Zenon, <1>1, <1>4, <1>15
<1>17. \A w \in VT : flags'[w] = "VT_ACTIVEQ" <=> w \in Mem(list) \/ w = pvt'
  <2> SUFFICES ASSUME NEW w \in VT PROVE flags'[w] = "VT_ACTIVEQ" <=> w \in Mem(list) \/ w = pvt'
    BY Zenon
  <2>1. flags[w] = "VT_ACTIVEQ" <=> w \in Mem(list) \/ w = NoVT
    BY Zenon, <1>1 DEF Places
  <2>2. w # NoVT
    BY Zenon, VTAssumption
  <2>3. QED
    BY Zenon, <2>1, <2>2, <1>16
<1>18. /\ pvt' \notin Mem(list) /\ pvt' \notin Mem(freeQ)
       /\ pvt' # NoVT => period[pvt'] \in Periods
  BY Zenon, <1>1, <1>14, <1>16 DEF Places
<1>19. \A q \in Prty : \A w \in Mem(expQ'[q]) :
         w \notin Mem(list) /\ w \notin Mem(freeQ) /\ w # pvt' /\ priority[w] = q /\ period[w] \in Periods
  BY Zenon, <1>1, <1>13, <1>16 DEF Places
<1>20. Inj(freeQ) /\ Inj(list) /\ \A w \in Mem(list) : w \notin Mem(freeQ) /\ period[w] \in Periods
  BY Zenon, <1>1 DEF Places
<1>21. Places'
  BY Zenon, <1>1, <1>12, <1>17, <1>18, <1>19, <1>20 DEF Places
<1>22. \A w \in VT : InExp(w)' <=> InExp(w) /\ w # v
  <2>1. \A q \in Prty : \A w \in Mem(expQ[q]) : w # v => w \in Mem(expQ'[q])
    BY Zenon, <1>9, <1>11 DEF s
  <2>2. QED
    BY Zenon, <2>1, <1>13, HasMem DEF InExp
<1>23. InExp(v)
  BY Zenon, <1>2, <1>5, HasMem DEF InExp, s
<1>24. QED
  BY Zenon, <1>2, <1>4, <1>11, <1>21, <1>22, <1>23 DEF v

(* Every step keeps every timer in one place.                              *)
LEMMA PlacesStep ==
  ASSUME IInv, Next
  PROVE  Places'
<1>1. ASSUME fault = "none", UNCHANGED <<freeQ, list, expQ, flags, period, priority, pvt>>
      PROVE  Places'
  BY Zenon, <1>1 DEF IInv, Places
<1>2. CASE InsStep
  <2>1. CASE InsEmpty
    <3>1. fault = "none" /\ pc \in {"ins", "scan"} /\ InsReturn
      BY Zenon, <2>1 DEF InsEmpty, At
    <3>2. QED
      BY Zenon, <2>1, <3>1, InsEmptyInserts, InsertPlaces
  <2>2. CASE InsFirst
    <3>1. fault = "none" /\ pc \in {"ins", "scan"} /\ InsReturn
      BY Zenon, <2>2 DEF InsFirst, At
    <3>2. QED
      BY Zenon, <2>2, <3>1, InsFirstInserts, InsertPlaces
  <2>3. CASE InsLast
    <3>1. fault = "none" /\ pc \in {"ins", "scan"} /\ InsReturn
      BY Zenon, <2>3 DEF InsLast, At
    <3>2. QED
      BY Zenon, <2>3, <3>1, InsLastInserts, InsertPlaces
  <2>4. CASE ScanInsert
    <3>1. fault = "none" /\ pc \in {"ins", "scan"} /\ InsReturn
      BY Zenon, <2>4 DEF ScanInsert, At
    <3>2. QED
      BY Zenon, <2>4, <3>1, ScanInsertInserts, InsertPlaces
  <2>5. CASE InsMiddle \/ ScanStep
    BY Zenon, <2>5, <1>1 DEF InsMiddle, ScanStep, At, actQ, desc
  <2>6. QED
    BY Zenon, <1>2, <2>1, <2>2, <2>3, <2>4, <2>5 DEF InsStep
<1>3. CASE Request
  <2>1. CASE \E q \in Prty : MRT_prtylvl_set(q)
    BY Zenon, <2>1, <1>1 DEF MRT_prtylvl_set, At, actQ, desc, insvars
  <2>2. QED
    BY Zenon, <1>3, <2>1, AllocPlaces, VTSETPlaces, StopPlaces, FreePlaces DEF Request
<1>4. CASE Tick
  BY Zenon, <1>1, <1>4 DEF Tick, At, desc, insvars
<1>5. CASE ClockStep
  BY Zenon, <1>1, <1>5, ClockExpirePlaces DEF ClockStep, ClockReturn, At, actQ, desc, insvars
<1>6. CASE FlushStep
  BY Zenon, <1>1, <1>6, RunPlaces DEF FlushStep, FlushList, FlushReturn, NextPrty, At, actQ, desc, insvars
<1>7. CASE Handlers
  BY Zenon, <1>1, <1>7 DEF Handlers, At, actQ, desc, insvars
<1>8. CASE Halted
  BY Zenon, <1>8 DEF Halted, vars, actQ, desc, insvars, IInv, Places
<1>9. QED
  BY Zenon, <1>2, <1>3, <1>4, <1>5, <1>6, <1>7, <1>8 DEF Next


-----------------------------------------------------------------------------
(* Where a return goes, and what becomes of the local of the flush.        *)
LEMMA ReturnFacts ==
  ASSUME TypeOK, NEW to \in {"user", "irq", "list"}, Return(to)
  PROVE  /\ to = "user" => pc' \in {"user", "flush"} /\ p' = 1
         /\ to # "user" => pc' = to /\ p' = p
         /\ pc' \in {"user", "flush", "irq", "list"} /\ p' \in 1 .. NR_PRTY
<1>1. 1 \in 1 .. NR_PRTY
  BY PrtyAssumption
<1>2. QED
  BY Zenon, <1>1 DEF Return, TypeOK

(* Removing a timer brings the first expiration no nearer.                 *)
LEMMA RmvEarliest ==
  ASSUME TypeOK, Queue, NEW i \in 1 .. Len(list), MRT_vtimer_rmv(i), earliest > 0, list' # << >>
  PROVE  earliest' > 0
<1>1. list \in Seq(VT) /\ list[i] \in VT /\ Len(list) \in Nat
  BY Zenon, SeqFacts DEF TypeOK
<1>2. Len(list) # 1
  <2>1. Removed(list, list', i)
    BY Zenon, <1>1, SeqRemoveRemoves DEF MRT_vtimer_rmv
  <2>2. list' \in Seq(VT) /\ Len(list') = Len(list) - 1
    BY Zenon, <2>1 DEF Removed
  <2>3. Len(list') > 0
    BY <2>2, EmptyQueue
  <2>4. QED
    BY <2>2, <2>3, <1>1
<1>3. nextexp[list[i]] \in Nat /\ earliest \in Nat
  BY Zenon, <1>1 DEF TypeOK
<1>4. earliest' = earliest + nextexp[list[i]] \/ earliest' = earliest
  BY Zenon, <1>2 DEF MRT_vtimer_rmv
<1>5. QED
  BY <1>3, <1>4

(* The control part for the steps that end an insertion.                   *)
LEMMA InsReturnControl ==
  ASSUME IInv, InsReturn, pc \in {"ins", "scan"}, earliest' > 0
  PROVE  Control'
<1>1. TypeOK /\ ret \in {"user", "irq", "list"} /\ (ret # "user" => p < NR_PRTY)
  BY Zenon DEF IInv, TypeOK, Control
<1>2. pvt' = NoVT /\ ret' = "user" /\ Return(ret)
  BY Zenon DEF InsReturn
<1>3. CASE ret = "user"
  <2>1. pc' \in {"user", "flush"}
    BY Zenon, <1>1, <1>2, <1>3, ReturnFacts
  <2>2. QED
    BY Zenon, <2>1, <1>2 DEF Control
<1>4. CASE ret # "user"
  <2>1. pc' \in {"irq", "list"} /\ p' < NR_PRTY
    BY Zenon, <1>1, <1>2, <1>4, ReturnFacts
  <2>2. QED
    BY Zenon, <2>1, <1>2 DEF Control
<1>5. QED
  BY Zenon, <1>3, <1>4

(* The scan stays on the queue and has not passed the timer's place.       *)
LEMMA ScanControl ==
  ASSUME IInv, ScanStep
  PROVE  Control' /\ plnext' \in Nat /\ ticksum' \in Nat
<1> DEFINE n == Len(list)
           k == plnext
<1>1. /\ pc = "scan" /\ pc' = pc /\ ret' = ret /\ p' = p /\ pvt' = pvt
      /\ list' = list /\ due' = due /\ earliest' = earliest /\ maxper' = maxper /\ period' = period
      /\ ticksum <= period[pvt] /\ k < n
      /\ ticksum' = ticksum + nextexp[list[k]] /\ plnext' = k + 1
  BY Zenon DEF ScanStep, ScanMore, At, control, actQ, desc
<1>2. /\ k \in 1 .. n /\ ticksum = due[list[k]]
      /\ earliest <= period[pvt] /\ period[pvt] < maxper + earliest
  BY Zenon, <1>1 DEF IInv, Control
<1>3. n \in Nat /\ list \in Seq(VT) /\ \A i \in 1 .. n : list[i] \in VT
  BY Zenon, SeqFacts DEF IInv, TypeOK
<1>4. k \in 1 .. n - 1 /\ k + 1 \in 1 .. n /\ (k + 1) - 1 = k /\ k + 1 \in Nat
  BY <1>1, <1>2, <1>3
<1>5. due[list[k + 1]] = due[list[k]] + nextexp[list[k]] /\ due[list[k + 1]] \in Nat
  BY Zenon, <1>4 DEF IInv, Queue, Chain
<1>6. ticksum' = due[list[k + 1]] /\ ticksum' \in Nat
  BY Zenon, <1>1, <1>2, <1>5
<1>7. plnext' \in 1 .. Len(list') /\ ticksum' = due'[list'[plnext']]
  BY Zenon, <1>1, <1>4, <1>6
<1>8. due'[list'[plnext' - 1]] <= period'[pvt']
  <2>1. plnext' - 1 = k
    BY Zenon, <1>1, <1>4
  <2>2. due'[list'[plnext' - 1]] = ticksum
    BY Zenon, <2>1, <1>1, <1>2
  <2>3. QED
    BY Zenon, <2>2, <1>1
<1>9. /\ pvt # NoVT /\ earliest > 0 /\ (ret # "user" => p < NR_PRTY)
  BY <1>1, <1>3, <1>4, EmptyQueue DEF IInv, Control
<1>10. QED
  BY Zenon, <1>1, <1>2, <1>4, <1>6, <1>7, <1>8, <1>9 DEF Control

(* Every step keeps the control part.                                      *)
LEMMA ControlStep ==
  ASSUME IInv, Next
  PROVE  Control'
<1>1. /\ TypeOK /\ Queue /\ Control /\ ret \in {"user", "irq", "list"} /\ p \in 1 .. NR_PRTY
      /\ list \in Seq(VT) /\ earliest \in Nat
  BY Zenon DEF IInv, TypeOK
<1>2. 1 \in Nat /\ (p < NR_PRTY => 1 < NR_PRTY)
  BY <1>1, PrtyAssumption
<1>3. CASE InsStep
  <2>1. CASE InsEmpty \/ InsFirst
    <3>1. pc \in {"ins", "scan"} /\ InsReturn /\ earliest' = period[pvt]
      BY Zenon, <2>1 DEF InsEmpty, InsFirst, At
    <3>2. QED
      BY Zenon, <3>1, InsertFacts, InsReturnControl
  <2>2. CASE InsLast
    <3>1. pc \in {"ins", "scan"} /\ InsReturn /\ earliest' = earliest /\ list # << >>
      BY Zenon, <2>2 DEF InsLast, At
    <3>2. earliest > 0
      BY Zenon, <3>1, <1>1 DEF Control
    <3>3. QED
      BY Zenon, <3>1, <3>2, InsReturnControl
  <2>3. CASE ScanInsert
    <3>1. pc = "scan" /\ InsReturn /\ earliest' = earliest
      BY Zenon, <2>3 DEF ScanInsert, At
    <3>2. list # << >>
      <4>1. plnext \in 1 .. Len(list)
        BY Zenon, <3>1, <1>1 DEF Control
      <4>2. QED
        BY <4>1, <1>1, EmptyQueue
    <3>3. earliest > 0
      BY Zenon, <3>1, <3>2, <1>1 DEF Control
    <3>4. QED
      BY Zenon, <3>1, <3>3, InsReturnControl
  <2>4. CASE InsMiddle
    <3>1. /\ pc = "ins" /\ pc' = "scan" /\ ticksum' = earliest /\ plnext' = 1 /\ pvt' = pvt
          /\ ret' = ret /\ p' = p /\ list # << >> /\ earliest <= period[pvt]
          /\ maxper + earliest > period[pvt]
          /\ list' = list /\ due' = due /\ earliest' = earliest /\ maxper' = maxper /\ period' = period
      BY Zenon, <2>4 DEF InsMiddle, At, actQ, desc
    <3>2. Len(list) \in Nat /\ Len(list) > 0
      BY <3>1, <1>1, EmptyQueue
    <3>3. 1 \in 1 .. Len(list) /\ ~(1 > 1)
      BY <3>2
    <3>4. due[list[1]] = earliest
      BY Zenon, <3>2, <1>1 DEF Queue, Chain
    <3>5. period[pvt] < maxper + earliest
      <4>1. period[pvt] \in Nat /\ maxper \in Nat
        BY Zenon, <3>1, InsertFacts DEF IInv, TypeOK
      <4>2. QED
        BY Zenon, <4>1, <3>1, <1>1
    <3>6. QED
      BY Zenon, <3>1, <3>3, <3>4, <3>5, <1>1 DEF Control
  <2>5. QED
    BY Zenon, <1>3, <2>1, <2>2, <2>3, <2>4, ScanControl DEF InsStep
<1>4. CASE Request
  <2>1. ASSUME NEW v \in VT, Unlink(v), earliest > 0, list' # << >> PROVE earliest' > 0
    BY Zenon, <2>1, <1>1, RmvEarliest DEF Unlink
  <2>2. CASE \E v \in VT : Stop(v)
    <3>1. PICK v \in VT : Stop(v)
      BY Zenon, <2>2
    <3>2. (pc = "user" \/ pc = "irq") /\ Return(pc) /\ ret' = ret /\ pvt' = pvt
      BY Zenon, <3>1 DEF Stop, At, insvars
    <3>3. list' # << >> => earliest' > 0
      <4>1. CASE Unlink(v)
        <5>1. list # << >> /\ earliest > 0
          <6>1. PICK i \in 1 .. Len(list) : list[i] = v
            BY Zenon, <4>1 DEF Unlink
          <6>2. list # << >>
            BY <6>1, <1>1, EmptyQueue
          <6>3. QED
            BY Zenon, <6>2, <3>2, <1>1 DEF Control
        <5>2. QED
          BY Zenon, <5>1, <4>1, <2>1
      <4>2. CASE UNCHANGED actQ
        BY Zenon, <4>2, <3>2, <1>1 DEF Control, actQ
      <4>3. QED
        BY Zenon, <3>1, <4>1, <4>2 DEF Stop, MRT_vtimer_stop
    <3>4. /\ pc = "user" => pc' \in {"user", "flush"} /\ p' = 1
          /\ pc = "irq" => pc' = "irq" /\ p' = p
      BY Zenon, <3>2, <1>1, ReturnFacts
    <3>5. QED
      BY Zenon, <3>2, <3>3, <3>4, <1>1 DEF Control
  <2>3. CASE \E v \in VT : MRT_vtimer_free(v)
    <3>1. PICK v \in VT : MRT_vtimer_free(v)
      BY Zenon, <2>3
    <3>2. pc = "user" /\ Return("user") /\ ret' = ret /\ pvt' = pvt
      BY Zenon, <3>1 DEF MRT_vtimer_free, At, insvars
    <3>3. list' # << >> => earliest' > 0
      <4>1. CASE Unlink(v)
        <5>1. list # << >> /\ earliest > 0
          <6>1. PICK i \in 1 .. Len(list) : list[i] = v
            BY Zenon, <4>1 DEF Unlink
          <6>2. list # << >>
            BY <6>1, <1>1, EmptyQueue
          <6>3. QED
            BY Zenon, <6>2, <3>2, <1>1 DEF Control
        <5>2. QED
          BY Zenon, <5>1, <4>1, <2>1
      <4>2. CASE UNCHANGED actQ
        BY Zenon, <4>2, <3>2, <1>1 DEF Control, actQ
      <4>3. QED
        BY Zenon, <3>1, <4>1, <4>2 DEF MRT_vtimer_free
    <3>4. pc' \in {"user", "flush"} /\ p' = 1
      BY Zenon, <3>2, <1>1, ReturnFacts
    <3>5. QED
      BY Zenon, <3>2, <3>3, <3>4, <1>1 DEF Control
  <2>4. CASE \E pty \in TimerPrty : AllocIpc(pty)
    <3>1. pc = "user" /\ Return("user") /\ ret' = ret /\ pvt' = pvt /\ list' = list /\ earliest' = earliest
      BY Zenon, <2>4 DEF AllocIpc, At, insvars, actQ
    <3>2. pc' \in {"user", "flush"} /\ p' = 1
      BY Zenon, <3>1, <1>1, ReturnFacts
    <3>3. QED
      BY Zenon, <3>1, <3>2, <1>1 DEF Control
  <2>5. CASE \E q \in Prty : MRT_prtylvl_set(q)
    <3>1. pc = "user" /\ Return("user") /\ ret' = ret /\ pvt' = pvt /\ list' = list /\ earliest' = earliest
      BY Zenon, <2>5 DEF MRT_prtylvl_set, At, insvars, actQ
    <3>2. pc' \in {"user", "flush"} /\ p' = 1
      BY Zenon, <3>1, <1>1, ReturnFacts
    <3>3. QED
      BY Zenon, <3>1, <3>2, <1>1 DEF Control
  <2>6. CASE \E pty \in TimerPrty, per \in Periods : AllocIrq(per, pty)
    <3>1. /\ pc = "user" /\ pc' = "ins" /\ ret' = "user" /\ pvt' = Head(freeQ)
          /\ list' = list /\ earliest' = earliest /\ freeQ # << >>
      BY Zenon, <2>6 DEF AllocIrq, At, actQ
    <3>2. pvt' # NoVT
      BY <3>1, TailRemoves, VTAssumption DEF IInv, TypeOK
    <3>3. QED
      BY Zenon, <3>1, <3>2, <1>1 DEF Control
  <2>7. CASE \E v \in VT, per \in Periods, act \in Waits, pty \in TimerPrty : VTSET(v, per, act, pty)
    <3>1. /\ pc = "user" /\ pc' = "ins" /\ ret' = "user" /\ pvt' \in VT
          /\ list' = list /\ earliest' = earliest
      BY Zenon, <2>7 DEF VTSET, At, actQ
    <3>2. pvt' # NoVT
      BY Zenon, <3>1, VTAssumption
    <3>3. QED
      BY Zenon, <3>1, <3>2, <1>1 DEF Control
  <2>8. QED
    BY Zenon, <1>4, <2>2, <2>3, <2>4, <2>5, <2>6, <2>7 DEF Request
<1>5. CASE Tick
  <2>1. (pc = "user" \/ pc = "irq") /\ pvt' = pvt /\ list' = list /\ list # << >> /\ earliest' = earliest - 1
    BY Zenon, <1>5 DEF Tick, At, insvars
  <2>2. earliest > 0 /\ pvt = NoVT /\ ret = "user"
    BY Zenon, <2>1, <1>1 DEF Control
  <2>3. CASE earliest = 1
    <3>1. pc' = "clock" /\ ret' = pc /\ p' = p
      BY Zenon, <2>3, <1>5 DEF Tick
    <3>2. QED
      BY Zenon, <3>1, <2>1, <2>2, <1>1 DEF Control
  <2>4. CASE earliest # 1
    <3>1. Return(pc) /\ ret' = ret /\ earliest' > 0
      BY <2>1, <2>2, <2>4, <1>1, <1>5 DEF Tick
    <3>2. /\ pc = "user" => pc' \in {"user", "flush"} /\ p' = 1
          /\ pc = "irq" => pc' = "irq" /\ p' = p
      BY Zenon, <3>1, <2>1, <1>1, ReturnFacts
    <3>3. QED
      BY Zenon, <3>1, <3>2, <2>1, <2>2, <1>1 DEF Control
  <2>5. QED
    BY Zenon, <2>3, <2>4
<1>6. CASE ClockStep
  <2>1. CASE ClockExpire
    <3>1. pc = "clock" /\ pc' = pc /\ ret' = ret /\ p' = p /\ pvt' = pvt
      BY Zenon, <2>1 DEF ClockExpire, At, control, insvars
    <3>2. QED
      BY Zenon, <3>1, <1>1 DEF Control
  <2>2. CASE ClockReturn
    <3>1. /\ pc = "clock" /\ Return(ret) /\ ret' = "user" /\ pvt' = pvt /\ list' = list
          /\ earliest' = earliest /\ (list = << >> \/ earliest # 0)
      BY Zenon, <2>2 DEF ClockReturn, At, insvars, actQ
    <3>2. list # << >> => earliest > 0
      BY <3>1, <1>1
    <3>3. QED
      BY Zenon, <3>1, <3>2, <1>1, ReturnFacts DEF Control
  <2>3. QED
    BY Zenon, <1>6, <2>1, <2>2 DEF ClockStep
<1>7. CASE FlushStep
  <2>1. CASE FlushList
    <3>1. /\ pc = "flush" /\ pc' = "list" /\ ret' = ret /\ p' = p /\ pvt' = pvt
          /\ list' = list /\ earliest' = earliest /\ p <= prtylvl
      BY Zenon, <2>1 DEF FlushList, At, insvars, actQ
    <3>2. p < NR_PRTY
      BY <3>1, <1>1, PrtyAssumption DEF TypeOK, Prty
    <3>3. QED
      BY Zenon, <3>1, <3>2, <1>1 DEF Control
  <2>2. CASE FlushReturn
    <3>1. /\ pc = "flush" /\ pc' = "user" /\ ret' = ret /\ p' = 1 /\ pvt' = pvt
          /\ list' = list /\ earliest' = earliest
      BY Zenon, <2>2 DEF FlushReturn, At, insvars, actQ
    <3>2. QED
      BY Zenon, <3>1, <1>1 DEF Control
  <2>3. CASE MRT_vtimer_run
    <3>1. /\ pc = "list" /\ p' = p /\ list' = list /\ earliest' = earliest
          /\ \/ pc' = "ins" /\ ret' = "list" /\ pvt' = Head(expQ[p])
             \/ pc' = pc /\ ret' = ret /\ pvt' = pvt
      BY Zenon, <2>3 DEF MRT_vtimer_run, At, actQ
    <3>2. Head(expQ[p]) # NoVT
      BY Zenon, <2>3, RunPlaces, VTAssumption
    <3>3. QED
      BY Zenon, <3>1, <3>2, <1>1 DEF Control
  <2>4. CASE NextPrty
    <3>1. /\ pc \in {"list", "irq"} /\ pc' = "flush" /\ ret' = ret /\ pvt' = pvt
          /\ list' = list /\ earliest' = earliest
      BY Zenon, <2>4 DEF NextPrty, At, insvars, actQ
    <3>2. QED
      BY Zenon, <3>1, <1>1 DEF Control
  <2>5. QED
    BY Zenon, <1>7, <2>1, <2>2, <2>3, <2>4 DEF FlushStep
<1>8. CASE Handlers
  <2>1. /\ pc = "list" /\ pc' = "irq" /\ ret' = ret /\ p' = p /\ pvt' = pvt
        /\ list' = list /\ earliest' = earliest
    BY Zenon, <1>8 DEF Handlers, At, insvars, actQ
  <2>2. QED
    BY Zenon, <2>1, <1>1 DEF Control
<1>9. CASE Halted
  BY Zenon, <1>1, <1>9 DEF Halted, vars, actQ, desc, insvars, control, Control
<1>10. QED
  BY Zenon, <1>3, <1>4, <1>5, <1>6, <1>7, <1>8, <1>9 DEF Next

-----------------------------------------------------------------------------
(* Every step keeps the types; those of the active queue are in QueueStep. *)
LEMMA TypeStep ==
  ASSUME IInv, Next
  PROVE  TypeOK'
<1> DEFINE T1 == freeQ \in Seq(VT) /\ expQ \in [Prty -> Seq(VT)]
           T2 == /\ flags \in [VT -> {"VT_ALLOC", "VT_FREEQ", "VT_ACTIVEQ"}]
                 /\ period \in [VT -> {0, 1} \cup Periods]
                 /\ limit \in [VT -> {0, 1}]
                 /\ action \in [VT -> {"NONE", "IRQTRIG", "TIMEOUT", "WAKEUP"}]
                 /\ priority \in [VT -> Prty]
                 /\ expired \in [VT -> 0 .. ExpiredMax]
           T3 == prtylvl \in Prty /\ needsched \in BOOLEAN /\ newint \in BOOLEAN
           T4 == /\ pc \in {"user", "ins", "scan", "clock", "flush", "list", "irq"}
                 /\ ret \in {"user", "irq", "list"} /\ p \in 1 .. NR_PRTY
           T5 == pvt \in VT \cup {NoVT} /\ plnext \in Nat /\ ticksum \in Nat
           T6 == fault \in {"none", "link", "this"}
<1>1. T1 /\ T2 /\ T3 /\ T4 /\ T5 /\ T6 /\ TypeOK
  BY Zenon DEF IInv, TypeOK
<1>2. /\ list' \in Seq(VT) /\ earliest' \in Nat /\ maxper' \in Nat
      /\ nextexp' \in [VT -> Nat] /\ due' \in [VT -> Nat \cup {Off}]
  BY Zenon, QueueStep DEF Queue, ChainType
<1>3. SUFFICES T1' /\ T2' /\ T3' /\ T4' /\ T5' /\ T6'
  BY Zenon, <1>2 DEF TypeOK
<1>4. TimerPrty \subseteq Prty /\ PRILOWEST \in Prty
  BY PrtyAssumption DEF TimerPrty, PRILOWEST, Prty
<1>5. ASSUME UNCHANGED <<freeQ, expQ>> PROVE T1'
  BY Zenon, <1>1, <1>5
<1>6. ASSUME UNCHANGED desc PROVE T2'
  BY Zenon, <1>1, <1>6 DEF desc
<1>7. ASSUME UNCHANGED sched PROVE T3'
  BY Zenon, <1>1, <1>7 DEF sched
<1>8. ASSUME UNCHANGED insvars PROVE T5'
  BY Zenon, <1>1, <1>8 DEF insvars
<1>9. ASSUME UNCHANGED fault PROVE T6'
  BY Zenon, <1>1, <1>9
<1>10. ASSUME NEW v, LinkAgain(v) \/ ReadThis(v) \/ ResetLink(v) PROVE T6'
  BY Zenon, <1>1, <1>10 DEF LinkAgain, ReadThis, ResetLink
<1>11. ASSUME NEW v, Unlink(v) PROVE T6'
  BY Zenon, <1>9, <1>10, <1>11 DEF Unlink
<1>12. ASSUME NEW to \in {"user", "irq", "list"}, Return(to), ret' \in {"user", "irq", "list"} PROVE T4'
  BY Zenon, <1>1, <1>12, ReturnFacts
<1>13. CASE InsStep
  <2>1. CASE InsEmpty \/ InsFirst \/ InsLast \/ ScanInsert
    <3>1. InsReturn
      BY Zenon, <2>1 DEF InsEmpty, InsFirst, InsLast, ScanInsert
    <3>2a. T5'
      BY Zenon, <3>1 DEF InsReturn
    <3>2. T1' /\ T2' /\ T3'
      BY Zenon, <3>1, <1>5, <1>6, <1>7 DEF InsReturn
    <3>3. T4'
      BY Zenon, <3>1, <1>1, <1>12 DEF InsReturn
    <3>4. T6'
      BY Zenon, <2>1, <1>9, <1>10 DEF InsEmpty, InsFirst, InsLast, ScanInsert
    <3>5. QED
      BY Zenon, <3>2, <3>2a, <3>3, <3>4
  <2>2. CASE InsMiddle
    <3>1. T5' /\ T4'
      <4>1. earliest \in Nat
        BY Zenon DEF IInv, TypeOK
      <4>2. QED
        BY Zenon, <2>2, <4>1, <1>1 DEF InsMiddle
    <3>2. QED
      BY Zenon, <2>2, <3>1, <1>5, <1>6, <1>7, <1>9 DEF InsMiddle
  <2>3. CASE ScanStep
    <3>1. T5' /\ T4'
      BY Zenon, <2>3, <1>1, ScanControl DEF ScanStep, control
    <3>2. QED
      BY Zenon, <2>3, <3>1, <1>5, <1>6, <1>7, <1>10 DEF ScanStep
  <2>4. QED
    BY Zenon, <1>13, <2>1, <2>2, <2>3 DEF InsStep
<1>14. CASE Request
  <2>1. ASSUME NEW v \in VT, Stop(v) PROVE T1' /\ T2' /\ T3' /\ T4' /\ T5' /\ T6'
    <3>1. T1' /\ T3' /\ T5'
      BY Zenon, <2>1, <1>5, <1>7, <1>8 DEF Stop
    <3>2. T2'
      BY Zenon, <2>1, <1>1 DEF Stop, MRT_vtimer_stop
    <3>3. T4'
      BY Zenon, <2>1, <1>1, <1>12 DEF Stop, At
    <3>4. T6'
      BY Zenon, <2>1, <1>10, <1>11 DEF Stop, MRT_vtimer_stop
    <3>5. QED
      BY Zenon, <3>1, <3>2, <3>3, <3>4
  <2>2. ASSUME NEW v \in VT, MRT_vtimer_free(v) PROVE T1' /\ T2' /\ T3' /\ T4' /\ T5' /\ T6'
    <3>1. T3' /\ T5'
      BY Zenon, <2>2, <1>7, <1>8 DEF MRT_vtimer_free
    <3>2. T1'
      BY <2>2, <1>1 DEF MRT_vtimer_free
    <3>3. T2'
      BY Zenon, <2>2, <1>1, <1>4 DEF MRT_vtimer_free
    <3>4. T4'
      BY Zenon, <2>2, <1>1, <1>12 DEF MRT_vtimer_free
    <3>5. T6'
      BY Zenon, <2>2, <1>10, <1>11 DEF MRT_vtimer_free
    <3>6. QED
      BY Zenon, <3>1, <3>2, <3>3, <3>4, <3>5
  <2>3. ASSUME NEW v \in VT, NEW per \in Periods, NEW act \in Waits, NEW pty \in TimerPrty,
               VTSET(v, per, act, pty)
        PROVE  T1' /\ T2' /\ T3' /\ T4' /\ T5' /\ T6'
    <3>1. T1' /\ T3' /\ T4' /\ T5'
      BY Zenon, <2>3, <1>1, <1>5, <1>7 DEF VTSET
    <3>2. act \in {"TIMEOUT", "WAKEUP"} /\ pty \in Prty
      BY Zenon, <1>4, VTAssumption
    <3>3. T2'
      BY Zenon, <2>3, <3>2, <1>1 DEF VTSET
    <3>4. T6'
      BY Zenon, <2>3, <1>10 DEF VTSET
    <3>5. QED
      BY Zenon, <3>1, <3>3, <3>4
  <2>4. ASSUME NEW pty \in TimerPrty, NEW per \in {1} \cup Periods, NEW act \in {"NONE", "IRQTRIG"},
               freeQ # << >>, MRT_vtimer_alloc(per, act, pty)
        PROVE  /\ freeQ' \in Seq(VT) /\ Head(freeQ) \in VT
               /\ period' \in [VT -> {0, 1} \cup Periods]
               /\ limit' \in [VT -> {0, 1}]
               /\ action' \in [VT -> {"NONE", "IRQTRIG", "TIMEOUT", "WAKEUP"}]
               /\ priority' \in [VT -> Prty]
    <3>1. freeQ' \in Seq(VT) /\ Head(freeQ) \in VT
      BY <2>4, <1>1 DEF MRT_vtimer_alloc
    <3>2. QED
      BY Zenon, <2>4, <3>1, <1>1, <1>4 DEF MRT_vtimer_alloc
  <2>5. ASSUME NEW pty \in TimerPrty, AllocIpc(pty) PROVE T1' /\ T2' /\ T3' /\ T4' /\ T5' /\ T6'
    <3>1. T3' /\ T5' /\ T6'
      BY Zenon, <2>5, <1>7, <1>8, <1>9 DEF AllocIpc
    <3>2. T4'
      BY Zenon, <2>5, <1>1, <1>12 DEF AllocIpc
    <3>3. T1' /\ T2'
      BY Zenon, <2>5, <2>4, <1>1 DEF AllocIpc
    <3>4. QED
      BY Zenon, <3>1, <3>2, <3>3
  <2>6. ASSUME NEW pty \in TimerPrty, NEW per \in Periods, AllocIrq(per, pty)
        PROVE  T1' /\ T2' /\ T3' /\ T4' /\ T5' /\ T6'
    <3>1. T3' /\ T4' /\ T6'
      BY Zenon, <2>6, <1>1, <1>7, <1>9 DEF AllocIrq
    <3>2. T1' /\ T2' /\ T5'
      BY Zenon, <2>6, <2>4, <1>1 DEF AllocIrq
    <3>3. QED
      BY Zenon, <3>1, <3>2
  <2>7. ASSUME NEW q \in Prty, MRT_prtylvl_set(q) PROVE T1' /\ T2' /\ T3' /\ T4' /\ T5' /\ T6'
    <3>1. T4'
      BY Zenon, <2>7, <1>1, <1>12 DEF MRT_prtylvl_set
    <3>2. T3'
      BY Zenon, <2>7, <1>1 DEF MRT_prtylvl_set
    <3>3. QED
      BY Zenon, <2>7, <3>1, <3>2, <1>5, <1>6, <1>8, <1>9 DEF MRT_prtylvl_set
  <2> HIDE DEF T1, T2, T3, T4, T5, T6
  <2>8. QED
    BY Zenon, <1>14, <2>1, <2>2, <2>3, <2>5, <2>6, <2>7 DEF Request
<1>15. CASE Tick
  <2>1. T4'
    BY Zenon, <1>1, <1>12, <1>15 DEF Tick, At
  <2>2. QED
    BY Zenon, <2>1, <1>5, <1>6, <1>7, <1>8, <1>9, <1>15 DEF Tick
<1>16. CASE ClockExpire
  <2>1. list[1] \in VT
    BY Zenon, <1>1, <1>16, ClockExpireStep, QueueTypes
  <2>2. T1'
    <3>1. priority[list[1]] \in Prty
      BY Zenon, <2>1, <1>1
    <3>2. Append(expQ[priority[list[1]]], list[1]) \in Seq(VT)
      BY <2>1, <3>1, <1>1
    <3>3. QED
      BY Zenon, <3>1, <3>2, <1>1, <1>16 DEF ClockExpire, QAppend
  <2>3. T2'
    BY Zenon, <2>1, <1>1, <1>16 DEF ClockExpire
  <2>4. T4'
    BY Zenon, <1>1, <1>16 DEF ClockExpire, control
  <2>5. QED
    BY Zenon, <2>2, <2>3, <2>4, <1>7, <1>8, <1>10, <1>16 DEF ClockExpire
<1>17. CASE ClockReturn
  <2>1. T4'
    BY Zenon, <1>1, <1>12, <1>17 DEF ClockReturn
  <2>2. QED
    BY Zenon, <2>1, <1>5, <1>6, <1>7, <1>8, <1>9, <1>17 DEF ClockReturn
<1>18. CASE FlushList
  <2>1. T4'
    BY Zenon, <1>1, <1>18 DEF FlushList
  <2>2. QED
    BY Zenon, <2>1, <1>5, <1>6, <1>7, <1>8, <1>9, <1>18 DEF FlushList
<1>19. CASE FlushReturn
  <2>1. T4'
    BY <1>1, <1>19, PrtyAssumption DEF FlushReturn
  <2>2. QED
    BY Zenon, <2>1, <1>5, <1>6, <1>7, <1>8, <1>9, <1>19 DEF FlushReturn
<1>20. CASE MRT_vtimer_run
  <2>1. p \in Prty /\ Head(expQ[p]) \in VT /\ expQ' \in [Prty -> Seq(VT)]
    BY Zenon, <1>20, RunPlaces
  <2>2. T1' /\ T4'
    BY Zenon, <2>1, <1>1, <1>20 DEF MRT_vtimer_run
  <2>3. expired' \in [VT -> 0 .. ExpiredMax]
    <3> DEFINE h == Head(expQ[p])
               e == IF expired[h] = ExpiredMax THEN expired[h] ELSE expired[h] + 1
    <3>1. expired' = [expired EXCEPT ![h] = e]
      BY Zenon, <1>20 DEF MRT_vtimer_run
    <3>2. expired \in [VT -> 0 .. ExpiredMax] /\ h \in VT
      BY Zenon, <2>1, <1>1
    <3>3. e \in 0 .. ExpiredMax
      BY <3>2 DEF ExpiredMax
    <3> HIDE DEF e, h
    <3>4. QED
      BY Zenon, <3>1, <3>2, <3>3
  <2>4. T2'
    BY Zenon, <2>1, <2>3, <1>1, <1>20 DEF MRT_vtimer_run
  <2>5. T3'
    BY Zenon, <1>1, <1>20 DEF MRT_vtimer_run
  <2>6. T5'
    BY Zenon, <2>1, <1>1, <1>20 DEF MRT_vtimer_run
  <2>7. QED
    BY Zenon, <2>2, <2>4, <2>5, <2>6, <1>9, <1>20 DEF MRT_vtimer_run
<1>21. CASE NextPrty
  <2>1. p < NR_PRTY
    BY Zenon, <1>21 DEF NextPrty, At, IInv, Control
  <2>2. p' = 1 \/ p' = p + 1
    BY Zenon, <1>21 DEF NextPrty
  <2>3. p' \in 1 .. NR_PRTY
    BY <2>1, <2>2, <1>1, PrtyAssumption
  <2>4. T4'
    BY Zenon, <2>3, <1>1, <1>21 DEF NextPrty
  <2>5. T3'
    BY Zenon, <1>1, <1>21 DEF NextPrty
  <2>6. QED
    BY Zenon, <2>4, <2>5, <1>5, <1>6, <1>8, <1>9, <1>21 DEF NextPrty
<1>22. CASE Handlers
  <2>1. T4' /\ T3'
    BY Zenon, <1>1, <1>22 DEF Handlers
  <2>2. QED
    BY Zenon, <2>1, <1>5, <1>6, <1>8, <1>9, <1>22 DEF Handlers
<1>23. CASE Halted
  <2>1. T4'
    BY Zenon, <1>1, <1>23 DEF Halted, vars, control
  <2>2. QED
    BY Zenon, <2>1, <1>5, <1>6, <1>7, <1>8, <1>9, <1>23 DEF Halted, vars
<1> HIDE DEF T1, T2, T3, T4, T5, T6
<1>24. QED
  BY Zenon, <1>13, <1>14, <1>15, <1>16, <1>17, <1>18, <1>19, <1>20, <1>21, <1>22, <1>23
     DEF Next, ClockStep, FlushStep

-----------------------------------------------------------------------------
(* The inductive invariant holds after the initialisation.                 *)
LEMMA InitIInv ==
  ASSUME Cardinality(VT) \in Nat, Init
  PROVE  IInv
<1>1. IsFiniteSet(VT) /\ NoVT \notin VT
  BY Zenon, VTAssumption
<1>2. /\ freeQ \in [1 .. Cardinality(VT) -> VT]
      /\ \A i, j \in DOMAIN freeQ : freeQ[i] = freeQ[j] => i = j
  BY Zenon DEF Init, MRT_vtimer_init
<1>3. Cardinality(VT) \in Nat
  BY Zenon
<1>4. freeQ \in Seq(VT) /\ Len(freeQ) = Cardinality(VT)
  BY <1>2, <1>3
<1>5. Inj(freeQ)
  <2>1. DOMAIN freeQ = 1 .. Len(freeQ)
    BY Zenon, <1>2, <1>4
  <2>2. QED
    BY Zenon, <2>1, <1>2 DEF Inj
<1>6. /\ list = << >> /\ earliest = 0 /\ maxper = 0 /\ expQ = [q \in Prty |-> << >>]
      /\ nextexp = [v \in VT |-> 0] /\ due = [v \in VT |-> Off]
      /\ flags = [v \in VT |-> "VT_ALLOC"] /\ pvt = NoVT /\ pc = "user" /\ ret = "user" /\ p = 1
  BY Zenon DEF Init, MRT_timerQ_init, MRT_vtimer_init, QEmpty
<1>7. << >> \in Seq(VT) /\ Len(<< >>) = 0 /\ \A i : ~(i \in 1 .. 0)
  BY EmptyQueue
<1>8. Mem(<< >>) = {} /\ Inj(<< >>)
  BY Zenon, <1>7 DEF Mem, Inj
<1>9. TypeOK
  <2>1. PRILOWEST \in Prty /\ 1 \in 1 .. NR_PRTY /\ 0 \in 0 .. ExpiredMax
    BY PrtyAssumption DEF PRILOWEST, Prty, ExpiredMax
  <2>2. expQ \in [Prty -> Seq(VT)] /\ list \in Seq(VT) /\ freeQ \in Seq(VT)
    BY Zenon, <1>4, <1>6, <1>7
  <2>3. nextexp \in [VT -> Nat] /\ due \in [VT -> Nat \cup {Off}]
    BY Zenon, <1>6
  <2>4. QED
    BY Zenon, <2>1, <2>2, <2>3, <1>6 DEF TypeOK, Init, MRT_vtimer_init
<1>10. Queue
  <2>1. ChainType(list, due, nextexp, earliest, maxper)
    BY Zenon, <1>9 DEF ChainType, TypeOK
  <2>2. \A v \in VT : due[v] = Off
    BY Zenon, <1>6
  <2>3. Len(list) = 0
    BY Zenon, <1>6, <1>7
  <2>4. QED
    BY <2>1, <2>2, <2>3, <1>7 DEF Queue, Chain
<1>11. Places
  <2>1. \A q \in Prty : expQ[q] = << >>
    BY Zenon, <1>6
  <2>2. \A v \in VT : flags[v] # "VT_ACTIVEQ" /\ v # NoVT
    BY Zenon, <1>1, <1>6
  <2>3. Mem(freeQ) \subseteq VT
    BY Zenon, <1>4, MemType
  <2>4. QED
    BY Zenon, <2>1, <2>2, <2>3, <1>1, <1>5, <1>6, <1>8 DEF Places
<1>12. Control
  BY Zenon, <1>6 DEF Control
<1>13. QED
  BY Zenon, <1>9, <1>10, <1>11, <1>12 DEF IInv

(* Every step keeps the inductive invariant.                               *)
LEMMA NextIInv == IInv /\ [Next]_vars => IInv'
<1>1. IInv /\ UNCHANGED vars => IInv'
  <2> SUFFICES ASSUME IInv, UNCHANGED vars PROVE IInv'
    BY Zenon
  <2>1. UNCHANGED <<freeQ, list, earliest, maxper, nextexp, due, expQ>>
    BY Zenon DEF vars, actQ
  <2>2. UNCHANGED <<flags, period, limit, action, priority, expired, prtylvl, needsched, newint>>
    BY Zenon DEF vars, desc, sched
  <2>3. UNCHANGED <<pc, ret, p, pvt, plnext, ticksum, fault>>
    BY Zenon DEF vars, control, insvars
  <2>4. TypeOK'
    BY <2>1, <2>2, <2>3 DEF IInv, TypeOK
  <2>5. Queue'
    BY Zenon, <2>1 DEF IInv, Queue
  <2>6. Places'
    BY Zenon, <2>1, <2>2, <2>3 DEF IInv, Places
  <2>7. Control'
    BY Zenon, <2>1, <2>2, <2>3 DEF IInv, Control
  <2>8. QED
    BY Zenon, <2>4, <2>5, <2>6, <2>7 DEF IInv
<1>2. IInv /\ Next => IInv'
  BY Zenon, QueueStep, PlacesStep, ControlStep, TypeStep DEF IInv
<1>3. QED
  BY Zenon, <1>1, <1>2

(* What the inductive invariant says of the queues.                        *)
LEMMA IInvDelta == IInv => DeltaExact
<1> SUFFICES ASSUME IInv, list # << >> PROVE
               /\ due[list[1]] = earliest
               /\ \A i \in 1 .. Len(list) - 1 : due[list[i + 1]] = due[list[i]] + nextexp[list[i]]
               /\ due[list[Len(list)]] = earliest + maxper
  BY Zenon DEF DeltaExact
<1>1. Len(list) > 0
  BY EmptyQueue DEF IInv, TypeOK
<1>2. QED
  BY Zenon, <1>1 DEF IInv, Queue, Chain

LEMMA IInvOnePlace == IInv => OnePlace
<1> SUFFICES ASSUME IInv PROVE OnePlace
  BY Zenon
<1>1. Places
  BY Zenon DEF IInv
<1>2. ASSUME NEW v \in VT
      PROVE  /\ ~(InFree(v) /\ InAct(v))
             /\ ~(InAct(v) /\ InExp(v))
             /\ fault = "none" => ~(InFree(v) /\ InExp(v))
             /\ flags[v] = "VT_ACTIVEQ" <=> InAct(v) \/ v = pvt
             /\ InAct(v) => v # pvt
  BY <1>1, Bridges DEF Places
<1>3. QED
  BY Zenon, <1>1, <1>2 DEF Places, Inj, OnePlace

LEMMA IInvOwnPrty == IInv => QueuedAtOwnPrty
BY DEF IInv, Places, Mem, QueuedAtOwnPrty

-----------------------------------------------------------------------------
(* The refinement, action by action.  Every branch of MRT_vtimer_ins that  *)
(* ends an insertion starts a countdown of the timer's period, which was   *)
(* neither counting nor waiting for its action.                            *)
LEMMA InsertStarts ==
  ASSUME IInv, fault = "none", pc \in {"ins", "scan"}, InsReturn
  PROVE  Timers!Next
<1>1. /\ pvt \in VT /\ period[pvt] \in Periods /\ \A k \in 1 .. Len(list) : list[k] # pvt
      /\ Chain(list, due, nextexp, earliest, maxper)
  BY Zenon, InsertFacts
<1>2. due[pvt] = Off
  BY Zenon, <1>1 DEF Chain
<1>3. ~InExp(pvt)
  BY Zenon, Bridges DEF IInv, Places
<1>4. due' = [due EXCEPT ![pvt] = period[pvt]] /\ expQ' = expQ
  BY Zenon DEF InsReturn
<1>5. Timers!Start(pvt, period[pvt])
  BY Zenon, <1>1, <1>2, <1>3, <1>4 DEF Timers!Start, Pending, InExp
<1>6. QED
  BY Zenon, <1>1, <1>5 DEF Timers!Next

(* MRT_vtimer_rmv, on behalf of a stop or a free, cancels a countdown that *)
(* has not run out: outside the clock handler no active timer is due.      *)
LEMMA UnlinkCancels ==
  ASSUME IInv, pc \in {"user", "irq"}, NEW v \in VT, Unlink(v), UNCHANGED expQ
  PROVE  Timers!Next
<1>1. PICK i \in 1 .. Len(list) : list[i] = v /\ MRT_vtimer_rmv(i)
  BY Zenon DEF Unlink
<1>2. list \in Seq(VT) /\ Len(list) \in Nat /\ earliest \in Nat
  BY Zenon, SeqFacts DEF IInv, TypeOK
<1>3. Len(list) > 0 /\ 1 \in 1 .. Len(list) /\ 1 <= i
  BY <1>1, <1>2
<1>4. list # << >>
  BY <1>2, <1>3, EmptyQueue
<1>5. earliest > 0
  BY Zenon, <1>4 DEF IInv, Control
<1>6. due[list[1]] = earliest /\ due[list[1]] <= due[list[i]] /\ due[list[i]] \in Nat
  BY Zenon, <1>3 DEF IInv, Queue, Chain
<1>7. due[v] > 0
  BY <1>1, <1>2, <1>5, <1>6
<1>8. due' = [due EXCEPT ![v] = Off]
  BY Zenon, <1>1 DEF MRT_vtimer_rmv
<1>9. Timers!Cancel(v)
  BY Zenon, <1>7, <1>8 DEF Timers!Cancel, Pending, InExp
<1>10. QED
  BY Zenon, <1>9 DEF Timers!Next

(* A tick counts every countdown down by one, and none was due before it.  *)
LEMMA TickTicks ==
  ASSUME IInv, Tick
  PROVE  Timers!Next
<1>1. /\ pc \in {"user", "irq"} /\ list # << >> /\ expQ' = expQ
      /\ due' = [v \in VT |-> IF due[v] = Off THEN Off ELSE due[v] - 1]
  BY Zenon DEF Tick, At
<1>2. earliest > 0 /\ earliest \in Nat
  BY Zenon, <1>1 DEF IInv, Control, TypeOK
<1>3. ASSUME NEW v \in VT, due[v] = 0 PROVE FALSE
  <2>0. due[v] # Off
    BY <1>3 DEF Off
  <2>1. PICK i \in 1 .. Len(list) : list[i] = v
    BY Zenon, <2>0 DEF IInv, Queue, Chain
  <2>2. Len(list) \in Nat
    BY Zenon, SeqFacts DEF IInv, TypeOK
  <2>3. Len(list) > 0 /\ 1 \in 1 .. Len(list) /\ 1 <= i
    BY <2>1, <2>2
  <2>4. due[list[1]] = earliest /\ due[list[1]] <= due[list[i]]
    BY Zenon, <2>3 DEF IInv, Queue, Chain
  <2>5. QED
    BY <2>1, <2>4, <1>2, <1>3
<1>4. Timers!Tick
  BY Zenon, <1>1, <1>3 DEF Timers!Tick, Pending, InExp
<1>5. QED
  BY Zenon, <1>4 DEF Timers!Next

(* The clock handler expires exactly a timer whose countdown ran out.      *)
LEMMA ClockExpireExpires ==
  ASSUME IInv, ClockExpire
  PROVE  Timers!Next
<1>1. list # << >> /\ earliest = 0 /\ MRT_vtimer_rmv(1)
  BY Zenon DEF ClockExpire
<1>2. list \in Seq(VT) /\ Len(list) > 0 /\ list[1] \in VT
  BY <1>1, EmptyQueue, SeqFacts DEF IInv, TypeOK
<1>3. due[list[1]] = 0
  BY Zenon, <1>1, <1>2 DEF IInv, Queue, Chain
<1>4. due' = [due EXCEPT ![list[1]] = Off]
  BY Zenon, <1>1 DEF MRT_vtimer_rmv
<1>5. \A w \in VT : InExp(w)' <=> InExp(w) \/ w = list[1]
  BY Zenon, ClockExpirePlaces
<1>6. Pending' = Pending \cup {list[1]}
  BY Zenon, <1>2, <1>5 DEF Pending
<1>7. Timers!Expire(list[1])
  BY Zenon, <1>3, <1>4, <1>6 DEF Timers!Expire
<1>8. QED
  BY Zenon, <1>2, <1>7 DEF Timers!Next

(* The flush runs the action of a timer that had expired, and once.        *)
LEMMA RunRuns ==
  ASSUME IInv, MRT_vtimer_run
  PROVE  Timers!Next
<1> DEFINE v == Head(expQ[p])
<1>1. v \in VT /\ InExp(v) /\ \A w \in VT : InExp(w)' <=> InExp(w) /\ w # v
  BY Zenon, RunPlaces
<1>2. due' = due
  BY Zenon DEF MRT_vtimer_run, actQ
<1> HIDE DEF v
<1>3. Pending' = Pending \ {v}
  BY Zenon, <1>1 DEF Pending
<1>4. Timers!Run(v)
  BY Zenon, <1>1, <1>2, <1>3 DEF Timers!Run, Pending
<1>5. QED
  BY Zenon, <1>1, <1>4 DEF Timers!Next

(* After the initialisation no timer counts and none is pending.           *)
LEMMA TimersInit == Init => Timers!Init
<1> SUFFICES ASSUME Init PROVE Timers!Init
  BY Zenon
<1>1. \A q \in Prty : expQ[q] = << >>
  BY Zenon DEF Init, MRT_timerQ_init, QEmpty
<1>2. Mem(<< >>) = {}
  BY EmptyQueue DEF Mem
<1>3. \A w \in VT : ~InExp(w)
  BY Zenon, <1>1, <1>2, Bridges
<1>4. QED
  BY Zenon, <1>3 DEF Init, Timers!Init, Pending

(* Every step is a step of the abstract timers, or none.                   *)
LEMMA TimersStep == IInv /\ [Next]_vars => [Timers!Next]_<<due, Pending>>
<1>1. ASSUME IInv, Next PROVE Timers!Next \/ UNCHANGED <<due, Pending>>
  <2>1. ASSUME UNCHANGED <<due, expQ>> PROVE UNCHANGED <<due, Pending>>
    BY Zenon, <2>1 DEF Pending, InExp
  <2>2. CASE InsStep
    <3>1. CASE InsEmpty \/ InsFirst \/ InsLast \/ ScanInsert
      <4>1. fault = "none" /\ pc \in {"ins", "scan"} /\ InsReturn
        BY Zenon, <3>1 DEF InsEmpty, InsFirst, InsLast, ScanInsert, At
      <4>2. QED
        BY Zenon, <4>1, <1>1, InsertStarts
    <3>2. CASE InsMiddle \/ ScanStep
      BY Zenon, <3>2, <2>1 DEF InsMiddle, ScanStep, actQ
    <3>3. QED
      BY Zenon, <2>2, <3>1, <3>2 DEF InsStep
  <2>3. ASSUME NEW v \in VT, Stop(v) \/ MRT_vtimer_free(v)
        PROVE  Timers!Next \/ UNCHANGED <<due, Pending>>
    <3>1. pc \in {"user", "irq"} /\ UNCHANGED expQ
      BY Zenon, <2>3 DEF Stop, MRT_vtimer_free, At
    <3>2. CASE Unlink(v)
      BY Zenon, <3>1, <3>2, <1>1, UnlinkCancels
    <3>3. CASE UNCHANGED actQ
      BY Zenon, <3>1, <3>3, <2>1 DEF actQ
    <3>4. QED
      BY Zenon, <2>3, <3>2, <3>3 DEF Stop, MRT_vtimer_stop, MRT_vtimer_free
  <2>4. CASE Request
    <3>1. CASE \E pty \in TimerPrty : AllocIpc(pty) \/ \E per \in Periods : AllocIrq(per, pty)
      BY Zenon, <3>1, <2>1 DEF AllocIpc, AllocIrq, actQ
    <3>2. CASE \E v \in VT, per \in Periods, act \in Waits, pty \in TimerPrty :
                 VTSET(v, per, act, pty)
      BY Zenon, <3>2, <2>1 DEF VTSET, actQ
    <3>3. CASE \E q \in Prty : MRT_prtylvl_set(q)
      BY Zenon, <3>3, <2>1 DEF MRT_prtylvl_set, actQ
    <3>4. QED
      BY Zenon, <2>3, <2>4, <3>1, <3>2, <3>3 DEF Request
  <2>5. CASE Tick
    BY Zenon, <2>5, <1>1, TickTicks
  <2>6. CASE ClockStep
    <3>1. CASE ClockReturn
      BY Zenon, <3>1, <2>1 DEF ClockReturn, actQ
    <3>2. QED
      BY Zenon, <2>6, <3>1, <1>1, ClockExpireExpires DEF ClockStep
  <2>7. CASE FlushStep
    <3>1. CASE FlushList \/ FlushReturn \/ NextPrty
      BY Zenon, <3>1, <2>1 DEF FlushList, FlushReturn, NextPrty, actQ
    <3>2. QED
      BY Zenon, <2>7, <3>1, <1>1, RunRuns DEF FlushStep
  <2>8. CASE Handlers
    BY Zenon, <2>8, <2>1 DEF Handlers, actQ
  <2>9. CASE Halted
    BY Zenon, <2>9, <2>1 DEF Halted, vars, actQ
  <2>10. QED
    BY Zenon, <1>1, <2>2, <2>4, <2>5, <2>6, <2>7, <2>8, <2>9 DEF Next
<1>2. ASSUME UNCHANGED vars PROVE UNCHANGED <<due, Pending>>
  BY Zenon, <1>2 DEF vars, actQ, Pending, InExp
<1>3. QED
  BY Zenon, <1>1, <1>2

-----------------------------------------------------------------------------
(* The theorems.  There are finitely many timers, so their number is one.  *)
INSTANCE FiniteSetTheorems

(* IInv is an inductive invariant of the timers.                           *)
THEOREM Inductive == Spec => []IInv
<1>1. Init => IInv
  BY Zenon, VTAssumption, FS_CardinalityType, InitIInv
<1>2. QED
  BY <1>1, NextIInv, PTL DEF Spec

(* The types hold in every state: MRT_vtimer_ins and MRT_vtimer_rmv never  *)
(* bring earliest, maxper or a nextexp below zero, whatever the periods.   *)
THEOREM TypeCorrect == Spec => []TypeOK
<1>1. IInv => TypeOK
  BY Zenon DEF IInv
<1>2. QED
  BY <1>1, Inductive, PTL

(* The delta queue of MRT_vtimer_ins, MRT_vtimer_rmv and the clock handler *)
(* is exact for any number of timers and any periods.                      *)
THEOREM DeltaAlwaysExact == Spec => []DeltaExact
BY IInvDelta, Inductive, PTL

(* A timer is in one of the free, active and expired queues at most, and   *)
(* there once: MRT_vtimer_stop, MRT_vtimer_free, VTSET, the clock handler  *)
(* and MRT_vtimer_run never link a timer twice, short of the faults.       *)
THEOREM OnePlaceAlways == Spec => []OnePlace
BY IInvOnePlace, Inductive, PTL

(* MRT_vtimer_run finds every expired timer in the list of its priority.   *)
THEOREM AlwaysQueuedAtOwnPrty == Spec => []QueuedAtOwnPrty
BY IInvOwnPrty, Inductive, PTL

(* The delta queue, the clock handler and the flush implement independent  *)
(* countdown timers, for any number of timers and any periods: whatever is *)
(* started, stopped or expired in between, a timer expires at the tick its *)
(* period says, and its action is run once for every time it expired.      *)
THEOREM TimersImplemented == Spec => ImplementsTimers
BY TimersInit, TimersStep, Inductive, PTL DEF Spec, ImplementsTimers, Timers!Spec
=============================================================================
