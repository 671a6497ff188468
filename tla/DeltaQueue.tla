---------------------------- MODULE DeltaQueue -----------------------------
(***************************************************************************)
(* The active queue of the virtual timers as a sequence, and what it means *)
(* for its differences to be exact.                                        *)
(***************************************************************************)
EXTENDS Integers, Sequences

CONSTANT VT    \* the descriptors, MRT_st.vtimer

Off == -1

SeqRemove(s, i) == SubSeq(s, 1, i - 1) \o SubSeq(s, i + 1, Len(s))

SeqInsert(s, i, v) == SubSeq(s, 1, i - 1) \o <<v>> \o SubSeq(s, i, Len(s))

Mem(s) == {s[k] : k \in 1 .. Len(s)}

Inj(s) == \A i, j \in 1 .. Len(s) : s[i] = s[j] => i = j

(* The active queue l with the differences n, the first expiration e and   *)
(* the distance m to the last one says when timers expire: at d.           *)
Chain(l, d, n, e, m) ==
  /\ \A i, j \in 1 .. Len(l) : l[i] = l[j] => i = j
  /\ \A i \in 1 .. Len(l) : d[l[i]] \in Nat
  /\ \A i, j \in 1 .. Len(l) : i <= j => d[l[i]] <= d[l[j]]
  /\ \A v \in VT : d[v] # Off => \E i \in 1 .. Len(l) : l[i] = v
  /\ Len(l) > 0 => d[l[1]] = e
  /\ \A i \in 1 .. Len(l) - 1 : d[l[i + 1]] = d[l[i]] + n[l[i]]
  /\ Len(l) > 0 => d[l[Len(l)]] = e + m

ChainType(l, d, n, e, m) ==
  /\ l \in Seq(VT)
  /\ d \in [VT -> Nat \cup {Off}] /\ n \in [VT -> Nat] /\ e \in Nat /\ m \in Nat
=============================================================================
