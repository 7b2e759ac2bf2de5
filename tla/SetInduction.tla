------------------------------ MODULE SetInduction ------------------------------
(***************************************************************************)
(* Induction for proofs about data.  The library states its principles for *)
(* an operator, which the provers here cannot supply; a set says the same  *)
(* of what holds, and a function of what a step does.                      *)
(***************************************************************************)
EXTENDS Naturals, WellFoundedInduction, TLAPS

\* A set with 0 in it and with the successor of each of its members below n has all up to n.
LEMMA UpTo ==
  ASSUME NEW n \in Nat, NEW S, 0 \in S, \A i \in 0..n : i \in S /\ i < n => i + 1 \in S
  PROVE  \A i \in 0..n : i \in S
<1> SUFFICES ASSUME (0..n) \ S # {} PROVE FALSE
  OBVIOUS
<1> DEFINE T == (0..n) \ S
<1>1. T \subseteq Nat /\ T # {}
  OBVIOUS
<1>2. PICK x \in T : \A y \in T : ~ (<<y, x>> \in OpToRel(<, Nat))
  <2> HIDE DEF T
  <2> QED BY <1>1, WFMin, NatLessThanWellFounded
<1>3. x # 0 /\ x - 1 \in 0..n /\ x - 1 < n /\ x - 1 + 1 = x
  OBVIOUS
<1>4. x - 1 \in T
  BY <1>3
<1>5. <<x - 1, x>> \in OpToRel(<, Nat)
  BY <1>3 DEF OpToRel
<1> QED BY <1>2, <1>4, <1>5

\* g is what n steps make of start, F[i] being what step i does.
Iteration(A, n, F, start, g) ==
  g \in [0..n -> A] /\ g[0] = start /\ \A i \in 1..n : g[i] = F[i][g[i - 1]]

\* Steps can be taken one after the other.
LEMMA Iterates ==
  ASSUME NEW A, NEW n \in Nat, NEW F \in [1..n -> [A -> A]], NEW start \in A
  PROVE  \E g : Iteration(A, n, F, start, g)
<1> DEFINE Goes(m) == \E g \in [0..m -> A] : g[0] = start /\ \A i \in 1..m : g[i] = F[i][g[i - 1]]
           S == {m \in 0..n : Goes(m)}
<1>1. Goes(0)
  <2> DEFINE g == [i \in 0..0 |-> start]
  <2>1. g \in [0..0 -> A] /\ g[0] = start /\ \A i \in 1..0 : g[i] = F[i][g[i - 1]]
    OBVIOUS
  <2> HIDE DEF g
  <2> QED BY <2>1
<1>2. ASSUME NEW m \in 0..n, Goes(m), m < n PROVE Goes(m + 1)
  <2>1. PICK g \in [0..m -> A] : g[0] = start /\ \A i \in 1..m : g[i] = F[i][g[i - 1]]
    BY <1>2
  <2> DEFINE h == [i \in 0..(m + 1) |-> IF i = m + 1 THEN F[m + 1][g[m]] ELSE g[i]]
  <2>2. h \in [0..(m + 1) -> A] /\ h[0] = start
    BY <1>2, <2>1
  <2>3. ASSUME NEW i \in 1..(m + 1) PROVE h[i] = F[i][h[i - 1]]
    <3>1. CASE i = m + 1
      BY <1>2, <3>1
    <3>2. CASE i \in 1..m
      BY <1>2, <2>1, <3>2
    <3> QED BY <1>2, <3>1, <3>2
  <2> HIDE DEF h
  <2> QED BY <2>2, <2>3
<1> HIDE DEF Goes
<1>3. 0 \in S /\ \A i \in 0..n : i \in S /\ i < n => i + 1 \in S
  BY <1>1, <1>2
<1> HIDE DEF S
<1>4. \A i \in 0..n : i \in S
  BY <1>3, UpTo, Zenon
<1> QED BY <1>4 DEF S, Goes, Iteration

\* g is what n steps make of start when step i leads from the set G[i - 1] into G[i].
Pass(G, n, F, start, g) ==
  /\ g = [i \in 0..n |-> g[i]] /\ g[0] = start
  /\ \A i \in 1..n : g[i] = F[i][g[i - 1]] /\ g[i] \in G[i]

\* Steps from set to set can be taken one after the other.
LEMMA Passes ==
  ASSUME NEW n \in Nat, NEW G, NEW F, NEW start \in G[0], \A i \in 1..n : F[i] \in [G[i - 1] -> G[i]]
  PROVE  \E g : Pass(G, n, F, start, g)
<1> DEFINE A == UNION {G[i] : i \in 0..n}
           H == [i \in 1..n |-> [x \in A |-> IF x \in G[i - 1] THEN F[i][x] ELSE x]]
<1>1. start \in A
  OBVIOUS
<1>2. ASSUME NEW i \in 1..n, NEW x \in A PROVE (IF x \in G[i - 1] THEN F[i][x] ELSE x) \in A
  <2>1. CASE x \in G[i - 1]
    <3>1. F[i][x] \in G[i] /\ i \in 0..n
      BY <2>1
    <3> QED BY <2>1, <3>1
  <2> QED BY <2>1
<1>3. H \in [1..n -> [A -> A]]
  <2> HIDE DEF A
  <2> QED BY <1>2
<1>4. PICK g : Iteration(A, n, H, start, g)
  <2> HIDE DEF A, H
  <2> QED BY <1>1, <1>3, Iterates, Zenon
<1>5. \A i \in 1..n : \A x \in G[i - 1] : H[i][x] = F[i][x] /\ F[i][x] \in G[i]
  OBVIOUS
<1> HIDE DEF A, H
<1> DEFINE S == {i \in 0..n : g[i] \in G[i]}
<1>6. 0 \in S
  BY <1>4 DEF Iteration
<1>7. ASSUME NEW i \in 0..n, i \in S, i < n PROVE i + 1 \in S
  <2>1. i + 1 \in 1..n /\ i + 1 - 1 = i /\ g[i] \in G[i] /\ i + 1 \in 0..n
    BY <1>7
  <2>2. g[i + 1] = H[i + 1][g[i]]
    BY <1>4, <2>1 DEF Iteration
  <2>3. g[i + 1] \in G[i + 1]
    BY <1>5, <2>1, <2>2
  <2> QED BY <2>1, <2>3
<1> HIDE DEF S
<1>8. \A i \in 0..n : i \in S
  BY <1>6, <1>7, UpTo, Zenon
<1>9. ASSUME NEW i \in 1..n PROVE g[i] = F[i][g[i - 1]] /\ g[i] \in G[i]
  <2>1. i \in 0..n /\ i - 1 \in 0..n
    OBVIOUS
  <2>2. g[i] \in G[i] /\ g[i - 1] \in G[i - 1]
    BY <1>8, <2>1 DEF S
  <2> QED BY <1>4, <1>5, <2>2 DEF Iteration
<1>10. g = [i \in 0..n |-> g[i]] /\ g[0] = start
  BY <1>4 DEF Iteration
<1>11. Pass(G, n, F, start, g)
  BY <1>9, <1>10 DEF Pass
<1> QED BY <1>11
=================================================================================
