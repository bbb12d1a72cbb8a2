----------------------------- MODULE Induction -----------------------------
(***************************************************************************)
(* Induction on numbers and on finite sets, stated of sets and functions   *)
(* rather than of predicates, and what it shows about functions that are   *)
(* defined by recursion on the subsets of a set.                           *)
(***************************************************************************)
EXTENDS Integers, FiniteSets, FiniteSetTheorems, WellFoundedInduction, TLAPS

\* A set of natural numbers that is not empty has a least element.
LEMMA LeastNat ==
  ASSUME NEW T, T \subseteq Nat, T # {}
  PROVE  \E n \in T : \A m \in T : ~(m < n)
<1>1. PICK n \in T : \A m \in T : ~ (<<m, n>> \in OpToRel(<, Nat))
  BY WFMin, NatLessThanWellFounded, Zenon
<1> QED BY <1>1, Zenon DEF OpToRel

\* Of some subsets of a finite set one has no other among them below it.
LEMMA SmallestSet ==
  ASSUME NEW S, IsFiniteSet(S), NEW B, B \subseteq SUBSET S, B # {}
  PROVE  \E s \in B : \A t \in B : t \subseteq s => t = s
<1> DEFINE T == {Cardinality(s) : s \in B}
<1>1. ASSUME NEW s \in B PROVE IsFiniteSet(s) /\ Cardinality(s) \in Nat
  BY FS_Subset, FS_CardinalityType
<1>t. T \subseteq Nat /\ T # {}
  BY <1>1
<1>2. PICK n \in T : \A m \in T : ~(m < n)
  <2> HIDE DEF T
  <2> QED BY <1>t, LeastNat
<1>3. PICK s \in B : n = Cardinality(s)
  OBVIOUS
<1>4. ASSUME NEW t \in B, t \subseteq s PROVE t = s
  <2>1. ~(Cardinality(t) < Cardinality(s))
    BY <1>2, <1>3
  <2>2. /\ Cardinality(t) <= Cardinality(s)
        /\ Cardinality(s) = Cardinality(t) => s = t
    BY <1>1, <1>4, FS_Subset
  <2> QED BY <1>1, <2>1, <2>2
<1> QED BY <1>4

(***************************************************************************)
(* A function that is defined by recursion on the subsets of S, as folds   *)
(* over sets are: F[s] is what is done with the element that is taken from *)
(* s, and M[s] has the values that may come of it.                         *)
(***************************************************************************)
Taken(s) == CHOOSE x \in s : TRUE
Rest(s)  == s \ {Taken(s)}

Stays(S, M, F, base) ==
  /\ base \in M[{}]
  /\ \A s \in SUBSET S : s # {} => F[s] \in [M[Rest(s)] -> M[s]]

Solved(g, D, M, F, base) ==
  /\ \A s \in D : g[s] \in M[s]
  /\ \A s \in D : g[s] = IF s = {} THEN base ELSE F[s][g[Rest(s)]]

\* Such a function exists, when S is finite.
LEMMA RecursionOnSets ==
  ASSUME NEW S, IsFiniteSet(S), NEW M, NEW F, NEW base, Stays(S, M, F, base)
  PROVE  \E g : g = [s \in SUBSET S |-> g[s]] /\ Solved(g, SUBSET S, M, F, base)
<1> DEFINE Small(n) == {s \in SUBSET S : Cardinality(s) <= n}
           Solves(g, D) == Solved(g, D, M, F, base)
           Bad == {n \in Nat : ~ \E g : Solves(g, Small(n))}
<1>1. ASSUME NEW s \in SUBSET S
      PROVE  /\ IsFiniteSet(s) /\ Cardinality(s) \in Nat /\ (Cardinality(s) = 0 <=> s = {})
             /\ s # {} => Cardinality(Rest(s)) = Cardinality(s) - 1
  <2>1. IsFiniteSet(s)
    BY FS_Subset
  <2>2. s # {} => Taken(s) \in s
    BY DEF Taken
  <2> QED BY <2>1, <2>2, FS_CardinalityType, FS_EmptySet, FS_RemoveElement DEF Rest
<1>2. ASSUME NEW n \in Bad, \A m \in Bad : ~(m < n)
      PROVE  FALSE
  <2>1. CASE n = 0
    <3> DEFINE g == [s \in {{}} |-> base]
    <3>1. Small(0) = {{}}
      <4>1. ASSUME NEW s \in SUBSET S PROVE Cardinality(s) <= 0 <=> s = {}
        <5>1. Cardinality(s) \in Nat /\ (Cardinality(s) = 0 <=> s = {})
          BY <1>1
        <5>2. Cardinality(s) <= 0 <=> Cardinality(s) = 0
          BY <5>1
        <5> QED BY <5>1, <5>2
      <4>2. {} \in SUBSET S
        OBVIOUS
      <4> QED BY <4>1, <4>2
    <3>2. Solves(g, {{}})
      BY DEF Solved, Stays
    <3> HIDE DEF Solves, Small, g
    <3> QED BY <2>1, <3>1, <3>2
  <2>2. CASE n # 0
    <3> DEFINE m == n - 1
    <3>1. m \in Nat /\ m < n
      BY <2>2
    <3>2. m \notin Bad
      BY <1>2, <3>1
    <3>3. PICK h : Solves(h, Small(m))
      BY <3>1, <3>2
    <3> DEFINE g == [s \in Small(n) |-> IF s = {} THEN base ELSE F[s][h[Rest(s)]]]
    <3>4. ASSUME NEW s \in Small(n), s # {}
          PROVE  Rest(s) \in Small(m) /\ Rest(s) \in Small(n)
      <4>1. Cardinality(Rest(s)) = Cardinality(s) - 1 /\ Cardinality(s) \in Nat
            /\ Cardinality(s) <= n
        BY <1>1, <3>4
      <4>2. Cardinality(Rest(s)) <= m /\ Cardinality(Rest(s)) <= n
        BY <4>1, <3>1
      <4>3. Rest(s) \in SUBSET S
        BY DEF Rest
      <4> HIDE DEF m
      <4> QED BY <4>2, <4>3
    <3>5. ASSUME NEW s \in Small(m), s \in Small(n) PROVE g[s] = h[s]
      <4>1. h[s] = IF s = {} THEN base ELSE F[s][h[Rest(s)]]
        BY <3>3 DEF Solved
      <4> HIDE DEF Small
      <4> QED BY <3>5, <4>1
    <3>6. ASSUME NEW s \in Small(n) PROVE g[s] \in M[s]
      <4>1. CASE s = {}
        BY <4>1 DEF Stays
      <4>2. CASE s # {}
        <5>1. h[Rest(s)] \in M[Rest(s)]
          BY <3>3, <3>4, <4>2 DEF Solved
        <5>2. F[s] \in [M[Rest(s)] -> M[s]]
          BY <4>2 DEF Stays
        <5> HIDE DEF Small, m
        <5> QED BY <4>2, <5>1, <5>2
      <4> QED BY <4>1, <4>2
    <3>7. ASSUME NEW s \in Small(n)
          PROVE  g[s] = IF s = {} THEN base ELSE F[s][g[Rest(s)]]
      <4>1. CASE s = {}
        BY <4>1
      <4>2. CASE s # {}
        <5>1. g[Rest(s)] = h[Rest(s)]
          BY <3>4, <3>5, <4>2
        <5> HIDE DEF Small
        <5> QED BY <4>2, <5>1
      <4> QED BY <4>1, <4>2
    <3>8. Solves(g, Small(n))
      <4> HIDE DEF g, Small
      <4> QED BY <3>6, <3>7 DEF Solved
    <3> HIDE DEF Solves, Small, g
    <3> QED BY <3>8
  <2> QED BY <2>1, <2>2
<1>3. Bad = {}
  <2> HIDE DEF Solves
  <2>1. Bad \subseteq Nat
    OBVIOUS
  <2> HIDE DEF Bad
  <2> QED BY <1>2, <2>1, LeastNat
<1>4. Cardinality(S) \in Nat /\ Small(Cardinality(S)) = SUBSET S
  BY FS_CardinalityType, FS_Subset
<1>5. PICK g : Solves(g, SUBSET S)
  <2> HIDE DEF Solves, Small
  <2>1. \E g : Solves(g, Small(Cardinality(S)))
    BY <1>3, <1>4
  <2> QED BY <1>4, <2>1
<1> DEFINE f == [s \in SUBSET S |-> g[s]]
<1>6. ASSUME NEW s \in SUBSET S
      PROVE  f[s] \in M[s] /\ f[s] = IF s = {} THEN base ELSE F[s][f[Rest(s)]]
  <2>1. Rest(s) \in SUBSET S
    BY DEF Rest
  <2> QED BY <1>5, <2>1 DEF Solved
<1>7. f = [s \in SUBSET S |-> f[s]]
  OBVIOUS
<1> HIDE DEF f
<1> QED BY <1>6, <1>7 DEF Solved
=============================================================================
