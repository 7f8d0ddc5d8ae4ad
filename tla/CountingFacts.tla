---------------------------- MODULE CountingFacts ----------------------------
(***************************************************************************)
(* What the proofs need of the natural numbers in place of induction: a     *)
(* set of them has a least element, and a function can be iterated.         *)
(***************************************************************************)
EXTENDS Integers, FiniteSetTheorems, WellFoundedInduction, TLAPS

\* A set of natural numbers that is not empty has a least element: of its initial segments,
\* which strict inclusion orders well, one is minimal.
LEMMA LeastNatural ==
  ASSUME NEW T \in SUBSET Nat, T # {}
  PROVE  \E x \in T : \A y \in T : x <= y
<1> DEFINE Initial == {1..n : n \in T}
<1>1. Initial \subseteq FiniteSubsetsOf(Nat)
  BY FS_Interval DEF FiniteSubsetsOf
<1>2. PICK X \in Initial : \A Y \in Initial : <<Y, X>> \notin StrictSubsetOrdering(Nat)
  <2>1. Initial # {}
    OBVIOUS
  <2> QED BY <1>1, <2>1, FS_StrictSubsetOrderingWellFounded, WFMin
<1>3. PICK x \in T : X = 1..x
  OBVIOUS
<1>4. ASSUME NEW y \in T, ~(x <= y) PROVE FALSE
  <2>1. 1..y \in Initial /\ 1..y \subseteq 1..x /\ x \in 1..x /\ x \notin 1..y
    BY <1>4
  <2>2. 1..y \subseteq Nat /\ 1..x \subseteq Nat
    OBVIOUS
  <2> QED BY <1>2, <1>3, <2>1, <2>2 DEF StrictSubsetOrdering
<1> QED BY <1>4

\* The sequences of length n that start with x and go on with g.
Iterations(X, x, g, n) ==
  {f \in [1..n -> X] : \A i \in 1..n : f[i] = IF i = 1 THEN x ELSE g[f[i - 1]]}

\* There is one, however long.
LEMMA IterationExists ==
  ASSUME NEW X, NEW x \in X, NEW g \in [X -> X], NEW n \in Nat
  PROVE  Iterations(X, x, g, n) # {}
<1> DEFINE Reached(k) == \E f \in [1..k -> X] : \A i \in 1..k : f[i] = IF i = 1 THEN x ELSE g[f[i - 1]]
           Beyond == {k \in Nat : ~Reached(k)}
<1> SUFFICES Reached(n)
  BY DEF Iterations
<1>1. CASE Beyond = {}
  BY <1>1
<1>2. CASE Beyond # {}
  <2>1. PICK m \in Beyond : \A k \in Beyond : m <= k
    <3>1. Beyond \in SUBSET Nat
      OBVIOUS
    <3> HIDE DEF Beyond
    <3> QED BY <1>2, <3>1, LeastNatural
  <2>2. m \in Nat /\ ~Reached(m)
    OBVIOUS
  <2>3. CASE m = 0
    <3>1. 1..m = {}
      BY <2>3
    <3>2. [i \in 1..m |-> x] \in [1..m -> X]
      OBVIOUS
    <3> QED BY <2>2, <3>1, <3>2
  <2>4. CASE m # 0
    <3>1. m - 1 \in Nat /\ Reached(m - 1)
      <4>1. m - 1 \in Nat /\ ~(m <= m - 1)
        BY <2>2, <2>4
      <4>2. m - 1 \notin Beyond
        BY <2>1, <4>1
      <4> QED BY <4>1, <4>2
    <3>2. PICK f \in [1..(m - 1) -> X] : \A i \in 1..(m - 1) : f[i] = IF i = 1 THEN x ELSE g[f[i - 1]]
      BY <3>1
    <3> DEFINE h == [i \in 1..m |-> IF i = m THEN IF m = 1 THEN x ELSE g[f[m - 1]] ELSE f[i]]
    <3>3. m # 1 => m - 1 \in 1..(m - 1)
      BY <2>2, <2>4
    <3>4. ASSUME NEW i \in 1..m PROVE h[i] \in X /\ h[i] = IF i = 1 THEN x ELSE g[h[i - 1]]
      <4>1. CASE i = m
        <5>1. CASE m = 1
          BY <4>1, <5>1
        <5>2. CASE m # 1
          <6>1. m - 1 \in 1..m /\ m - 1 # m /\ f[m - 1] \in X
            BY <3>3, <5>2, <2>2
          <6>2. h[m - 1] = f[m - 1]
            BY <6>1
          <6>3. h[i] = g[f[m - 1]]
            BY <4>1, <5>2
          <6> QED BY <4>1, <5>2, <6>1, <6>2, <6>3
        <5> QED BY <5>1, <5>2
      <4>2. CASE i # m
        <5>1. i \in 1..(m - 1) /\ h[i] = f[i] /\ f[i] \in X
          BY <2>2, <4>2
        <5>2. i # 1 => i - 1 \in 1..m /\ i - 1 # m /\ h[i - 1] = f[i - 1]
          BY <2>2, <4>2
        <5> HIDE DEF h
        <5> QED BY <3>2, <5>1, <5>2
      <4> QED BY <4>1, <4>2
    <3>5. h \in [1..m -> X]
      BY <3>4
    <3> HIDE DEF h
    <3> QED BY <2>2, <3>4, <3>5
  <2> QED BY <2>3, <2>4
<1> QED BY <1>1, <1>2
=============================================================================
