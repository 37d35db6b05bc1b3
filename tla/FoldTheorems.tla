---------------------------- MODULE FoldTheorems ----------------------------
(***************************************************************************)
(* What the folds of the community modules compute over sequences of any   *)
(* length: the induction that the proofs about scripts and rings rest on.  *)
(* It needs no operator for a parameter when the predicate is a set: a set *)
(* with 0 and every successor holds all the naturals, by the least element *)
(* outside it.                                                             *)
(***************************************************************************)
EXTENDS Naturals, SequencesExt, WellFoundedInduction, TLAPS

LEMMA SetInduction ==
    ASSUME NEW T, 0 \in T, \A n \in Nat : n \in T => n + 1 \in T
    PROVE  Nat \subseteq T
<1> DEFINE R == OpToRel(<, Nat)
<1> DEFINE B == {n \in Nat : n \notin T}
<1>1. IsWellFoundedOn(R, Nat)
  BY NatLessThanWellFounded
<1>r. \A x \in Nat, y \in Nat : x < y => <<x, y>> \in R
  BY Z3 DEF OpToRel
<1> SUFFICES ASSUME B # {} PROVE FALSE
  OBVIOUS
<1>2. B \subseteq Nat
  OBVIOUS
<1> HIDE DEF R, B
<1>3. PICK x \in B : \A y \in B : ~(<<y, x>> \in R)
  BY <1>1, <1>2, WFMin
<1>4. x \in Nat /\ x \notin T
  BY <1>3 DEF B
<1>5. x # 0 /\ x - 1 \in Nat
  BY <1>4
<1>6. x - 1 \in B
  BY <1>4, <1>5 DEF B
<1>7. <<x - 1, x>> \in R
  BY <1>4, <1>5, <1>r
<1> QED BY <1>3, <1>6, <1>7

\* The largest element of a set is the one nothing in it exceeds ...
LEMMA MaxIs ==
    ASSUME NEW S, NEW m \in S, m \in Nat, S \subseteq 0 .. m
    PROVE  Max(S) = m
<1>1. \A y \in S : y \in Int /\ m >= y
  OBVIOUS
<1>2. Max(S) \in S /\ \A y \in S : Max(S) >= y
  BY <1>1 DEF Max
<1> DEFINE x == Max(S)
<1>3. x \in Int /\ x >= m /\ m >= x
  BY <1>1, <1>2
<1> HIDE DEF x
<1>4. x = m
  BY <1>3
<1> QED BY <1>4 DEF x

\* ... and every set of positions has one.
LEMMA MaxExists ==
    ASSUME NEW n \in Nat
    PROVE  \A s \in SUBSET (1 .. n) : s # {} => /\ Max(s) \in 1 .. n
                                             /\ s \ {Max(s)} \in SUBSET (1 .. n)
<1> DEFINE Has(k) == \A s \in SUBSET (1 .. k) : s # {} => \E m \in s : s \subseteq 0 .. m
<1> DEFINE T == {k \in Nat : Has(k)}
<1>1. 0 \in T
  <2>1. \A s \in SUBSET (1 .. 0) : s = {}
    OBVIOUS
  <2> QED BY <2>1
<1>2. ASSUME NEW k \in Nat, k \in T PROVE k + 1 \in T
  <2>1. Has(k)
    BY <1>2
  <2>2. ASSUME NEW s \in SUBSET (1 .. k + 1), s # {} PROVE \E m \in s : s \subseteq 0 .. m
    <3>1. CASE k + 1 \in s
      <4>1. s \subseteq 0 .. k + 1
        OBVIOUS
      <4> QED BY <3>1, <4>1
    <3>2. CASE k + 1 \notin s
      <4>1. s \in SUBSET (1 .. k)
        BY <3>2
      <4> QED BY <4>1, <2>1, <2>2
    <3> QED BY <3>1, <3>2
  <2> QED BY <2>2
<1> HIDE DEF T
<1>3. n \in T
  BY <1>1, <1>2, SetInduction
<1>4. Has(n)
  BY <1>3 DEF T
<1> HIDE DEF Has
<1> SUFFICES ASSUME NEW s \in SUBSET (1 .. n), s # {} PROVE Max(s) \in s
  OBVIOUS
<1>5. PICK m \in s : s \subseteq 0 .. m
  BY <1>4 DEF Has
<1>6. m \in Nat
  OBVIOUS
<1>7. Max(s) = m
  BY <1>5, <1>6, MaxIs
<1> QED BY <1>7

\* What holds at first and is kept by every step holds all along.
LEMMA HoldsAlong ==
    ASSUME NEW A, NEW n \in Nat, NEW r, r[0] \in A,
           \A k \in 1 .. n : r[k - 1] \in A => r[k] \in A
    PROVE  \A k \in 0 .. n : r[k] \in A
<1> DEFINE T == {k \in Nat : k <= n => r[k] \in A}
<1>1. 0 \in T
  OBVIOUS
<1>2. ASSUME NEW k \in Nat, k \in T PROVE k + 1 \in T
  <2> SUFFICES ASSUME k + 1 <= n PROVE r[k + 1] \in A
    OBVIOUS
  <2>1. r[k] \in A
    BY <1>2
  <2>2. k + 1 \in 1 .. n /\ (k + 1) - 1 = k
    OBVIOUS
  <2> QED BY <2>1, <2>2
<1> HIDE DEF T
<1>3. Nat \subseteq T
  BY <1>1, <1>2, SetInduction
<1> QED BY <1>3 DEF T

Folds(g, base, n, H) ==
    g = [s \in SUBSET (1 .. n) |-> IF s = {} THEN base ELSE H[<<Max(s), g[s \ {Max(s)}]>>]]

\* The recursion of a fold over a sequence has a solution.
LEMMA FoldRecursion ==
    ASSUME NEW A, NEW base \in A, NEW n \in Nat, NEW H \in [(1 .. n) \X A -> A]
    PROVE  \E g \in [SUBSET (1 .. n) -> A] : Folds(g, base, n, H)
<1> DEFINE Solved(k) == \E g \in [SUBSET (1 .. k) -> A] : \A s \in SUBSET (1 .. k) :
               g[s] = IF s = {} THEN base ELSE H[<<Max(s), g[s \ {Max(s)}]>>]
<1> DEFINE T == {k \in Nat : k <= n => Solved(k)}
<1> HIDE DEF Solved
<1>t. \A k \in Nat : k \in T <=> (k <= n => Solved(k))
  OBVIOUS
<1> HIDE DEF T
<1>1. 0 \in T
  <2>1. \A s \in SUBSET (1 .. 0) : s = {}
    OBVIOUS
  <2> DEFINE g == [s \in SUBSET (1 .. 0) |-> base]
  <2>2. g \in [SUBSET (1 .. 0) -> A]
    OBVIOUS
  <2>3. \A s \in SUBSET (1 .. 0) : g[s] = base
    OBVIOUS
  <2>4. Solved(0)
    BY <2>1, <2>2, <2>3 DEF Solved
  <2> QED BY <2>4, <1>t
<1>2. ASSUME NEW k \in Nat, k \in T PROVE k + 1 \in T
  <2> SUFFICES ASSUME k + 1 <= n PROVE Solved(k + 1)
    BY <1>t
  <2>0. Solved(k)
    BY <1>2, <1>t
  <2>1. PICK g \in [SUBSET (1 .. k) -> A] : \A s \in SUBSET (1 .. k) :
            g[s] = IF s = {} THEN base ELSE H[<<Max(s), g[s \ {Max(s)}]>>]
    BY <2>0 DEF Solved
  <2> DEFINE h == [s \in SUBSET (1 .. k + 1) |->
                      IF k + 1 \in s THEN H[<<k + 1, g[s \ {k + 1}]>>] ELSE g[s]]
  <2>2. \A s \in SUBSET (1 .. k + 1) : k + 1 \notin s => s \in SUBSET (1 .. k)
    OBVIOUS
  <2>3. \A s \in SUBSET (1 .. k + 1) : s \ {k + 1} \in SUBSET (1 .. k) /\ k + 1 \notin s \ {k + 1}
    OBVIOUS
  <2>4. \A s \in SUBSET (1 .. k + 1) : k + 1 \in s => Max(s) = k + 1
    <3> SUFFICES ASSUME NEW s \in SUBSET (1 .. k + 1), k + 1 \in s PROVE Max(s) = k + 1
      OBVIOUS
    <3>1. s \subseteq 0 .. k + 1 /\ k + 1 \in Nat
      OBVIOUS
    <3> QED BY <3>1, MaxIs
  <2>5. \A s \in SUBSET (1 .. k) : s \in SUBSET (1 .. k + 1) /\ k + 1 \notin s
    OBVIOUS
  <2>6. k + 1 \in 1 .. n
    OBVIOUS
  <2> HIDE DEF h
  <2>7. \A s \in SUBSET (1 .. k + 1) :
            h[s] = IF k + 1 \in s THEN H[<<k + 1, g[s \ {k + 1}]>>] ELSE g[s]
    BY DEF h
  <2>8. \A s \in SUBSET (1 .. k + 1) : h[s] \in A
    <3> TAKE s \in SUBSET (1 .. k + 1)
    <3>1. CASE k + 1 \in s
      <4>1. g[s \ {k + 1}] \in A
        BY <2>3
      <4> QED BY <3>1, <4>1, <2>6, <2>7
    <3>2. CASE k + 1 \notin s
      <4>1. g[s] \in A
        BY <3>2, <2>2
      <4> QED BY <3>2, <4>1, <2>7
    <3> QED BY <3>1, <3>2
  <2>9. h \in [SUBSET (1 .. k + 1) -> A]
    <3>1. h = [s \in SUBSET (1 .. k + 1) |-> h[s]]
      BY Zenon DEF h
    <3> QED BY <3>1, <2>8
  <2>10. ASSUME NEW s \in SUBSET (1 .. k + 1)
         PROVE  h[s] = IF s = {} THEN base ELSE H[<<Max(s), h[s \ {Max(s)}]>>]
    <3>1. CASE k + 1 \in s
      <4>1. h[s \ {k + 1}] = g[s \ {k + 1}]
        BY <2>3, <2>5, <2>7
      <4> QED BY <3>1, <4>1, <2>4, <2>7
    <3>2. CASE k + 1 \notin s
      <4>1. s \in SUBSET (1 .. k) /\ h[s] = g[s]
        BY <3>2, <2>2, <2>7
      <4>2. s \ {Max(s)} \in SUBSET (1 .. k)
        BY <4>1
      <4>3. h[s \ {Max(s)}] = g[s \ {Max(s)}]
        BY <4>2, <2>5, <2>7
      <4> QED BY <4>1, <4>3, <2>1
    <3> QED BY <3>1, <3>2
  <2> QED BY <2>9, <2>10 DEF Solved
<1>3. n \in T
  BY <1>1, <1>2, SetInduction
<1>4. Solved(n)
  BY <1>3, <1>t
<1>5. PICK g \in [SUBSET (1 .. n) -> A] : \A s \in SUBSET (1 .. n) :
          g[s] = IF s = {} THEN base ELSE H[<<Max(s), g[s \ {Max(s)}]>>]
  BY <1>4 DEF Solved
<1>6. Folds(g, base, n, H)
  BY <1>5 DEF Folds
<1> QED BY <1>6
=============================================================================
