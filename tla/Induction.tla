------------------------------ MODULE Induction ------------------------------
(***************************************************************************)
(* Induction and recursion over an initial segment of the naturals, stated *)
(* about sets and functions: what the proofs about loops over sequences    *)
(* need.                                                                   *)
(***************************************************************************)
EXTENDS Naturals, WellFoundedInduction, TLAPS

\* A set of numbers that is not empty has a least element.
LEMMA LeastElement ==
    ASSUME NEW T, T \subseteq Nat, T # {}
    PROVE  \E m \in T : \A n \in T : n >= m
<1> DEFINE R == {ss \in Nat \X Nat : ss[1] < ss[2]}
<1>1. OpToRel(<, Nat) = R
  BY Zenon DEF OpToRel
<1>2. IsWellFoundedOn(R, Nat)
  BY <1>1, NatLessThanWellFounded, Zenon
<1>3. PICK m \in T : \A n \in T : ~ (<<n, m>> \in R)
  <2> HIDE DEF R
  <2> QED
    BY <1>2, WFMin
<1>4. ASSUME NEW n \in T PROVE n >= m
  <2>1. n \in Nat /\ m \in Nat
    OBVIOUS
  <2>2. ~ (n < m)
    BY <1>3, <2>1
  <2> QED
    BY <2>1, <2>2
<1> QED
  BY <1>4

\* What holds of 0, and of i + 1 if it does of i, holds up to n.
LEMMA UpTo ==
    ASSUME NEW n \in Nat, NEW T, 0 \in T, \A i \in 0..(n - 1) : i \in T => i + 1 \in T
    PROVE  \A i \in 0..n : i \in T
<1> DEFINE Missing == {i \in 0..n : i \notin T}
<1>1. SUFFICES ASSUME Missing # {} PROVE FALSE
  OBVIOUS
<1>2. Missing \subseteq Nat
  OBVIOUS
<1>3. PICK least \in Missing : \A m \in Missing : m >= least
  <2> HIDE DEF Missing
  <2> QED
    BY <1>1, <1>2, LeastElement
<1>4. least # 0 /\ least \in 0..n
  OBVIOUS
<1>5. least - 1 \in 0..(n - 1) /\ least - 1 \in 0..n /\ (least - 1) + 1 = least
  BY <1>4
<1>6. least - 1 \notin Missing
  BY <1>3, <1>4, <1>5
<1>7. least - 1 \in T
  BY <1>5, <1>6
<1>8. least \in T
  BY <1>5, <1>7
<1> QED
  BY <1>8

\* The values computed one from the other: from the one before the i-th, Step
\* gives the i-th.
Computations(n, S, base, Step) ==
    {f \in [0..n -> S] : f[0] = base /\ \A i \in 1..n : f[i] = Step[<<f[i - 1], i>>]}

\* There is such a computation for every step that stays in S.
LEMMA Recursion ==
    ASSUME NEW n \in Nat, NEW S, NEW base \in S, NEW Step \in [S \X (1..n) -> S]
    PROVE  Computations(n, S, base, Step) # {}
<1> DEFINE Computes(f, k) == /\ f \in [0..k -> S] /\ f[0] = base
                             /\ \A i \in 1..k : f[i] = Step[<<f[i - 1], i>>]
           T == {k \in 0..n : \E f : Computes(f, k)}
<1>1. 0 \in T
  <2> DEFINE start == [i \in 0..0 |-> base]
  <2>1. start \in [0..0 -> S] /\ start[0] = base /\ 1..0 = {}
    OBVIOUS
  <2>2. Computes(start, 0)
    <3> HIDE DEF start
    <3> QED
      BY <2>1
  <2>3. \E f : Computes(f, 0)
    <3> HIDE DEF Computes, start
    <3> QED
      BY <2>2, Zenon
  <2> QED
    BY <2>3
<1>2. ASSUME NEW k \in 0..(n - 1), k \in T PROVE k + 1 \in T
  <2>1. PICK f : Computes(f, k)
    BY <1>2
  <2> DEFINE g == [i \in 0..(k + 1) |-> IF i = k + 1 THEN Step[<<f[k], k + 1>>] ELSE f[i]]
  <2>2. k \in Nat /\ k + 1 \in 1..n /\ f[k] \in S
    BY <2>1
  <2>3. Step[<<f[k], k + 1>>] \in S
    BY <2>2
  <2>4. /\ g \in [0..(k + 1) -> S] /\ g[0] = base
        /\ g[k + 1] = Step[<<f[k], k + 1>>] /\ \A i \in 0..k : g[i] = f[i]
    BY <2>1, <2>2, <2>3
  <2> HIDE DEF g
  <2>5. \A i \in 1..(k + 1) : g[i] = Step[<<g[i - 1], i>>]
    <3> SUFFICES ASSUME NEW i \in 1..(k + 1) PROVE g[i] = Step[<<g[i - 1], i>>]
      OBVIOUS
    <3>1. g[i - 1] = f[i - 1]
      BY <2>2, <2>4
    <3>2. CASE i = k + 1
      <4>1. i - 1 = k
        BY <2>2, <3>2
      <4> QED
        BY <2>4, <3>1, <3>2, <4>1
    <3>3. CASE i \in 1..k
      BY <2>1, <2>4, <3>1, <3>3
    <3> QED
      BY <2>2, <3>2, <3>3
  <2>6. Computes(g, k + 1)
    BY <2>4, <2>5
  <2>7. \E h : Computes(h, k + 1)
    <3> HIDE DEF Computes
    <3> QED
      BY <2>6, Zenon
  <2> QED
    BY <2>2, <2>7
<1>3. n \in T
  <2> HIDE DEF T
  <2>1. \A i \in 0..n : i \in T
    BY <1>1, <1>2, UpTo
  <2> QED
    BY <2>1
<1> QED
  BY <1>3 DEF Computations
=============================================================================
