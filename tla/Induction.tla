----------------------------- MODULE Induction -----------------------------
(***************************************************************************)
(* Induction over the natural numbers for the proofs of this project.      *)
(* The library's induction theorems take the predicate as a parameter;     *)
(* these speak of sets and functions, which every prover here can          *)
(* instantiate, and rest on the library's minimal elements.                *)
(***************************************************************************)
EXTENDS Integers, WellFoundedInduction, TLAPS

(* A set of numbers that is not empty has a least one.                     *)
LEMMA Least ==
  ASSUME NEW T \in SUBSET Nat, T # {}
  PROVE  \E n \in T : \A m \in T : n <= m
<1>1. \E n \in T : \A m \in T : ~(<<m, n>> \in OpToRel(<, Nat))
  BY NatLessThanWellFounded, WFMin, Zenon
<1>2. PICK n \in T : \A m \in T : ~(<<m, n>> \in OpToRel(<, Nat))
  BY <1>1, Zenon
<1>3. OpToRel(<, Nat) = {p \in Nat \X Nat : p[1] < p[2]}
  BY Zenon DEF OpToRel
<1>4. \A m \in T : ~(<<m, n>> \in {p \in Nat \X Nat : p[1] < p[2]})
  BY <1>2, <1>3, Zenon
<1>5. ASSUME NEW m \in T, ~(n <= m)
      PROVE  FALSE
  <2>1. <<m, n>> \in Nat \X Nat /\ m < n
    BY <1>5
  <2>2. <<m, n>>[1] < <<m, n>>[2]
    BY <2>1
  <2> QED
    BY <1>4, <2>1, <2>2, Zenon
<1> QED
  BY <1>5

(* What holds of the first number, and of the next when of one, holds of   *)
(* all up to the last.                                                     *)
LEMMA Climb ==
  ASSUME NEW N \in Nat, NEW S, 0 \in S, \A n \in 0..(N - 1) : n \in S => n + 1 \in S
  PROVE  0..N \subseteq S
<1> SUFFICES ASSUME (0..N) \ S # {}
             PROVE  FALSE
  OBVIOUS
<1>1. PICK n \in (0..N) \ S : \A m \in (0..N) \ S : n <= m
  <2>1. (0..N) \ S \in SUBSET Nat
    OBVIOUS
  <2> QED
    BY <2>1, Least, Zenon
<1>2. n - 1 \in 0..(N - 1)
  BY <1>1
<1>3. n - 1 \in S
  BY <1>1, <1>2
<1> QED
  BY <1>1, <1>2, <1>3

(* f says what the steps come to, taken from the first state on.           *)
Iteration(X, step, first, N, f) ==
  f \in [0..N -> X] /\ f[0] = first /\ \A n \in 1..N : f[n] = step[n][f[n - 1]]

(* A step taken again and again is a function of how often it was taken.   *)
LEMMA Iterated ==
  ASSUME NEW X, NEW step \in [Nat -> [X -> X]], NEW first \in X, NEW N \in Nat
  PROVE  \E f : Iteration(X, step, first, N, f)
<1> DEFINE upTo(k, f) == f \in [0..k -> X] /\ f[0] = first /\ \A n \in 1..k : f[n] = step[n][f[n - 1]]
           S == {k \in Nat : \E f : upTo(k, f)}
<1>1. 0 \in S
  <2>1. upTo(0, [n \in 0..0 |-> first])
    OBVIOUS
  <2> QED
    BY <2>1
<1>2. ASSUME NEW k \in Nat, k \in S
      PROVE  k + 1 \in S
  <2>1. PICK f : upTo(k, f)
    BY <1>2
  <2> DEFINE g == [n \in 0..(k + 1) |-> IF n = k + 1 THEN step[k + 1][f[k]] ELSE f[n]]
  <2>2. /\ f \in [0..k -> X] /\ f[0] = first /\ \A n \in 1..k : f[n] = step[n][f[n - 1]]
    BY <2>1
  <2>3. f[k] \in X /\ step[k + 1] \in [X -> X]
    BY <2>2
  <2>4. /\ g[k + 1] = step[k + 1][f[k]] /\ g[k] = f[k] /\ g[0] = first
        /\ \A n \in 0..k : g[n] = f[n]
    BY <2>2
  <2>5. g \in [0..(k + 1) -> X]
    BY <2>2, <2>3
  <2> HIDE DEF g
  <2>6. ASSUME NEW n \in 1..(k + 1)
        PROVE  g[n] = step[n][g[n - 1]]
    <3>1. CASE n = k + 1
      <4>1. n - 1 = k
        BY <3>1
      <4> QED
        BY <2>4, <3>1, <4>1
    <3>2. CASE n # k + 1
      <4>1. n \in 1..k /\ n \in 0..k /\ n - 1 \in 0..k
        BY <3>2
      <4> QED
        BY <2>2, <2>4, <4>1
    <3> QED
      BY <3>1, <3>2
  <2>7. upTo(k + 1, g)
    BY <2>4, <2>5, <2>6
  <2> QED
    BY <2>7
<1> HIDE DEF S
<1>3. 0..N \subseteq S
  BY <1>1, <1>2, Climb
<1>4. PICK f : upTo(N, f)
  BY <1>3 DEF S
<1> QED
  BY <1>4 DEF Iteration
=============================================================================
