------------------------------ MODULE Induction ------------------------------
(***************************************************************************)
(* Induction and recursion over an initial segment of the naturals,        *)
(* without operator parameters: a statement about all indices is the set   *)
(* of the indices at which it holds, and a recursive definition is a       *)
(* function that takes an index and the value before to the value there.   *)
(***************************************************************************)
EXTENDS Integers, TLAPS, WellFoundedInduction

(* Every non-empty set of natural numbers has a least element.             *)
LEMMA LeastNat ==
  ASSUME NEW T, T \subseteq Nat, T # {}
  PROVE  \E n \in T : \A m \in T : n <= m
<1>1. IsWellFoundedOn({ss \in Nat \X Nat : ss[1] < ss[2]}, Nat)
  BY NatLessThanWellFounded, Zenon DEF OpToRel
<1>2. PICK n \in T : \A m \in T : ~ (<<m, n>> \in {ss \in Nat \X Nat : ss[1] < ss[2]})
  BY <1>1, WFMin, Zenon
<1>3. \A m \in T : ~ (m < n)
  BY <1>2
<1> QED
  BY <1>3

(* Induction on an initial segment of the naturals, for the set of the     *)
(* indices at which the statement holds.                                   *)
LEMMA SegmentInduction ==
  ASSUME NEW n \in Nat, NEW Good,
         0 \in Good,
         \A i \in 0..n : i # 0 /\ i - 1 \in Good => i \in Good
  PROVE  \A i \in 0..n : i \in Good
<1> DEFINE Bad == {i \in 0..n : i \notin Good}
<1>1. SUFFICES ASSUME Bad # {} PROVE FALSE
  OBVIOUS
<1>2. Bad \subseteq Nat
  OBVIOUS
<1>3. PICK i \in Bad : \A m \in Bad : i <= m
  <2> HIDE DEF Bad
  <2> QED BY <1>1, <1>2, LeastNat
<1>4. i # 0 /\ i - 1 \in 0..n /\ ~ (i <= i - 1)
  BY <1>3
<1>5. i - 1 \in Good
  BY <1>3, <1>4
<1> QED
  BY <1>3, <1>4, <1>5

(* f is the recursion on 0..n from base, where step takes an index and the *)
(* value before it to the value at it.                                     *)
Recursion(f, n, S, base, step) ==
  /\ f \in [0..n -> S]
  /\ f[0] = base
  /\ \A i \in 1..n : f[i] = step[<<i, f[i - 1]>>]

(* Every recursion has a solution.                                         *)
LEMMA SegmentRecursion ==
  ASSUME NEW n \in Nat, NEW S, NEW base \in S, NEW step \in [(1..n) \X S -> S]
  PROVE  \E f : Recursion(f, n, S, base, step)
<1> DEFINE Solves(f, k) == Recursion(f, k, S, base, step)
           Good == {k \in 0..n : \E f : Solves(f, k)}
<1>1. 0 \in Good
  <2>1. Solves([i \in 0..0 |-> base], 0)
    BY DEF Recursion
  <2> HIDE DEF Solves
  <2> QED BY <2>1
<1>2. \A k \in 0..n : k # 0 /\ k - 1 \in Good => k \in Good
  <2> SUFFICES ASSUME NEW k \in 0..n, k # 0, k - 1 \in Good PROVE k \in Good
    OBVIOUS
  <2>1. PICK f : Solves(f, k - 1)
    OBVIOUS
  <2>2. k \in 1..n /\ k - 1 \in 0..(k - 1) /\ f[k - 1] \in S
    BY <2>1 DEF Recursion
  <2> DEFINE g == [i \in 0..k |-> IF i = k THEN step[<<k, f[k - 1]>>] ELSE f[i]]
  <2>3. step[<<k, f[k - 1]>>] \in S
    BY <2>2
  <2>4. g \in [0..k -> S]
    <3>1. \A i \in 0..k : i = k \/ i \in 0..(k - 1)
      OBVIOUS
    <3> QED BY <3>1, <2>1, <2>3 DEF Recursion
  <2>5. g[0] = base
    BY <2>1 DEF Recursion
  <2>6. \A i \in 1..k : g[i] = step[<<i, g[i - 1]>>]
    <3> TAKE i \in 1..k
    <3>1. g[i - 1] = f[i - 1]
      OBVIOUS
    <3>2. CASE i = k
      <4>1. g[i] = step[<<k, f[k - 1]>>]
        BY <3>2
      <4> HIDE DEF g
      <4> QED BY <4>1, <3>1, <3>2
    <3>3. CASE i # k
      <4>1. i \in 1..(k - 1) /\ g[i] = f[i]
        BY <3>3
      <4> QED BY <4>1, <3>1, <2>1 DEF Recursion
    <3> QED BY <3>2, <3>3
  <2>7. Solves(g, k)
    BY <2>4, <2>5, <2>6 DEF Recursion
  <2> QED BY <2>7
<1>3. n \in Good
  <2> HIDE DEF Good
  <2>1. \A k \in 0..n : k \in Good
    BY <1>1, <1>2, SegmentInduction
  <2> QED BY <2>1
<1> QED
  BY <1>3
=============================================================================
