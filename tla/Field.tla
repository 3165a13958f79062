------------------------------- MODULE Field -------------------------------
(***************************************************************************)
(* The scalar field of the proof system, at a small size.  BN254's Fr is   *)
(* replaced by the integers modulo a prime P whose multiplicative group    *)
(* has, as Fr's has, subgroups of order 2^k, 3*2^k and 9*2^k.  A group     *)
(* element of G1 or G2 is its discrete logarithm, so both groups are the   *)
(* integers modulo P and the pairing is their product.                     *)
(*                                                                         *)
(* A vector of the code (indices from 0) is a sequence: a[i] of the code   *)
(* is At(a, i) here.                                                       *)
(***************************************************************************)
EXTENDS Integers, Sequences, FiniteSets

CONSTANTS P,     \* the field's size, a prime
          Gen    \* a generator of its multiplicative group

ASSUME FieldAssumption ==
    /\ P \in Nat \ {0, 1}
    /\ \A d \in 2..(P - 1) : P % d # 0
    /\ Gen \in 1..(P - 1)

Fr == 0..(P - 1)

Add(a, b) == (a + b) % P
Sub(a, b) == (a - b) % P
Mul(a, b) == (a * b) % P
Neg(a) == (-a) % P

(* Gen^e for every exponent, and the discrete logarithms. *)
RECURSIVE SquareAndMultiply(_, _)
SquareAndMultiply(a, e) ==
    IF e = 0 THEN 1
    ELSE LET h == SquareAndMultiply(a, e \div 2)
         IN  Mul(Mul(h, h), IF e % 2 = 0 THEN 1 ELSE a)
PowersOfGen == [e \in 0..(P - 2) |-> SquareAndMultiply(Gen, e)]
ExpOf == [a \in 1..(P - 1) |-> CHOOSE e \in 0..(P - 2) : PowersOfGen[e] = a]

Pow(a, e) ==
    IF e = 0 THEN 1
    ELSE IF a = 0 THEN 0 ELSE PowersOfGen[(ExpOf[a] * (e % (P - 1))) % (P - 1)]
Inv(a) == PowersOfGen[(P - 1 - ExpOf[a]) % (P - 1)]   \* a # 0

(* Fr::get_root_of_unity(n): a generator of the subgroup of order n. *)
HasRoot(n) == (P - 1) % n = 0
RootOfUnity(n) == PowersOfGen[(P - 1) \div n]

(* body(x), with x computed once: a LET is walked again for every use of    *)
(* its name by TLC's -coverage, which a chain of them makes exponential.    *)
Let(x, body(_)) == body(x)

(* Vectors. *)
Vec(n, f(_)) == SubSeq([i \in 1..n |-> f(i - 1)], 1, n)
At(a, i) == a[i + 1]
Zeros(n) == Vec(n, LAMBDA i : 0)
Slice(a, from, to) == SubSeq(a, from + 1, to)      \* a[from..to]
Map(a, f(_)) == Vec(Len(a), LAMBDA i : f(At(a, i)))
ZipWith(a, b, f(_, _)) == Vec(Len(a), LAMBDA i : f(At(a, i), At(b, i)))
Total(a) ==
    LET t[i \in 0..Len(a)] == IF i = 0 THEN 0 ELSE Add(t[i - 1], a[i])
    IN  t[Len(a)]
Dot(a, b) == Total(ZipWith(a, b, LAMBDA x, y : Mul(x, y)))

(* Dot products and sums of the code's integers, outside the field. *)
CeilDiv(a, b) == (a + b - 1) \div b
AtLeast(a, b) == IF a < b THEN b ELSE a
AtMost(a, b) == IF a < b THEN a ELSE b
=============================================================================
