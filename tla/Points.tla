------------------------------- MODULE Points -------------------------------
(***************************************************************************)
(* Points as bytes: the compressed decoder of src/crates/groth16/src/      *)
(* decode.rs with its square roots, the on-chain format of solana.rs, the  *)
(* big-endian one of src/crates/backend/src/solana.rs and the Montgomery   *)
(* one of a powers-of-tau file (src/crates/backend/src/ptau.rs).           *)
(*                                                                         *)
(* The base field is the integers modulo Q, as BN254's with Q % 4 = 3 and  *)
(* Q % 3 = 1; Fq2 is Fq[u]/(u^2 + 1), an element <<c0, c1>>.  The 32 bytes *)
(* of a coordinate are one number below 2^Width, which Q does not fill.    *)
(***************************************************************************)
EXTENDS Integers, Sequences, FiniteSets

CONSTANTS Q,       \* the base field's size
          Width,   \* bits of a coordinate, the two flag bits left out
          Window,  \* bits of a window of pow_window
          B2,      \* the constant of G2's curve; G1's is 3
          MontR    \* Montgomery's R, modulo Q

(* What the constants must be: a small field like BN254's.                 *)
PointsAssumption ==
    /\ Q \in Nat /\ Q % 4 = 3 /\ Q % 3 = 1 /\ \A d \in 2..(Q - 1) : Q % d # 0
    /\ 2 ^ Width > Q /\ Window \in Nat \ {0}
    /\ B2 \in (0..(Q - 1)) \X (0..(Q - 1)) /\ MontR \in 1..(Q - 1)

Fq == 0..(Q - 1)
Fq2 == Fq \X Fq
Raw == 0..(2 ^ Width - 1)       \* what a coordinate's bytes may hold

MulQ(a, b) == (a * b) % Q
InvQ(a) == CHOOSE x \in Fq : MulQ(a, x) = 1
Add2(a, b) == <<(a[1] + b[1]) % Q, (a[2] + b[2]) % Q>>
Neg2(a) == <<(-a[1]) % Q, (-a[2]) % Q>>
Mul2(a, b) == <<((a[1] * b[1]) - (a[2] * b[2])) % Q, ((a[1] * b[2]) + (a[2] * b[1])) % Q>>

Bad == <<"Bad">>            \* an error, for a point
Infinity == <<"Infinity">>  \* the point at infinity
Nothing == << >>            \* a None
NoRoot == -1                \* a None, for a number

-----------------------------------------------------------------------------
(* Square roots.                                                           *)

(* pow_window: digits of Window bits from the top one down, the first      *)
(* nonzero one looked up and each later one after Window squarings.        *)
Digits(e) ==
    LET n == CHOOSE k \in 0..Width : 2 ^ (Window * k) > e
    IN  [i \in 1..n |-> (e \div (2 ^ (Window * (n - i)))) % (2 ^ Window)]
PowWindow(a, e) ==
    LET table[i \in 0..(2 ^ Window - 1)] == IF i = 0 THEN 1 ELSE MulQ(table[i - 1], a)
        squared[k \in 0..Window, x \in Fq] == IF k = 0 THEN x ELSE squared[k - 1, MulQ(x, x)]
        ds == Digits(e)
        acc[i \in 0..Len(ds)] ==
            IF i = 0 THEN 1
            ELSE LET before == acc[i - 1]
                 IN  IF \A j \in 1..(i - 1) : ds[j] = 0 THEN table[ds[i]]
                     ELSE MulQ(squared[Window, before], table[ds[i]])
    IN  acc[Len(ds)]

SqrtExp == (Q + 1) \div 4
InvSqrtExp == SqrtExp - 1
TwoInv == InvQ(2)

SqrtFq(a) == LET r == PowWindow(a, SqrtExp) IN IF MulQ(r, r) = a THEN r ELSE NoRoot

(* A root of delta and its inverse from one exponentiation. *)
RootAndInv(delta) ==
    LET t == PowWindow(delta, InvSqrtExp)
        r == MulQ(t, delta)
    IN  IF MulQ(r, t) = 1 THEN <<r, t>> ELSE Nothing

(* arkworks' root of a real input: of c0, or u times the root of -c0. *)
SqrtReal(c0) ==
    IF SqrtFq(c0) # NoRoot THEN <<SqrtFq(c0), 0>>
    ELSE IF SqrtFq((-c0) % Q) # NoRoot THEN <<0, SqrtFq((-c0) % Q)>> ELSE Nothing

SqrtFq2(a) ==
    IF a[2] = 0 THEN SqrtReal(a[1])
    ELSE LET s == SqrtFq(((a[1] * a[1]) + (a[2] * a[2])) % Q) IN
         IF s = NoRoot THEN Nothing
         ELSE LET delta == MulQ(s + a[1], TwoInv)
                  first == RootAndInv(delta)
                  ri == IF first # Nothing THEN first ELSE RootAndInv((delta - s) % Q)
                  cand == <<ri[1], MulQ(MulQ(a[2], TwoInv), ri[2])>>
              IN  IF ri = Nothing THEN Nothing
                  ELSE IF Mul2(cand, cand) = a THEN cand ELSE Nothing

-----------------------------------------------------------------------------
(* Compressed points: the x coordinate and the two flags.                  *)

Smaller(y, neg) == y[2] < neg[2] \/ (y[2] = neg[2] /\ y[1] < neg[1])   \* arkworks' order: c1 first

(* flags: both set is an error; decode.rs g1 and g2. *)
DecodeG1(e) ==
    IF e.larger /\ e.inf THEN Bad
    ELSE IF e.x \notin Fq THEN Bad
    ELSE IF e.inf THEN Infinity
    ELSE LET y == SqrtFq((MulQ(MulQ(e.x, e.x), e.x) + 3) % Q)
             neg == (-y) % Q
         IN  IF y = NoRoot THEN Bad
             ELSE <<e.x, IF (y < neg) # e.larger THEN y ELSE neg>>
DecodeG2(e) ==
    IF e.larger /\ e.inf THEN Bad
    ELSE IF e.x \notin Fq2 THEN Bad
    ELSE IF e.inf THEN Infinity
    ELSE LET y == SqrtFq2(Add2(Mul2(Mul2(e.x, e.x), e.x), B2)) IN
         IF y = Nothing THEN Bad
         ELSE <<e.x, IF Smaller(y, Neg2(y)) # e.larger THEN y ELSE Neg2(y)>>

(* arkworks' encoder, which decode.rs inverts. *)
EncodeG1(p) == IF p = Infinity THEN [x |-> 0, larger |-> FALSE, inf |-> TRUE]
               ELSE [x |-> p[1], larger |-> (-p[2]) % Q < p[2], inf |-> FALSE]
EncodeG2(p) == IF p = Infinity THEN [x |-> <<0, 0>>, larger |-> FALSE, inf |-> TRUE]
               ELSE [x |-> p[1], larger |-> Smaller(Neg2(p[2]), p[2]), inf |-> FALSE]

OnG1(p) == MulQ(p[2], p[2]) = (MulQ(MulQ(p[1], p[1]), p[1]) + 3) % Q
OnG2(p) == Mul2(p[2], p[2]) = Add2(Mul2(Mul2(p[1], p[1]), p[1]), B2)

-----------------------------------------------------------------------------
(* Uncompressed points as four (two) coordinates, all zero at infinity.    *)

(* solana.rs: little-endian, c0 before c1; every point checked. *)
EncodeG1Le(p) == IF p = Infinity THEN <<0, 0>> ELSE p
EncodeG2Le(p) == IF p = Infinity THEN <<0, 0, 0, 0>> ELSE <<p[1][1], p[1][2], p[2][1], p[2][2]>>
G1Le(b) ==
    IF b = <<0, 0>> THEN Infinity
    ELSE IF \E i \in 1..2 : b[i] \notin Fq THEN Bad
    ELSE IF OnG1(b) THEN b ELSE Bad
G2Le(b, inSubgroup(_)) ==
    IF b = <<0, 0, 0, 0>> THEN Infinity
    ELSE IF \E i \in 1..4 : b[i] \notin Fq THEN Bad
    ELSE LET p == <<<<b[1], b[2]>>, <<b[3], b[4]>>>>
         IN  IF OnG2(p) /\ inSubgroup(p) THEN p ELSE Bad
NegateG1(p) == IF p = Infinity THEN Infinity ELSE <<p[1], (-p[2]) % Q>>

(* backend solana.rs: big-endian, c1 before c0; nothing checked. *)
EncodeG2Be(p) == IF p = Infinity THEN <<0, 0, 0, 0>> ELSE <<p[1][2], p[1][1], p[2][2], p[2][1]>>
DecodeG2Be(b) ==
    IF b = <<0, 0, 0, 0>> THEN Infinity
    ELSE <<<<b[2] % Q, b[1] % Q>>, <<b[4] % Q, b[3] % Q>>>>

(* A powers-of-tau file holds x * R mod Q for a coordinate x. *)
FqFromLeMont(n) == IF n \in Fq THEN MulQ(n, InvQ(MontR)) ELSE NoRoot
FqToLeMont(x) == MulQ(x, MontR)
ReadG1Point(b) ==
    LET x == FqFromLeMont(b[1])
        y == FqFromLeMont(b[2])
    IN  IF x = NoRoot \/ y = NoRoot THEN Bad
        ELSE IF <<x, y>> = <<0, 0>> THEN Infinity
        ELSE IF OnG1(<<x, y>>) THEN <<x, y>> ELSE Bad

-----------------------------------------------------------------------------
G1Points == {p \in Fq \X Fq : OnG1(p)} \cup {Infinity}
G2PointsAt(x) == {p \in (Fq2 \cap {x}) \X Fq2 : OnG2(p)}

(* Each point has one compressed form, decoded back to it; whatever else   *)
(* is accepted is a point of the curve, or infinity with a coordinate that *)
(* is not looked at; a coordinate not below Q never is (decode.rs).        *)
CompressedAgrees(x) ==
    /\ \A p \in G2PointsAt(x) : DecodeG2(EncodeG2(p)) = p
    /\ \A larger, inf \in BOOLEAN :
        LET e == [x |-> x, larger |-> larger, inf |-> inf]
            p == DecodeG2(e)
        IN  /\ p \notin {Bad, Infinity} => OnG2(p) /\ EncodeG2(p) = e
            /\ p = Infinity <=> inf /\ ~larger /\ x \in Fq2
            /\ x \in Fq2 /\ ~inf => (p = Bad <=> G2PointsAt(x) = {})
    /\ \A larger, inf \in BOOLEAN :
        LET e == [x |-> x[1], larger |-> larger, inf |-> inf]
            p == DecodeG1(e)
        IN  /\ p \notin {Bad, Infinity} => p \in G1Points /\ EncodeG1(p) = e
            /\ p = Infinity <=> inf /\ ~larger /\ x[1] \in Fq

(* The on-chain form gives a point back and takes no other bytes for it;   *)
(* the big-endian form that a ceremony hashes tells points apart; a        *)
(* coordinate of a powers-of-tau file is not taken twice out of its        *)
(* Montgomery form (solana.rs of both crates, ptau.rs fq_from_le_mont).    *)
UncompressedAgrees(x) ==
    /\ \A p \in G2PointsAt(x) \cup {Infinity} :
        /\ G2Le(EncodeG2Le(p), LAMBDA g : TRUE) = p
        /\ DecodeG2Be(EncodeG2Be(p)) = p
    /\ \A p \in G1Points :
        /\ G1Le(EncodeG1Le(p)) = p
        /\ NegateG1(NegateG1(p)) = p /\ NegateG1(p) \in G1Points
        /\ LET c == IF p = Infinity THEN <<0, 0>> ELSE p
           IN  ReadG1Point(<<FqToLeMont(c[1]), FqToLeMont(c[2])>>) = p
    /\ LET p == G1Le(x) IN p # Bad => EncodeG1Le(p) = x
    /\ LET p == ReadG1Point(x) IN p # Bad =>
           p \in G1Points /\ \A i \in 1..2 : x[i] = FqToLeMont(EncodeG1Le(p)[i])
=============================================================================
