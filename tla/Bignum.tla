-------------------------------- MODULE Bignum --------------------------------
(* Arithmetic modulo a number wider than the field, on limbs (xark-bignum): what *)
(* its rows accept. A gadget is the set of its results, one for every assignment *)
(* of its hints that satisfies its rows; the honest hints are among them. The    *)
(* empty set means that no proof exists.                                         *)
(*                                                                               *)
(* A number is L limbs of B bits, least significant first, each a field element. *)
EXTENDS Integers, Sequences, FiniteSets, SequencesExt, FiniteSetsExt, Functions, TLC

CONSTANTS
  Fr,      \* the field's order
  L, B,   \* limbs, and bits of a limb
  K1, R1  \* the constants of secp256k1 and secp256r1

\* The budget of mod_mul, mod_inverse and require_lt: no column of products wraps.
ColumnsFit == 2 ^ (2 * B + 9) <= Fr

Base == 2 ^ B
Limbs(n) == [i \in 1..L |-> (n \div (Base ^ (i - 1))) % Base]
Value(x) == FoldFunction(+, 0, [i \in 1..L |-> x[i] * (Base ^ (i - 1))])
AllLimbs == [1..L -> 0..(Base - 1)]
One == Limbs(1)

\* The results of a chain of steps over the limbs, each with its own hints.
Chain(step(_, _), start, n) ==
  LET after[i \in 0..n] ==
        IF i = 0 THEN {start} ELSE UNION {step(s, i) : s \in after[i - 1]}
  IN after[n]

--------------------------------------------------------------------------------
(* A modulus, at compile time *)

\* The limbs of a string of digits, in radix 10 or 16; nothing when they do not fit.
parse_limbs(digits, radix) ==
  LET times(limbs, d) ==
        LET r == FoldLeft(LAMBDA acc, limb :
                            LET v == limb * radix + acc.carry
                            IN [out |-> Append(acc.out, v % Base), carry |-> v \div Base],
                          [out |-> <<>>, carry |-> d], limbs)
        IN IF r.carry = 0 THEN r.out ELSE <<>>
  IN FoldLeft(LAMBDA limbs, d : IF limbs = <<>> THEN <<>> ELSE times(limbs, d), Limbs(0), digits)

modulus_minus_1(m) ==
  FoldLeft(LAMBDA acc, limb :
             [out |-> Append(acc.out, (limb - acc.borrow) % Base),
              borrow |-> IF limb >= acc.borrow THEN 0 ELSE 1],
           [out |-> <<>>, borrow |-> 1], m).out

\* The modulus's two's complement in L limbs.
complement(m) ==
  FoldLeft(LAMBDA acc, limb :
             LET v == Base - 1 - limb + acc.carry
             IN [out |-> Append(acc.out, v % Base), carry |-> v \div Base],
           [out |-> <<>>, carry |-> 1], m).out

assert_fp_headroom(m) == m[L] < (Base - 1) \div 3

--------------------------------------------------------------------------------
(* Range checks: a value's bits are hints, each a bit, and they sum to it        *)

\* The numbers of n bits that stand for a field element.
Numbers(v, n) ==
  LET x == v % Fr IN {x + k * Fr : k \in 0..((2 ^ n - 1 - x) \div Fr)}

\* The carries of n bits whose multiple by the base stands for a field element.
Carries(v, n) ==
  LET x == v % Fr
      wraps == {k \in 0..(Base - 1) : (x + k * Fr) % Base = 0}
  IN {(x + k * Fr) \div Base : k \in wraps} \cap 0..(2 ^ n - 1)

range_check_limbs(x) == \A i \in 1..L : Numbers(x[i], B) # {}

\* x + y, limb by limb; and x - y.
Sum(x, y) ==
  LET step(s, i) == {[out |-> Append(s.out, n % Base), carry |-> n \div Base]
                       : n \in Numbers(x[i] + y[i] + s.carry, B + 1)}
  IN Chain(step, [out |-> <<>>, carry |-> 0], L)

Difference(x, y) ==
  LET step(s, i) == {[out |-> Append(s.out, n % Base), borrow |-> 1 - (n \div Base)]
                       : n \in Numbers(x[i] - y[i] - s.borrow + Base, B + 1)}
  IN Chain(step, [out |-> <<>>, borrow |-> 0], L)

is_lt(a, b) == {s.borrow : s \in Difference(a, b)}

assert_nonzero_limbs(x) == \E i \in 1..L : x[i] % Fr # 0

\* x <= m1: hints n say at which limbs x differs there or above; at the first
\* difference m1 is the larger.
require_lt(x, m1) ==
  \E n \in [1..(L + 1) -> {0, 1}] :
    /\ n[L + 1] = 0
    /\ \A k \in 1..(L - 1) : n[k] - n[k + 1] \in {0, 1}
    /\ \A j \in 1..L : n[j] = 0 => (x[j] - m1[j]) % Fr = 0
    /\ Numbers(FoldFunction(+, 0, [k \in 1..L |-> (n[k] - n[k + 1]) * (m1[k] - 1 - x[k])]), B) # {}

--------------------------------------------------------------------------------
(* Modular arithmetic *)

reduce_once(x, m) == {IF s.borrow = 0 THEN s.out ELSE x : s \in Difference(x, m)}

mod_add(a, b, m) == UNION {reduce_once(s.out, m) : s \in {s \in Sum(a, b) : s.carry = 0}}

\* m - b, with m itself, the result for zero, mapped to zero.
mod_neg(b, m) ==
  LET is_m(x) == FoldFunction(+, 0, [i \in 1..L |-> (x[i] - m[i]) * (x[i] - m[i])]) % Fr = 0
  IN {IF is_m(s.out) THEN Limbs(0) ELSE s.out : s \in {s \in Difference(m, b) : s.borrow = 0}}

mod_sub(a, b, comp) ==
  LET wrapped(s) == Difference(s.out, [i \in 1..L |-> s.borrow * comp[i]])
  IN {r.out : r \in {r \in UNION {wrapped(s) : s \in Difference(a, b)} : r.borrow = 0}}

triple_mod(v, m) ==
  LET step(s, i) == {[out |-> Append(s.out, n % Base), carry |-> n \div Base]
                       : n \in Numbers(3 * v[i] + s.carry, B + 2)}
      tripled == {s \in Chain(step, [out |-> <<>>, carry |-> 0], L) : s.carry = 0}
  IN UNION {reduce_once(x, m) : x \in UNION {reduce_once(s.out, m) : s \in tripled}}

carry_headroom == IF L > 16 THEN 5 ELSE 4

\* a * b = q * m + r, by columns of products, with a carry biased to be positive out of
\* every column but the last.
mulmod_columns(a, b, q, r, m) ==
  LET bias == 2 ^ (B + carry_headroom)
      shift == Base * bias
      pairs(c) == {i \in 1..L : c - i + 1 \in 1..L}
      column(c) == MapThenSumSet(LAMBDA i : a[i] * b[c - i + 1] - q[i] * m[c - i + 1], pairs(c))
                     - (IF c <= L THEN r[c] ELSE 0)
      num(c, carry) == column(c) + carry + shift - bias
      step(carry, c) == Carries(num(c, carry), B + carry_headroom + 2)
      top == 2 * L - 1
  IN \E carry \in Chain(step, bias, top - 1) : num(top, carry) % Fr = shift

mul_divmod(a, b, m) ==
  LET below(r) == {<<q, r>> : q \in {q \in AllLimbs : mulmod_columns(a, b, q, r, m)}}
  IN UNION {below(r) : r \in {r \in AllLimbs : require_lt(r, modulus_minus_1(m))}}

mod_mul(a, b, m) == {qr[2] : qr \in mul_divmod(a, b, m)}

mod_inverse(a, m) == {w \in AllLimbs : \E q \in AllLimbs : mulmod_columns(a, w, q, One, m)}

\* a - b - c, with the multiple of m that makes it positive a hint.
sub2(a, b, c, m) ==
  LET bias == 4
      shift == 4 * Base
      num(q, r, i, carry) == a[i] + q * m[i] - b[i] - c[i] - r[i] + carry + shift - bias
      balanced(q, r) ==
        LET step(carry, i) == Carries(num(q, r, i, carry), 3)
        IN \E carry \in Chain(step, bias, L - 1) : num(q, r, L, carry) % Fr = shift
  IN {r \in AllLimbs : require_lt(r, modulus_minus_1(m)) /\ \E q \in 0..2 : balanced(q, r)}

\* A type of numbers below a modulus written in digits: what its operators pass on.
Fp(digits, radix) ==
  LET m == parse_limbs(digits, radix)
  IN [M |-> m, M1 |-> modulus_minus_1(m), C |-> complement(m)]

assert_canonical(x, fp) == range_check_limbs(x) /\ require_lt(x, fp.M1)

--------------------------------------------------------------------------------
(* Bits and tables *)

IsBit(v) == (v * (v - 1)) % Fr = 0
BitsOf(v, n) == [i \in 1..n |-> (v \div (2 ^ (i - 1))) % 2]

\* The bits of a scalar whose last limb has top bits.
scalar_to_bits(u, top) ==
  LET bits(i) == {BitsOf(n, IF i = L THEN top ELSE B) : n \in Numbers(u[i], IF i = L THEN top ELSE B)}
      step(s, i) == {s \o bs : bs \in bits(i)}
  IN Chain(step, <<>>, L)

point_select_affine(bit, if_true, if_false) ==
  {[i \in DOMAIN if_true |-> (if_false[i] + bit * (if_true[i] - if_false[i])) % Fr] : b \in {b \in {bit} : IsBit(b)}}

\* A tree of selects: the least significant bit halves the table first.
select_affine(table, bits) ==
  LET pick(t, bit, j) == point_select_affine(bit, t[2 * j], t[2 * j - 1])
      halved(t, bit) ==
        LET step(s, j) == {Append(s, x) : x \in pick(t, bit, j)} IN Chain(step, <<>>, Len(t) \div 2)
      step(t, i) == halved(t, bits[i])
  IN {t[1] : t \in Chain(step, table, Len(bits))}

one_hot(bits) ==
  FoldLeft(LAMBDA out, bit : [v \in DOMAIN out |-> (out[v] * (1 - bit)) % Fr]
                               \o [v \in DOMAIN out |-> (out[v] * bit) % Fr],
           <<1>>, bits)

--------------------------------------------------------------------------------
(* Points of secp256k1 and secp256r1, by certificates of products. A curve cv has *)
(* p = Base^s * u - d, the remainders lo + Base^s * hi of Base^m modulo p, the     *)
(* ranges of a certificate's two numbers, twice: 2p in limbs no limb exceeds, and *)
(* 2p minus the equation's last coefficient.                                     *)

lin8(c, u, su, v, sv) == [i \in 1..L |-> c[i] + su * u[i] + sv * v[i]]
zero8 == Limbs(0)

cert_products(a, b, weights) ==
  LET column(c) == MapThenSumSet(LAMBDA i : a[i] * b[c - i + 1], {i \in 1..L : c - i + 1 \in 1..L})
  IN FoldFunction(+, 0, [c \in DOMAIN weights |-> weights[c] * column(c)])

\* a * b = t modulo p: the product less t is K * p, and K and T = K * u - hi are small.
mul_cert(cv, a, b, t) ==
  LET part(from, to) == FoldFunction(+, 0, [i \in from..to |-> t[i] * (Base ^ (i - from))])
      lo == cert_products(a, b, cv.lo) - part(1, cv.s)
      hi == cert_products(a, b, cv.hi) - part(cv.s + 1, L)
  IN \E K \in (-cv.K.bias)..(2 ^ cv.K.bits - 1 - cv.K.bias) :
       LET T == K * cv.u - hi
       IN /\ (T + cv.T.bias) % Fr < 2 ^ cv.T.bits
          /\ (lo + cv.d * K - (Base ^ cv.s) * T) % Fr = 0
mul_cert_k1(a, b, t) == mul_cert(K1, a, b, t)
mul_cert_r1(a, b, t) == mul_cert(R1, a, b, t)

\* What the solver computes for a hint; there is no inverse of zero.
hint_mul(cv, a, b) == Limbs((Value(a) * Value(b)) % cv.p)
hint_sub2(cv, a, b, c) == Limbs((Value(a) - Value(b) - Value(c)) % cv.p)
hint_inverse(cv, a) == {Limbs(w) : w \in {w \in 1..(cv.p - 1) : (w * (Value(a) % cv.p)) % cv.p = 1}}

difference(cv, u, v) == lin8(cv.twice, u, 1, v, -1)
double8(u) == lin8(zero8, u, 2, zero8, 0)

\* Hints range-checked to B bits a limb.
range32(certified(_)) == {v \in AllLimbs : certified(v)}

\* The x of P + Q on a line of slope l, and its y.
ThirdX(cv, l, x1, x2) == range32(LAMBDA x3 : mul_cert(cv, l, l, lin8(x3, x1, 1, x2, 1)))
ThirdY(cv, l, x1, y1, x3) == range32(LAMBDA y3 : mul_cert(cv, l, difference(cv, x1, x3), lin8(y3, y1, 1, zero8, 0)))
ThirdPoints(cv, l, x1, y1, x2) ==
  UNION {{<<x3, y3>> : y3 \in ThirdY(cv, l, x1, y1, x3)} : x3 \in ThirdX(cv, l, x1, x2)}

\* a bug: no inverse shows that the chord's denominator is not zero
Chords_Unguarded(cv, px, py, qx, qy) ==
  range32(LAMBDA l : mul_cert(cv, l, difference(cv, qx, px), difference(cv, qy, py)))

Chords(cv, px, py, qx, qy) ==
  LET dx == difference(cv, qx, px)
  IN {l \in range32(LAMBDA l : mul_cert(cv, l, dx, difference(cv, qy, py))) :
        range32(LAMBDA w : mul_cert(cv, w, dx, One)) # {}}

\* P + Q and (A + S) + A, incomplete: the results the rows accept.
ec_add_check(cv, px, py, qx, qy) ==
  UNION {ThirdPoints(cv, l, px, py, qx) : l \in Chords(cv, px, py, qx, qy)}
ec_double_add_check(cv, ax, ay, sx, sy) ==
  LET second(l1, xr) ==
        range32(LAMBDA l2 : mul_cert(cv, lin8(l1, l2, 1, zero8, 0), difference(cv, ax, xr), double8(ay)))
      from(l1) == UNION {UNION {ThirdPoints(cv, l2, ax, ay, xr) : l2 \in second(l1, xr)}
                           : xr \in ThirdX(cv, l1, ax, sx)}
  IN UNION {from(l1) : l1 \in Chords(cv, ax, ay, sx, sy)}

\* The results an honest prover's hints give, if it has any.
ec_add(cv, px, py, qx, qy) ==
  LET third(w) ==
        LET l == hint_mul(cv, difference(cv, qy, py), w)
            x3 == hint_sub2(cv, hint_mul(cv, l, l), px, qx)
        IN <<x3, hint_sub2(cv, hint_mul(cv, l, hint_sub2(cv, px, x3, zero8)), py, zero8)>>
  IN {third(w) : w \in hint_inverse(cv, difference(cv, qx, px))}
ec_double_add(cv, ax, ay, sx, sy) ==
  LET slope(w) == hint_mul(cv, difference(cv, sy, ay), w)
      x(l, x1, x2) == hint_sub2(cv, hint_mul(cv, l, l), x1, x2)
      third(l1, xr, v) ==
        LET l2 == hint_sub2(cv, hint_mul(cv, double8(ay), v), l1, zero8)
            x3 == x(l2, xr, ax)
        IN <<x3, hint_sub2(cv, hint_mul(cv, l2, hint_sub2(cv, ax, x3, zero8)), ay, zero8)>>
      thirds(l1) ==
        LET xr == x(l1, ax, sx)
        IN {third(l1, xr, v) : v \in hint_inverse(cv, hint_sub2(cv, ax, xr, zero8))}
  IN UNION {thirds(slope(w)) : w \in hint_inverse(cv, difference(cv, sx, ax))}

\* y^2 = x^3 + a * x + b on canonical coordinates, a zero or less.
on_curve_check(cv, x, y) ==
  LET squares(v) == range32(LAMBDA s : mul_cert(cv, v, v, s))
  IN \E s \in squares(x), z \in squares(y) :
       mul_cert(cv, s, x, lin8(cv.twice_minus_b, z, 1, x, -cv.a))
on_curve(cv, x, y) ==
  LET m1 == modulus_minus_1(Limbs(cv.p))
  IN require_lt(x, m1) /\ require_lt(y, m1) /\ on_curve_check(cv, x, y)

ec_add_k1_check(px, py, qx, qy) == ec_add_check(K1, px, py, qx, qy)
ec_add_r1_check(px, py, qx, qy) == ec_add_check(R1, px, py, qx, qy)
ec_add_k1(px, py, qx, qy) == ec_add(K1, px, py, qx, qy)
ec_add_r1(px, py, qx, qy) == ec_add(R1, px, py, qx, qy)
ec_double_add_k1_check(ax, ay, sx, sy) == ec_double_add_check(K1, ax, ay, sx, sy)
ec_double_add_r1_check(ax, ay, sx, sy) == ec_double_add_check(R1, ax, ay, sx, sy)
ec_double_add_k1(ax, ay, sx, sy) == ec_double_add(K1, ax, ay, sx, sy)
ec_double_add_r1(ax, ay, sx, sy) == ec_double_add(R1, ax, ay, sx, sy)
on_curve_k1(x, y) == on_curve(K1, x, y)
on_curve_r1(x, y) == on_curve(R1, x, y)

--------------------------------------------------------------------------------
(* What is expected of them *)

Only(n) == {Limbs(n)}

\* Sums, differences and products are those of the numbers modulo m: a result there
\* is whatever the hints, and none where the code says so (an overflow, a quotient
\* that is too long).
NumbersExact(fp, a, b) ==
  LET m == Value(fp.M)
      x == Value(a)
      y == Value(b)
      reduced == x < m /\ y < m
      congruent(results, n) == \A r \in results : Value(r) % m = n % m
  IN /\ fp.M1 = Limbs(m - 1) /\ Value(fp.C) = Base ^ L - m /\ assert_fp_headroom(fp.M)
     /\ assert_canonical(a, fp) = (x < m)
     /\ assert_nonzero_limbs(a) = (x # 0)
     /\ is_lt(a, b) = {IF x < y THEN 1 ELSE 0}
     /\ congruent(mod_add(a, b, fp.M), x + y)
     /\ (mod_add(a, b, fp.M) = {}) = (x + y >= Base ^ L)
     /\ mod_neg(b, fp.M) = IF y <= m THEN Only((m - y) % m) ELSE {}
     /\ reduced => /\ mod_add(a, b, fp.M) = Only((x + y) % m)
                    /\ mod_sub(a, b, fp.C) = Only((x - y) % m)
                    /\ triple_mod(a, fp.M) = Only((3 * x) % m)
                    /\ sub2(a, b, b, fp.M) = Only((x - 2 * y) % m)
     /\ congruent(sub2(a, b, a, fp.M), -y)
     /\ mul_divmod(a, b, fp.M) =
          IF (x * y) \div m < Base ^ L THEN {<<Limbs((x * y) \div m), Limbs((x * y) % m)>>} ELSE {}
     /\ mod_inverse(a, fp.M) =
          {Limbs(w) : w \in {w \in 0..(Base ^ L - 1) : (w * x) % m = 1 /\ (w * x) \div m < Base ^ L}}

\* A scalar's bits are its own, and pick its entry of a table.
TablesExact(u, top) ==
  LET n == Value(u)
      bits == BitsOf(n, (L - 1) * B + top)
      table == [i \in 1..(2 ^ Len(bits)) |-> <<i, 3 * i>>]
  IN /\ scalar_to_bits(u, top) = IF u[L] < 2 ^ top THEN {bits} ELSE {}
     /\ u[L] < 2 ^ top =>
          /\ one_hot(bits) = [i \in DOMAIN table |-> IF i = n + 1 THEN 1 ELSE 0]
          /\ select_affine(table, bits) = {table[n + 1]}
          /\ select_affine(table, [bits EXCEPT ![1] = 2]) = {}

\* The third point on the line through two points of different x, reflected.
ChordSum(cv, P, Q) ==
  LET l == CHOOSE l \in 0..(cv.p - 1) : (l * (Q[1] - P[1])) % cv.p = (Q[2] - P[2]) % cv.p
      x == (l * l - P[1] - Q[1]) % cv.p
  IN <<x, (l * (P[1] - x) - P[2]) % cv.p>>
PointOf(cv, x, y) == <<Value(x) % cv.p, Value(y) % cv.p>>

\* Only the sum is accepted, and an honest prover finds it, unless x_P = x_Q.
AdditionExact(cv, accepted, honest, expected) ==
  /\ {PointOf(cv, r[1], r[2]) : r \in accepted} = expected
  /\ honest = {<<Limbs(R[1]), Limbs(R[2])>> : R \in expected}
  /\ honest \subseteq accepted
SumOf(cv, P, Q) == IF P[1] = Q[1] THEN {} ELSE {ChordSum(cv, P, Q)}
DoubleSumOf(cv, A, S) == UNION {SumOf(cv, R, A) : R \in SumOf(cv, A, S)}

Equation(cv, x, y) == (y * y) % cv.p = (x * x * x + cv.a * x + cv.b) % cv.p
================================================================================
