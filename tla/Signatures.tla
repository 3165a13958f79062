------------------------------- MODULE Signatures -------------------------------
(* The signature gadgets: ECDSA on secp256k1 and secp256r1 and EdDSA on Ed25519, *)
(* by fake GLV, and the curve macros. A point is its logarithm in a cyclic group, *)
(* to a base that is G on the Weierstrass curves. There, a curve cv has order n,  *)
(* the x of every point, b bits in a limb (64 in the code), a comb of N windows   *)
(* of W bits (32 of 8), and the offsets O and H; on Ed25519 the group's order is  *)
(* 8n and G is 8.                                                                *)
EXTENDS Integers, Sequences, SequencesExt, FiniteSets

Bit(v, i) == (v \div (2 ^ i)) % 2
Xor(a, b) == (a + b) % 2
Sign(bit) == 2 * bit - 1
Downward(n) == [i \in 1..n |-> n - i]

\* No assignment satisfies the rows of an addition: the points have one x, or there
\* is no point to add.
NoPoint == 0
Add(cv, P, Q) == IF 0 \in {P, Q, (P + Q) % cv.n, (P - Q) % cv.n} THEN NoPoint ELSE (P + Q) % cv.n
DoubleAdd(cv, A, S) == Add(cv, Add(cv, A, S), A)
Times(cv, k, P) == (k * P) % cv.n

--------------------------------------------------------------------------------
(* The witness: R = u1 G + u2 Q and a short vector of the lattice                *)

\* u P + 2^bits off. The sum is computed whatever the bit: its hint fails the solve.
wmul1(cv, u, P, off) ==
  FoldLeft(LAMBDA acc, i : LET twice == Times(cv, 2, acc)
                               sum == Add(cv, twice, P)
                           IN IF sum = NoPoint THEN NoPoint ELSE IF Bit(u, i) = 1 THEN sum ELSE twice,
           off, Downward(cv.W * cv.N))

wmul2(cv, u1, u2, Q) ==
  Add(cv, Add(cv, wmul1(cv, u1, 1, cv.O), wmul1(cv, u2, Q, cv.H)),
      Times(cv, -(2 ^ (cv.W * cv.N)), cv.O + cv.H))

\* a1 + lambda a2 = u (b1 + lambda b2), each below 2^b: which one the reduction of the
\* basis ends at is left open.
fake_glv(cv, u, lambda) ==
  {v \in [1..4 -> (1 - 2 ^ cv.b)..(2 ^ cv.b - 1)] :
     /\ \E i \in 1..4 : v[i] # 0
     /\ (v[1] + lambda * v[2] - u * (v[3] + lambda * v[4])) % cv.n = 0}

--------------------------------------------------------------------------------
(* ECDSA: rows on the scalars, on the table and on the points                    *)

relations(cv, A, B, C, r, s, e) == (A * s + B * r) % cv.n = 0 /\ (C * s + B * e) % cv.n = 0
x_is(cv, R, r) == cv.X[R] \in {r, r + cv.n}

\* secp256k1, four coefficients: A = k0 + lambda k1, B = k2 + lambda k3.
DIGITS_K1(cv) == cv.b + 1
half(cv, k, i) == k[i] + cv.lambda * k[i + 1]
fake_glv_check_k1(cv, r, s, e, R, k, C) ==
  /\ k[3] # 0 \/ k[4] # 0
  /\ relations(cv, half(cv, k, 1), half(cv, k, 3), C, r, s, e)
  /\ x_is(cv, R, r)

phi(cv, P) == Times(cv, cv.lambda, P)
table_k1(cv, Q, R) ==
  LET a(e) == Add(cv, Q, Times(cv, Sign(1 - e), phi(cv, Q)))
      b(e) == Add(cv, R, Times(cv, Sign(1 - e), phi(cv, R)))
      entry(e2, e3, e4) ==
        IF e3 = 0 THEN Add(cv, a(e2), b(e4)) ELSE Times(cv, -1, Add(cv, b(1 - e4), Times(cv, -1, a(e2))))
  IN [i \in 0..7 |-> entry(Bit(i, 0), Bit(i, 1), Bit(i, 2))]

\* a bug: the index is the digits as they are, not relative to the first's sign
walk_k1_PlainIndex(cv, t, k) ==
  LET d(m, i) == Bit(k[m] + 2 ^ cv.b, i)
      index(i) == d(2, i) + 2 * d(3, i) + 4 * d(4, i)
  IN FoldLeft(LAMBDA acc, i : DoubleAdd(cv, acc, Times(cv, Sign(d(1, i)), t[index(i)])),
              cv.O, Downward(DIGITS_K1(cv)))

\* 2^DIGITS O + the sum of (2 k_m + 1) P_m over P = Q, phi Q, R, phi R.
walk_k1(cv, t, k) ==
  LET d(m, i) == Bit(k[m] + 2 ^ cv.b, i)
      relative(m, i) == Xor(d(1, i), d(m, i))
      index(i) == relative(2, i) + 2 * relative(3, i) + 4 * relative(4, i)
  IN FoldLeft(LAMBDA acc, i : DoubleAdd(cv, acc, Times(cv, Sign(d(1, i)), t[index(i)])),
              cv.O, Downward(DIGITS_K1(cv)))

\* secp256r1, two coefficients A and B twice as wide.
LAMBDA_R1(cv) == 2 ^ cv.b
DIGITS_R1(cv) == 2 * cv.b + 2
bias_r1(cv) == 2 ^ (2 * cv.b + 1)
fake_glv_check_r1(cv, r, s, e, R, ab, C) ==
  ab[2] # 0 /\ relations(cv, ab[1], ab[2], C, r, s, e) /\ x_is(cv, R, r)

table_r1(cv, Q, R) == [i \in 0..1 |-> Add(cv, Q, Times(cv, Sign(1 - i), R))]

walk_r1(cv, t, ab) ==
  LET d(m, i) == Bit(ab[m] + bias_r1(cv), i)
  IN FoldLeft(LAMBDA acc, i : DoubleAdd(cv, acc, Times(cv, Sign(d(1, i)), t[Xor(d(1, i), d(2, i))])),
              cv.O, Downward(DIGITS_R1(cv)))

\* The comb's tables, built so that the windows of C sum to 2 C G - 2^digits O.
COMB(cv, digits, j, v) ==
  Times(cv, 1, (2 * v) * (2 ^ (cv.W * j))
                 + (IF j = 0 THEN -(2 ^ digits) * cv.O - (2 ^ cv.N - 2) * cv.H ELSE (2 ^ j) * cv.H))
comb(cv, digits, C) ==
  LET window(j) == COMB(cv, digits, j, (C \div (2 ^ (cv.W * j))) % (2 ^ cv.W))
  IN FoldLeft(LAMBDA acc, j : Add(cv, acc, window(j)), window(0), [j \in 1..(cv.N - 1) |-> j])

\* The last row: M + C' is the table's first entry.
ends_k1(cv, Q, R, k, C) == Add(cv, walk_k1(cv, table_k1(cv, Q, R), k), comb(cv, DIGITS_K1(cv), C))
ends_r1(cv, Q, R, ab, C) == Add(cv, walk_r1(cv, table_r1(cv, Q, R), ab), comb(cv, DIGITS_R1(cv), C))
closes(t, end) == NoPoint \notin {t[i] : i \in DOMAIN t} /\ end # NoPoint /\ end = t[0]

in_range(cv, r, s, e) == r \in 1..(cv.n - 1) /\ s \in 1..(cv.n - 1) /\ e \in 0..(cv.n - 1)
Scalars(cv) == 0..(2 ^ (cv.W * cv.N) - 1)
Points(cv) == 1..(cv.n - 1)

\* Some assignment of the hints satisfies the rows.
ecdsa_verify_k1(cv, Q, r, s, e) ==
  /\ in_range(cv, r, s, e)
  /\ \E R \in {R \in Points(cv) : x_is(cv, R, r)}, k \in [1..4 -> -(2 ^ cv.b)..(2 ^ cv.b - 1)] :
       LET t == table_k1(cv, Q, R)
       IN \E C \in {C \in Scalars(cv) : fake_glv_check_k1(cv, r, s, e, R, k, C)} :
            closes(t, ends_k1(cv, Q, R, k, C))
ecdsa_verify_r1(cv, Q, r, s, e) ==
  /\ in_range(cv, r, s, e)
  /\ \E R \in {R \in Points(cv) : x_is(cv, R, r)},
        ab \in [1..2 -> -bias_r1(cv)..(bias_r1(cv) - 1)] :
       LET t == table_r1(cv, Q, R)
       IN \E C \in {C \in Scalars(cv) : fake_glv_check_r1(cv, r, s, e, R, ab, C)} :
            closes(t, ends_r1(cv, Q, R, ab, C))

--------------------------------------------------------------------------------
(* EdDSA, cofactored, on a complete law: every sum is a point                     *)

EdAdd(cv, P, Q) == (P + Q) % (8 * cv.n)
EdTimes(cv, k, P) == (k * P) % (8 * cv.n)
EdPoints(cv) == 0..(8 * cv.n - 1)
torsion(cv, P) == EdTimes(cv, 8, P) = 0
WINDOWS(cv) == cv.b + 1

fake_glv_check_25519(cv, k, s, ca, cb, w) ==
  LET A == ca - bias_r1(cv)
      B == cb - bias_r1(cv)
  IN B # 0 /\ (A + k * B) % cv.n = 0 /\ (w + s * B) % cv.n = 0

\* The windows of W sum to (2 W / 4^WINDOWS) G.
ed_comb(cv, w) ==
  LET root == CHOOSE q \in 0..(cv.n - 1) : (q * (4 ^ WINDOWS(cv))) % cv.n = 2
      window(j) == EdTimes(cv, ((w \div (2 ^ (cv.W * j))) % (2 ^ cv.W)) * (2 ^ (cv.W * j)) * root, 8)
  IN FoldLeft(LAMBDA acc, j : EdAdd(cv, acc, window(j)), 0, [j \in 1..cv.N |-> j - 1])

\* Entry i0 + 2 i is (1 + 2 i0) P_A + (2 i - 3) P_B.
ed_table(cv, pa, pb) ==
  LET ma == <<pa, EdAdd(cv, EdAdd(cv, pa, pa), pa)>>
      p3b == EdAdd(cv, EdAdd(cv, pb, pb), pb)
      mb == <<EdTimes(cv, -1, p3b), EdTimes(cv, -1, pb), pb, p3b>>
  IN [i \in 0..7 |-> EdAdd(cv, ma[1 + (i % 2)], mb[1 + (i \div 2)])]

eddsa_ends(cv, a, r, ca, cb, w) ==
  LET t == ed_table(cv, EdTimes(cv, -1, a), r)
      index(i) == (1 - Xor(Bit(ca, 2 * i), Bit(ca, 2 * i + 1)))
                    + 2 * (1 - Xor(Bit(cb, 2 * i), Bit(ca, 2 * i + 1)))
                    + 4 * (1 - Xor(Bit(cb, 2 * i + 1), Bit(ca, 2 * i + 1)))
      step(acc, i) == EdAdd(cv, EdTimes(cv, 4, acc), EdTimes(cv, Sign(Bit(ca, 2 * i + 1)), t[index(i)]))
  IN EdAdd(cv, FoldLeft(step, ed_comb(cv, w), Downward(WINDOWS(cv))), EdTimes(cv, -1, t[4]))

eddsa_verify(cv, a, r, s, k) ==
  /\ s < cv.n
  /\ \E ca, cb \in 0..(2 * bias_r1(cv) - 1) :
       \E w \in {w \in Scalars(cv) : fake_glv_check_25519(cv, k, s, ca, cb, w)} :
         torsion(cv, eddsa_ends(cv, a, r, ca, cb, w))

--------------------------------------------------------------------------------
(* Ed25519's coordinates, and the macros of the curve crate                      *)

\* All that satisfy q * den = num, as a certificate leaves it.
Quotients(p, num, den) == {q \in 0..(p - 1) : (q * den - num) % p = 0}
OnEdwards(c, P) ==
  LET s == P[1] * P[1]
      u == P[2] * P[2]
  IN P[1] \in 0..(c.p - 1) /\ P[2] \in 0..(c.p - 1) /\ (u - s - 1 - ((c.d * s) % c.p) * u) % c.p = 0
ed_add(c, P, Q) ==
  LET e == ((((P[1] * P[2]) % c.p) * c.d) % c.p) * ((Q[1] * Q[2]) % c.p)
  IN Quotients(c.p, P[1] * Q[2] + P[2] * Q[1], 1 + e) \X Quotients(c.p, P[2] * Q[2] + P[1] * Q[1], 1 - e)
ed_double(c, P) ==
  LET s == P[1] * P[1]
      u == P[2] * P[2]
  IN Quotients(c.p, (2 * P[1]) * P[2], u - s) \X Quotients(c.p, u + s, 2 - u + s)
ed_torsion_check(c, P) == (((P[1] * P[2]) % c.p) * (P[1] * P[1] + P[2] * P[2])) % c.p = 0

\* weierstrass!: u1 G + u2 Q by windows of two bits from the generator itself, less what
\* the windows added of it.
double_scalar_mul_incomplete(cv, u1, u2, Q) ==
  LET windows == (cv.W * cv.N) \div 2
      jq == <<Q, Times(cv, 2, Q), Add(cv, Times(cv, 2, Q), Q)>>
      table == [ij \in (0..3) \X (0..3) |->
                  IF ij[2] = 0 THEN Times(cv, ij[1] + 1, 1) ELSE Add(cv, Times(cv, ij[1] + 1, 1), jq[ij[2]])]
      digit(u, w) == (u \div (4 ^ w)) % 4
      sum == FoldLeft(LAMBDA acc, w : Add(cv, Times(cv, 4, acc), table[<<digit(u1, w), digit(u2, w)>>]),
                      1, Downward(windows))
  IN IF \E ij \in DOMAIN table : table[ij] = NoPoint THEN NoPoint
     ELSE Add(cv, sum, Times(cv, -((4 ^ windows) + ((4 ^ windows) - 1) \div 3), 1))

\* edwards!: windows of four bits of one scalar, or of two bits of two.
scalar_mul(cv, k, P, windows) ==
  LET table == FoldLeft(LAMBDA t, i : Append(t, EdAdd(cv, Last(t), P)), <<0>>, [i \in 1..15 |-> i])
  IN FoldLeft(LAMBDA acc, w : EdAdd(cv, EdTimes(cv, 16, acc), table[1 + ((k \div (16 ^ w)) % 16)]),
              0, Downward(windows))
double_scalar_mul(cv, k1, P1, k2, P2, windows) ==
  LET multiples(P) == <<0, P, EdAdd(cv, P, P), EdAdd(cv, EdAdd(cv, P, P), P)>>
      entry(i, j) == EdAdd(cv, multiples(P1)[i + 1], multiples(P2)[j + 1])
  IN FoldLeft(LAMBDA acc, w : EdAdd(cv, EdTimes(cv, 4, acc), entry((k1 \div (4 ^ w)) % 4, (k2 \div (4 ^ w)) % 4)),
              0, Downward(windows))

--------------------------------------------------------------------------------
(* What is expected of them *)

Inv(n, v) == CHOOSE w \in 1..(n - 1) : (w * v) % n = 1

\* The signatures ECDSA defines.
EcdsaValid(cv, Q, r, s, e) ==
  /\ in_range(cv, r, s, e)
  /\ LET R == (Inv(cv.n, s) * (e + r * Q)) % cv.n IN R # 0 /\ cv.X[R] % cv.n = r

\* The honest hints of a valid signature end at the table's first entry, unless an
\* addition met one x; the table's do exactly at the multiples of Q the code names.
HonestCloses(cv, k1, Q, r, s, e) ==
  LET si == Inv(cv.n, s)
      R == (si * (e + r * Q)) % cv.n
      minus(u) == (-u) % cv.n
      u1 == (e * si) % cv.n
      u2 == (r * si) % cv.n
      defined(t, end) == NoPoint \notin {t[i] : i \in DOMAIN t} /\ end # NoPoint
      C(B) == (-B * u1) % cv.n
      rest(v) == v[3] + LAMBDA_R1(cv) * v[4]
      ab(v) == <<v[1] + LAMBDA_R1(cv) * v[2], rest(v)>>
  IN /\ wmul2(cv, u1, u2, Q) \in {R, NoPoint}
     /\ k1 => \A k \in fake_glv(cv, minus(u2), cv.lambda) :
                LET t == table_k1(cv, Q, R)
                    end == ends_k1(cv, Q, R, k, C(half(cv, k, 3)))
                IN /\ fake_glv_check_k1(cv, r, s, e, R, k, C(half(cv, k, 3)))
                   /\ defined(t, end) => closes(t, end)
     /\ ~k1 => \A v \in fake_glv(cv, minus(u2), LAMBDA_R1(cv)) :
                 LET t == table_r1(cv, Q, R)
                     end == ends_r1(cv, Q, R, ab(v), C(rest(v)))
                 IN /\ fake_glv_check_r1(cv, r, s, e, R, ab(v), C(rest(v)))
                    /\ defined(t, end) => closes(t, end)

TableRefuses(cv, k1, Q, R) ==
  LET lam == cv.lambda
      ratio == (1 + lam) * Inv(cv.n, (1 - lam) % cv.n)
      mu == IF k1 THEN {1, ratio, Inv(cv.n, ratio % cv.n)} ELSE {1}
      t == IF k1 THEN table_k1(cv, Q, R) ELSE table_r1(cv, Q, R)
      refused == {(sign * m) % cv.n : m \in mu, sign \in {1, -1}}
  IN (\E i \in DOMAIN t : t[i] = NoPoint) = (\E m \in refused : R = Times(cv, m, Q))

EcdsaExact(cv, k1, Q, r, s, e) ==
  /\ (IF k1 THEN ecdsa_verify_k1(cv, Q, r, s, e) ELSE ecdsa_verify_r1(cv, Q, r, s, e))
       => EcdsaValid(cv, Q, r, s, e)
  /\ EcdsaValid(cv, Q, r, s, e) => HonestCloses(cv, k1, Q, r, s, e)
  /\ in_range(cv, r, s, e) => TableRefuses(cv, k1, Q, r)
  /\ \A u2 \in {e, 2 ^ (cv.W * cv.N) - 1} :
       double_scalar_mul_incomplete(cv, s, u2, Q) \in {NoPoint, (s + u2 * Q) % cv.n}

\* Exactly the cofactored equation, and the honest hints suffice.
EddsaExact(cv, a, r, s, k) ==
  LET valid == s < cv.n /\ EdTimes(cv, 8, s * 8 - k * a - r) = 0
      honest(v) == <<v[1] + LAMBDA_R1(cv) * v[2] + bias_r1(cv), v[3] + LAMBDA_R1(cv) * v[4] + bias_r1(cv)>>
      w(cb) == (-(cb - bias_r1(cv)) * s) % cv.n
  IN /\ eddsa_verify(cv, a, r, s, k) = valid
     /\ valid => \A v \in fake_glv(cv, (-k) % cv.n, LAMBDA_R1(cv)) :
                   LET ca == honest(v)[1]
                       cb == honest(v)[2]
                   IN /\ fake_glv_check_25519(cv, k, s, ca, cb, w(cb))
                      /\ torsion(cv, eddsa_ends(cv, a, r, ca, cb, w(cb)))
     /\ scalar_mul(cv, 16 * s + k, a, 2) = EdTimes(cv, 16 * s + k, a)
     /\ double_scalar_mul(cv, s, a, k, r, 2) = EdTimes(cv, 1, s * a + k * r)

\* The law on coordinates: complete, the group's own, of eight points of small order.
EdwardsExact(c, P) ==
  LET order(Q) == ed_torsion_check(c, Q)
      twice(Q) == ed_double(c, Q)
      thrice(Q) == UNION {twice(R) : R \in twice(Q)}
      eight(Q) == UNION {twice(R) : R \in thrice(Q)}
  IN OnEdwards(c, P) =>
       /\ Cardinality(ed_double(c, P)) = 1 /\ ed_double(c, P) = ed_add(c, P, P)
       /\ order(P) = (eight(P) = {<<0, 1>>})
       /\ ed_add(c, P, <<0, 1>>) = {P}
       /\ \A Q \in c.points :
            LET sum == ed_add(c, P, Q)
                again == UNION {ed_add(c, R, <<(-P[1]) % c.p, P[2]>>) : R \in sum}
            IN sum \subseteq c.points /\ Cardinality(sum) = 1 /\ again = {Q}
================================================================================
