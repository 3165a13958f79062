--------------------------- MODULE MinimizeProofs ---------------------------
(***************************************************************************)
(* Proofs about Minimize, for every prime field, program, choice of        *)
(* Internal variables and fill-in guard.                                   *)
(***************************************************************************)
EXTENDS Minimize, Induction, FiniteSetTheorems

-----------------------------------------------------------------------------
(* Congruence modulo P.                                                    *)

Cong(a, b) == \E k \in Int : a = b + k * P

(* What the proofs use of the constants.                                   *)
LEMMA Constants ==
  /\ P \in Nat /\ P > 1 /\ N \in Nat /\ Fill \in Nat /\ Internal \subseteq Vars
  /\ \A x \in 1..(P - 1) : \E y \in 1..(P - 1) : (x * y) % P = 1
  /\ \A rows \in Programs : rows \in Seq(Row)
  /\ 0 \in Field /\ Field \subseteq Nat
BY MinimizeAssumption DEF Field

LEMMA CongRefl == ASSUME NEW a \in Int PROVE Cong(a, a)
<1>1. a = a + 0 * P
  BY Constants
<1> QED
  BY <1>1 DEF Cong

LEMMA CongSym ==
  ASSUME NEW a \in Int, NEW b \in Int, Cong(a, b)
  PROVE  Cong(b, a)
<1>1. PICK k \in Int : a = b + k * P
  BY DEF Cong
<1>2. b = a + (-k) * P /\ -k \in Int
  BY <1>1, Constants
<1> QED
  BY <1>2 DEF Cong

LEMMA CongTrans ==
  ASSUME NEW a \in Int, NEW b \in Int, NEW c \in Int, Cong(a, b), Cong(b, c)
  PROVE  Cong(a, c)
<1>1. PICK k \in Int : a = b + k * P
  BY DEF Cong
<1>2. PICK l \in Int : b = c + l * P
  BY DEF Cong
<1>3. a = c + (k + l) * P /\ k + l \in Int
  BY <1>1, <1>2, Constants
<1> QED
  BY <1>3 DEF Cong

LEMMA CongAdd ==
  ASSUME NEW a \in Int, NEW b \in Int, NEW c \in Int, NEW d \in Int, Cong(a, b), Cong(c, d)
  PROVE  Cong(a + c, b + d)
<1>1. PICK k \in Int : a = b + k * P
  BY DEF Cong
<1>2. PICK l \in Int : c = d + l * P
  BY DEF Cong
<1>3. a + c = (b + d) + (k + l) * P /\ k + l \in Int
  BY <1>1, <1>2, Constants
<1> QED
  BY <1>3 DEF Cong

LEMMA CongMul ==
  ASSUME NEW a \in Int, NEW b \in Int, NEW c \in Int, NEW d \in Int, Cong(a, b), Cong(c, d)
  PROVE  Cong(a * c, b * d)
<1>1. PICK k \in Int : a = b + k * P
  BY DEF Cong
<1>2. PICK l \in Int : c = d + l * P
  BY DEF Cong
<1>3. a * c = b * d + (b * l + k * d + k * l * P) * P /\ b * l + k * d + k * l * P \in Int
  BY <1>1, <1>2, Constants
<1> QED
  BY <1>3 DEF Cong

(* A remainder is congruent to what it is the remainder of.                *)
LEMMA CongMod ==
  ASSUME NEW a \in Int
  PROVE  a % P \in Field /\ Cong(a % P, a) /\ Cong(a, a % P)
<1>1. a % P \in 0..(P - 1) /\ a = (a % P) + (a \div P) * P /\ (a \div P) \in Int
  BY Constants
<1>2. Cong(a, a % P)
  BY <1>1 DEF Cong
<1> QED
  BY <1>1, <1>2, CongSym DEF Field

(* Congruent elements of the field are equal.                              *)
LEMMA CongEq ==
  ASSUME NEW a \in Field, NEW b \in Field, Cong(a, b)
  PROVE  a = b
<1>1. PICK k \in Int : a = b + k * P
  BY DEF Cong
<1>2. a \in Int /\ b \in Int /\ 0 <= a /\ a < P /\ 0 <= b /\ b < P
  BY Constants DEF Field
<1>3. ~ (k >= 1)
  <2>1. ASSUME k >= 1 PROVE k * P >= P
    <3>1. k * P = P + (k - 1) * P /\ (k - 1) * P >= 0
      BY <2>1, Constants
    <3> QED BY <3>1, Constants
  <2> QED BY <2>1, <1>1, <1>2, Constants
<1>4. ~ (k <= -1)
  <2>1. ASSUME k <= -1 PROVE k * P <= -P
    <3>1. k * P = -P - (-k - 1) * P /\ (-k - 1) * P >= 0
      BY <2>1, Constants
    <3> QED BY <3>1, Constants
  <2> QED BY <2>1, <1>1, <1>2, Constants
<1>5. k = 0
  BY <1>3, <1>4
<1> QED
  BY <1>1, <1>2, <1>5, Constants

(* The remainder is the element of the field that is congruent.            *)
LEMMA ModIs ==
  ASSUME NEW a \in Int, NEW b \in Field
  PROVE  a % P = b <=> Cong(a, b)
<1>1. a % P \in Field /\ Cong(a % P, a) /\ Cong(a, a % P) /\ a % P \in Int /\ b \in Int
  BY CongMod, Constants DEF Field
<1>2. ASSUME Cong(a, b) PROVE a % P = b
  BY <1>1, <1>2, CongTrans, CongEq
<1> QED
  BY <1>1, <1>2

(* Multiples of P vanish.                                                  *)
LEMMA CongMultiple ==
  ASSUME NEW a \in Int, NEW k \in Int
  PROVE  Cong(a + k * P, a)
BY DEF Cong

-----------------------------------------------------------------------------
(* The value of a linear combination.                                      *)

LEMMA LcAt ==
  ASSUME NEW lc \in Lc, NEW u \in 0..N
  PROVE  lc[u] \in Field /\ lc[u] \in Int
BY Constants DEF Lc, Field

LEMMA LcEqual ==
  ASSUME NEW x \in Lc, NEW y \in Lc, \A u \in 0..N : x[u] = y[u]
  PROVE  x = y
<1>1. x = [u \in 0..N |-> x[u]] /\ y = [u \in 0..N |-> y[u]]
  BY DEF Lc
<1>2. [u \in 0..N |-> x[u]] = [u \in 0..N |-> y[u]]
  OBVIOUS
<1> QED
  BY <1>1, <1>2

LEMMA ValueAt ==
  ASSUME NEW z \in Assignments, NEW u \in 1..N
  PROVE  z[u] \in Field /\ z[u] \in Int
BY Constants DEF Assignments, Vars, Field

(* The partial sums are what their recursive definition says.              *)
LEMMA PartialSums ==
  ASSUME NEW lc \in Lc, NEW z \in Assignments
  PROVE  /\ PartialEval(lc, z) \in [0..N -> Field]
         /\ PartialEval(lc, z)[0] = lc[0]
         /\ \A n \in 1..N : PartialEval(lc, z)[n] =
                              (PartialEval(lc, z)[n - 1] + lc[n] * z[n]) % P
<1> DEFINE step == [x \in (1..N) \X Field |-> (x[2] + lc[x[1]] * z[x[1]]) % P]
           IsSum(f) == f = [n \in 0..N |-> IF n = 0 THEN lc[0]
                                           ELSE (f[n - 1] + lc[n] * z[n]) % P]
<1>1. step \in [(1..N) \X Field -> Field]
  <2>1. ASSUME NEW x \in (1..N) \X Field
        PROVE  (x[2] + lc[x[1]] * z[x[1]]) % P \in Field
    <3>1. x[1] \in 1..N /\ x[2] \in Int /\ x[1] \in 0..N
      <4>1. x[1] \in 1..N /\ x[2] \in Field
        OBVIOUS
      <4> QED BY <4>1, Constants DEF Field
    <3>2. lc[x[1]] \in Int /\ z[x[1]] \in Int
      BY <3>1, LcAt, ValueAt
    <3>3. x[2] + lc[x[1]] * z[x[1]] \in Int
      BY <3>1, <3>2
    <3> QED BY <3>3, CongMod
  <2> QED BY <2>1
<1>2. lc[0] \in Field /\ N \in Nat
  BY Constants DEF Lc
<1>3. PICK f : Recursion(f, N, Field, lc[0], step)
  <2> HIDE DEF step
  <2> QED BY <1>1, <1>2, SegmentRecursion
<1>4. IsSum(f)
  <2>1. \A n \in 0..N : f[n] = IF n = 0 THEN lc[0] ELSE (f[n - 1] + lc[n] * z[n]) % P
    <3> TAKE n \in 0..N
    <3>1. CASE n # 0
      <4>1. n \in 1..N /\ n - 1 \in 0..N
        BY <3>1, <1>2
      <4>2. f[n - 1] \in Field
        BY <4>1, <1>3 DEF Recursion
      <4>3. step[<<n, f[n - 1]>>] = (f[n - 1] + lc[n] * z[n]) % P
        BY <4>1, <4>2
      <4> QED BY <4>1, <4>3, <1>3, <3>1 DEF Recursion
    <3> QED BY <3>1, <1>3 DEF Recursion
  <2> QED BY <2>1, <1>3 DEF Recursion
<1>5. PartialEval(lc, z) = CHOOSE g : IsSum(g)
  BY Zenon DEF PartialEval
<1>6. IsSum(PartialEval(lc, z))
  <2> HIDE DEF IsSum
  <2> QED BY <1>4, <1>5, Zenon
<1> DEFINE s == PartialEval(lc, z)
<1>7. s[0] = lc[0] /\ \A n \in 1..N : s[n] = (s[n - 1] + lc[n] * z[n]) % P
  <2> HIDE DEF s
  <2>1. s = [n \in 0..N |-> IF n = 0 THEN lc[0] ELSE (s[n - 1] + lc[n] * z[n]) % P]
    BY <1>6, Zenon DEF s
  <2> QED BY <2>1, <1>2
<1>8. \A n \in 0..N : s[n] \in Field
  <2> DEFINE Good == {n \in 0..N : s[n] \in Field}
  <2>1. 0 \in Good
    BY <1>7, <1>2
  <2>2. \A n \in 0..N : n # 0 /\ n - 1 \in Good => n \in Good
    <3> SUFFICES ASSUME NEW n \in 0..N, n # 0, n - 1 \in Good PROVE s[n] \in Field
      OBVIOUS
    <3>0. s[n - 1] \in Field
      OBVIOUS
    <3> HIDE DEF s
    <3>1. n \in 1..N /\ s[n - 1] \in Int
      BY <3>0, <1>2, Constants DEF Field
    <3>2. lc[n] \in Int /\ z[n] \in Int
      BY <3>1, LcAt, ValueAt
    <3>3. s[n - 1] + lc[n] * z[n] \in Int
      BY <3>1, <3>2
    <3> QED BY <3>1, <3>3, <1>7, CongMod
  <2>3. \A n \in 0..N : n \in Good
    <3> HIDE DEF Good
    <3> QED BY <2>1, <2>2, <1>2, SegmentInduction
  <2> QED BY <2>3
<1>9. s \in [0..N -> Field]
  <2> HIDE DEF s
  <2>1. s = [n \in 0..N |-> IF n = 0 THEN lc[0] ELSE (s[n - 1] + lc[n] * z[n]) % P]
    BY <1>6, Zenon DEF s
  <2> QED BY <2>1, <1>8
<1> QED
  BY <1>7, <1>9

LEMMA EvalType ==
  ASSUME NEW lc \in Lc, NEW z \in Assignments
  PROVE  Eval(lc, z) \in Field /\ Eval(lc, z) \in Int
BY PartialSums, Constants DEF Eval, Field

(* One more variable, up to congruence.                                    *)
LEMMA PartialStep ==
  ASSUME NEW lc \in Lc, NEW z \in Assignments, NEW n \in 1..N
  PROVE  /\ PartialEval(lc, z)[n] \in Int /\ PartialEval(lc, z)[n - 1] \in Int
         /\ Cong(PartialEval(lc, z)[n], PartialEval(lc, z)[n - 1] + lc[n] * z[n])
<1>1. n \in 0..N /\ n - 1 \in 0..N
  BY Constants
<1>2. PartialEval(lc, z)[n] \in Int /\ PartialEval(lc, z)[n - 1] \in Int
  BY <1>1, PartialSums, Constants DEF Field
<1>3. lc[n] \in Int /\ z[n] \in Int
  BY <1>1, LcAt, ValueAt
<1>4. PartialEval(lc, z)[n - 1] + lc[n] * z[n] \in Int
  BY <1>2, <1>3
<1> QED
  BY <1>2, <1>4, PartialSums, CongMod

(* A form without variables is its constant.                               *)
LEMMA EvalConst ==
  ASSUME NEW lc \in Lc, NEW z \in Assignments, IsConst(lc)
  PROVE  Eval(lc, z) = lc[0]
<1> DEFINE s == PartialEval(lc, z)
           Good == {n \in 0..N : s[n] = lc[0]}
<1>1. \A n \in 1..N : lc[n] = 0
  BY DEF IsConst, Terms, Vars
<1>2. 0 \in Good
  BY PartialSums, Constants
<1>3. \A n \in 0..N : n # 0 /\ n - 1 \in Good => n \in Good
  <2> SUFFICES ASSUME NEW n \in 0..N, n # 0, n - 1 \in Good PROVE s[n] = lc[0]
    OBVIOUS
  <2>1. n \in 1..N
    BY Constants
  <2>2. s[n] = (s[n - 1] + lc[n] * z[n]) % P
    BY <2>1, PartialSums
  <2>3. lc[n] = 0 /\ z[n] \in Int /\ lc[0] \in Field /\ lc[0] \in Int
    BY <2>1, <1>1, ValueAt, LcAt, Constants
  <2>4. s[n - 1] + lc[n] * z[n] = lc[0]
    <3> HIDE DEF s
    <3> QED BY <2>3
  <2> HIDE DEF s
  <2> QED BY <2>2, <2>3, <2>4, ModIs, CongRefl
<1>4. \A n \in 0..N : n \in Good
  <2> HIDE DEF Good
  <2> QED BY <1>2, <1>3, Constants, SegmentInduction
<1> QED
  BY <1>4, Constants DEF Eval

(* The value of a form with one variable and no constant.                  *)
LEMMA EvalSingle ==
  ASSUME NEW lc \in Lc, NEW z \in Assignments, NEW v \in 1..N,
         \A u \in 0..N : u # v => lc[u] = 0
  PROVE  Cong(Eval(lc, z), lc[v] * z[v])
<1> DEFINE s == PartialEval(lc, z)
           Good == {n \in 0..N : Cong(s[n], IF n < v THEN 0 ELSE lc[v] * z[v])}
<1>1. lc[v] \in Int /\ z[v] \in Int /\ lc[v] * z[v] \in Int /\ v \in 0..N
  <2>1. v \in 0..N
    BY Constants
  <2>2. lc[v] \in Int /\ z[v] \in Int
    BY <2>1, LcAt, ValueAt
  <2> QED BY <2>1, <2>2
<1>2. 0 \in Good
  <2>1. s[0] = 0 /\ 0 < v
    BY PartialSums, Constants
  <2> QED BY <2>1, Constants, CongRefl
<1>3. \A n \in 0..N : n # 0 /\ n - 1 \in Good => n \in Good
  <2> SUFFICES ASSUME NEW n \in 0..N, n # 0, n - 1 \in Good
               PROVE  Cong(s[n], IF n < v THEN 0 ELSE lc[v] * z[v])
    OBVIOUS
  <2>1. n \in 1..N
    BY Constants
  <2>2. s[n] \in Int /\ s[n - 1] \in Int /\ Cong(s[n], s[n - 1] + lc[n] * z[n])
    BY <2>1, PartialStep
  <2>3. lc[n] \in Int /\ z[n] \in Int
    BY <2>1, ValueAt, LcAt
  <2>4. Cong(s[n - 1], IF n - 1 < v THEN 0 ELSE lc[v] * z[v])
    OBVIOUS
  <2> HIDE DEF s
  <2>5. CASE n < v
    <3>1. s[n - 1] + lc[n] * z[n] = s[n - 1]
      BY <2>2, <2>3, <2>5
    <3> QED BY <3>1, <2>1, <2>2, <2>4, <2>5, CongTrans
  <2>6. CASE n = v
    <3>1. Cong(s[n - 1], 0)
      BY <2>1, <2>4, <2>6
    <3>2. Cong(s[n - 1] + lc[v] * z[v], 0 + lc[v] * z[v])
      <4>1. 0 \in Int /\ Cong(lc[v] * z[v], lc[v] * z[v])
        BY <1>1, CongRefl
      <4> DEFINE t == lc[v] * z[v]
      <4> HIDE DEF t
      <4>2. Cong(s[n - 1] + t, 0 + t)
        BY <3>1, <4>1, <2>2, <1>1, CongAdd DEF t
      <4> QED BY <4>2 DEF t
    <3>3. 0 + lc[v] * z[v] = lc[v] * z[v] /\ s[n - 1] + lc[n] * z[n] \in Int
      BY <1>1, <2>2, <2>3
    <3> QED BY <3>2, <3>3, <2>2, <1>1, <2>6, CongTrans
  <2>7. CASE n > v
    <3>1. s[n - 1] + lc[n] * z[n] = s[n - 1]
      BY <2>2, <2>3, <2>7, <1>1
    <3>2. ~ (n - 1 < v) /\ ~ (n < v)
      BY <2>1, <2>7, <1>1
    <3> QED BY <3>1, <3>2, <2>1, <2>2, <2>4, <1>1, CongTrans
  <2> QED BY <2>1, <1>1, <2>5, <2>6, <2>7
<1>4. \A n \in 0..N : n \in Good
  <2> HIDE DEF Good
  <2> QED BY <1>2, <1>3, Constants, SegmentInduction
<1> QED
  BY <1>4, Constants DEF Eval

LEMMA CongLinear ==
  ASSUME NEW a \in Int, NEW b \in Int, NEW c \in Int, NEW d \in Int, NEW m \in Int,
         Cong(a, c), Cong(b, d)
  PROVE  Cong(a + m * b, c + m * d) /\ a + m * b \in Int /\ c + m * d \in Int
<1>1. Cong(m, m)
  BY CongRefl
<1>2. Cong(m * b, m * d) /\ m * b \in Int /\ m * d \in Int
  BY <1>1, CongMul
<1> QED
  BY <1>2, CongAdd

(* One more variable in the next lemma's sums.                             *)
LEMMA LinearStep ==
  ASSUME NEW s0 \in Int, NEW a0 \in Int, NEW b0 \in Int,
         NEW w \in Int, NEW x \in Int, NEW y \in Int, NEW zn \in Int, NEW m \in Int,
         Cong(s0, a0 + m * b0), Cong(w, x + m * y)
  PROVE  Cong(s0 + w * zn, (a0 + x * zn) + m * (b0 + y * zn))
<1>1. PICK k \in Int : s0 = a0 + m * b0 + k * P
  BY DEF Cong
<1>2. PICK l \in Int : w = x + m * y + l * P
  BY DEF Cong
<1>3. w * zn = x * zn + m * (y * zn) + (l * zn) * P
  BY <1>2, Constants
<1>4. m * (b0 + y * zn) = m * b0 + m * (y * zn)
  OBVIOUS
<1> DEFINE wz == w * zn  xz == x * zn  yz == m * (y * zn)  lz == l * zn  mb == m * b0
<1>5. wz \in Int /\ xz \in Int /\ yz \in Int /\ lz \in Int /\ mb \in Int
  OBVIOUS
<1>6. wz = xz + yz + lz * P /\ s0 = a0 + mb + k * P
  BY <1>1, <1>3
<1>7. s0 + wz = (a0 + xz) + (mb + yz) + (k + lz) * P /\ k + lz \in Int
  <2> HIDE DEF wz, xz, yz, lz, mb
  <2> QED BY <1>5, <1>6, Constants
<1> QED
  BY <1>4, <1>7 DEF Cong

(* Evaluation is linear.                                                   *)
LEMMA EvalLinear ==
  ASSUME NEW w \in Lc, NEW x \in Lc, NEW y \in Lc, NEW m \in Int, NEW z \in Assignments,
         \A u \in 0..N : Cong(w[u], x[u] + m * y[u])
  PROVE  Cong(Eval(w, z), Eval(x, z) + m * Eval(y, z))
<1> DEFINE s == PartialEval(w, z)
           a == PartialEval(x, z)
           b == PartialEval(y, z)
           Good == {n \in 0..N : Cong(s[n], a[n] + m * b[n])}
<1>1. 0 \in Good
  BY PartialSums, Constants
<1>2. \A n \in 0..N : n # 0 /\ n - 1 \in Good => n \in Good
  <2> SUFFICES ASSUME NEW n \in 0..N, n # 0, n - 1 \in Good
               PROVE  Cong(s[n], a[n] + m * b[n])
    OBVIOUS
  <2>1. n \in 1..N
    BY Constants
  <2>2. /\ s[n] \in Int /\ s[n - 1] \in Int /\ Cong(s[n], s[n - 1] + w[n] * z[n])
        /\ a[n] \in Int /\ a[n - 1] \in Int /\ Cong(a[n], a[n - 1] + x[n] * z[n])
        /\ b[n] \in Int /\ b[n - 1] \in Int /\ Cong(b[n], b[n - 1] + y[n] * z[n])
    BY <2>1, PartialStep
  <2>3. w[n] \in Int /\ x[n] \in Int /\ y[n] \in Int /\ z[n] \in Int
    BY <2>1, ValueAt, LcAt
  <2>4. Cong(s[n - 1], a[n - 1] + m * b[n - 1])
    OBVIOUS
  <2> HIDE DEF s, a, b
  <2>5. Cong(s[n - 1] + w[n] * z[n], (a[n - 1] + x[n] * z[n]) + m * (b[n - 1] + y[n] * z[n]))
    BY <2>2, <2>3, <2>4, LinearStep
  <2>6. Cong(a[n - 1] + x[n] * z[n], a[n]) /\ Cong(b[n - 1] + y[n] * z[n], b[n])
    <3>1. a[n - 1] + x[n] * z[n] \in Int /\ b[n - 1] + y[n] * z[n] \in Int
      BY <2>2, <2>3
    <3> QED BY <3>1, <2>2, CongSym
  <2> DEFINE s1 == s[n - 1] + w[n] * z[n]
             a1 == a[n - 1] + x[n] * z[n]
             b1 == b[n - 1] + y[n] * z[n]
  <2>7. s1 \in Int /\ a1 \in Int /\ b1 \in Int
    BY <2>2, <2>3
  <2>8. Cong(s[n], s1) /\ Cong(s1, a1 + m * b1) /\ Cong(a1, a[n]) /\ Cong(b1, b[n])
    BY <2>2, <2>5, <2>6
  <2> HIDE DEF s1, a1, b1
  <2>9. /\ Cong(a1 + m * b1, a[n] + m * b[n])
        /\ a1 + m * b1 \in Int /\ a[n] + m * b[n] \in Int
    BY <2>2, <2>7, <2>8, CongLinear
  <2> QED BY <2>2, <2>7, <2>8, <2>9, CongTrans
<1>3. \A n \in 0..N : n \in Good
  <2> HIDE DEF Good
  <2> QED BY <1>1, <1>2, Constants, SegmentInduction
<1> QED
  BY <1>3, Constants DEF Eval

-----------------------------------------------------------------------------
(* The operations of the field and on linear combinations.                 *)

LEMMA MinusIs ==
  ASSUME NEW x \in Field
  PROVE  Minus(x) \in Field /\ Minus(x) \in Int /\ Cong(Minus(x), -x)
<1>1. P - x \in Int /\ x \in Int /\ -x \in Int
  BY Constants DEF Field
<1>2. Minus(x) \in Field /\ Cong(Minus(x), P - x)
  BY <1>1, CongMod DEF Minus
<1>3. P - x = -x + 1 * P
  BY <1>1, Constants
<1>4. Cong(P - x, -x)
  BY <1>3, <1>1 DEF Cong
<1> QED
  BY <1>1, <1>2, <1>4, CongTrans, Constants DEF Field

LEMMA InverseIs ==
  ASSUME NEW x \in Field, x # 0
  PROVE  /\ Inverse_Of(x) \in Field /\ Inverse_Of(x) \in Int
         /\ Cong(x * Inverse_Of(x), 1)
<1>1. x \in 1..(P - 1) /\ 1..(P - 1) \subseteq Field /\ 1 \in Field /\ Field \subseteq Int
  BY Constants DEF Field
<1>2. \E y \in Field : (x * y) % P = 1
  BY <1>1, Constants
<1>3. Inverse_Of(x) \in Field /\ (x * Inverse_Of(x)) % P = 1
  BY <1>2 DEF Inverse_Of
<1>4. x * Inverse_Of(x) \in Int
  <2>1. x \in Int /\ Inverse_Of(x) \in Int
    BY <1>1, <1>3
  <2> QED BY <2>1
<1> QED
  BY <1>1, <1>3, <1>4, ModIs

(* What the form that is zero everywhere, and the one that is only v, are. *)
Nought  == [u \in 0..N |-> 0]
Unit(v) == [u \in 0..N |-> IF u = v THEN 1 ELSE 0]

LEMMA NoughtIs ==
  /\ Nought \in Lc
  /\ \A u \in 0..N : Nought[u] = 0
  /\ \A z \in Assignments : Eval(Nought, z) = 0
<1>1. Nought \in Lc /\ \A u \in 0..N : Nought[u] = 0
  BY Constants DEF Nought, Lc
<1>2. IsConst(Nought) /\ 0 \in 0..N
  BY <1>1, Constants DEF IsConst, Terms, Vars
<1> QED
  BY <1>1, <1>2, EvalConst

LEMMA UnitIs ==
  ASSUME NEW v \in Vars
  PROVE  /\ Unit(v) \in Lc
         /\ \A u \in 0..N : Unit(v)[u] = IF u = v THEN 1 ELSE 0
         /\ \A z \in Assignments : Cong(Eval(Unit(v), z), z[v])
<1>1. 0 \in Field /\ 1 \in Field /\ v \in 1..N /\ v \in 0..N
  BY Constants DEF Field, Vars
<1>2. Unit(v) \in Lc /\ \A u \in 0..N : Unit(v)[u] = IF u = v THEN 1 ELSE 0
  BY <1>1 DEF Unit, Lc
<1>3. ASSUME NEW z \in Assignments PROVE Cong(Eval(Unit(v), z), z[v])
  <2>1. \A u \in 0..N : u # v => Unit(v)[u] = 0
    BY <1>2
  <2>2. Cong(Eval(Unit(v), z), Unit(v)[v] * z[v])
    BY <1>1, <1>2, <2>1, EvalSingle
  <2>3. Unit(v)[v] = 1 /\ z[v] \in Int
    BY <1>1, <1>2, ValueAt
  <2>4. 1 * z[v] = z[v]
    BY <2>3
  <2> QED BY <2>2, <2>3, <2>4
<1> QED
  BY <1>2, <1>3

LEMMA ScaleIs ==
  ASSUME NEW lc \in Lc, NEW m \in Field
  PROVE  /\ Scale(lc, m) \in Lc
         /\ \A u \in 0..N : Scale(lc, m)[u] = (lc[u] * m) % P
         /\ \A z \in Assignments : Cong(Eval(Scale(lc, m), z), m * Eval(lc, z))
<1>1. m \in Int
  BY Constants DEF Field
<1>2. \A u \in 0..N : lc[u] * m \in Int /\ lc[u] \in Int
  BY <1>1, LcAt
<1>3. \A u \in 0..N : Scale(lc, m)[u] = (lc[u] * m) % P
  BY DEF Scale
<1>4. Scale(lc, m) \in Lc
  BY <1>2, CongMod DEF Scale, Lc
<1>5. \A u \in 0..N : Cong(Scale(lc, m)[u], Nought[u] + m * lc[u])
  <2> TAKE u \in 0..N
  <2>1. Nought[u] + m * lc[u] = lc[u] * m
    BY <1>1, <1>2, NoughtIs
  <2> QED BY <1>2, <1>3, <2>1, CongMod
<1>6. ASSUME NEW z \in Assignments PROVE Cong(Eval(Scale(lc, m), z), m * Eval(lc, z))
  <2>1. Cong(Eval(Scale(lc, m), z), Eval(Nought, z) + m * Eval(lc, z))
    BY <1>1, <1>4, <1>5, NoughtIs, EvalLinear
  <2>2. Eval(Nought, z) + m * Eval(lc, z) = m * Eval(lc, z)
    BY <1>1, NoughtIs, EvalType
  <2> QED BY <2>1, <2>2
<1> QED
  BY <1>3, <1>4, <1>6

LEMMA SubIs ==
  ASSUME NEW x \in Lc, NEW y \in Lc
  PROVE  /\ Sub(x, y) \in Lc
         /\ \A u \in 0..N : Cong(Sub(x, y)[u], x[u] - y[u])
         /\ \A z \in Assignments : Cong(Eval(Sub(x, y), z), Eval(x, z) - Eval(y, z))
<1>1. \A u \in 0..N : /\ x[u] \in Int /\ y[u] \in Int /\ Minus(y[u]) \in Int
                      /\ Cong(Minus(y[u]), -y[u])
  BY LcAt, MinusIs
<1>2. \A u \in 0..N : Sub(x, y)[u] = (x[u] + Minus(y[u])) % P
  BY DEF Sub
<1>3. Sub(x, y) \in Lc
  <2>1. \A u \in 0..N : x[u] + Minus(y[u]) \in Int
    BY <1>1
  <2> QED BY <2>1, CongMod DEF Sub, Lc
<1>4. \A u \in 0..N : Cong(Sub(x, y)[u], x[u] + (-1) * y[u]) /\ x[u] + (-1) * y[u] = x[u] - y[u]
  <2> TAKE u \in 0..N
  <2>1. Cong(x[u] + Minus(y[u]), x[u] + (-y[u])) /\ -y[u] \in Int
    <3>1. -y[u] \in Int /\ x[u] \in Int /\ Minus(y[u]) \in Int /\ Cong(Minus(y[u]), -y[u])
      BY <1>1
    <3>2. Cong(x[u], x[u])
      BY <3>1, CongRefl
    <3> QED BY <3>1, <3>2, CongAdd
  <2>2. x[u] + (-y[u]) = x[u] + (-1) * y[u] /\ x[u] + (-1) * y[u] = x[u] - y[u]
    BY <1>1
  <2>3. x[u] + Minus(y[u]) \in Int /\ x[u] + (-y[u]) \in Int /\ Sub(x, y)[u] \in Int
    BY <1>1, <1>3, LcAt
  <2>4. Cong(Sub(x, y)[u], x[u] + Minus(y[u]))
    BY <2>3, <1>2, CongMod
  <2>5. Cong(Sub(x, y)[u], x[u] + (-y[u]))
    BY <2>1, <2>3, <2>4, CongTrans
  <2> QED BY <2>2, <2>5
<1>5. ASSUME NEW z \in Assignments PROVE Cong(Eval(Sub(x, y), z), Eval(x, z) - Eval(y, z))
  <2>1. Cong(Eval(Sub(x, y), z), Eval(x, z) + (-1) * Eval(y, z))
    BY <1>3, <1>4, EvalLinear
  <2>2. Eval(x, z) + (-1) * Eval(y, z) = Eval(x, z) - Eval(y, z)
    BY EvalType
  <2> QED BY <2>1, <2>2
<1> QED
  BY <1>3, <1>4, <1>5

(* Substituting lc for v changes a form by lc[v] * (vlc - v), so it leaves *)
(* its value at every z at which v has vlc's.                              *)
LEMMA SubstIs ==
  ASSUME NEW lc \in Lc, NEW v \in Vars, NEW vlc \in Lc
  PROVE  /\ Subst(lc, v, vlc) \in Lc
         /\ \A u \in 0..N : Subst(lc, v, vlc)[u] =
              ((IF u = v THEN 0 ELSE lc[u]) + lc[v] * vlc[u]) % P
         /\ \A z \in Assignments :
              z[v] = Eval(vlc, z) => Eval(Subst(lc, v, vlc), z) = Eval(lc, z)
<1> DEFINE new == Subst(lc, v, vlc)
           D == Sub(vlc, Unit(v))
<1>0. v \in 0..N /\ v \in 1..N /\ lc[v] \in Int /\ lc[v] \in Field
  <2>1. v \in 0..N /\ v \in 1..N
    BY Constants DEF Vars
  <2> QED BY <2>1, LcAt
<1>1. \A u \in 0..N : new[u] = ((IF u = v THEN 0 ELSE lc[u]) + lc[v] * vlc[u]) % P
  BY DEF Subst
<1>2. \A u \in 0..N : /\ (IF u = v THEN 0 ELSE lc[u]) + lc[v] * vlc[u] \in Int
                      /\ lc[u] \in Int /\ vlc[u] \in Int /\ lc[v] * vlc[u] \in Int
  <2> TAKE u \in 0..N
  <2>1. lc[u] \in Int /\ vlc[u] \in Int
    BY LcAt
  <2>2. lc[v] * vlc[u] \in Int
    BY <1>0, <2>1
  <2> QED BY <2>1, <2>2
<1>3. new \in Lc
  BY <1>2, CongMod DEF Subst, Lc
<1>4. D \in Lc /\ \A u \in 0..N : D[u] \in Int /\ Cong(D[u], vlc[u] - Unit(v)[u])
  BY UnitIs, SubIs, LcAt
<1>5. \A u \in 0..N : Cong(new[u], lc[u] + lc[v] * D[u])
  <2> TAKE u \in 0..N
  <2> DEFINE unit == Unit(v)[u]
  <2>1. unit = IF u = v THEN 1 ELSE 0
    BY UnitIs
  <2>2. (IF u = v THEN 0 ELSE lc[u]) + lc[v] * vlc[u] = lc[u] + lc[v] * (vlc[u] - unit)
    <3>1. CASE u = v
      <4>1. lc[v] * (vlc[u] - 1) = lc[v] * vlc[u] - lc[v]
        BY <1>0, <1>2
      <4> QED BY <4>1, <2>1, <3>1, <1>0, <1>2
    <3>2. CASE u # v
      <4>1. lc[v] * (vlc[u] - unit) = lc[v] * vlc[u]
        BY <1>0, <1>2, <2>1, <3>2
      <4> QED BY <4>1, <3>2, <1>2
    <3> QED BY <3>1, <3>2
  <2>3. unit \in Int /\ vlc[u] - unit \in Int /\ D[u] \in Int /\ Cong(D[u], vlc[u] - unit)
    BY <2>1, <1>2, <1>4
  <2> HIDE DEF unit, D
  <2>4. Cong(vlc[u] - unit, D[u])
    BY <2>3, CongSym
  <2>5. /\ Cong(lc[u] + lc[v] * (vlc[u] - unit), lc[u] + lc[v] * D[u])
        /\ lc[u] + lc[v] * (vlc[u] - unit) \in Int /\ lc[u] + lc[v] * D[u] \in Int
    BY <1>0, <1>2, <2>3, <2>4, CongRefl, CongLinear
  <2>6. Cong(new[u], lc[u] + lc[v] * (vlc[u] - unit)) /\ new[u] \in Int
    BY <1>1, <1>2, <1>3, <2>2, CongMod, LcAt
  <2> QED BY <2>5, <2>6, CongTrans
<1>6. ASSUME NEW z \in Assignments, z[v] = Eval(vlc, z)
      PROVE  Eval(new, z) = Eval(lc, z)
  <2>1. Cong(Eval(new, z), Eval(lc, z) + lc[v] * Eval(D, z))
    <3> HIDE DEF D, new
    <3> QED BY <1>0, <1>3, <1>4, <1>5, EvalLinear
  <2>2. /\ Eval(D, z) \in Int /\ Eval(vlc, z) \in Int /\ Eval(lc, z) \in Field
        /\ Eval(lc, z) \in Int /\ Eval(new, z) \in Field /\ Eval(new, z) \in Int
        /\ Eval(Unit(v), z) \in Int
    BY <1>3, <1>4, UnitIs, EvalType
  <2>3. Cong(Eval(D, z), Eval(vlc, z) - Eval(Unit(v), z)) /\ Cong(Eval(Unit(v), z), z[v])
    BY UnitIs, SubIs
  <2>4. Cong(Eval(D, z), 0)
    <3>1. PICK k \in Int : Eval(D, z) = Eval(vlc, z) - Eval(Unit(v), z) + k * P
      BY <2>3 DEF Cong
    <3>2. PICK l \in Int : Eval(Unit(v), z) = Eval(vlc, z) + l * P
      BY <2>3, <1>6 DEF Cong
    <3> HIDE DEF D
    <3>3. Eval(D, z) = 0 + (k - l) * P /\ k - l \in Int
      BY <3>1, <3>2, <2>2, Constants
    <3> QED BY <3>3 DEF Cong
  <2>5. Cong(Eval(lc, z), Eval(lc, z))
    BY <2>2, CongRefl
  <2> HIDE DEF D, new
  <2>6. /\ Cong(Eval(lc, z) + lc[v] * Eval(D, z), Eval(lc, z) + lc[v] * 0)
        /\ Eval(lc, z) + lc[v] * Eval(D, z) \in Int
    <3> DEFINE p == Eval(lc, z)  q == Eval(D, z)  c == lc[v]
    <3>1. p \in Int /\ q \in Int /\ c \in Int /\ 0 \in Int /\ Cong(p, p) /\ Cong(q, 0)
      BY <1>0, <2>2, <2>4, <2>5
    <3> HIDE DEF p, q, c
    <3>2. Cong(p + c * q, p + c * 0) /\ p + c * q \in Int
      BY <3>1, CongLinear
    <3> QED BY <3>2 DEF p, q, c
  <2>7. Eval(lc, z) + lc[v] * 0 = Eval(lc, z)
    BY <1>0, <2>2
  <2> QED BY <2>1, <2>2, <2>6, <2>7, CongTrans, CongEq
<1> QED
  BY <1>1, <1>3, <1>6

-----------------------------------------------------------------------------
(* Linear rows.                                                            *)

(* rel with rel[v] solved for: rel is 0 exactly where v has its value.     *)
SolvedFor(rel, v) == Scale([rel EXCEPT ![v] = 0], Minus(Inverse_Of(rel[v])))

LEMMA SolvedIs ==
  ASSUME NEW rel \in Lc, NEW v \in Vars, rel[v] # 0
  PROVE  /\ SolvedFor(rel, v) \in Lc
         /\ SolvedFor(rel, v)[v] = 0
         /\ \A u \in Vars : SolvedFor(rel, v)[u] # 0 => rel[u] # 0
         /\ \A z \in Assignments : Eval(rel, z) = 0 <=> z[v] = Eval(SolvedFor(rel, v), z)
<1> DEFINE rest == [rel EXCEPT ![v] = 0]
           inv == Inverse_Of(rel[v])
           m == Minus(inv)
<1>0. v \in 0..N /\ v \in 1..N /\ 0 \in Field
  BY Constants DEF Vars
<1>1. rel[v] \in Field /\ rel[v] \in Int
  BY <1>0, LcAt
<1>2. inv \in Field /\ inv \in Int /\ Cong(rel[v] * inv, 1)
  BY <1>1, InverseIs
<1>3. m \in Field /\ m \in Int /\ Cong(m, -inv)
  BY <1>2, MinusIs
<1>4. rest \in Lc /\ \A u \in 0..N : rest[u] = IF u = v THEN 0 ELSE rel[u]
  BY <1>0 DEF Lc
<1>5. SolvedFor(rel, v) = Scale(rest, m)
  BY DEF SolvedFor
<1> HIDE DEF inv, m
<1>6. /\ Scale(rest, m) \in Lc
      /\ \A u \in 0..N : Scale(rest, m)[u] = (rest[u] * m) % P
  BY <1>3, <1>4, ScaleIs
<1>7. ASSUME NEW u \in 0..N, rest[u] = 0 PROVE Scale(rest, m)[u] = 0
  <2>1. rest[u] * m = 0
    BY <1>3, <1>7
  <2>2. 0 % P = 0
    BY Constants, ModIs, CongRefl
  <2> QED BY <2>1, <2>2, <1>6
<1>8. \A z \in Assignments : Eval(rel, z) = 0 <=> z[v] = Eval(Scale(rest, m), z)
  <2> TAKE z \in Assignments
  <2> DEFINE e == Eval(rel, z)  r == Eval(rest, z)  s == Eval(Scale(rest, m), z)  zv == z[v]
             uz == Eval(Unit(v), z)
  <2>1. /\ e \in Field /\ e \in Int /\ r \in Int /\ s \in Field /\ s \in Int
        /\ zv \in Field /\ zv \in Int /\ uz \in Int
    BY <1>0, <1>4, <1>6, UnitIs, EvalType, ValueAt
  <2>2. Cong(s, m * r)
    BY <1>3, <1>4, ScaleIs
  <2>3. Cong(uz, zv)
    BY UnitIs
  <2>4. Cong(r, e + (-rel[v]) * uz)
    <3>1. \A u \in 0..N : Cong(rest[u], rel[u] + (-rel[v]) * Unit(v)[u])
      <4> TAKE u \in 0..N
      <4>1. rest[u] = rel[u] + (-rel[v]) * Unit(v)[u] /\ rest[u] \in Int
        <5>1. CASE u = v
          <6>1. (-rel[v]) * 1 = -rel[v]
            BY <1>1
          <6> QED BY <6>1, <5>1, <1>1, <1>4, UnitIs
        <5>2. CASE u # v
          <6>1. (-rel[v]) * 0 = 0
            BY <1>1
          <6> QED BY <6>1, <5>2, <1>4, UnitIs, LcAt
        <5> QED BY <5>1, <5>2
      <4>2. Cong(rest[u], rest[u])
        BY <4>1, CongRefl
      <4> QED BY <4>1, <4>2
    <3>2. -rel[v] \in Int
      BY <1>1
    <3> HIDE DEF rest
    <3> QED BY <3>1, <3>2, <1>4, UnitIs, EvalLinear
  <2>5. /\ Cong(0 - r, 0 - r)
    BY <2>1, CongRefl
  <2> HIDE DEF e, r, s, zv, uz, rest
  <2> DEFINE c == rel[v]
  <2>c. c \in Int /\ c \in Field /\ Cong(c * inv, 1)
    BY <1>1, <1>2
  <2> HIDE DEF c
  <2>6. Cong(r, e + (-c) * zv) /\ e + (-c) * zv \in Int
    <3>1. -c \in Int /\ e + (-c) * uz \in Int
      BY <2>c, <2>1
    <3>2. Cong(e + (-c) * uz, e + (-c) * zv) /\ e + (-c) * zv \in Int
      BY <2>1, <2>3, <3>1, CongRefl, CongLinear
    <3>3. Cong(r, e + (-c) * uz)
      BY <2>4 DEF c
    <3> QED BY <3>1, <3>2, <3>3, <2>1, CongTrans
  <2>7. Cong(s, zv + m * e)
    <3>1. PICK k \in Int : s = m * r + k * P
      BY <2>2 DEF Cong
    <3>2. PICK l \in Int : r = e + (-c) * zv + l * P
      BY <2>6 DEF Cong
    <3>3. PICK j \in Int : c * inv = 1 + j * P
      BY <2>c DEF Cong
    <3>4. PICK i \in Int : m = -inv + i * P
      BY <1>3 DEF Cong
    <3>5. c * m = -1 + (c * i - j) * P /\ c * i - j \in Int
      <4>1. c * m = -(c * inv) + (c * i) * P
        BY <3>4, <2>c, <1>2, Constants
      <4> DEFINE ci == c * i  cinv == c * inv
      <4>2. ci \in Int
        BY <2>c
      <4> HIDE DEF ci, cinv
      <4>3. cinv = 1 + j * P
        BY <3>3 DEF cinv
      <4>4. -(1 + j * P) + ci * P = -1 + (ci - j) * P /\ ci - j \in Int
        BY <4>2, Constants
      <4> QED BY <4>1, <4>3, <4>4 DEF ci, cinv
    <3> DEFINE t == c * i - j  mc == c * m  mr == m * r
    <3>6. mr = m * e - mc * zv + (m * l) * P /\ mr \in Int /\ mc \in Int
      BY <3>2, <2>c, <1>3, <2>1, Constants
    <3>7. mc * zv = -zv + (t * zv) * P
      <4>1. mc = -1 + t * P /\ t \in Int
        BY <3>5
      <4> HIDE DEF t, mc
      <4> QED BY <4>1, <2>1, Constants
    <3> DEFINE ml == m * l  me == m * e  tz == t * zv  mz == mc * zv
    <3>8. ml \in Int /\ me \in Int /\ tz \in Int /\ mz \in Int
      <4>1. t \in Int
        BY <3>5
      <4> HIDE DEF t, mc
      <4> QED BY <4>1, <3>6, <1>3, <2>1
    <3>9. s = (zv + me) + (ml - tz + k) * P /\ ml - tz + k \in Int
      <4>1. mr = me - mz + ml * P /\ mz = -zv + tz * P /\ s = mr + k * P
        BY <3>1, <3>6, <3>7
      <4> HIDE DEF ml, me, tz, mz, mr
      <4> QED BY <4>1, <3>8, <2>1, Constants
    <3> QED BY <3>9 DEF Cong
  <2>8. ASSUME e = 0 PROVE zv = s
    <3>1. zv + m * e = zv
      BY <2>8, <2>1, <1>3
    <3> QED BY <3>1, <2>1, <2>7, CongEq
  <2>9. ASSUME zv = s PROVE e = 0
    <3>1. PICK k \in Int : s = zv + m * e + k * P
      BY <2>7 DEF Cong
    <3>2. PICK j \in Int : c * inv = 1 + j * P
      BY <2>c DEF Cong
    <3>3. PICK i \in Int : m = -inv + i * P
      BY <1>3 DEF Cong
    <3> DEFINE me == m * e
    <3>4. me \in Int
      BY <2>1, <1>3
    <3>5. me = (-k) * P
      <4>1. s = zv + me + k * P
        BY <3>1
      <4> HIDE DEF me
      <4> QED BY <4>1, <3>4, <2>1, <2>9, Constants
    <3>6. c * me = (c * m) * e
      BY <2>c, <2>1, <1>3
    <3>7. c * m = -1 + (c * i - j) * P /\ c * i - j \in Int
      <4>1. c * m = -(c * inv) + (c * i) * P
        BY <3>3, <2>c, <1>2, Constants
      <4> DEFINE ci == c * i  cinv == c * inv
      <4>2. ci \in Int
        BY <2>c
      <4> HIDE DEF ci, cinv
      <4>3. cinv = 1 + j * P
        BY <3>2 DEF cinv
      <4>4. -(1 + j * P) + ci * P = -1 + (ci - j) * P /\ ci - j \in Int
        BY <4>2, Constants
      <4> QED BY <4>1, <4>3, <4>4 DEF ci, cinv
    <3> DEFINE t == c * i - j  mc == c * m
    <3>8. mc * e = -e + (t * e) * P
      <4>1. mc = -1 + t * P /\ t \in Int
        BY <3>7
      <4> HIDE DEF t, mc
      <4> QED BY <4>1, <2>1, Constants
    <3>9. c * me = (c * (-k)) * P
      <4> HIDE DEF me
      <4> QED BY <3>5, <2>c, Constants
    <3> DEFINE ck == c * (-k)  te == t * e
    <3>10. ck \in Int /\ te \in Int
      <4>1. t \in Int
        BY <3>7
      <4> HIDE DEF t
      <4> QED BY <4>1, <2>c, <2>1
    <3>11. e = 0 + (te - ck) * P /\ te - ck \in Int
      <4>1. ck * P = -e + te * P
        BY <3>6, <3>8, <3>9
      <4> HIDE DEF ck, te
      <4> QED BY <4>1, <3>10, <2>1, Constants
    <3>12. Cong(e, 0)
      BY <3>11 DEF Cong
    <3> QED BY <3>12, <2>1, Constants, CongEq
  <2> QED BY <2>8, <2>9 DEF e, s, zv
<1>9. Scale(rest, m)[v] = 0
  BY <1>0, <1>4, <1>7
<1>10. \A u \in Vars : Scale(rest, m)[u] # 0 => rel[u] # 0
  <2>1. \A u \in Vars : u \in 0..N
    BY Constants DEF Vars
  <2> QED BY <2>1, <1>0, <1>4, <1>7
<1> QED
  BY <1>5, <1>6, <1>8, <1>9, <1>10

(* x * y = c holds where rel is 0.                                         *)
SaysZero(x, y, c, rel) ==
  /\ rel \in Lc
  /\ \A z \in Assignments :
       (Eval(x, z) * Eval(y, z)) % P = Eval(c, z) <=> Eval(rel, z) = 0

(* What a linear row says: its relation is 0.                              *)
LEMMA LinearRow ==
  ASSUME NEW row \in Row, IsLinear(row)
  PROVE  /\ Relation(row) \in Lc
         /\ \A z \in Assignments : Satisfied(row, z) <=> Eval(Relation(row), z) = 0
<1>1. row[1] \in Lc /\ row[2] \in Lc /\ row[3] \in Lc /\ row # Dead
  BY DEF Row, Dead
<1>2. ASSUME NEW x \in Lc, NEW y \in Lc, NEW c \in Lc, IsConst(x)
      PROVE  SaysZero(x, y, c, Sub(Scale(y, x[0]), c))
  <2>1. x[0] \in Field /\ x[0] \in Int
    BY LcAt, Constants
  <2>2. Scale(y, x[0]) \in Lc
    BY <2>1, ScaleIs
  <2>3. Sub(Scale(y, x[0]), c) \in Lc
    BY <2>2, SubIs
  <2>4. ASSUME NEW z \in Assignments
        PROVE  (Eval(x, z) * Eval(y, z)) % P = Eval(c, z)
                 <=> Eval(Sub(Scale(y, x[0]), c), z) = 0
    <3> DEFINE a == x[0]  b == Eval(y, z)  e == Eval(c, z)
               p == Eval(Scale(y, x[0]), z)  d == Eval(Sub(Scale(y, x[0]), c), z)
    <3>1. /\ a \in Int /\ b \in Int /\ e \in Int /\ e \in Field /\ p \in Int
          /\ d \in Int /\ d \in Field
      BY <2>1, <2>2, <2>3, EvalType
    <3>2. Cong(p, a * b) /\ Cong(d, p - e)
      BY <2>1, <2>2, ScaleIs, SubIs
    <3>3. Eval(x, z) = a
      BY <1>2, EvalConst
    <3> HIDE DEF a, b, e, p, d
    <3>4. PICK k \in Int : p = a * b + k * P
      BY <3>2 DEF Cong
    <3>5. PICK l \in Int : d = p - e + l * P
      BY <3>2 DEF Cong
    <3> DEFINE ab == a * b
    <3>6. ab \in Int
      BY <3>1
    <3>7. p = ab + k * P
      BY <3>4
    <3> HIDE DEF ab
    <3>8. d = ab - e + (k + l) * P /\ k + l \in Int
      BY <3>1, <3>5, <3>6, <3>7, Constants
    <3>9. ASSUME Cong(ab, e) PROVE d = 0
      <4>1. PICK j \in Int : ab = e + j * P
        BY <3>9 DEF Cong
      <4>2. d = 0 + (j + (k + l)) * P /\ j + (k + l) \in Int
        BY <4>1, <3>1, <3>6, <3>8, Constants
      <4>3. Cong(d, 0)
        BY <4>2 DEF Cong
      <4> QED BY <4>3, <3>1, CongEq, Constants
    <3>10. ASSUME d = 0 PROVE Cong(ab, e)
      <4>1. ab = e + (-(k + l)) * P /\ -(k + l) \in Int
        BY <3>1, <3>6, <3>8, <3>10, Constants
      <4> QED BY <4>1 DEF Cong
    <3>11. ab % P = e <=> Cong(ab, e)
      BY <3>1, <3>6, ModIs
    <3> QED BY <3>3, <3>9, <3>10, <3>11 DEF ab, b, d, e
  <2> QED BY <2>3, <2>4 DEF SaysZero
<1>3. CASE IsConst(row[1])
  <2>1. Relation(row) = Sub(Scale(row[2], row[1][0]), row[3])
    BY <1>3 DEF Relation
  <2>2. SaysZero(row[1], row[2], row[3], Relation(row))
    BY <2>1, <1>1, <1>2, <1>3
  <2> QED BY <2>2, <1>1, Zenon DEF Satisfied, SaysZero
<1>4. CASE ~ IsConst(row[1])
  <2>1. IsConst(row[2]) /\ Relation(row) = Sub(Scale(row[1], row[2][0]), row[3])
    BY <1>4 DEF Relation, IsLinear
  <2>2. \A z \in Assignments : Eval(row[1], z) * Eval(row[2], z) = Eval(row[2], z) * Eval(row[1], z)
    <3> TAKE z \in Assignments
    <3>1. Eval(row[1], z) \in Int /\ Eval(row[2], z) \in Int
      BY <1>1, EvalType
    <3> QED BY <3>1
  <2>3. SaysZero(row[2], row[1], row[3], Relation(row))
    BY <2>1, <1>1, <1>2
  <2>4. ASSUME NEW z \in Assignments PROVE Satisfied(row, z) <=> Eval(Relation(row), z) = 0
    <3>1. Eval(row[1], z) * Eval(row[2], z) = Eval(row[2], z) * Eval(row[1], z)
      BY <2>2
    <3> QED BY <2>3, <3>1, <1>1, Zenon DEF Satisfied, SaysZero
  <2> QED BY <2>3, <2>4 DEF SaysZero
<1> QED
  BY <1>3, <1>4

(* The pivot is an Internal variable of the relation.                      *)
LEMMA PivotIs ==
  ASSUME NEW rel \in Lc, Pivots(rel) # {}
  PROVE  /\ Pivot(rel) \in Vars /\ Pivot(rel) \in Internal /\ rel[Pivot(rel)] # 0
         /\ Replacement(rel) = SolvedFor(rel, Pivot(rel))
<1>1. Pivots(rel) \subseteq Vars /\ Vars \subseteq Nat
  BY DEF Pivots, Terms, Vars
<1>2. \E n \in Pivots(rel) : \A m \in Pivots(rel) : n <= m
  BY <1>1, LeastNat
<1>3. Pivot(rel) \in Pivots(rel)
  BY <1>2 DEF Pivot, Min
<1> QED
  BY <1>1, <1>3 DEF Pivots, Terms, Replacement, SolvedFor

LEMMA ZeroIs == 0 % P = 0
BY Constants, ModIs, CongRefl

(* A variable in a row's relation is in the row.                           *)
LEMMA RelationHolds ==
  ASSUME NEW row \in Row, IsLinear(row), NEW u \in Vars, Relation(row)[u] # 0
  PROVE  Holds(row, u)
<1>1. row[1] \in Lc /\ row[2] \in Lc /\ row[3] \in Lc /\ row # Dead /\ u \in 0..N
  BY Constants DEF Row, Dead, Vars
<1>2. ASSUME NEW m \in Field, NEW y \in Lc, NEW c \in Lc, y[u] = 0, c[u] = 0
      PROVE  Sub(Scale(y, m), c)[u] = 0
  <2>1. Scale(y, m) \in Lc /\ Scale(y, m)[u] = (0 * m) % P /\ m \in Int
    BY <1>1, <1>2, ScaleIs, Constants DEF Field
  <2>2. 0 * m = 0
    BY <2>1
  <2>3. Scale(y, m)[u] = 0
    BY <2>1, <2>2, ZeroIs
  <2>4. Cong(Sub(Scale(y, m), c)[u], 0 - 0) /\ Sub(Scale(y, m), c)[u] \in Field
    BY <1>1, <1>2, <2>1, <2>3, SubIs, LcAt
  <2>5. 0 - 0 = 0
    OBVIOUS
  <2> QED BY <2>4, <2>5, CongEq, Constants
<1>3. row[1][0] \in Field /\ row[2][0] \in Field
  BY <1>1, LcAt, Constants
<1>4. SUFFICES ASSUME \A form \in 1..3 : row[form][u] = 0 PROVE FALSE
  BY <1>1 DEF Holds
<1>5. row[1][u] = 0 /\ row[2][u] = 0 /\ row[3][u] = 0
  BY <1>4
<1> QED
  BY <1>1, <1>2, <1>3, <1>5 DEF Relation

(* A substituted form holds v no more, and what else it holds it held or   *)
(* has from vlc; a form without v is left as it is.                        *)
LEMMA SubstHolds ==
  ASSUME NEW lc \in Lc, NEW v \in Vars, NEW vlc \in Lc, vlc[v] = 0
  PROVE  /\ Subst(lc, v, vlc)[v] = 0
         /\ \A u \in Vars : Subst(lc, v, vlc)[u] # 0 /\ lc[u] = 0 => lc[v] # 0 /\ vlc[u] # 0
         /\ lc[v] = 0 => Subst(lc, v, vlc) = lc
<1>1. v \in 0..N /\ Vars \subseteq 0..N /\ lc[v] \in Int
  <2>1. v \in 0..N /\ Vars \subseteq 0..N
    BY Constants DEF Vars
  <2> QED BY <2>1, LcAt
<1>2. \A u \in 0..N : Subst(lc, v, vlc)[u] = ((IF u = v THEN 0 ELSE lc[u]) + lc[v] * vlc[u]) % P
  BY SubstIs
<1>3. \A u \in 0..N : vlc[u] \in Int /\ lc[u] \in Int /\ lc[u] \in Field
  BY LcAt
<1>4. Subst(lc, v, vlc)[v] = 0
  <2>1. 0 + lc[v] * 0 = 0
    BY <1>1
  <2> QED BY <2>1, <1>1, <1>2, ZeroIs
<1>5. ASSUME NEW u \in Vars, Subst(lc, v, vlc)[u] # 0, lc[u] = 0
      PROVE  lc[v] # 0 /\ vlc[u] # 0
  <2>1. (IF u = v THEN 0 ELSE lc[u]) + lc[v] * vlc[u] = lc[v] * vlc[u]
    BY <1>1, <1>3, <1>5
  <2>2. lc[v] = 0 \/ vlc[u] = 0 => lc[v] * vlc[u] = 0
    BY <1>1, <1>3
  <2> QED BY <1>1, <1>2, <1>5, <2>1, <2>2, ZeroIs
<1>6. ASSUME lc[v] = 0 PROVE Subst(lc, v, vlc) = lc
  <2>1. \A u \in 0..N : Subst(lc, v, vlc)[u] = lc[u]
    <3> TAKE u \in 0..N
    <3>1. (IF u = v THEN 0 ELSE lc[u]) + lc[v] * vlc[u] = lc[u]
      BY <1>1, <1>3, <1>6
    <3>2. lc[u] % P = lc[u]
      BY <1>3, ModIs, CongRefl
    <3> QED BY <1>2, <3>1, <3>2
  <2> DEFINE new == Subst(lc, v, vlc)
  <2>2. new \in Lc /\ \A u \in 0..N : new[u] = lc[u]
    BY <2>1, SubstIs
  <2> HIDE DEF new
  <2>3. new = lc
    BY <2>2, LcEqual
  <2> QED BY <2>3 DEF new
<1> QED
  BY <1>4, <1>5, <1>6

(* What the certificate's checker adds is the substitution made.           *)
LEMMA SubstIsAdded ==
  ASSUME NEW lc \in Lc, NEW step, step.var \in Vars, step.lc \in Lc
  PROVE  Added(lc, lc[step.var], step) = Subst(lc, step.var, step.lc)
<1> DEFINE v == step.var  vlc == step.lc  m == lc[v]
<1>1. v \in 0..N /\ m \in Int
  <2>1. v \in 0..N
    BY Constants DEF Vars
  <2> QED BY <2>1, LcAt
<1>2. ASSUME NEW u \in 0..N
      PROVE  (lc[u] + m * (vlc[u] + (IF u = v THEN P - 1 ELSE 0))) % P
               = ((IF u = v THEN 0 ELSE lc[u]) + m * vlc[u]) % P
  <2>1. lc[u] \in Int /\ vlc[u] \in Int
    BY LcAt
  <2> DEFINE old == vlc[u]  mo == m * old
  <2>2. mo \in Int /\ old \in Int
    BY <1>1, <2>1
  <2>3. CASE u = v
    <3>1. m * (old + (P - 1)) = mo - m + m * P
      <4> HIDE DEF m, old
      <4> QED BY <1>1, <2>2, Constants
    <3> HIDE DEF mo
    <3>2. m + m * (old + (P - 1)) = (0 + mo) + m * P
      <4> HIDE DEF m, old
      <4> QED BY <3>1, <2>2, <1>1, Constants
    <3>3. 0 + mo \in Int /\ m + m * (old + (P - 1)) \in Int
      BY <3>2, <2>2, <1>1, Constants
    <3>4. Cong(m + m * (old + (P - 1)), 0 + mo)
      BY <3>2, <1>1 DEF Cong
    <3>5. Cong(0 + mo, (0 + mo) % P) /\ (0 + mo) % P \in Field /\ (0 + mo) % P \in Int
      BY <3>3, CongMod, Constants DEF Field
    <3>6. Cong(m + m * (old + (P - 1)), (0 + mo) % P)
      BY <3>3, <3>4, <3>5, CongTrans
    <3>7. (m + m * (old + (P - 1))) % P = (0 + mo) % P
      BY <3>3, <3>5, <3>6, ModIs
    <3> QED BY <3>7, <2>3 DEF mo
  <2>4. CASE u # v
    <3>1. old + 0 = old
      BY <2>2
    <3> QED BY <3>1, <2>4
  <2> QED BY <2>3, <2>4
<1> QED
  BY <1>2, Zenon DEF Added, Subst

(* Ascending lists exactly its set.                                        *)
LEMMA AscendingIs ==
  ASSUME NEW n \in Nat, NEW S \in SUBSET (1..n)
  PROVE  Ascending(S) \in Seq(S) /\ ToSet(Ascending(S)) = S
<1> DEFINE below(i) == {j \in S : j <= i}
           c == Cardinality(S)
           rank == [i \in S |-> Cardinality(below(i))]
<1>1. IsFiniteSet(S) /\ c \in Nat /\ S \subseteq Nat
  <2>1. IsFiniteSet(1..n)
    BY FS_Interval
  <2>2. IsFiniteSet(S)
    BY <2>1, FS_Subset
  <2> QED BY <2>2, FS_CardinalityType
<1>2. ASSUME NEW i \in S PROVE rank[i] \in 1..c /\ IsFiniteSet(below(i))
  <2>1. IsFiniteSet(below(i)) /\ Cardinality(below(i)) <= c /\ Cardinality(below(i)) \in Nat
    BY <1>1, FS_Subset, FS_CardinalityType
  <2>2. i \in below(i)
    BY <1>1
  <2>3. Cardinality(below(i)) # 0
    BY <2>1, <2>2, FS_EmptySet
  <2> HIDE DEF below, c
  <2> QED BY <2>1, <2>3, <1>1
<1>3. ASSUME NEW x \in S, NEW y \in S, x < y PROVE rank[x] # rank[y]
  <2>1. below(x) \subseteq below(y) /\ y \in below(y) /\ y \notin below(x)
    <3>1. x \in Nat /\ y \in Nat /\ \A j \in S : j \in Nat
      BY <1>1
    <3>2. \A j \in S : j <= x => j <= y
      BY <3>1, <1>3
    <3>3. y <= y /\ ~ (y <= x)
      BY <3>1, <1>3
    <3> QED BY <3>2, <3>3
  <2>2. Cardinality(below(x)) # Cardinality(below(y))
    <3> HIDE DEF below
    <3> QED BY <1>2, <2>1, FS_Subset
  <2> QED BY <2>2
<1>4. \A x, y \in S : rank[x] = rank[y] => x = y
  <2> SUFFICES ASSUME NEW x \in S, NEW y \in S, rank[x] = rank[y], x # y PROVE FALSE
    OBVIOUS
  <2>1. x < y \/ y < x
    BY <1>1
  <2> HIDE DEF rank
  <2> QED BY <2>1, <1>3
<1>5. rank \in Injection(S, 1..c)
  <2>1. rank \in [S -> 1..c]
    BY <1>2
  <2> HIDE DEF rank
  <2> QED BY <2>1, <1>4 DEF Injection, IsInjective
<1>6. IsFiniteSet(1..c) /\ Cardinality(1..c) = c
  <2> HIDE DEF c
  <2> QED BY <1>1, FS_Interval
<1>7. rank \in Surjection(S, 1..c)
  <2> HIDE DEF rank
  <2> QED BY <1>5, <1>6, FS_Injection
<1>8. \A k \in 1..c : \E i \in S : rank[i] = k
  <2> HIDE DEF rank
  <2> QED BY <1>7 DEF Surjection
<1>9. \A i \in S : rank[i] = Cardinality({j \in S : j <= i})
  OBVIOUS
<1>10. \A k \in 1..c : Ascending(S)[k] \in S /\ rank[Ascending(S)[k]] = k
  <2> TAKE k \in 1..c
  <2>1. Ascending(S)[k] = CHOOSE i \in S : Cardinality({j \in S : j <= i}) = k
    BY DEF Ascending
  <2>2. \E i \in S : Cardinality({j \in S : j <= i}) = k
    BY <1>8, <1>9
  <2> HIDE DEF rank
  <2> QED BY <1>9, <2>1, <2>2
<1>11. Ascending(S) \in [1..c -> S]
  BY <1>10 DEF Ascending
<1>12. Ascending(S) \in Seq(S) /\ DOMAIN Ascending(S) = 1..c
  <2> HIDE DEF c
  <2> QED BY <1>1, <1>11
<1>13. \A i \in S : i \in ToSet(Ascending(S))
  <2> TAKE i \in S
  <2>1. rank[i] \in 1..c /\ Ascending(S)[rank[i]] \in S
    BY <1>2, <1>10
  <2>2. rank[Ascending(S)[rank[i]]] = rank[i]
    BY <1>10, <2>1
  <2>3. Ascending(S)[rank[i]] = i
    <3> HIDE DEF rank
    <3> QED BY <1>4, <2>1, <2>2
  <2> QED BY <2>1, <2>3, <1>12 DEF ToSet
<1> QED
  BY <1>10, <1>12, <1>13 DEF ToSet

-----------------------------------------------------------------------------
(* The recorded substitutions, made again.                                 *)

Steps       == [var : Vars, row : Nat, lc : Lc]
Multipliers == UNION {[D -> Field] : D \in SUBSET (Nat \X (1..3))}

(* base after the first k steps, with the multipliers site has in sb.      *)
Chain(base, st, sb, site) ==
  LET lc[k \in 0..Len(st)] ==
        IF k = 0 THEN base
        ELSE IF site \in DOMAIN sb[k] THEN Added(lc[k - 1], sb[k][site], st[k]) ELSE lc[k - 1]
  IN lc

(* What the recursive definition says of it.                               *)
ChainOf(c, base, st, sb, site) ==
  /\ c \in [0..Len(st) -> Lc]
  /\ c[0] = base
  /\ \A k \in 1..Len(st) :
       c[k] = IF site \in DOMAIN sb[k] THEN Added(c[k - 1], sb[k][site], st[k]) ELSE c[k - 1]

LEMMA AddedType ==
  ASSUME NEW lc \in Lc, NEW m \in Field, NEW step \in Steps
  PROVE  Added(lc, m, step) \in Lc
<1>1. m \in Int /\ step.lc \in Lc
  BY Constants DEF Field, Steps
<1>2. ASSUME NEW u \in 0..N
      PROVE  (lc[u] + m * (step.lc[u] + (IF u = step.var THEN P - 1 ELSE 0))) % P \in Field
  <2>1. lc[u] \in Int /\ step.lc[u] \in Int
    BY <1>1, LcAt
  <2> DEFINE d == step.lc[u] + (IF u = step.var THEN P - 1 ELSE 0)
  <2>2. d \in Int
    BY <2>1, Constants
  <2> HIDE DEF d
  <2>3. lc[u] + m * d \in Int
    BY <1>1, <2>1, <2>2
  <2> QED BY <2>3, CongMod DEF d
<1> QED
  BY <1>2, Zenon DEF Added, Lc

LEMMA ChainIs ==
  ASSUME NEW base \in Lc, NEW st \in Seq(Steps), NEW sb \in Seq(Multipliers),
         Len(sb) = Len(st), NEW site
  PROVE  ChainOf(Chain(base, st, sb, site), base, st, sb, site)
<1> DEFINE n == Len(st)
           step == [x \in (1..n) \X Lc |->
                      IF site \in DOMAIN sb[x[1]] THEN Added(x[2], sb[x[1]][site], st[x[1]]) ELSE x[2]]
           IsChain(f) == f = [k \in 0..n |->
                        IF k = 0 THEN base
                        ELSE IF site \in DOMAIN sb[k] THEN Added(f[k - 1], sb[k][site], st[k]) ELSE f[k - 1]]
<1>0. n \in Nat /\ \A k \in 1..n : st[k] \in Steps /\ sb[k] \in Multipliers
  OBVIOUS
<1>1. step \in [(1..n) \X Lc -> Lc]
  <2>1. ASSUME NEW k \in 1..n, NEW lc \in Lc, site \in DOMAIN sb[k]
        PROVE  Added(lc, sb[k][site], st[k]) \in Lc
    <3>1. sb[k] \in Multipliers /\ st[k] \in Steps
      BY <1>0
    <3>2. PICK D \in SUBSET (Nat \X (1..3)) : sb[k] \in [D -> Field]
      BY <3>1 DEF Multipliers
    <3>3. sb[k][site] \in Field
      BY <3>2, <2>1
    <3> QED BY <3>1, <3>3, AddedType
  <2>2. \A x \in (1..n) \X Lc : x[1] \in 1..n /\ x[2] \in Lc
    OBVIOUS
  <2> HIDE DEF n
  <2> QED BY <2>1, <2>2
<1>2. PICK f : Recursion(f, n, Lc, base, step)
  <2> HIDE DEF step, n
  <2> QED BY <1>0, <1>1, SegmentRecursion
<1>3. IsChain(f)
  <2>1. ASSUME NEW k \in 0..n
        PROVE  f[k] = IF k = 0 THEN base
                      ELSE IF site \in DOMAIN sb[k] THEN Added(f[k - 1], sb[k][site], st[k]) ELSE f[k - 1]
    <3>1. CASE k # 0
      <4>1. k \in 1..n /\ k - 1 \in 0..n
        BY <3>1, <1>0
      <4>2. f[k - 1] \in Lc
        BY <4>1, <1>2 DEF Recursion
      <4>3. step[<<k, f[k - 1]>>] =
              IF site \in DOMAIN sb[k] THEN Added(f[k - 1], sb[k][site], st[k]) ELSE f[k - 1]
        BY <4>1, <4>2
      <4> HIDE DEF step, n
      <4> QED BY <4>1, <4>3, <1>2, <3>1 DEF Recursion
    <3> QED BY <3>1, <1>2 DEF Recursion
  <2>2. f = [k \in 0..n |-> f[k]]
    BY <1>2 DEF Recursion
  <2> HIDE DEF n
  <2> QED BY <2>1, <2>2, Zenon
<1>4. Chain(base, st, sb, site) = CHOOSE g : IsChain(g)
  BY Zenon DEF Chain
<1>5. IsChain(Chain(base, st, sb, site))
  <2> HIDE DEF IsChain
  <2> QED BY <1>3, <1>4, Zenon
<1> DEFINE c == Chain(base, st, sb, site)
<1>6. /\ c[0] = base
      /\ \A k \in 1..n : c[k] = IF site \in DOMAIN sb[k]
                                  THEN Added(c[k - 1], sb[k][site], st[k]) ELSE c[k - 1]
      /\ c = [k \in 0..n |-> c[k]]
  <2> HIDE DEF c, n
  <2>1. c = [k \in 0..n |->
                        IF k = 0 THEN base
                        ELSE IF site \in DOMAIN sb[k] THEN Added(c[k - 1], sb[k][site], st[k]) ELSE c[k - 1]]
    BY <1>5, Zenon DEF c
  <2>2. 0 \in 0..n /\ \A k \in 1..n : k \in 0..n /\ k # 0
    BY <1>0
  <2>3. c[0] = base
    BY <2>1, <2>2, Zenon
  <2>4. \A k \in 1..n : c[k] = IF site \in DOMAIN sb[k]
                                  THEN Added(c[k - 1], sb[k][site], st[k]) ELSE c[k - 1]
    BY <2>1, <2>2, Zenon
  <2> QED BY <2>1, <2>3, <2>4, Zenon
<1>7. \A k \in 0..n : c[k] \in Lc
  <2> DEFINE Good == {k \in 0..n : c[k] \in Lc}
  <2> HIDE DEF c, step
  <2>1. 0 \in Good
    BY <1>0, <1>6
  <2>2. \A k \in 0..n : k # 0 /\ k - 1 \in Good => k \in Good
    <3> SUFFICES ASSUME NEW k \in 0..n, k # 0, k - 1 \in Good PROVE c[k] \in Lc
      OBVIOUS
    <3>1. k \in 1..n /\ c[k - 1] \in Lc
      BY <1>0
    <3>2. <<k, c[k - 1]>> \in (1..n) \X Lc
      BY <3>1
    <3>3. step[<<k, c[k - 1]>>] = c[k]
      <4>1. step[<<k, c[k - 1]>>] =
              IF site \in DOMAIN sb[k] THEN Added(c[k - 1], sb[k][site], st[k]) ELSE c[k - 1]
        BY <3>2 DEF step
      <4> HIDE DEF n
      <4> QED BY <4>1, <1>6, <3>1
    <3> HIDE DEF n
    <3> QED BY <3>2, <3>3, <1>1
  <2>3. \A k \in 0..n : k \in Good
    <3> HIDE DEF Good, n
    <3> QED BY <2>1, <2>2, <1>0, SegmentInduction
  <2> QED BY <2>3
<1>8. c \in [0..n -> Lc]
  <2> HIDE DEF c, n
  <2> QED BY <1>6, <1>7
<1> QED
  BY <1>6, <1>8 DEF ChainOf

(* One more step leaves what came before, and adds its own substitution.   *)
LEMMA ChainAppend ==
  ASSUME NEW base \in Lc, NEW st \in Seq(Steps), NEW sb \in Seq(Multipliers),
         Len(sb) = Len(st), NEW site, NEW s \in Steps, NEW m \in Multipliers
  PROVE  LET last == Chain(base, st, sb, site)[Len(st)]
         IN  /\ last \in Lc
             /\ Chain(base, Append(st, s), Append(sb, m), site)[Len(st) + 1] =
                  IF site \in DOMAIN m THEN Added(last, m[site], s) ELSE last
<1> DEFINE n == Len(st)  st2 == Append(st, s)  sb2 == Append(sb, m)
           c == Chain(base, st, sb, site)  c2 == Chain(base, st2, sb2, site)
           Good == {k \in 0..n : c2[k] = c[k]}
<1>1. /\ n \in Nat /\ st2 \in Seq(Steps) /\ sb2 \in Seq(Multipliers) /\ Len(st2) = n + 1
      /\ Len(sb2) = n + 1 /\ st2[n + 1] = s /\ sb2[n + 1] = m
      /\ \A k \in 1..n : st2[k] = st[k] /\ sb2[k] = sb[k]
  OBVIOUS
<1>2. /\ c \in [0..n -> Lc] /\ c[0] = base
      /\ \A k \in 1..n : c[k] = IF site \in DOMAIN sb[k]
                                  THEN Added(c[k - 1], sb[k][site], st[k]) ELSE c[k - 1]
  <2>1. ChainOf(c, base, st, sb, site)
    BY ChainIs
  <2> QED BY <2>1, Zenon DEF ChainOf
<1>3. /\ c2[0] = base
      /\ \A k \in 1..(n + 1) : c2[k] = IF site \in DOMAIN sb2[k]
                                         THEN Added(c2[k - 1], sb2[k][site], st2[k]) ELSE c2[k - 1]
  <2> HIDE DEF st2, sb2, n
  <2>1. ChainOf(c2, base, st2, sb2, site)
    BY <1>1, ChainIs
  <2> HIDE DEF c2
  <2> QED BY <2>1, <1>1, Zenon DEF ChainOf
<1> HIDE DEF c, c2, st2, sb2, n
<1>4. 0 \in Good
  BY <1>1, <1>2, <1>3
<1>5. \A k \in 0..n : k # 0 /\ k - 1 \in Good => k \in Good
  <2> SUFFICES ASSUME NEW k \in 0..n, k # 0, k - 1 \in Good PROVE c2[k] = c[k]
    OBVIOUS
  <2>1. k \in 1..n /\ k \in 1..(n + 1) /\ c2[k - 1] = c[k - 1]
    BY <1>1
  <2> QED BY <2>1, <1>1, <1>2, <1>3, Zenon
<1>6. \A k \in 0..n : k \in Good
  <2> HIDE DEF Good
  <2> QED BY <1>1, <1>4, <1>5, SegmentInduction
<1>7. n \in 0..n /\ n + 1 \in 1..(n + 1) /\ (n + 1) - 1 = n
  BY <1>1
<1>8. c2[n] = c[n] /\ c[n] \in Lc
  BY <1>2, <1>6, <1>7
<1>9. c2[n + 1] = IF site \in DOMAIN m THEN Added(c[n], m[site], s) ELSE c[n]
  BY <1>1, <1>3, <1>7, <1>8, Zenon
<1> QED
  BY <1>8, <1>9 DEF c, c2, st2, sb2, n

-----------------------------------------------------------------------------
(* The inductive invariant.                                                *)

Rows == 1..Len(prog)

TypeOK ==
  /\ prog \in Programs
  /\ cons \in [Rows -> Row \cup {Dead}]
  /\ occ \in [Vars -> SUBSET Rows]
  /\ queue \in Seq(Rows)
  /\ steps \in Seq(Steps)
  /\ subs \in Seq(Multipliers)
  /\ Len(subs) = Len(steps)
  /\ dropped \subseteq Rows

(* The append-only index misses no row that holds a variable.              *)
Indexed == \A i \in Rows, u \in Vars : Holds(cons[i], u) => i \in occ[u]

Finished(row) == ~ Eliminable(row) /\ ~ (Trivial(row) /\ Relation(row)[0] = 0)

(* A row that does not wait has nothing left to do.                        *)
Settled == \A i \in Rows : i \notin ToSet(queue) => Finished(cons[i])

IInv ==
  TypeOK /\ Indexed /\ Settled /\ EliminatedGone /\ SolutionsPreserved /\ TraceExplains

(* What the types give for a row.                                          *)
LEMMA ProgIs ==
  ASSUME TypeOK
  PROVE  /\ prog \in Seq(Row) /\ Len(prog) \in Nat /\ DOMAIN prog = Rows /\ DOMAIN cons = Rows
         /\ \A i \in Rows : prog[i] \in Row /\ i \in Nat
         /\ \A i \in Rows : cons[i] # Dead => cons[i] \in Row
<1>1. prog \in Seq(Row)
  BY Constants DEF TypeOK
<1>2. Len(prog) \in Nat /\ DOMAIN prog = Rows /\ \A i \in Rows : prog[i] \in Row /\ i \in Nat
  BY <1>1 DEF Rows
<1>3. DOMAIN cons = Rows /\ \A i \in Rows : cons[i] # Dead => cons[i] \in Row
  BY DEF TypeOK
<1> QED
  BY <1>1, <1>2, <1>3

LEMMA RowIs ==
  ASSUME NEW row \in Row
  PROVE  row # Dead /\ row[1] \in Lc /\ row[2] \in Lc /\ row[3] \in Lc
         /\ \A form \in 1..3 : row[form] \in Lc
BY DEF Row, Dead

LEMMA SubstRowIs ==
  ASSUME NEW row \in Row, NEW v \in Vars, NEW vlc \in Lc
  PROVE  /\ SubstRow(row, v, vlc) \in Row
         /\ \A form \in 1..3 : SubstRow(row, v, vlc)[form] = Subst(row[form], v, vlc)
<1>1. \A form \in 1..3 : Subst(row[form], v, vlc) \in Lc
  BY RowIs, SubstIs
<1> QED
  BY <1>1 DEF SubstRow, Row

(* What eliminating v with row i, substituting vlc in the changed rows,    *)
(* works on and does.                                                      *)
Elimination(i, v, vlc, changed) ==
  /\ queue # <<>> /\ i = Head(queue) /\ i \in Rows /\ cons[i] \in Row
  /\ v \in Vars /\ vlc \in Lc /\ vlc[v] = 0
  /\ \A u \in Vars : vlc[u] # 0 => Holds(cons[i], u)
  /\ \A z \in Assignments : Satisfied(cons[i], z) <=> z[v] = Eval(vlc, z)
  /\ changed \subseteq Rows \ {i}
  /\ \A j \in Rows \ {i} : j \in changed <=> Holds(cons[j], v)
  /\ cons' = [j \in Rows |->
                IF j = i THEN Dead
                ELSE IF j \in changed THEN SubstRow(cons[j], v, vlc) ELSE cons[j]]
  /\ occ' = OccAfter(changed, v, vlc)
  /\ queue' = Requeued(changed, Tail(queue))
  /\ steps' = Append(steps, [var |-> v, row |-> i, lc |-> vlc])
  /\ subs' = Append(subs, Substitutions(changed, v))
  /\ prog' = prog /\ dropped' = dropped

LEMMA EliminationIs ==
  ASSUME TypeOK, Indexed, Eliminate
  PROVE  \E i, v, vlc, changed : Elimination(i, v, vlc, changed)
<1> DEFINE i       == Head(queue)
           row     == cons[i]
           rel     == Relation(row)
           v       == Pivot(rel)
           vlc     == Replacement(rel)
           changed == Changed(i, v)
<1>1. queue # <<>> /\ Eliminable(row)
  BY DEF Eliminate
<1>2. i \in Rows
  BY <1>1 DEF TypeOK
<1>3. row \in Row /\ IsLinear(row) /\ Pivots(rel) # {}
  BY <1>1, <1>2, ProgIs DEF Eliminable
<1>4. /\ cons' = [j \in DOMAIN cons |->
                    IF j = i THEN Dead
                    ELSE IF j \in changed THEN SubstRow(cons[j], v, vlc) ELSE cons[j]]
      /\ occ' = OccAfter(changed, v, vlc)
      /\ queue' = Requeued(changed, Tail(queue))
      /\ steps' = Append(steps, [var |-> v, row |-> i, lc |-> vlc])
      /\ subs' = Append(subs, Substitutions(changed, v))
      /\ prog' = prog /\ dropped' = dropped
  BY Zenon DEF Eliminate
<1>5. rel \in Lc /\ \A z \in Assignments : Satisfied(row, z) <=> Eval(rel, z) = 0
  BY <1>3, LinearRow
<1>6. \A u \in Vars : rel[u] # 0 => Holds(row, u)
  BY <1>3, RelationHolds
<1>7. changed \subseteq Rows \ {i} /\ \A j \in Rows \ {i} : j \in changed <=> Holds(cons[j], v)
  <2>1. v \in Vars
    BY <1>3, <1>5, PivotIs
  <2> HIDE DEF i, v
  <2> QED BY <2>1 DEF Changed, TypeOK, Indexed
<1> HIDE DEF i, changed, rel, row
<1>8. /\ v \in Vars /\ vlc \in Lc /\ vlc[v] = 0
      /\ \A u \in Vars : vlc[u] # 0 => rel[u] # 0
      /\ \A z \in Assignments : Eval(rel, z) = 0 <=> z[v] = Eval(vlc, z)
  <2>1. v \in Vars /\ rel[v] # 0 /\ vlc = SolvedFor(rel, v)
    BY <1>3, <1>5, PivotIs
  <2> HIDE DEF v, vlc
  <2> QED BY <2>1, <1>5, SolvedIs
<1> HIDE DEF v, vlc
<1>9. DOMAIN cons = Rows
  BY ProgIs
<1>10. Elimination(i, v, vlc, changed)
  BY <1>1, <1>2, <1>3, <1>4, <1>5, <1>6, <1>7, <1>8, <1>9 DEF Elimination, i, row
<1> QED
  BY <1>10

(* The rows after an elimination.                                          *)
LEMMA RowsAfter ==
  ASSUME TypeOK, NEW i, NEW v, NEW vlc, NEW changed, Elimination(i, v, vlc, changed)
  PROVE  /\ cons'[i] = Dead
         /\ \A j \in changed : /\ j \in Rows /\ j # i /\ cons[j] \in Row
                               /\ cons'[j] = SubstRow(cons[j], v, vlc) /\ cons'[j] \in Row
         /\ \A j \in Rows \ {i} : j \notin changed => cons'[j] = cons[j] /\ ~ Holds(cons[j], v)
<1>1. /\ i \in Rows /\ v \in Vars /\ vlc \in Lc /\ changed \subseteq Rows \ {i}
      /\ \A j \in Rows \ {i} : j \in changed <=> Holds(cons[j], v)
  BY DEF Elimination
<1>2. /\ cons'[i] = Dead
      /\ \A j \in changed : j \in Rows /\ j # i /\ cons'[j] = SubstRow(cons[j], v, vlc)
      /\ \A j \in Rows \ {i} : j \notin changed => cons'[j] = cons[j]
  BY <1>1 DEF Elimination
<1>3. \A j \in changed : cons[j] \in Row
  BY <1>1, ProgIs DEF Holds
<1> QED
  BY <1>1, <1>2, <1>3, SubstRowIs

LEMMA RequeuedIs ==
  ASSUME NEW n \in Nat, NEW rest \in Seq(1..n), NEW changed \in SUBSET (1..n)
  PROVE  /\ Requeued(changed, rest) \in Seq(1..n)
         /\ \A j \in 1..n : j \in changed \/ j \in ToSet(rest) => j \in ToSet(Requeued(changed, rest))
<1> DEFINE S == changed \ ToSet(rest)
           new == Ascending(S)
<1>1. new \in Seq(S) /\ ToSet(new) = S /\ S \subseteq 1..n
  BY AscendingIs
<1> HIDE DEF new
<1>2. new \in Seq(1..n)
  BY <1>1
<1>3. /\ rest \o new \in Seq(1..n) /\ Len(rest \o new) = Len(rest) + Len(new)
      /\ \A k \in 1..Len(rest) : (rest \o new)[k] = rest[k]
      /\ \A k \in 1..Len(new) : (rest \o new)[Len(rest) + k] = new[k]
  BY <1>2
<1>4. \A j \in ToSet(rest) : j \in ToSet(rest \o new)
  <2> TAKE j \in ToSet(rest)
  <2>1. PICK k \in 1..Len(rest) : rest[k] = j
    BY DEF ToSet
  <2> DEFINE all == rest \o new
  <2>2. all \in Seq(1..n) /\ k \in 1..Len(all) /\ all[k] = j
    BY <1>2, <1>3, <2>1
  <2> HIDE DEF all
  <2>3. k \in DOMAIN all
    BY <2>2
  <2>4. j \in ToSet(all)
    BY <2>2, <2>3 DEF ToSet
  <2> QED BY <2>4 DEF all
<1>5. \A j \in ToSet(new) : j \in ToSet(rest \o new)
  <2> TAKE j \in ToSet(new)
  <2>1. PICK k \in 1..Len(new) : new[k] = j
    BY <1>2 DEF ToSet
  <2>2. Len(rest) + k \in 1..Len(rest \o new) /\ (rest \o new)[Len(rest) + k] = j
    BY <1>2, <1>3, <2>1
  <2> DEFINE all == rest \o new
  <2>3. all \in Seq(1..n) /\ Len(rest) + k \in 1..Len(all) /\ all[Len(rest) + k] = j
    BY <2>2, <1>3
  <2> HIDE DEF all
  <2>4. Len(rest) + k \in DOMAIN all
    BY <2>3
  <2>5. j \in ToSet(all)
    BY <2>3, <2>4 DEF ToSet
  <2> QED BY <2>5 DEF all
<1> QED
  BY <1>1, <1>3, <1>4, <1>5 DEF Requeued, new

(* Every element is the head or in the tail.                               *)
LEMMA HeadOrTail ==
  ASSUME NEW n \in Nat, NEW q \in Seq(1..n), q # <<>>
  PROVE  /\ Tail(q) \in Seq(1..n) /\ Head(q) \in 1..n
         /\ \A j \in ToSet(q) : j = Head(q) \/ j \in ToSet(Tail(q))
<1>1. Tail(q) \in Seq(1..n) /\ Head(q) \in 1..n /\ Len(Tail(q)) = Len(q) - 1 /\ Len(q) \in Nat
  OBVIOUS
<1>2. \A k \in 1..Len(q) : k = 1 \/ (k - 1 \in 1..(Len(q) - 1) /\ q[k] = Tail(q)[k - 1])
  OBVIOUS
<1>3. q[1] = Head(q)
  OBVIOUS
<1>4. DOMAIN Tail(q) = 1..(Len(q) - 1) /\ DOMAIN q = 1..Len(q)
  BY <1>1
<1>5. ASSUME NEW j \in ToSet(q) PROVE j = Head(q) \/ j \in ToSet(Tail(q))
  <2>1. PICK k \in 1..Len(q) : q[k] = j
    BY <1>4 DEF ToSet
  <2>2. CASE k = 1
    BY <2>1, <2>2, <1>3
  <2>3. CASE k # 1
    <3>1. k - 1 \in DOMAIN Tail(q) /\ Tail(q)[k - 1] = j
      BY <2>1, <2>3, <1>2, <1>4
    <3> QED BY <3>1 DEF ToSet
  <2> QED BY <2>2, <2>3
<1> QED
  BY <1>1, <1>5

(* The multipliers recorded are those of the changed forms.                *)
LEMMA SubstitutionsAre ==
  ASSUME TypeOK, NEW i, NEW v, NEW vlc, NEW changed, Elimination(i, v, vlc, changed)
  PROVE  /\ Substitutions(changed, v) \in Multipliers
         /\ \A j \in Rows, form \in 1..3 :
              /\ <<j, form>> \in DOMAIN Substitutions(changed, v)
                   <=> j \in changed /\ cons[j][form][v] # 0
              /\ <<j, form>> \in DOMAIN Substitutions(changed, v) =>
                   Substitutions(changed, v)[<<j, form>>] = cons[j][form][v]
<1> DEFINE D == {s \in changed \X (1..3) : cons[s[1]][s[2]][v] # 0}
<1>1. Substitutions(changed, v) = [s \in D |-> cons[s[1]][s[2]][v]]
  BY DEF Substitutions
<1>2. \A s \in D : s[1] \in changed /\ s[2] \in 1..3 /\ s[1] \in Nat
  BY RowsAfter, ProgIs
<1>3. ASSUME NEW s \in D PROVE cons[s[1]][s[2]][v] \in Field
  <2>1. s[1] \in changed /\ s[2] \in 1..3
    BY <1>2
  <2>2. cons[s[1]] \in Row
    <3> HIDE DEF D
    <3> QED BY <2>1, RowsAfter
  <2>3. v \in 0..N
    BY Constants DEF Elimination, Vars
  <2>4. cons[s[1]][s[2]] \in Lc
    <3> HIDE DEF D
    <3> QED BY <2>1, <2>2, RowIs
  <2> HIDE DEF D
  <2> QED BY <2>3, <2>4, LcAt
<1>4. D \in SUBSET (Nat \X (1..3))
  BY <1>2
<1>5. Substitutions(changed, v) \in [D -> Field]
  <2> HIDE DEF D
  <2> QED BY <1>1, <1>3
<1>6. Substitutions(changed, v) \in Multipliers
  <2> HIDE DEF D
  <2> QED BY <1>4, <1>5 DEF Multipliers
<1>7. \A j \in Rows, form \in 1..3 : <<j, form>> \in D <=> j \in changed /\ cons[j][form][v] # 0
  OBVIOUS
<1> HIDE DEF D
<1> QED
  BY <1>1, <1>6, <1>7

LEMMA TypeStep ==
  ASSUME TypeOK, NEW i, NEW v, NEW vlc, NEW changed, Elimination(i, v, vlc, changed)
  PROVE  TypeOK' /\ Rows' = Rows
<1>1. prog' = prog /\ Rows' = Rows /\ dropped' = dropped
  BY DEF Elimination, Rows
<1>2. i \in Rows /\ v \in Vars /\ vlc \in Lc /\ queue # <<>> /\ changed \subseteq Rows
  BY DEF Elimination
<1>3. cons' \in [Rows -> Row \cup {Dead}]
  <2>1. cons' = [j \in Rows |-> cons'[j]]
    BY DEF Elimination
  <2>2. \A j \in Rows : cons[j] \in Row \cup {Dead}
    BY DEF TypeOK
  <2>3. \A j \in Rows : cons'[j] \in Row \cup {Dead}
    BY <2>2, RowsAfter
  <2> QED BY <2>1, <2>3
<1>4. occ' \in [Vars -> SUBSET Rows]
  BY <1>2 DEF Elimination, OccAfter, TypeOK
<1>5. queue' \in Seq(Rows)
  <2>1. queue \in Seq(1..Len(prog)) /\ Len(prog) \in Nat /\ changed \in SUBSET (1..Len(prog))
    BY <1>2, ProgIs DEF TypeOK, Rows
  <2>2. Tail(queue) \in Seq(1..Len(prog))
    BY <2>1, <1>2, HeadOrTail
  <2> QED BY <2>1, <2>2, RequeuedIs DEF Elimination, Rows
<1>6. [var |-> v, row |-> i, lc |-> vlc] \in Steps
  BY <1>2, ProgIs DEF Steps
<1>7. steps' \in Seq(Steps) /\ subs' \in Seq(Multipliers) /\ Len(subs') = Len(steps')
  <2>1. /\ steps' = Append(steps, [var |-> v, row |-> i, lc |-> vlc])
        /\ subs' = Append(subs, Substitutions(changed, v))
    BY DEF Elimination
  <2>2. Substitutions(changed, v) \in Multipliers
    BY SubstitutionsAre
  <2> DEFINE s == [var |-> v, row |-> i, lc |-> vlc]  m == Substitutions(changed, v)
  <2>3. s \in Steps /\ m \in Multipliers /\ steps' = Append(steps, s) /\ subs' = Append(subs, m)
    BY <1>6, <2>1, <2>2
  <2> HIDE DEF s, m
  <2> QED BY <2>3 DEF TypeOK
<1> QED
  BY <1>1, <1>3, <1>4, <1>5, <1>7 DEF TypeOK

(* A substituted row holds v no more, and what else it holds it held or    *)
(* has from vlc.                                                           *)
LEMMA SubstRowHolds ==
  ASSUME NEW row \in Row, NEW v \in Vars, NEW vlc \in Lc, vlc[v] = 0
  PROVE  /\ ~ Holds(SubstRow(row, v, vlc), v)
         /\ \A u \in Vars : Holds(SubstRow(row, v, vlc), u) =>
              \/ Holds(row, u)
              \/ vlc[u] # 0 /\ \E form \in 1..3 : row[form][v] # 0 /\ row[form][u] = 0
<1>1. /\ SubstRow(row, v, vlc) \in Row
      /\ \A form \in 1..3 : row[form] \in Lc /\ SubstRow(row, v, vlc)[form] = Subst(row[form], v, vlc)
  BY SubstRowIs, RowIs
<1>2. \A form \in 1..3 : SubstRow(row, v, vlc)[form][v] = 0
  BY <1>1, SubstHolds
<1>3. ASSUME NEW u \in Vars, Holds(SubstRow(row, v, vlc), u), ~ Holds(row, u)
      PROVE  vlc[u] # 0 /\ \E form \in 1..3 : row[form][v] # 0 /\ row[form][u] = 0
  <2>1. PICK form \in 1..3 : SubstRow(row, v, vlc)[form][u] # 0
    BY <1>3 DEF Holds
  <2>2. row[form][u] = 0
    BY <1>3, RowIs DEF Holds
  <2>3. row[form][v] # 0 /\ vlc[u] # 0
    BY <1>1, <2>1, <2>2, SubstHolds
  <2> QED BY <2>2, <2>3
<1> QED
  BY <1>2, <1>3 DEF Holds

LEMMA IndexedStep ==
  ASSUME TypeOK, Indexed, NEW i, NEW v, NEW vlc, NEW changed, Elimination(i, v, vlc, changed)
  PROVE  Indexed'
<1>0. Rows' = Rows
  BY TypeStep
<1>1. v \in Vars /\ vlc \in Lc /\ vlc[v] = 0 /\ occ' = OccAfter(changed, v, vlc) /\ i \in Rows
  BY DEF Elimination
<1>2. SUFFICES ASSUME NEW j \in Rows, NEW u \in Vars, Holds(cons'[j], u) PROVE j \in occ'[u]
  BY <1>0 DEF Indexed, Holds
<1>3. occ'[u] = (IF u = v THEN {} ELSE occ[u]) \cup {k \in changed : u \in Introduced(k, v, vlc)}
  BY <1>1 DEF OccAfter
<1>4. j # i
  BY <1>2, RowsAfter DEF Holds
<1>5. CASE j \in changed
  <2>1. cons[j] \in Row /\ cons'[j] = SubstRow(cons[j], v, vlc)
    BY <1>5, RowsAfter
  <2>2. u # v
    BY <1>1, <1>2, <2>1, SubstRowHolds
  <2>3. CASE Holds(cons[j], u)
    BY <2>2, <2>3, <1>3 DEF Indexed
  <2>4. CASE ~ Holds(cons[j], u)
    <3>1. vlc[u] # 0 /\ \E form \in 1..3 : cons[j][form][v] # 0 /\ cons[j][form][u] = 0
      BY <1>1, <1>2, <2>1, <2>4, SubstRowHolds
    <3>2. u \in Introduced(j, v, vlc)
      BY <3>1 DEF Introduced, Terms
    <3> QED BY <3>2, <1>3, <1>5
  <2> QED BY <2>3, <2>4
<1>6. CASE j \notin changed
  <2>1. cons'[j] = cons[j] /\ ~ Holds(cons[j], v)
    BY <1>4, <1>6, RowsAfter
  <2> QED BY <2>1, <1>2, <1>3 DEF Indexed
<1> QED
  BY <1>5, <1>6

LEMMA SettledStep ==
  ASSUME TypeOK, Settled, NEW i, NEW v, NEW vlc, NEW changed, Elimination(i, v, vlc, changed)
  PROVE  Settled'
<1>0. Rows' = Rows
  BY TypeStep
<1>1. /\ queue \in Seq(1..Len(prog)) /\ Len(prog) \in Nat /\ changed \in SUBSET (1..Len(prog))
      /\ queue # <<>> /\ i = Head(queue) /\ queue' = Requeued(changed, Tail(queue))
  BY ProgIs DEF TypeOK, Rows, Elimination
<1>2. Tail(queue) \in Seq(1..Len(prog)) /\ \A j \in ToSet(queue) : j = i \/ j \in ToSet(Tail(queue))
  BY <1>1, HeadOrTail
<1>3. \A j \in Rows : j \in changed \/ j \in ToSet(Tail(queue)) => j \in ToSet(queue')
  BY <1>1, <1>2, RequeuedIs DEF Rows
<1>4. SUFFICES ASSUME NEW j \in Rows, j \notin ToSet(queue') PROVE Finished(cons'[j])
  BY <1>0 DEF Settled, Finished, Eliminable, Trivial, ToSet
<1>5. CASE j = i
  BY <1>5, RowsAfter DEF Finished, Eliminable, Trivial
<1>6. CASE j # i
  <2>1. j \notin changed /\ j \notin ToSet(queue)
    BY <1>2, <1>3, <1>4, <1>6
  <2>2. cons'[j] = cons[j]
    BY <2>1, <1>6, RowsAfter
  <2> QED BY <2>1, <2>2 DEF Settled
<1> QED
  BY <1>5, <1>6

LEMMA GoneStep ==
  ASSUME TypeOK, EliminatedGone, NEW i, NEW v, NEW vlc, NEW changed, Elimination(i, v, vlc, changed)
  PROVE  EliminatedGone'
<1>1. /\ v \in Vars /\ vlc \in Lc /\ vlc[v] = 0 /\ i \in Rows
      /\ \A u \in Vars : vlc[u] # 0 => Holds(cons[i], u)
  BY DEF Elimination
<1> DEFINE s == [var |-> v, row |-> i, lc |-> vlc]
<1>2. steps' = Append(steps, s) /\ steps \in Seq(Steps) /\ s.var = v /\ s.lc = vlc
  BY DEF Elimination, TypeOK
<1> HIDE DEF s
<1>3. /\ Len(steps) \in Nat /\ Len(steps') = Len(steps) + 1 /\ DOMAIN steps' = 1..(Len(steps) + 1)
      /\ DOMAIN steps = 1..Len(steps) /\ steps'[Len(steps) + 1] = s
      /\ \A k \in 1..Len(steps) : steps'[k] = steps[k] /\ steps[k] \in Steps
  BY <1>2
<1>4. TypeOK' /\ Rows' = Rows /\ DOMAIN cons' = Rows /\ DOMAIN cons = Rows
  <2>1. TypeOK' /\ Rows' = Rows
    BY TypeStep
  <2>2. DOMAIN cons' = Rows'
    BY <2>1 DEF TypeOK
  <2> QED BY <2>1, <2>2, ProgIs
<1>5. \A j \in Rows : ~ Holds(cons'[j], v)
  <2> TAKE j \in Rows
  <2>1. CASE j = i
    BY <2>1, RowsAfter DEF Holds
  <2>2. CASE j \in changed
    BY <2>2, <1>1, RowsAfter, SubstRowHolds
  <2>3. CASE j # i /\ j \notin changed
    BY <2>3, RowsAfter
  <2> QED BY <2>1, <2>2, <2>3
<1>6. ASSUME NEW w \in Vars, \A j \in Rows : ~ Holds(cons[j], w)
      PROVE  vlc[w] = 0 /\ \A j \in Rows : ~ Holds(cons'[j], w)
  <2>1. vlc[w] = 0
    BY <1>1, <1>6
  <2>2. ASSUME NEW j \in Rows PROVE ~ Holds(cons'[j], w)
    <3>1. CASE j = i
      BY <3>1, RowsAfter DEF Holds
    <3>2. CASE j \in changed
      BY <3>2, <2>1, <1>1, <1>6, RowsAfter, SubstRowHolds
    <3>3. CASE j # i /\ j \notin changed
      <4>1. cons'[j] = cons[j]
        BY <3>3, RowsAfter
      <4> QED BY <4>1, <1>6
    <3> QED BY <3>1, <3>2, <3>3
  <2> QED BY <2>1, <2>2
<1>7. SUFFICES ASSUME NEW k \in 1..(Len(steps) + 1)
               PROVE  /\ \A j \in Rows : ~ Holds(cons'[j], steps'[k].var)
                      /\ \A l \in k..(Len(steps) + 1) : steps'[l].lc[steps'[k].var] = 0
  BY <1>3, <1>4 DEF EliminatedGone, Holds
<1>8. CASE k = Len(steps) + 1
  <2>1. \A l \in k..(Len(steps) + 1) : l = k
    BY <1>8, <1>3
  <2> QED BY <1>1, <1>2, <1>3, <1>5, <1>8, <2>1
<1>9. CASE k # Len(steps) + 1
  <2>1. k \in 1..Len(steps) /\ steps'[k] = steps[k] /\ steps[k].var \in Vars
    BY <1>3, <1>9 DEF Steps
  <2>2. /\ \A j \in Rows : ~ Holds(cons[j], steps[k].var)
        /\ \A l \in k..Len(steps) : steps[l].lc[steps[k].var] = 0
    BY <2>1, <1>3, <1>4 DEF EliminatedGone
  <2>3. vlc[steps[k].var] = 0 /\ \A j \in Rows : ~ Holds(cons'[j], steps[k].var)
    BY <2>1, <2>2, <1>6
  <2>4. ASSUME NEW l \in k..(Len(steps) + 1) PROVE steps'[l].lc[steps[k].var] = 0
    <3>1. CASE l = Len(steps) + 1
      BY <3>1, <1>2, <1>3, <2>3
    <3>2. CASE l # Len(steps) + 1
      <4>1. l \in k..Len(steps) /\ l \in 1..Len(steps)
        BY <3>2, <1>3, <2>1
      <4> QED BY <4>1, <1>3, <2>2
    <3> QED BY <3>1, <3>2
  <2> QED BY <2>1, <2>3, <2>4
<1> QED
  BY <1>8, <1>9

(* A row says the same after the substitution where v has vlc's value.     *)
LEMMA SubstRowSays ==
  ASSUME NEW row \in Row, NEW v \in Vars, NEW vlc \in Lc, NEW z \in Assignments,
         z[v] = Eval(vlc, z)
  PROVE  Satisfied(SubstRow(row, v, vlc), z) <=> Satisfied(row, z)
<1>1. /\ SubstRow(row, v, vlc) # Dead /\ row # Dead
      /\ \A form \in 1..3 : row[form] \in Lc /\ SubstRow(row, v, vlc)[form] = Subst(row[form], v, vlc)
  BY SubstRowIs, RowIs
<1>2. \A form \in 1..3 : Eval(SubstRow(row, v, vlc)[form], z) = Eval(row[form], z)
  BY <1>1, SubstIs
<1>3. /\ Eval(SubstRow(row, v, vlc)[1], z) = Eval(row[1], z)
      /\ Eval(SubstRow(row, v, vlc)[2], z) = Eval(row[2], z)
      /\ Eval(SubstRow(row, v, vlc)[3], z) = Eval(row[3], z)
  BY <1>2
<1> QED
  BY <1>1, <1>3 DEF Satisfied

LEMMA SolutionsStep ==
  ASSUME TypeOK, SolutionsPreserved,
         NEW i, NEW v, NEW vlc, NEW changed, Elimination(i, v, vlc, changed)
  PROVE  SolutionsPreserved'
<1>1. /\ v \in Vars /\ vlc \in Lc /\ i \in Rows
      /\ \A z \in Assignments : Satisfied(cons[i], z) <=> z[v] = Eval(vlc, z)
      /\ prog' = prog
  BY DEF Elimination
<1> DEFINE s == [var |-> v, row |-> i, lc |-> vlc]
<1>2. steps' = Append(steps, s) /\ steps \in Seq(Steps) /\ s.var = v /\ s.lc = vlc
  BY DEF Elimination, TypeOK
<1> HIDE DEF s
<1>3. /\ DOMAIN steps' = 1..(Len(steps) + 1) /\ DOMAIN steps = 1..Len(steps) /\ Len(steps) \in Nat
      /\ steps'[Len(steps) + 1] = s /\ \A k \in 1..Len(steps) : steps'[k] = steps[k]
  BY <1>2
<1>4. TypeOK' /\ Rows' = Rows /\ DOMAIN cons' = Rows /\ DOMAIN cons = Rows
  <2>1. TypeOK' /\ Rows' = Rows
    BY TypeStep
  <2>2. DOMAIN cons' = Rows'
    BY <2>1 DEF TypeOK
  <2> QED BY <2>1, <2>2, ProgIs
<1>5. SUFFICES ASSUME NEW z \in Assignments
               PROVE  (\A j \in DOMAIN prog : Satisfied(prog[j], z))
                        <=> /\ \A j \in Rows : Satisfied(cons'[j], z)
                            /\ \A k \in DOMAIN steps' : z[steps'[k].var] = Eval(steps'[k].lc, z)
  <2>1. SolutionsPreserved' <=>
          \A z \in Assignments :
            (\A j \in DOMAIN prog' : Satisfied(prog'[j], z))
              <=> /\ \A j \in DOMAIN cons' : Satisfied(cons'[j], z)
                  /\ \A k \in DOMAIN steps' : z[steps'[k].var] = Eval(steps'[k].lc, z)
    BY Zenon DEF SolutionsPreserved
  <2> QED BY <2>1, <1>1, <1>4
<1> DEFINE Kept == \A k \in DOMAIN steps : z[steps[k].var] = Eval(steps[k].lc, z)
<1>6. (\A k \in DOMAIN steps' : z[steps'[k].var] = Eval(steps'[k].lc, z))
        <=> Kept /\ z[v] = Eval(vlc, z)
  <2>1. \A k \in DOMAIN steps' : k \in DOMAIN steps \/ k = Len(steps) + 1
    BY <1>3
  <2>2. \A k \in DOMAIN steps : k \in DOMAIN steps'
    BY <1>3
  <2>3. Len(steps) + 1 \in DOMAIN steps'
    BY <1>3
  <2> QED BY <1>2, <1>3, <2>1, <2>2, <2>3
<1>7. (\A j \in DOMAIN prog : Satisfied(prog[j], z))
        <=> (\A j \in Rows : Satisfied(cons[j], z)) /\ Kept
  BY <1>4 DEF SolutionsPreserved
<1>8. ASSUME z[v] = Eval(vlc, z), NEW j \in Rows
      PROVE  Satisfied(cons'[j], z) <=> Satisfied(cons[j], z)
  <2>1. CASE j = i
    BY <2>1, <1>1, <1>8, RowsAfter DEF Satisfied
  <2>2. CASE j \in changed
    BY <2>2, <1>1, <1>8, RowsAfter, SubstRowSays
  <2>3. CASE j # i /\ j \notin changed
    <3>1. cons'[j] = cons[j]
      BY <2>3, RowsAfter
    <3> QED BY <3>1
  <2> QED BY <2>1, <2>2, <2>3
<1>9. CASE z[v] = Eval(vlc, z)
  BY <1>6, <1>7, <1>8, <1>9
<1>10. CASE z[v] # Eval(vlc, z)
  BY <1>1, <1>6, <1>7, <1>10
<1> QED
  BY <1>9, <1>10

(* The given form with the certificate's substitutions made again.         *)
LEMMA ReplayIs ==
  ASSUME NEW i, NEW form
  PROVE  Replay(i, form) = Chain(prog[i][form], steps, subs, <<i, form>>)
BY Zenon DEF Replay, Chain

LEMMA ExplainsStep ==
  ASSUME TypeOK, TraceExplains,
         NEW i, NEW v, NEW vlc, NEW changed, Elimination(i, v, vlc, changed)
  PROVE  TraceExplains'
<1>1. /\ v \in Vars /\ vlc \in Lc /\ vlc[v] = 0 /\ i \in Rows /\ prog' = prog /\ dropped' = dropped
  BY DEF Elimination
<1> DEFINE s == [var |-> v, row |-> i, lc |-> vlc]
           m == Substitutions(changed, v)
           n == Len(steps)
<1>2. /\ steps' = Append(steps, s) /\ subs' = Append(subs, m)
      /\ s \in Steps /\ s.var = v /\ s.lc = vlc /\ s.row = i /\ m \in Multipliers
      /\ \A j \in Rows, form \in 1..3 :
           /\ <<j, form>> \in DOMAIN m <=> j \in changed /\ cons[j][form][v] # 0
           /\ <<j, form>> \in DOMAIN m => m[<<j, form>>] = cons[j][form][v]
  <2>1. steps' = Append(steps, s) /\ subs' = Append(subs, m)
    BY DEF Elimination
  <2>2. s \in Steps /\ s.var = v /\ s.lc = vlc /\ s.row = i
    BY <1>1, ProgIs DEF Steps
  <2> HIDE DEF s
  <2>3. /\ m \in Multipliers
        /\ \A j \in Rows, form \in 1..3 :
             /\ <<j, form>> \in DOMAIN m <=> j \in changed /\ cons[j][form][v] # 0
             /\ <<j, form>> \in DOMAIN m => m[<<j, form>>] = cons[j][form][v]
    BY SubstitutionsAre
  <2> HIDE DEF m
  <2> QED BY <2>1, <2>2, <2>3
<1>3. steps \in Seq(Steps) /\ subs \in Seq(Multipliers) /\ Len(subs) = n
  BY DEF TypeOK
<1> HIDE DEF s, m
<1>4. /\ n \in Nat /\ Len(steps') = n + 1 /\ DOMAIN steps' = 1..(n + 1) /\ DOMAIN steps = 1..n
      /\ steps'[n + 1] = s /\ \A k \in 1..n : steps'[k] = steps[k]
  BY <1>2, <1>3
<1>5. DOMAIN cons' = Rows /\ DOMAIN cons = Rows
  <2>1. TypeOK' /\ Rows' = Rows
    BY TypeStep
  <2>2. DOMAIN cons' = Rows'
    BY <2>1 DEF TypeOK
  <2> QED BY <2>1, <2>2, ProgIs
<1>6. \A j \in Rows : (cons'[j] = Dead) <=> (cons[j] = Dead \/ j = i)
  <2> TAKE j \in Rows
  <2>1. CASE j = i
    BY <2>1, RowsAfter
  <2>2. CASE j \in changed
    BY <2>2, RowsAfter, RowIs
  <2>3. CASE j # i /\ j \notin changed
    <3>1. cons'[j] = cons[j]
      BY <2>3, RowsAfter
    <3> QED BY <3>1, <2>3
  <2> QED BY <2>1, <2>2, <2>3
<1>7. \A j \in Rows : (\E k \in DOMAIN steps' : steps'[k].row = j)
                        <=> (j = i \/ \E k \in DOMAIN steps : steps[k].row = j)
  <2>1. \A k \in DOMAIN steps' : k \in DOMAIN steps \/ k = n + 1
    BY <1>4
  <2>2. n + 1 \in DOMAIN steps' /\ \A k \in DOMAIN steps : k \in DOMAIN steps'
    BY <1>4
  <2> QED BY <1>2, <1>4, <2>1, <2>2
<1>8. \A j \in Rows : cons'[j] = Dead
                        <=> (j \in dropped' \/ \E k \in DOMAIN steps' : steps'[k].row = j)
  <2>1. \A j \in Rows : cons[j] = Dead
                          <=> (j \in dropped \/ \E k \in DOMAIN steps : steps[k].row = j)
    BY <1>5 DEF TraceExplains
  <2> QED BY <2>1, <1>1, <1>6, <1>7
<1>9. ASSUME NEW j \in Rows, cons'[j] # Dead, NEW form \in 1..3
      PROVE  cons'[j][form] = Chain(prog[j][form], steps', subs', <<j, form>>)[n + 1]
  <2> DEFINE base == prog[j][form]  site == <<j, form>>
             last == Chain(base, steps, subs, site)[n]
  <2>1. cons[j] # Dead /\ j # i
    BY <1>6, <1>9
  <2>2. cons[j][form] = last
    <3>1. cons[j][form] = Replay(j, form)[n]
      BY <2>1, <1>5 DEF TraceExplains
    <3> QED BY <3>1, ReplayIs
  <2>3. base \in Lc /\ cons[j] \in Row /\ cons[j][form] \in Lc
    BY <2>1, ProgIs, RowIs
  <2> HIDE DEF base, site
  <2>4. Chain(base, Append(steps, s), Append(subs, m), site)[n + 1] =
          IF site \in DOMAIN m THEN Added(last, m[site], s) ELSE last
    BY <1>2, <1>3, <2>3, ChainAppend
  <2> HIDE DEF last
  <2>5. cons'[j][form] = IF site \in DOMAIN m THEN Added(last, m[site], s) ELSE last
    <3>1. CASE j \in changed
      <4>1. cons'[j][form] = Subst(cons[j][form], v, vlc)
        BY <3>1, <1>1, RowsAfter, SubstRowIs
      <4>2. CASE cons[j][form][v] # 0
        <5>1. site \in DOMAIN m /\ m[site] = cons[j][form][v]
          BY <4>2, <3>1, <1>2 DEF site
        <5>2. Added(cons[j][form], cons[j][form][s.var], s) = Subst(cons[j][form], s.var, s.lc)
          BY <1>1, <1>2, <2>3, SubstIsAdded
        <5> QED BY <4>1, <5>1, <5>2, <1>2, <2>2
      <4>3. CASE cons[j][form][v] = 0
        <5>1. site \notin DOMAIN m
          BY <4>3, <3>1, <1>2 DEF site
        <5> QED BY <4>1, <4>3, <5>1, <1>1, <2>2, <2>3, SubstHolds
      <4> QED BY <4>2, <4>3
    <3>2. CASE j \notin changed
      <4>1. cons'[j] = cons[j]
        BY <3>2, <2>1, RowsAfter
      <4>2. site \notin DOMAIN m
        BY <3>2, <1>2 DEF site
      <4> QED BY <4>1, <4>2, <2>2
    <3> QED BY <3>1, <3>2
  <2> QED BY <2>4, <2>5, <1>2 DEF base, site
<1>10. ASSUME NEW j \in Rows, NEW form \in 1..3
       PROVE  Replay(j, form)' = Chain(prog[j][form], steps', subs', <<j, form>>)
  <2>1. Replay(j, form)' = Chain(prog'[j][form], steps', subs', <<j, form>>)
    BY Zenon DEF Replay, Chain
  <2> QED BY <2>1, <1>1
<1>11. \A j \in Rows : cons'[j] # Dead =>
          \A form \in 1..3 : cons'[j][form] = (Replay(j, form)')[Len(steps')]
  BY <1>4, <1>9, <1>10
<1> QED
  BY <1>5, <1>8, <1>11 DEF TraceExplains

-----------------------------------------------------------------------------
(* The other steps, and the theorems.                                      *)

LEMMA InitInv == Init => IInv
<1> SUFFICES ASSUME Init PROVE IInv
  OBVIOUS
<1>1. /\ prog \in Programs /\ cons = prog
      /\ occ = [v \in Vars |-> {i \in DOMAIN prog : Holds(prog[i], v)}]
      /\ queue = [i \in 1..Len(prog) |-> i]
      /\ steps = <<>> /\ subs = <<>> /\ dropped = {}
  BY DEF Init
<1>2. prog \in Seq(Row) /\ Len(prog) \in Nat /\ DOMAIN prog = Rows /\ \A i \in Rows : prog[i] \in Row
  <2>1. prog \in Seq(Row)
    BY <1>1, Constants
  <2> QED BY <2>1 DEF Rows
<1>3. queue \in Seq(Rows) /\ DOMAIN queue = Rows /\ \A i \in Rows : queue[i] = i
  BY <1>1, <1>2 DEF Rows
<1>4. steps \in Seq(Steps) /\ subs \in Seq(Multipliers) /\ DOMAIN steps = {} /\ Len(steps) = 0
      /\ Len(subs) = 0
  BY <1>1
<1>5. cons \in [Rows -> Row \cup {Dead}]
  <2>1. prog \in [1..Len(prog) -> Row]
    BY <1>2
  <2> QED BY <2>1, <1>1 DEF Rows
<1>6. occ \in [Vars -> SUBSET Rows]
  BY <1>1, <1>2
<1>7. TypeOK
  BY <1>1, <1>3, <1>4, <1>5, <1>6 DEF TypeOK
<1>8. Indexed
  BY <1>1, <1>2 DEF Indexed
<1>9. Settled
  BY <1>3 DEF Settled, ToSet
<1>10. EliminatedGone
  BY <1>4 DEF EliminatedGone
<1>11. SolutionsPreserved
  BY <1>1, <1>4 DEF SolutionsPreserved
<1>12. TraceExplains
  <2>1. ASSUME NEW i \in DOMAIN cons
        PROVE  /\ \A form \in 1..3 : cons[i][form] = Replay(i, form)[Len(steps)]
               /\ cons[i] # Dead
    <3>1. i \in Rows /\ cons[i] = prog[i]
      BY <1>1, <1>2, <2>1
    <3>2. ASSUME NEW form \in 1..3 PROVE prog[i][form] = Replay(i, form)[Len(steps)]
      <4>1. prog[i][form] \in Lc
        BY <3>1, <1>2, RowIs
      <4>2. ChainOf(Replay(i, form), prog[i][form], steps, subs, <<i, form>>)
        BY <4>1, <1>4, ChainIs, ReplayIs
      <4> QED BY <4>2, <1>4 DEF ChainOf
    <3> QED BY <3>1, <3>2, <1>2, RowIs
  <2>2. \A i \in DOMAIN cons : ~ (i \in dropped \/ \E k \in DOMAIN steps : steps[k].row = i)
    BY <1>1, <1>4
  <2> QED BY <2>1, <2>2 DEF TraceExplains
<1> QED
  BY <1>7, <1>8, <1>9, <1>10, <1>11, <1>12 DEF IInv

LEMMA EliminateInv == IInv /\ Eliminate => IInv'
<1> SUFFICES ASSUME IInv, Eliminate PROVE IInv'
  OBVIOUS
<1>1. /\ TypeOK /\ Indexed /\ Settled /\ EliminatedGone /\ SolutionsPreserved /\ TraceExplains
  BY DEF IInv
<1>2. PICK i, v, vlc, changed : Elimination(i, v, vlc, changed)
  BY <1>1, EliminationIs
<1> QED
  BY <1>1, <1>2, TypeStep, IndexedStep, SettledStep, GoneStep, SolutionsStep, ExplainsStep DEF IInv

(* A step that leaves rows and certificate leaves what they explain.       *)
LEMMA ExplainsSame ==
  ASSUME TraceExplains, prog' = prog, cons' = cons, steps' = steps, subs' = subs,
         dropped' = dropped
  PROVE  TraceExplains'
<1>1. ASSUME NEW j, NEW form PROVE Replay(j, form)' = Replay(j, form)
  BY Zenon DEF Replay
<1>2. ASSUME NEW j \in DOMAIN cons, cons[j] # Dead, NEW form \in 1..3
      PROVE  cons[j][form] = (Replay(j, form)')[Len(steps)]
  <2>1. cons[j][form] = Replay(j, form)[Len(steps)]
    BY <1>2 DEF TraceExplains
  <2> QED BY <2>1, <1>1
<1>3. ASSUME NEW j \in DOMAIN cons
      PROVE  cons[j] = Dead <=> (j \in dropped \/ \E k \in DOMAIN steps : steps[k].row = j)
  BY DEF TraceExplains
<1> QED
  BY <1>2, <1>3 DEF TraceExplains

(* Passing a row over leaves everything but the worklist.                  *)
LEMMA PassInv == IInv /\ Pass => IInv'
<1> SUFFICES ASSUME IInv, Pass PROVE IInv'
  OBVIOUS
<1>0. /\ TypeOK /\ Indexed /\ Settled /\ EliminatedGone /\ SolutionsPreserved /\ TraceExplains
  BY DEF IInv
<1>1. /\ queue # <<>> /\ Finished(cons[Head(queue)]) /\ queue' = Tail(queue)
      /\ prog' = prog /\ cons' = cons /\ occ' = occ /\ steps' = steps /\ subs' = subs
      /\ dropped' = dropped
  BY DEF Pass, Finished
<1>2. queue' \in Seq(Rows) /\ \A j \in ToSet(queue) : j = Head(queue) \/ j \in ToSet(queue')
  <2>1. queue \in Seq(1..Len(prog)) /\ Len(prog) \in Nat
    BY <1>0, ProgIs DEF TypeOK, Rows
  <2> QED BY <2>1, <1>1, HeadOrTail DEF Rows
<1>3. TypeOK'
  BY <1>0, <1>1, <1>2 DEF TypeOK, Rows
<1>4. Indexed'
  BY <1>0, <1>1 DEF Indexed, Rows
<1>5. Settled'
  <2>1. ASSUME NEW j \in Rows, j \notin ToSet(queue') PROVE Finished(cons[j])
    BY <2>1, <1>0, <1>1, <1>2 DEF Settled
  <2> QED BY <2>1, <1>1 DEF Settled, Rows, ToSet
<1>6. EliminatedGone'
  BY <1>0, <1>1 DEF EliminatedGone
<1>7. SolutionsPreserved'
  BY <1>0, <1>1 DEF SolutionsPreserved
<1>8. TraceExplains'
  BY <1>0, <1>1, ExplainsSame
<1> QED
  BY <1>3, <1>4, <1>5, <1>6, <1>7, <1>8 DEF IInv

(* Dropping 0 = 0.                                                         *)
LEMMA DropInv == IInv /\ Drop => IInv'
<1> SUFFICES ASSUME IInv, Drop PROVE IInv'
  OBVIOUS
<1>0. /\ TypeOK /\ Indexed /\ Settled /\ EliminatedGone /\ SolutionsPreserved /\ TraceExplains
  BY DEF IInv
<1> DEFINE i == Head(queue)
<1>1. /\ queue # <<>> /\ Trivial(cons[i]) /\ Relation(cons[i])[0] = 0 /\ queue' = Tail(queue)
      /\ cons' = [cons EXCEPT ![i] = Dead] /\ dropped' = dropped \cup {i}
      /\ prog' = prog /\ occ' = occ /\ steps' = steps /\ subs' = subs
  BY DEF Drop
<1>2. queue' \in Seq(Rows) /\ i \in Rows /\ \A j \in ToSet(queue) : j = i \/ j \in ToSet(queue')
  <2>1. queue \in Seq(1..Len(prog)) /\ Len(prog) \in Nat
    BY <1>0, ProgIs DEF TypeOK, Rows
  <2> QED BY <2>1, <1>1, HeadOrTail DEF Rows
<1> HIDE DEF i
<1>3. TypeOK' /\ Rows' = Rows
  BY <1>0, <1>1, <1>2 DEF TypeOK, Rows
<1>4. /\ DOMAIN cons = Rows /\ DOMAIN cons' = Rows /\ cons'[i] = Dead
      /\ \A j \in Rows : j # i => cons'[j] = cons[j]
  BY <1>0, <1>1, <1>2 DEF TypeOK
<1>5. Indexed'
  <2>1. ASSUME NEW j \in Rows, NEW u \in Vars, Holds(cons'[j], u) PROVE j \in occ[u]
    <3>1. j # i /\ cons'[j] = cons[j]
      BY <2>1, <1>4 DEF Holds
    <3> QED BY <3>1, <2>1, <1>0 DEF Indexed
  <2> QED BY <2>1, <1>1, <1>3 DEF Indexed, Holds
<1>6. Settled'
  <2>1. ASSUME NEW j \in Rows, j \notin ToSet(queue') PROVE Finished(cons'[j])
    <3>1. CASE j = i
      BY <3>1, <1>4 DEF Finished, Eliminable, Trivial
    <3>2. CASE j # i
      <4>1. Finished(cons[j])
        BY <3>2, <2>1, <1>0, <1>2 DEF Settled
      <4> QED BY <4>1, <3>2, <1>4
    <3> QED BY <3>1, <3>2
  <2> QED BY <2>1, <1>3 DEF Settled, Finished, Eliminable, Trivial, ToSet
<1>7. EliminatedGone'
  <2>1. \A j \in Rows, u \in Vars : Holds(cons'[j], u) => Holds(cons[j], u)
    <3> TAKE j \in Rows, u \in Vars
    <3>1. CASE j = i
      BY <3>1, <1>4 DEF Holds
    <3>2. CASE j # i
      BY <3>2, <1>4
    <3> QED BY <3>1, <3>2
  <2>2. \A k \in DOMAIN steps : steps[k].var \in Vars
    <3> TAKE k \in DOMAIN steps
    <3>1. steps[k] \in Steps
      BY <1>0 DEF TypeOK
    <3> QED BY <3>1 DEF Steps
  <2>3. \A k \in DOMAIN steps :
          /\ \A j \in Rows : ~ Holds(cons'[j], steps[k].var)
          /\ \A l \in k..Len(steps) : steps[l].lc[steps[k].var] = 0
    BY <2>1, <2>2, <1>0, <1>4 DEF EliminatedGone
  <2> QED BY <2>3, <1>1, <1>4 DEF EliminatedGone, Holds
<1>8. SolutionsPreserved'
  <2>1. cons[i] \in Row /\ IsLinear(cons[i]) /\ IsConst(Relation(cons[i]))
    BY <1>0, <1>1, <1>2, ProgIs DEF Trivial
  <2>2. \A z \in Assignments : Satisfied(cons[i], z)
    <3> TAKE z \in Assignments
    <3>1. Relation(cons[i]) \in Lc /\ (Satisfied(cons[i], z) <=> Eval(Relation(cons[i]), z) = 0)
      BY <2>1, LinearRow
    <3>2. Eval(Relation(cons[i]), z) = 0
      BY <3>1, <2>1, <1>1, EvalConst
    <3> QED BY <3>1, <3>2
  <2>3. \A z \in Assignments, j \in Rows : Satisfied(cons'[j], z) <=> Satisfied(cons[j], z)
    <3> TAKE z \in Assignments, j \in Rows
    <3>1. CASE j = i
      BY <3>1, <2>2, <1>4 DEF Satisfied
    <3>2. CASE j # i
      BY <3>2, <1>4
    <3> QED BY <3>1, <3>2
  <2>4. SolutionsPreserved' <=>
          \A z \in Assignments :
            (\A j \in DOMAIN prog' : Satisfied(prog'[j], z))
              <=> /\ \A j \in DOMAIN cons' : Satisfied(cons'[j], z)
                  /\ \A k \in DOMAIN steps' : z[steps'[k].var] = Eval(steps'[k].lc, z)
    BY Zenon DEF SolutionsPreserved
  <2>5. ASSUME NEW z \in Assignments
        PROVE  (\A j \in DOMAIN prog' : Satisfied(prog'[j], z))
              <=> /\ \A j \in DOMAIN cons' : Satisfied(cons'[j], z)
                  /\ \A k \in DOMAIN steps' : z[steps'[k].var] = Eval(steps'[k].lc, z)
    <3>1. (\A j \in DOMAIN prog : Satisfied(prog[j], z))
              <=> /\ \A j \in Rows : Satisfied(cons[j], z)
                  /\ \A k \in DOMAIN steps : z[steps[k].var] = Eval(steps[k].lc, z)
      BY <1>0, <1>4 DEF SolutionsPreserved
    <3>2. (\A j \in Rows : Satisfied(cons'[j], z)) <=> (\A j \in Rows : Satisfied(cons[j], z))
      BY <2>3
    <3> QED BY <3>1, <3>2, <1>1, <1>4
  <2> QED BY <2>4, <2>5
<1>9. TraceExplains'
  <2>1. ASSUME NEW j, NEW form PROVE Replay(j, form)' = Replay(j, form)
    BY <1>1, Zenon DEF Replay
  <2>2. ASSUME NEW j \in Rows, cons'[j] # Dead, NEW form \in 1..3
        PROVE  cons'[j][form] = (Replay(j, form)')[Len(steps')]
    <3>1. j # i /\ cons'[j] = cons[j]
      BY <2>2, <1>4
    <3>2. cons[j][form] = Replay(j, form)[Len(steps)]
      BY <3>1, <2>2, <1>0, <1>4 DEF TraceExplains
    <3> QED BY <3>1, <3>2, <2>1, <1>1
  <2>3. ASSUME NEW j \in Rows
        PROVE  cons'[j] = Dead <=> (j \in dropped' \/ \E k \in DOMAIN steps' : steps'[k].row = j)
    <3>1. cons[j] = Dead <=> (j \in dropped \/ \E k \in DOMAIN steps : steps[k].row = j)
      BY <1>0, <1>4 DEF TraceExplains
    <3> QED BY <3>1, <1>1, <1>4
  <2> QED BY <2>2, <2>3, <1>4 DEF TraceExplains
<1> QED
  BY <1>3, <1>5, <1>6, <1>7, <1>8, <1>9 DEF IInv

LEMMA StutterInv == IInv /\ UNCHANGED vars => IInv'
<1> SUFFICES ASSUME IInv, UNCHANGED vars PROVE IInv'
  OBVIOUS
<1>0. /\ TypeOK /\ Indexed /\ Settled /\ EliminatedGone /\ SolutionsPreserved /\ TraceExplains
  BY DEF IInv
<1>1. /\ queue' = queue /\ prog' = prog /\ cons' = cons /\ occ' = occ /\ steps' = steps
      /\ subs' = subs /\ dropped' = dropped
  BY DEF vars
<1>2. TypeOK' /\ Indexed' /\ Settled'
  BY <1>0, <1>1 DEF TypeOK, Indexed, Settled, Rows
<1>3. EliminatedGone' /\ SolutionsPreserved'
  BY <1>0, <1>1 DEF EliminatedGone, SolutionsPreserved
<1>4. TraceExplains'
  BY <1>0, <1>1, ExplainsSame
<1> QED
  BY <1>2, <1>3, <1>4 DEF IInv

LEMMA Invariance == Spec => []IInv
<1>1. IInv /\ [Next]_vars => IInv'
  BY PassInv, DropInv, EliminateInv, StutterInv DEF Next
<1> QED
  BY InitInv, <1>1, PTL DEF Spec

(* Minimization neither forges a witness nor refuses an honest one: at     *)
(* every turn of the worklist, the remaining rows together with the        *)
(* definitions of the eliminated variables have exactly the solutions of   *)
(* the rows given, over every prime field.                                 *)
THEOREM SolutionsKept == Spec => []SolutionsPreserved
<1>1. IInv => SolutionsPreserved
  BY DEF IInv
<1> QED
  BY Invariance, <1>1, PTL

(* An eliminated variable is gone from every row although the sites are    *)
(* found only through the append-only index, and at the end nothing cheap  *)
(* to eliminate is left: what XARK_VERIFY asserts of one run.              *)
THEOREM Reduced == Spec => []ReducedForm
<1>1. IInv => ReducedForm
  <2> SUFFICES ASSUME IInv PROVE ReducedForm
    OBVIOUS
  <2>1. TypeOK /\ Settled /\ EliminatedGone
    BY DEF IInv
  <2>2. Fixpoint
    <3> SUFFICES ASSUME queue = <<>>, NEW i \in DOMAIN cons PROVE Finished(cons[i])
      BY DEF Fixpoint, Finished
    <3>1. i \in Rows /\ i \notin ToSet(queue)
      BY <2>1, ProgIs DEF ToSet
    <3> QED BY <3>1, <2>1 DEF Settled
  <2> QED BY <2>1, <2>2 DEF ReducedForm
<1> QED
  BY Invariance, <1>1, PTL

(* The certificate that the Lean checker replays explains the result: each *)
(* row left is the given one with its recorded substitutions made in       *)
(* order, and every missing row was dropped or defines a step.             *)
THEOREM Explained == Spec => []TraceExplains
<1>1. IInv => TraceExplains
  BY DEF IInv
<1> QED
  BY Invariance, <1>1, PTL
=============================================================================
