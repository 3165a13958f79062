------------------------------ MODULE Builder ------------------------------
(***************************************************************************)
(* The constraint builder of the circuit frontend                          *)
(* (crates/frontend/src/builder.rs), its native-integer layer and its      *)
(* branch guards (host.rs), and the finishing pass (output.rs).            *)
(*                                                                         *)
(* The builder's state is one record s: the rows a * b = c, the witness    *)
(* program, and the memo tables and facts later calls rely on.  Every      *)
(* emit_* helper is an operator from a state to a state and a result.      *)
(* The field is Z_P for a small prime P; the sizes of the machine integers *)
(* of the Rust code (the wasm register, the i64 of a small constant, the   *)
(* u128 of a bound) are scaled down with it, keeping their order           *)
(* 2^Reg < i64 < u128 < P.                                                 *)
(***************************************************************************)
EXTENDS Integers, Sequences, FiniteSets, FiniteSetsExt, SequencesExt, Functions

CONSTANTS
  P,            \* the field's modulus
  Reg,          \* bits of a wasm register
  SmallBits,    \* a constant is "small" (an i64) when below 2^SmallBits
  AccMax,       \* the largest u128
  MatThreshold  \* operands with more terms are given a name

ASSUME SizesAssumption ==
  /\ P \in Nat /\ P > 2 /\ P % 2 = 1
  /\ Reg \in Nat \ {0} /\ SmallBits \in Nat /\ AccMax \in Nat /\ MatThreshold \in Nat
  /\ 2^Reg < 2^SmallBits /\ 2^SmallBits <= AccMax /\ AccMax < P

M == 2^Reg
Half == P \div 2

----------------------------------------------------------------------------
(* Linear combinations: a constant and the non-zero coefficients, all exact *)
(* integers (FieldConst), reduced modulo P only by Reduce.                  *)

\* body(x), with x computed once.  A chain of emit_* calls, each from the state the
\* last one left, is a chain of these (a LET is walked once more for every use of its
\* name by TLC's -coverage, which a chain of them makes exponential).
Let(x, body(_)) == body(x)

None == {}
Some(x) == {x}
The(o) == CHOOSE x \in o : TRUE

Coef(l, v) == IF v \in DOMAIN l.t THEN l.t[v] ELSE 0
Lin(k, c(_), D) == [k |-> k, t |-> [v \in {u \in D : c(u) # 0} |-> c(v)]]
Add(a, b) == Lin(a.k + b.k, LAMBDA v : Coef(a, v) + Coef(b, v), DOMAIN a.t \cup DOMAIN b.t)
Scale(a, c) == Lin(a.k * c, LAMBDA v : a.t[v] * c, DOMAIN a.t)
Sub(a, b) == Add(a, Scale(b, -1))
Const(c) == [k |-> c, t |-> << >>]
Var(v) == [k |-> 0, t |-> [u \in {v} |-> 1]]
Zero == Const(0)
One == Const(1)
IsConst(l) == DOMAIN l.t = {}
IsZero(l) == IsConst(l) /\ l.k = 0
Top(l) == Max(DOMAIN l.t)
BareVar(l) == IF l.k = 0 /\ Cardinality(DOMAIN l.t) = 1 /\ l.t[Top(l)] = 1
              THEN Some(Top(l)) ELSE None

\* FieldConst::as_i64 succeeds
Small(c) == c \in -(2^SmallBits) .. 2^SmallBits - 1
AllSmall(l) == Small(l.k) /\ \A v \in DOMAIN l.t : Small(l.t[v])

\* Host::reduce_lc: large constants into the symmetric range
Reduced(c) == IF Small(c) \/ (-Half <= c /\ c <= Half) THEN c
              ELSE LET r == c % P IN IF r > Half THEN r - P ELSE r
Reduce(l) == Lin(Reduced(l.k), LAMBDA v : Reduced(l.t[v]), DOMAIN l.t)

\* eval_lc of the solver: a variable without a value reads as 0
RECURSIVE Dot(_, _, _)
Dot(D, t, a) == IF D = {} THEN 0
                ELSE LET v == CHOOSE v \in D : TRUE IN t[v] * a[v] + Dot(D \ {v}, t, a)
Eval(l, a) == (l.k + Dot(DOMAIN l.t, l.t, a)) % P

Recompose(bits) ==
  FoldLeft(LAMBDA acc, i : Add(acc, Scale(bits[i], 2^(i-1))), Zero, [i \in 1..Len(bits) |-> i])

----------------------------------------------------------------------------
(* The builder's state.                                                     *)
(*   pending, merged  product variable -> its row                           *)
(*   gen              witness ops in order; a product's op is deferred      *)
(*                    until Finish ([op |-> "defer"])                       *)
(*   prods            {lhs, rhs} -> <<output, row>>                         *)
(*   boolv            variables a row pins to {0, 1}                        *)
(*   comp             top variable of a decomposition -> its bits           *)
(*   cache            <<lc, n>> -> the n bits of lc                         *)
(*   width, vmax      variable -> proven bit width, proven maximum          *)
(*   facts            wire -> the comparison it is                          *)
(*   muxes            <<condition wire, then, else>> -> the select          *)
(*   guards           the enclosing arms, [lit, g] with g set on first use  *)
Builder_new(inputs) ==
  [nv |-> inputs, hints |-> {}, rows |-> << >>, pending |-> << >>, merged |-> << >>,
   gen |-> << >>, prods |-> << >>, boolv |-> {}, comp |-> << >>, cache |-> << >>,
   wonly |-> FALSE, wvars |-> {}, width |-> << >>, vmax |-> << >>, facts |-> << >>,
   muxes |-> << >>, guards |-> << >>]

With(f, k, v) == [x \in DOMAIN f \cup {k} |-> IF x = k THEN v ELSE f[x]]
Without(f, k) == Restrict(f, DOMAIN f \ {k})

AllocVar(s) ==
  [s EXCEPT !.nv = @ + 1, !.wvars = IF s.wonly THEN @ \cup {s.nv + 1} ELSE @]
AllocAdvice(s) == [AllocVar(s) EXCEPT !.hints = @ \cup {s.nv + 1}]
Gen(s, op) == [s EXCEPT !.gen = Append(@, op)]

\* booleanity_var: the row v * v = v
BooleanityVar(r) == IF r.a = r.b /\ r.b = r.c THEN BareVar(r.a) ELSE None

PushConstraint(s, a, b, c) ==
  IF s.wonly THEN s
  ELSE LET r == [a |-> a, b |-> b, c |-> c] IN
       [s EXCEPT !.rows = Append(@, r), !.boolv = @ \cup BooleanityVar(r)]
PushEqual(s, l, r) == PushConstraint(s, Sub(l, r), One, Zero)

AsPendingVar(s, l) == BareVar(l) \cap DOMAIN s.pending
ConsumePending(s, l) ==
  IF AsPendingVar(s, l) = None THEN s
  ELSE [s EXCEPT !.pending = Without(@, The(BareVar(l)))]
Consume2(s, a, b) == ConsumePending(ConsumePending(s, a), b)

\* the results [s, l]: the state after and the linear combination returned
Res(s, l) == [s |-> s, l |-> l]

Materialize(s, l) ==
  IF Cardinality(DOMAIN l.t) <= MatThreshold THEN Res(s, l)
  ELSE LET v == s.nv + 1
           s1 == Gen(AllocVar(s), [op |-> "linear", out |-> v, a |-> l])
       IN  Res(PushEqual(s1, l, Var(v)), Var(v))

\* 0, 1, v or 1 - v for a pinned v, or a decomposition's computed bit 0 (or 1 - it)
IsBooleanLc(s, l) ==
  CASE DOMAIN l.t = {} -> l.k \in {0, 1}
    [] Cardinality(DOMAIN l.t) = 1 ->
         Top(l) \in s.boolv /\ <<l.k, l.t[Top(l)]>> \in {<<0, 1>>, <<1, -1>>}
    [] OTHER ->
         /\ Top(l) \in DOMAIN s.comp
         /\ LET b0 == s.comp[Top(l)][1] IN IsZero(Sub(l, b0)) \/ IsZero(Sub(Add(l, b0), One))

\* the earlier row for the same product that may be reused
Reusable(s, l, r) ==
  IF s.wonly \/ {l, r} \notin DOMAIN s.prods THEN None
  ELSE LET e == s.prods[{l, r}]
           row == s.rows[e[2]]
       IN  IF /\ e[1] \notin DOMAIN s.pending /\ e[1] \notin DOMAIN s.merged
              /\ {row.a, row.b} = {l, r} /\ row.c = Var(e[1])
           THEN Some(e[1]) ELSE None


EmitMul(s0, l0, r0) ==
  Let(Materialize(s0, l0), LAMBDA ml :
  Let(Materialize(ml.s, r0), LAMBDA mr :
  Let(mr.s, LAMBDA s :
  Let(ml.l, LAMBDA l :
  Let(mr.l, LAMBDA r :
  Let(s.nv + 1, LAMBDA out :
  Let(AllocVar(s), LAMBDA s1 :
  Let(IsBooleanLc(s, l) /\ IsBooleanLc(s, r), LAMBDA both :
  Let(PushConstraint(s1, l, r, Var(out)), LAMBDA s2 :
  Let(Len(s2.rows), LAMBDA row :
  IF Reusable(s, l, r) # None THEN Res(s, Var(The(Reusable(s, l, r))))
  ELSE IF s.wonly THEN Res(Gen(s1, [op |-> "product", out |-> out, a |-> l, b |-> r]), Var(out))
  ELSE Res([Gen(s2, [op |-> "defer", out |-> out, row |-> row])
             EXCEPT !.boolv = IF both THEN @ \cup {out} ELSE @,
                    !.prods = With(@, {l, r}, <<out, row>>),
                    !.pending = With(@, out, row)],
           Var(out))))))))))))
MulValues(s, l, r) == EmitMul(Consume2(s, l, r), l, r)

\* (2a) * b = a + b - c, or a * b = a + b - c
EmitBool(s0, op, a, b) ==
  Let(Consume2(s0, a, b), LAMBDA s :
  Let(s.nv + 1, LAMBDA c :
  Let(PushConstraint(AllocVar(s), IF op = "xor" THEN Scale(a, 2) ELSE a, b,
                     Sub(Add(a, b), Var(c))), LAMBDA s1 :
  Let(Gen(s1, [op |-> op, out |-> c, a |-> a, b |-> b]), LAMBDA s2 :
  Res(IF ~s.wonly /\ IsBooleanLc(s2, a) /\ IsBooleanLc(s2, b)
      THEN [s2 EXCEPT !.boolv = @ \cup {c}] ELSE s2, Var(c))))))

RECURSIVE PowLoop(_, _, _, _)
PowLoop(s, acc, b, e) ==
  IF e = 0 THEN Res(s, The(acc))
  ELSE Let(IF e % 2 = 0 THEN [s |-> s, acc |-> acc]
           ELSE IF acc = None THEN [s |-> s, acc |-> Some(b)]
           ELSE LET r == MulValues(s, The(acc), b) IN [s |-> r.s, acc |-> Some(r.l)], LAMBDA m :
       Let(EmitMul(ConsumePending(m.s, b), b, b), LAMBDA sq :
       IF e \div 2 > 0 THEN PowLoop(sq.s, m.acc, sq.l, e \div 2)
       ELSE Res(m.s, The(m.acc))))

EmitPow(s, base, n) ==
  CASE n = 0 -> Res(s, One)
    [] n = 1 -> Res(s, base)
    [] n = 2 -> EmitMul(s, base, base)
    [] n = 3 -> Let(EmitMul(s, base, base), LAMBDA sq : EmitMul(ConsumePending(sq.s, sq.l), sq.l, base))
    [] OTHER -> PowLoop(s, None, base, n)

IsWitnessOnlyLc(s, l) == DOMAIN l.t \cap s.wvars # {}

\* `t = a * b; t == target` becomes `a * b = target`; t loses its witness op
MergeMul(s, v, target) ==
  LET row == s.pending[v]
      rows == [s.rows EXCEPT ![row].c = target]
  IN  [s EXCEPT !.pending = Without(@, v), !.merged = With(@, v, row), !.rows = rows,
                !.boolv = @ \cup BooleanityVar(rows[row])]

EmitRequireEq(s, l, r) ==
  IF s.wonly THEN s
  ELSE IF AsPendingVar(s, l) # None /\ ~IsWitnessOnlyLc(s, r) THEN MergeMul(s, The(BareVar(l)), r)
  ELSE IF AsPendingVar(s, r) # None /\ ~IsWitnessOnlyLc(s, l) THEN MergeMul(s, The(BareVar(r)), l)
  ELSE IF IsZero(Sub(l, r)) THEN s
  ELSE PushEqual(s, Sub(l, r), Zero)

EmitRequireEqGated(s0, g, l, r) ==
  Let(ConsumePending(Consume2(s0, l, r), g), LAMBDA s :
  IF IsZero(Sub(l, r)) THEN s ELSE PushConstraint(s, g, Sub(l, r), Zero))

\* g is the option of a guard: a hint's input in an arm is g * x ...
GateInput(s, g, x) ==
  IF g = None \/ IsZero(x) THEN Res(s, x) ELSE Let(Consume2(s, x, The(g)), LAMBDA q : EmitMul(q, The(g), x))
\* ... and its output is pinned to `value` where the arm is not taken
PinDeadTo(s, g, v, value) ==
  IF g = None THEN s ELSE EmitRequireEqGated(s, Sub(One, The(g)), Var(v), Const(value))
\* a bug: the dead value is left free
PinDeadSkipped(s, g, v) == s
PinDead(s, g, v) == PinDeadTo(s, g, v, 0)

HintBit(s, v, x, i) == Gen(s, [op |-> "bit", out |-> v, a |-> x, i |-> i])

DecomposeBitsGated(s0, value0, n, g) ==
  Let(GateInput(s0, g, value0), LAMBDA gi :
  Let(gi.l, LAMBDA value :
  Let(gi.s.nv, LAMBDA v0 :
  Let([i \in 1..n-1 |-> v0 + i], LAMBDA high :
  Let(FoldLeft(LAMBDA s, i : AllocAdvice(s), gi.s, high), LAMBDA s1 :
  Let(FoldLeft(LAMBDA s, i : PushConstraint(HintBit(s, v0 + i, value, i),
                                             Var(v0 + i), Var(v0 + i), Var(v0 + i)),
               s1, [i \in 1..n-1 |-> i]), LAMBDA s2 :
  Let(Sub(value, Recompose(<<Zero>> \o [i \in 1..n-1 |-> Var(high[i])])), LAMBDA low :
  Let(PushConstraint(s2, low, Sub(low, One), Zero), LAMBDA s3 :
  Let(<<low>> \o [i \in 1..n-1 |-> Var(high[i])], LAMBDA bits :
  IF n = 0 THEN [s |-> PushEqual(gi.s, value, Zero), bits |-> << >>]
  ELSE [bits |-> bits,
        s |-> IF s0.wonly THEN s3
              ELSE IF n > 1 THEN [s3 EXCEPT !.comp = With(@, v0 + n - 1, bits)]
              ELSE [s3 EXCEPT !.boolv = @ \cup BareVar(low)]])))))))))

EmitIsZero(s, x) ==
  Let(s.nv + 1, LAMBDA inv :
  Let(Gen(AllocAdvice(s), [op |-> "invz", out |-> inv, a |-> x]), LAMBDA s1 :
  Let(EmitMul(s1, x, Var(inv)), LAMBDA p :
  Let(Sub(One, p.l), LAMBDA out :
  Let(EmitMul(p.s, x, out), LAMBDA xo :
  Let(ConsumePending(EmitRequireEq(xo.s, xo.l, Zero), out), LAMBDA s2 :
  Let(EmitMul(s2, Var(inv), out), LAMBDA io :
  Res(EmitRequireEq(io.s, io.l, Zero), out))))))))

EmitLessThanGated(s, n, a, b, g) ==
  Let(GateInput(s, g, Add(Sub(a, b), Const(2^n))), LAMBDA d :
  Let(d.s.nv + 1, LAMBDA top :
  Let(HintBit(AllocAdvice(d.s), top, d.l, n), LAMBDA s1 :
  Let(PinDead(PushConstraint(s1, Var(top), Var(top), Var(top)), g, top), LAMBDA s2 :
  Let(Sub(One, Var(top)), LAMBDA lt :
  Let(EmitMul(s2, lt, Const(2^n)), LAMBDA ltp :
  Res(DecomposeBitsGated(ltp.s, Add(Sub(a, b), ltp.l), n, g).s, lt)))))))
EmitLessThan(s, n, a, b) == EmitLessThanGated(s, n, a, b, None)

EmitBooleanity(s, v) ==
  LET s1 == PushConstraint(s, Var(v), Var(v), Var(v)) IN
  IF s.wonly THEN s1 ELSE [s1 EXCEPT !.boolv = @ \cup {v}]

EmitWrappingSub(s, n, a, b) ==
  LET ge == s.nv + 1
      s1 == HintBit(AllocAdvice(s), ge, Add(Sub(a, b), Const(2^n)), n)
      res == Add(Sub(a, b), Scale(Sub(One, Var(ge)), 2^n))
  IN  Res(DecomposeBitsGated(EmitBooleanity(s1, ge), res, n, None).s, res)

----------------------------------------------------------------------------
(* The facts the host reads off the builder's tables.                       *)

BitSumMatch(s, x, n) ==
  IF /\ n > 0 /\ x.k = 0 /\ Cardinality(DOMAIN x.t) = n /\ DOMAIN x.t \subseteq s.boolv
     /\ {x.t[v] : v \in DOMAIN x.t} = {2^i : i \in 0..n-1}
  THEN Some([i \in 1..n |-> Var(CHOOSE v \in DOMAIN x.t : x.t[v] = 2^(i-1))])
  ELSE None

BitSumShortcut(s, x, n) ==
  IF BitSumMatch(s, x, n) # None THEN BitSumMatch(s, x, n)
  ELSE IF IsConst(x) \/ Top(x) \notin DOMAIN s.comp THEN None
  ELSE LET bits == s.comp[Top(x)] IN
       IF n <= Len(bits) /\ IsZero(Sub(x, Recompose(SubSeq(bits, 1, n))))
       THEN Some(SubSeq(bits, 1, n)) ELSE None

\* x's bits when they are already proven
KnownBits(s, x, n) ==
  IF IsConst(x) THEN None
  ELSE IF BitSumShortcut(s, x, n) # None THEN BitSumShortcut(s, x, n)
  ELSE IF <<x, n>> \in DOMAIN s.cache THEN Some(s.cache[<<x, n>>])
  ELSE None

ConstBits(c, n) == [i \in 1..n |-> Const((c \div 2^(i-1)) % 2)]

BitsOf(s, x, n) ==
  IF IsConst(x) THEN [s |-> s, bits |-> ConstBits(x.k, n)]
  ELSE IF KnownBits(s, x, n) # None THEN [s |-> s, bits |-> The(KnownBits(s, x, n))]
  ELSE Let(DecomposeBitsGated(s, x, n, None), LAMBDA d :
       [d EXCEPT !.s.cache = IF s.wonly THEN @ ELSE With(@, <<x, n>>, d.bits)])

\* lc as c * bit0 + rest for a decomposition's computed bit 0, at the highest such term
SplitComputedBit0(s, l) ==
  LET Ok(v) == /\ v \in DOMAIN s.comp
               /\ LET b0 == s.comp[v][1] IN
                  /\ ~IsConst(b0)
                  /\ LET top == b0.t[Top(b0)] IN
                     /\ Small(top) /\ Small(l.t[v])
                     /\ \E c \in 1..2^SmallBits : c * top = l.t[v]
      C(v) == LET b0 == s.comp[v][1] IN CHOOSE c \in 1..2^SmallBits : c * b0.t[Top(b0)] = l.t[v] IN
  Let({v \in DOMAIN l.t : Ok(v)}, LAMBDA vs :
  IF vs = {} THEN None
  ELSE LET v == Max(vs) IN Some([c |-> C(v), rest |-> Sub(l, Scale(s.comp[v][1], C(v)))]))

VarMaxes(s, v) ==
  (IF v \in DOMAIN s.width /\ s.width[v] <= SmallBits THEN {2^(s.width[v]) - 1} ELSE {})
    \cup (IF v \in DOMAIN s.vmax THEN {s.vmax[v]} ELSE {})
\* an upper bound on the integer l, when its coefficients are non-negative and its
\* variables bounded
RECURSIVE LcMax(_, _)
LcMax(s, l) ==
  Let(SplitComputedBit0(s, l), LAMBDA split :
  LET Bound(v) == IF v \in s.boolv THEN 1 ELSE Min(VarMaxes(s, v)) IN
  Let(FoldFunctionOnSet(+, l.k, [v \in DOMAIN l.t |-> l.t[v] * Bound(v)], DOMAIN l.t), LAMBDA total :
  IF split # None
  THEN LET r == LcMax(s, The(split).rest) IN
       IF r = None \/ The(r) + The(split).c > AccMax THEN None ELSE Some(The(r) + The(split).c)
  ELSE IF ~AllSmall(l) \/ l.k < 0 \/ \E v \in DOMAIN l.t : l.t[v] < 0 THEN None
  ELSE IF \E v \in DOMAIN l.t : v \notin s.boolv /\ VarMaxes(s, v) = {} THEN None
  ELSE IF total > AccMax THEN None ELSE Some(total)))

\* how many bits n takes
BitLen(n) == CHOOSE k \in 0..n+1 : n < 2^k /\ (k = 0 \/ n >= 2^(k-1))

\* lc as low + 2^k * high, read off its terms
SplitLc(s, l, k) ==
  LET m == 2^k
      low == Lin(l.k % m, LAMBDA v : l.t[v] % m, DOMAIN l.t)
      high == Lin(l.k \div m, LAMBDA v : l.t[v] \div m, DOMAIN l.t)
  IN  IF k >= SmallBits \/ (\E v \in DOMAIN l.t : ~Small(l.t[v]) \/ l.t[v] < 0) THEN None
      ELSE IF LcMax(s, l) = None \/ ~AllSmall(l) THEN None
      ELSE IF LcMax(s, low) = None \/ The(LcMax(s, low)) >= m THEN None
      ELSE Some([low |-> low, high |-> high])

TrailingZeros(c) == CHOOSE k \in 0..SmallBits : c % 2^k = 0 /\ c % 2^(k+1) # 0
Disjoint(s, a, b) ==
  LET Coeffs(l) == {l.k} \cup {l.t[v] : v \in DOMAIN l.t}
      Tz(l) == Min({SmallBits} \cup {TrailingZeros(c) : c \in Coeffs(l) \ {0}})
      Fits(hi, lo) ==
        /\ ~IsConst(hi) /\ LcMax(s, hi) # None /\ LcMax(s, lo) # None
        /\ \A c \in Coeffs(hi) : Small(c) /\ c >= 0
        /\ The(LcMax(s, lo)) < 2^Tz(hi)
  IN  Fits(a, b) \/ Fits(b, a)

\* an unsigned comparison the operands' bounds decide
DecidedCmp(s, o, a, b) ==
  LET Span(l) == IF IsConst(l) THEN IF Small(l.k) /\ l.k >= 0 THEN Some(<<l.k, l.k>>) ELSE None
                  ELSE {<<0, m>> : m \in LcMax(s, l)} IN
  Let(The(Span(a)), LAMBDA ra :
  Let(The(Span(b)), LAMBDA rb :
  LET lt == ra[2] < rb[1]
      ge == ra[1] >= rb[2]
      gt == ra[1] > rb[2]
      le == ra[2] <= rb[1]
      Decide(yes, no) == IF yes THEN Some(1) ELSE IF no THEN Some(0) ELSE None
  IN  IF Span(a) = None \/ Span(b) = None THEN None
      ELSE CASE o = "ltu" -> Decide(lt, ge)
             [] o = "geu" -> Decide(ge, lt)
             [] o = "gtu" -> Decide(gt, le)
             [] o = "leu" -> Decide(le, gt)
             [] o = "eq" -> Decide(FALSE, lt \/ gt)
             [] o = "ne" -> Decide(lt \/ gt, FALSE)
             [] OTHER -> None))

\* `c == want` was required of the comparison `fact`: the bound it proves
LearnBound(s, fact, want) ==
  LET o == fact[1]
      x == fact[2]
      y == fact[3]
      Nat_(l) == IF IsConst(l) /\ Small(l.k) /\ l.k >= 0 THEN Some(l.k) ELSE None
      Lt(v, c) == <<v, c - 1>>
      Le(v, c) == <<v, c>>
      known == IF BareVar(x) # None /\ Nat_(y) # None
               THEN LET v == The(BareVar(x))
                        c == The(Nat_(y))
                    IN  IF <<o, want>> \in {<<"ltu", TRUE>>, <<"geu", FALSE>>} THEN Some(Lt(v, c))
                        ELSE IF <<o, want>> \in {<<"leu", TRUE>>, <<"gtu", FALSE>>} THEN Some(Le(v, c))
                        ELSE None
               ELSE IF BareVar(y) # None /\ Nat_(x) # None
               THEN LET v == The(BareVar(y))
                        c == The(Nat_(x))
                    IN  IF <<o, want>> \in {<<"gtu", TRUE>>, <<"leu", FALSE>>} THEN Some(Lt(v, c))
                        ELSE IF <<o, want>> \in {<<"geu", TRUE>>, <<"ltu", FALSE>>} THEN Some(Le(v, c))
                        ELSE None
               ELSE None
  IN  IF known = None \/ The(known)[2] < 0 THEN s
      ELSE LET v == The(known)[1]
               m == The(known)[2]
           IN  [s EXCEPT !.vmax = With(@, v, IF v \in DOMAIN s.vmax THEN Min({s.vmax[v], m}) ELSE m)]

----------------------------------------------------------------------------
(* Guards and selects.                                                      *)

\* Host::guard: the conjunction of the enclosing arms' literals, one product a level
RECURSIVE SetGuards(_, _)
SetGuards(s, j) ==
  IF j > Len(s.guards) THEN s
  ELSE IF s.guards[j].g # None THEN SetGuards(s, j + 1)
  ELSE IF j = 1 THEN SetGuards([s EXCEPT !.guards[1].g = Some(s.guards[1].lit)], 2)
  ELSE Let(MulValues(s, The(s.guards[j-1].g), s.guards[j].lit), LAMBDA m :
       SetGuards([m.s EXCEPT !.guards[j].g = Some(m.l)], j + 1))
Guard(s) ==
  Let(SetGuards(s, 1), LAMBDA s1 :
  [s |-> s1, g |-> IF s1.guards = << >> THEN None ELSE s1.guards[Len(s1.guards)].g])

RequireGated(s, l, r) ==
  Let(Guard(s), LAMBDA q :
  IF q.g = None THEN EmitRequireEq(q.s, l, r) ELSE EmitRequireEqGated(q.s, The(q.g), l, r))

\* e + c * (t - e), one product for each distinct select
MuxBySym(s, id, c, t, e) ==
  Let(<<id, t, e>>, LAMBDA key :
  Let(EmitMul(s, c, Sub(t, e)), LAMBDA m :
  Let(Add(e, m.l), LAMBDA out :
  IF t = e THEN Res(s, t)
  ELSE IF key \in DOMAIN s.muxes THEN Res(s, s.muxes[key])
  ELSE Res(IF s.wonly THEN m.s ELSE [m.s EXCEPT !.muxes = With(@, key, out)], out))))

\* Host::new_wire: the width of a bare variable is remembered
NewWire(s, l, w) ==
  IF BareVar(l) = None THEN s
  ELSE LET v == The(BareVar(l)) IN
       [s EXCEPT !.width = With(@, v, IF v \in DOMAIN s.width THEN Min({s.width[v], w}) ELSE w)]

\* native_int: rows are kept inside a witness-only region
NativeInt(s, F(_)) == LET r == F([s EXCEPT !.wonly = FALSE]) IN [r EXCEPT !.s.wonly = s.wonly]

=============================================================================
