------------------------------ MODULE HostInt ------------------------------
(***************************************************************************)
(* Native-integer operations on witness values (crates/frontend/src/host.rs,*)
(* int_bin_impl, int_cmp_impl and what they call): each wasm operation on   *)
(* Reg-bit registers becomes linear combinations and rows.                  *)
(*                                                                          *)
(* An integer value is [l, w, sym]: its linear combination, a bound on its  *)
(* width, and whether it is symbolic (a wire) or a concrete number.         *)
(***************************************************************************)
EXTENDS Builder

Concrete(n) == [l |-> Const(n), w |-> BitLen(n), sym |-> FALSE]
Wire(l, w) == [l |-> l, w |-> w, sym |-> TRUE]
\* the results [s, v]: the state after and the value returned
ResV(s, v) == [s |-> s, v |-> v]
MkWire(s, l, w) == ResV(NewWire(s, l, w), Wire(l, w))
Widest(a, b) == Max({a.w, b.w})

\* a bug: the bound of the value is trusted without truncating it
IntResultUntruncated(s, l, width0, reg) ==
  IF IsConst(l) /\ Small(l.k) THEN ResV(s, Concrete(l.k % 2^reg)) ELSE MkWire(s, l, reg)
\* a wire for lc < 2^width, truncated to the register if wider
IntResult(s, l, width0, reg) ==
  Let(Min({width0} \cup {BitLen(m) : m \in LcMax(s, l)}), LAMBDA width :
  Let(SplitLc(s, l, reg), LAMBDA split :
  Let(BitsOf(s, l, width), LAMBDA d :
  IF IsConst(l) /\ Small(l.k) THEN ResV(s, Concrete(l.k % 2^reg))
  ELSE IF width <= reg THEN MkWire(s, l, width)
  ELSE IF split # None THEN MkWire(s, The(split).low, reg)
  ELSE MkWire(d.s, Recompose(SubSeq(d.bits, 1, reg)), reg))))

BitwiseBit(s, o, x, y) ==
  LET xc == IsConst(x)
      yc == IsConst(y)
      k == IF xc THEN x.k ELSE y.k
      other == IF xc THEN y ELSE x
  IN  CASE (xc \/ yc) /\ o = "and" -> Res(s, IF k = 0 THEN Zero ELSE other)
        [] (xc \/ yc) /\ o = "or" -> Res(s, IF k = 0 THEN other ELSE One)
        [] (xc \/ yc) /\ o = "xor" -> Res(s, IF k = 0 THEN other ELSE Sub(One, other))
        [] OTHER -> IF o = "and" THEN EmitMul(s, x, y) ELSE EmitBool(s, o, x, y)

\* what int_result is given: a value below 2^w that may not fit a register
Unfit(s, l, w) == [s |-> s, l |-> l, w |-> w]

BitwiseImpl(s, o, a, b) ==
  Let(Min({Widest(a, b), Reg}), LAMBDA n :
  Let(BitsOf(s, a.l, n), LAMBDA da :
  Let(BitsOf(da.s, b.l, n), LAMBDA db :
  Let(FoldLeft(LAMBDA acc, i : LET r == BitwiseBit(acc.s, o, da.bits[i], db.bits[i]) IN
                               [s |-> r.s, bits |-> Append(acc.bits, r.l)],
               [s |-> db.s, bits |-> << >>], [i \in 1..n |-> i]), LAMBDA out :
  Let(IF ~b.sym THEN b.l.k ELSE IF ~a.sym THEN a.l.k ELSE -2, LAMBDA mask :
  Let(IF ~b.sym THEN a ELSE b, LAMBDA x :
  Let(IF o = "and" THEN {k \in 0..Reg : 2^k = mask + 1} ELSE {}, LAMBDA ks :
  Let(UNION {SplitLc(s, x.l, k) : k \in ks}, LAMBDA low :
  IF o # "and" /\ Disjoint(s, a.l, b.l) THEN Unfit(s, Add(a.l, b.l), Widest(a, b))
  ELSE IF low # {} THEN Unfit(s, The(low).low, Min({The(ks), x.w}))
  ELSE Unfit(out.s, Recompose(out.bits), IF o = "and" THEN Min({a.w, b.w}) ELSE n)))))))))

\* 2^k for a witness k, from its low bits
TwoPow(s, bits, lg) ==
  FoldLeft(LAMBDA acc, i :
             LET f == Add(One, Scale(bits[i], 2^(2^(i-1)) - 1)) IN
             IF IsConst(acc.l) THEN Res(acc.s, Scale(f, acc.l.k))
             ELSE EmitMul(ConsumePending(acc.s, acc.l), acc.l, f),
           Res(s, One), [i \in 1..lg |-> i])

AllocDivRem(s, num, den) ==
  Gen(AllocAdvice(AllocAdvice(s)), [op |-> "divrem", out |-> s.nv + 1, out2 |-> s.nv + 2, a |-> num, b |-> den])

ShiftByWitness(s, o, a, b) ==
  Let(BitLen(Reg - 1), LAMBDA lg :
  Let(BitsOf(s, b.l, Max({b.w, lg})), LAMBDA kb :
  Let(TwoPow(kb.s, kb.bits, lg), LAMBDA p :
  Let(MulValues(p.s, a.l, p.l), LAMBDA shl :
  Let(p.s.nv + 1, LAMBDA q :
  Let(p.s.nv + 2, LAMBDA r :
  Let(AllocDivRem(p.s, a.l, p.l), LAMBDA s1 :
  Let(BitsOf(BitsOf(s1, Var(q), Max({a.w, 1})).s, Var(r), Max({a.w, 1})).s, LAMBDA s2 :
  Let(EmitLessThan(s2, Max({a.w, Reg}), Var(r), p.l), LAMBDA lt :
  Let(ConsumePending(EmitRequireEq(lt.s, lt.l, One), p.l), LAMBDA s3 :
  Let(EmitMul(s3, Var(q), p.l), LAMBDA prod :
  Let(EmitRequireEq(ConsumePending(prod.s, a.l), Add(prod.l, Var(r)), a.l), LAMBDA s4 :
  IF o = "shl" THEN Unfit(shl.s, shl.l, a.w + Reg - 1)
  ELSE Unfit(s4, Var(q), a.w)))))))))))))

ShiftRight(s, o, a, k) ==
  Let(BitsOf(s, a.l, Reg), LAMBDA d :
  Let(SplitLc(s, a.l, k), LAMBDA split :
  Let(BitsOf(s, a.l, a.w), LAMBDA e :
  IF o = "shrs" /\ a.w >= Reg
  THEN Unfit(d.s, Add(Recompose(SubSeq(d.bits, k + 1, Reg)), Scale(d.bits[Reg], 2^Reg - 2^(Reg - k))), Reg)
  ELSE IF k >= a.w THEN Unfit(s, Zero, 0)
  ELSE IF split # None THEN Unfit(s, The(split).high, a.w - k)
  ELSE Unfit(e.s, Recompose(SubSeq(e.bits, k + 1, a.w)), a.w - k))))

Rotate(s, o, a, k) ==
  LET d == BitsOf(s, a.l, Reg)
      by == IF o = "rotl" THEN Reg - k ELSE k
  IN  Unfit(d.s, Recompose([i \in 1..Reg |-> d.bits[((i - 1 + by) % Reg) + 1]]), Reg)

DivByPow2(s, o, a, k) ==
  Let(SplitLc(s, a.l, k), LAMBDA split :
  Let(BitsOf(s, a.l, Max({a.w, k})), LAMBDA d :
  Let(Min({k, a.w}), LAMBDA cut :
  Let(IF a.w > k THEN a.w - k ELSE 0, LAMBDA left :
  IF split # None
  THEN IF o = "divu" THEN Unfit(s, The(split).high, left)
       ELSE Unfit(s, The(split).low, cut)
  ELSE IF o = "divu" THEN Unfit(d.s, Recompose(SubSeq(d.bits, cut + 1, Len(d.bits))), left)
  ELSE Unfit(d.s, Recompose(SubSeq(d.bits, 1, cut)), cut)))))

\* hinted q and r with a = q*b + r, q < 2^wa, r < 2^wb, r < b; in an arm the equalities
\* are guarded and the hint divides g*a by b + 1 - g
DivRemImpl(s0, o, a, b) ==
  Let(Guard(s0), LAMBDA gd :
  Let(gd.g, LAMBDA g :
  Let(IF g # None /\ b.sym THEN Sub(Add(b.l, One), The(g)) ELSE b.l, LAMBDA den :
  Let(GateInput(gd.s, g, a.l), LAMBDA num :
  Let(num.s.nv + 1, LAMBDA q :
  Let(num.s.nv + 2, LAMBDA r :
  Let(PinDead(PinDead(AllocDivRem(num.s, num.l, den), g, q), g, r), LAMBDA s1 :
  Let(BitsOf(BitsOf(s1, Var(q), Max({a.w, 1})).s, Var(r), Max({b.w, 1})).s, LAMBDA s2 :
  Let(EmitLessThan(s2, Max({b.w, 1}), Var(r), b.l), LAMBDA lt :
  Let(RequireGated(lt.s, lt.l, One), LAMBDA s3 :
  Let(IF b.sym THEN EmitMul(ConsumePending(s3, b.l), Var(q), b.l)
      ELSE Res(s3, Scale(Var(q), b.l.k)), LAMBDA prod :
  Let(RequireGated(ConsumePending(prod.s, a.l), Add(prod.l, Var(r)), a.l), LAMBDA s4 :
  IF o = "divu" THEN Unfit(s4, Var(q), a.w) ELSE Unfit(s4, Var(r), b.w)))))))))))))

\* Host::int_bin_impl; a and b are not both concrete (the interpreter folds those)
IntBinImpl(s, o, a, b) ==
  LET k == b.l.k % Reg
      prod == MulValues(s, a.l, b.l)
      pow == {j \in 0..Reg : ~b.sym /\ 2^j = b.l.k}
      diff == EmitWrappingSub(s, Reg, a.l, b.l)
  IN  IF o = "sub" THEN IF ~b.sym /\ b.l.k = 0 THEN ResV(s, a) ELSE MkWire(diff.s, diff.l, Reg)
      ELSE Let(CASE o \in {"shl", "shru"} /\ b.sym -> ShiftByWitness(s, o, a, b)
                 [] o = "add" -> Unfit(s, Add(a.l, b.l), Widest(a, b) + 1)
                 [] o = "mul" -> IF ~a.sym THEN Unfit(s, Scale(b.l, a.l.k), a.w + b.w)
                                 ELSE IF ~b.sym THEN Unfit(s, Scale(a.l, b.l.k), a.w + b.w)
                                 ELSE Unfit(prod.s, prod.l, a.w + b.w)
                 [] o \in {"and", "or", "xor"} -> BitwiseImpl(s, o, a, b)
                 [] o = "shl" /\ ~b.sym -> Unfit(s, Scale(a.l, 2^k), a.w + k)
                 [] o \in {"shru", "shrs"} /\ ~b.sym -> ShiftRight(s, o, a, k)
                 [] o \in {"rotl", "rotr"} /\ ~b.sym -> Rotate(s, o, a, k)
                 [] o \in {"divu", "remu"} -> IF pow # {} THEN DivByPow2(s, o, a, The(pow)) ELSE DivRemImpl(s, o, a, b),
               LAMBDA r : IntResult(r.s, r.l, r.w, Reg))

\* the operands int_bin_impl supports: a witness shift amount only for shl and shru,
\* and a constant divisor 0 is an error
Supported(o, a, b) ==
  /\ a.sym \/ b.sym
  /\ o \in {"shrs", "rotl", "rotr"} => ~b.sym
  /\ ~(o \in {"divu", "remu"} /\ ~b.sym /\ b.l.k = 0)

\* x + 2^(Reg-1) mod 2^Reg, so that signed order becomes unsigned order
SignFlip(s, x) ==
  Let(2^(Reg - 1), LAMBDA half :
  Let(KnownBits(s, x, Reg), LAMBDA bits :
  Let(EmitLessThan(s, Reg, x, Const(half)), LAMBDA lt :
  IF IsConst(x) THEN Res(s, Const((x.k + half) % M))
  ELSE IF bits # None THEN Res(s, Sub(Add(x, Const(half)), Scale(The(bits)[Reg], M)))
  ELSE Res(lt.s, Sub(Add(x, Const(half)), Scale(Sub(One, lt.l), M))))))

\* Host::int_cmp_impl; the result also says which comparison a fresh wire is
IntCmpImpl(s0, o, a, b) ==
  Let(DecidedCmp(s0, o, a.l, b.l), LAMBDA decided :
  Let(o \in {"lts", "gts", "les", "ges"} /\ Widest(a, b) >= Reg, LAMBDA signed :
  Let(IF signed THEN SignFlip(s0, a.l) ELSE Res(s0, a.l), LAMBDA fa :
  Let(IF signed THEN SignFlip(fa.s, b.l) ELSE Res(fa.s, b.l), LAMBDA fb :
  Let(IF signed THEN Reg ELSE Max({a.w, b.w, 1}), LAMBDA n :
  Let(EmitIsZero(fb.s, Sub(fa.l, fb.l)), LAMBDA z :
  Let(EmitLessThan(fb.s, n, fa.l, fb.l), LAMBDA lt :
  Let(EmitLessThan(fb.s, n, fb.l, fa.l), LAMBDA gt :
  Let(CASE o = "eq" -> z
        [] o = "ne" -> Res(z.s, Sub(One, z.l))
        [] o \in {"ltu", "lts"} -> lt
        [] o \in {"gtu", "gts"} -> gt
        [] o \in {"leu", "les"} -> Res(gt.s, Sub(One, gt.l))
        [] o \in {"geu", "ges"} -> Res(lt.s, Sub(One, lt.l)), LAMBDA r :
  Let(MkWire(r.s, r.l, 1), LAMBDA w :
  IF decided # None THEN [s |-> s0, v |-> Concrete(The(decided)), fact |-> None]
  ELSE [s |-> w.s, v |-> w.v,
        fact |-> IF o \in {"ltu", "leu", "gtu", "geu"} THEN Some(<<o, a.l, b.l>>) ELSE None]))))))))))

\* sext_impl: a width-bit x to reg bits
SignExtend(s, x, width, reg) ==
  Let(EmitLessThan(s, width, x.l, Const(2^(width - 1))), LAMBDA lt :
  MkWire(lt.s, Add(x.l, Scale(Sub(One, lt.l), 2^reg - 2^width)), reg))

IntTrunc(s, x, bits) == IntResult(s, x.l, x.w, bits)
NotImpl(s, c) == MkWire(s, Sub(One, c.l), 1)

BoolOpImpl(s, o, a, b) ==
  LET m == MulValues(s, a.l, b.l)
      e == EmitBool(s, o, a.l, b.l)
      x == IF ~b.sym THEN a ELSE b
      k == IF ~b.sym THEN b.l.k ELSE a.l.k
  IN  IF ~a.sym \/ ~b.sym
      THEN IF <<o, k>> \in {<<"and", 1>>, <<"or", 0>>, <<"xor", 0>>} THEN ResV(s, x)
           ELSE IF o = "and" THEN ResV(s, Concrete(0))
           ELSE IF o = "or" THEN ResV(s, Concrete(1))
           ELSE NotImpl(s, x)
      ELSE IF o = "and" THEN MkWire(m.s, m.l, 1) ELSE MkWire(e.s, e.l, 1)

SumSet0(S, f(_)) == FoldSet(LAMBDA x, acc : acc + f(x), 0, S)

RECURSIVE Gcd(_, _)
Gcd(a, b) == IF b = 0 THEN a ELSE Gcd(b, a % b)
Abs(x) == IF x < 0 THEN -x ELSE x

RECURSIVE TakeBit0s(_, _, _)
TakeBit0s(s, l, taken) ==
  LET split == SplitComputedBit0(s, l) IN
  IF split = None THEN [l |-> l, taken |-> taken]
  ELSE TakeBit0s(s, The(split).rest, Append(taken, The(split).c))

\* the candidate values base + offset of a witness index, and the wire of the offset
IndexFormImpl(s, p) ==
  Let(TakeBit0s(s, p.l, << >>), LAMBDA cut :
  Let(DOMAIN cut.l.t, LAMBDA D :
  LET Bounded(v) == v \in s.boolv \/ VarMaxes(s, v) # {}
      Hi(v) == IF v \in s.boolv THEN 1 ELSE Min(VarMaxes(s, v)) IN
  Let(D \subseteq s.boolv, LAMBDA allBool :
  \* -i: the i-th bit 0
  LET Coeff(x) == IF x \in D THEN cut.l.t[x] ELSE cut.taken[-x] IN
  Let(D \cup {-i : i \in 1..Len(cut.taken)}, LAMBDA keys :
  LET RangeOf(x) == IF x \in D THEN Coeff(x) * Hi(x) ELSE Coeff(x) IN
  Let(SumSet0({x \in keys : RangeOf(x) < 0}, RangeOf), LAMBDA lo :
  Let(SumSet0({x \in keys : RangeOf(x) > 0}, RangeOf), LAMBDA hi :
  Let(FoldSet(LAMBDA x, acc : Gcd(acc, Abs(Coeff(x))), 0, keys), LAMBDA g :
  Let(IF allBool THEN {SumSet0(S, Coeff) - lo : S \in SUBSET keys}
      ELSE {j * g : j \in 0..((hi - lo) \div g)}, LAMBDA offsets :
  Let(cut.l.k + lo, LAMBDA base :
  Let(Sub(p.l, Const(base)), LAMBDA rest :
  IF keys = {} \/ ~AllSmall(cut.l) \/ (\E v \in D : ~Bounded(v)) \/ base < 0 THEN None
  ELSE LET w == MkWire(s, rest, BitLen(Max(offsets))) IN
       Some([base |-> base, offsets |-> offsets, s |-> w.s, v |-> w.v])))))))))))
=============================================================================
