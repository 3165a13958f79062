------------------------------ MODULE Frontend ------------------------------
(***************************************************************************)
(* Lowering a circuit: the intrinsics a circuit calls on the frontend's    *)
(* host (crates/frontend/src/host.rs, `call` and the integer callbacks),   *)
(* in any order, and the finishing pass of output.rs.                      *)
(*                                                                         *)
(* Beside the builder's state the specification carries what the calls     *)
(* mean: every value has a denotation, a function of the circuit's inputs, *)
(* and `want` is the set of inputs the program accepts.  After Finish the  *)
(* solutions of the emitted rows are compared with them.                   *)
(***************************************************************************)
EXTENDS HostInt

CONSTANT
  Plans  \* shapes of circuits: the inputs' widths (0: a field element), the concrete
         \* integers, the intrinsics the k-th step may call, and their integer operators

VARIABLES
  plan,    \* the circuit's shape, with its inputs
  s,       \* the builder and host state
  vals,    \* the values the program has computed
  want,    \* the inputs it accepts so far
  arms,    \* the enclosing witness branches: [on: where taken, cond, from]
  step,    \* how many intrinsics were called
  fresh,   \* the value the last call made, 0 for none
  ids,     \* the inputs' variables, in binding order
  out      \* what Finish produced

vars == <<plan, s, vals, want, arms, step, fresh, ids, out>>

N == Len(plan.leaves)
Inputs == plan.inputs
InputsOf(leaves) ==
  {i \in [1..Len(leaves) -> 0..P-1] : \A k \in 1..Len(leaves) : leaves[k] > 0 => i[k] < 2^leaves[k]}
Taken == IF arms = << >> THEN Inputs ELSE arms[Len(arms)].on

----------------------------------------------------------------------------
(* Values: [l, w, sym, int, den, on].  den is the value the program computes *)
(* on each input, on the set of inputs where that is defined (the arm it was *)
(* computed in), empty once the value is out of scope.                       *)

IntVal(v, den) == [l |-> v.l, w |-> v.w, sym |-> v.sym, int |-> TRUE, den |-> den, on |-> Taken]
FieldVal(l, den) == [l |-> l, w |-> 0, sym |-> TRUE, int |-> FALSE, den |-> den, on |-> Taken]
Live == {i \in DOMAIN vals : vals[i].on # {}}
Ints == {i \in Live : vals[i].int}
Fields == {i \in Live : ~vals[i].int}
Bools == {i \in Ints : vals[i].w <= 1}
Wires == {i \in Bools : vals[i].sym}
D(i, x) == vals[i].den[x]
Map1(F(_), i) == [x \in Inputs |-> F(D(i, x))]
Map2(F(_, _), i, j) == [x \in Inputs |-> F(D(i, x), D(j, x))]

\* Call(name): the script allows the call; the operands use the newest value
Call(name, operands) ==
  /\ out.at = "open" /\ step < Len(plan.script) /\ name \in plan.script[step + 1]
  /\ fresh # 0 => fresh \in operands
  /\ step' = step + 1
Yield(s1, v) == s' = s1 /\ vals' = Append(vals, v) /\ fresh' = Len(vals) + 1
InPlace == UNCHANGED <<plan, arms, ids, out>>
InArm == s.guards # << >>

\* bits of the input's range check; an input wider than a register is split at once
BindInput(ins, acc, w) ==
  Let(acc.s.nv + 1, LAMBDA id :
  Let(AllocVar(acc.s), LAMBDA s1 :
  Let(DecomposeBitsGated(s1, Var(id), w, None), LAMBDA d :
  Let(Recompose(SubSeq(d.bits, 1, Reg)), LAMBDA lo :
  Let(Recompose(SubSeq(d.bits, Reg + 1, w)), LAMBDA hi :
  Let(Len(acc.ids) + 1, LAMBDA k :
  LET Val(l, n, F(_)) == [l |-> l, w |-> n, sym |-> TRUE, int |-> n > 0, den |-> [x \in ins |-> F(x[k])], on |-> ins] IN
  [ids |-> Append(acc.ids, id),
   uints |-> IF w \in 1..Reg THEN Append(acc.uints, <<id, w>>) ELSE acc.uints,
   s |-> IF w = 0 THEN s1
         ELSE IF w <= Reg THEN NewWire(s1, Var(id), w)
         ELSE NewWire(NewWire(d.s, lo, Reg), hi, Reg),
   vals |-> acc.vals \o
     IF w <= Reg THEN <<Val(Var(id), w, LAMBDA y : y)>>
     ELSE <<Val(lo, Reg, LAMBDA y : y % M), Val(hi, Reg, LAMBDA y : y \div M)>>]))))))
InputsDone(acc) ==
  FoldLeft(LAMBDA q, e : LET d == DecomposeBitsGated(q, Var(e[1]), e[2], None) IN
                         [d.s EXCEPT !.cache = With(@, <<Var(e[1]), e[2]>>, d.bits)],
           acc.s, acc.uints)

Init ==
  \E p \in Plans :
  LET ins == InputsOf(p.leaves)
      acc == FoldLeft(LAMBDA a, w : BindInput(ins, a, w),
                      [s |-> Builder_new(0), vals |-> << >>, ids |-> << >>, uints |-> << >>], p.leaves)
      consts == [i \in 1..Len(p.numbers) |->
                  [l |-> Const(p.numbers[i]), w |-> BitLen(p.numbers[i]), sym |-> FALSE, int |-> TRUE,
                   den |-> [x \in ins |-> p.numbers[i]], on |-> ins]]
  IN  /\ plan = [leaves |-> p.leaves, script |-> p.script, ops |-> p.ops, inputs |-> ins]
      /\ s = InputsDone(acc) /\ vals = acc.vals \o consts /\ ids = acc.ids
      /\ want = ins /\ arms = << >> /\ step = 0 /\ fresh = 0 /\ out = [at |-> "open"]

----------------------------------------------------------------------------
(* Field intrinsics.                                                         *)

AddOrSub(name, i, j) ==
  /\ Call(name, {i, j}) /\ InPlace /\ UNCHANGED want
  /\ LET a == vals[i].l
         b == vals[j].l
         s1 == Consume2(s, a, b)
     IN  Yield(s1, IF name = "add"
                   THEN FieldVal(Reduce(Add(a, b)), Map2(LAMBDA x, y : (x + y) % P, i, j))
                   ELSE FieldVal(Reduce(Sub(a, b)), Map2(LAMBDA x, y : (x - y) % P, i, j)))

Neg(i) ==
  /\ Call("neg", {i}) /\ InPlace /\ UNCHANGED want
  /\ Yield(ConsumePending(s, vals[i].l),
           FieldVal(Reduce(Scale(vals[i].l, -1)), Map1(LAMBDA x : (-x) % P, i)))

\* constants fold into the coefficients
Mul(i, j) ==
  /\ Call("mul", {i, j}) /\ InPlace /\ UNCHANGED want
  /\ LET a == vals[i].l
         b == vals[j].l
         m == MulValues(s, a, b)
         den == Map2(LAMBDA x, y : (x * y) % P, i, j)
     IN  IF IsConst(a) THEN Yield(ConsumePending(s, b), FieldVal(Reduce(Scale(b, a.k)), den))
         ELSE IF IsConst(b) THEN Yield(ConsumePending(s, a), FieldVal(Reduce(Scale(a, b.k)), den))
         ELSE Yield(m.s, FieldVal(m.l, den))

Pow(i, n) ==
  /\ Call("pow", {i}) /\ InPlace /\ UNCHANGED want
  /\ \E r \in {EmitPow(ConsumePending(s, vals[i].l), vals[i].l, n)} :
     \E den \in {Map1(LAMBDA x : (x^n) % P, i)} :
     IF IsConst(vals[i].l) THEN Yield(s, FieldVal(Const(((vals[i].l.k % P)^n) % P), den))
     ELSE Yield(r.s, FieldVal(Reduce(r.l), den))

\* with a constant operand the row's one solution is linear
XorOr(o, i, j) ==
  /\ Call(o, {i, j}) /\ InPlace /\ UNCHANGED want
  /\ LET a == vals[i].l
         b == vals[j].l
         k == IF IsConst(b) THEN b.k ELSE a.k
         v == IF IsConst(b) THEN a ELSE b
         slope == IF o = "fxor" THEN 1 - 2 * k ELSE 1 - k
         r == EmitBool(s, IF o = "fxor" THEN "xor" ELSE "or", a, b)
         den == Map2(LAMBDA x, y : (x + y - (IF o = "fxor" THEN 2 ELSE 1) * x * y) % P, i, j)
     IN  IF IsConst(a) \/ IsConst(b)
         THEN Yield(ConsumePending(s, v), FieldVal(Reduce(Add(Scale(v, slope), Const(k))), den))
         ELSE Yield(r.s, FieldVal(r.l, den))

FieldEq(i, j) ==
  /\ Call("eq", {i, j}) /\ InPlace /\ UNCHANGED want
  /\ \E r \in {EmitIsZero(s, Sub(vals[i].l, vals[j].l))} :
     Yield(NewWire(r.s, r.l, 1), IntVal(Wire(r.l, 1), Map2(LAMBDA x, y : IF x = y THEN 1 ELSE 0, i, j)))

\* `<` of fields the caller knows to be below 2^n
FieldUlt(i, j, n) ==
  /\ Call("ult", {i, j}) /\ InPlace /\ UNCHANGED want
  /\ \A x \in Taken \cap want : D(i, x) < 2^n /\ D(j, x) < 2^n
  /\ \E g \in {Guard(s)} :
     \E r \in {EmitLessThanGated(g.s, n, vals[i].l, vals[j].l, g.g)} :
     Yield(NewWire(r.s, r.l, 1), IntVal(Wire(r.l, 1), Map2(LAMBDA x, y : IF x < y THEN 1 ELSE 0, i, j)))

BoolToField(i) ==
  /\ Call("bool_to_field", {i}) /\ InPlace /\ UNCHANGED want
  /\ Yield(s, FieldVal(Reduce(vals[i].l), vals[i].den))

\* require_eq outside a branch, or guarded by it
Accept(ok(_)) == want' = {x \in want : x \in Taken => ok(x)}
RequireEq(i, j) ==
  /\ Call("require_eq", {i, j}) /\ InPlace
  /\ s' = RequireGated(s, vals[i].l, vals[j].l)
  /\ Accept(LAMBDA x : D(i, x) = D(j, x))
  /\ fresh' = 0 /\ UNCHANGED vals

Bind(i) ==
  /\ Call("bind", {i}) /\ InPlace /\ UNCHANGED <<want, vals>>
  /\ s' = EmitMul(s, vals[i].l, vals[i].l).s /\ fresh' = 0

\* x.inverse(): hint_inverse, then require_eq(x * inv, 1)
InverseOf(i) ==
  /\ Call("inverse", {i}) /\ InPlace
  /\ \E g \in {Guard(s)} :
     \E x \in {GateInput(g.s, g.g, vals[i].l)} :
     \E v \in {x.s.nv + 1} :
     \E s1 \in {Gen(PinDead(AllocAdvice(x.s), g.g, v),
                    [op |-> IF InArm THEN "invz" ELSE "inv", out |-> v, a |-> x.l])} :
     \E m \in {MulValues(s1, vals[i].l, Var(v))} :
     Yield(RequireGated(m.s, m.l, One),
           FieldVal(Var(v), Map1(LAMBDA y : IF y = 0 THEN 0 ELSE CHOOSE z \in 1..P-1 : (y * z) % P = 1, i)))
  /\ Accept(LAMBDA x : D(i, x) # 0)

ToBits(i, n) ==
  /\ Call("to_bits", {i}) /\ InPlace /\ ~IsConst(vals[i].l)
  /\ \E known \in {KnownBits(s, vals[i].l, n)} :
     \E g \in {Guard(s)} :
     \E d \in {IF known # None THEN [s |-> s, bits |-> The(known)]
               ELSE Let(DecomposeBitsGated(g.s, vals[i].l, n, g.g), LAMBDA e :
                    IF InArm \/ s.wonly THEN e
                    ELSE [e EXCEPT !.s.cache = With(@, <<vals[i].l, n>>, e.bits)])} :
     /\ s' = d.s /\ fresh' = Len(vals) + 1
     /\ vals' = vals \o [k \in 1..n |-> FieldVal(Reduce(d.bits[k]), Map1(LAMBDA x : (x \div 2^(k-1)) % 2, i))]
  /\ Accept(LAMBDA x : D(i, x) < 2^n)

\* field_to_uint: partial, so refused in an arm
FieldToUint(i, n) ==
  /\ Call("field_to_uint", {i}) /\ InPlace /\ ~InArm /\ ~IsConst(vals[i].l)
  /\ \E d \in {BitsOf(s, vals[i].l, n)} :
     \E l \in {Recompose(d.bits)} :
     Yield(NewWire(d.s, l, n), IntVal(Wire(l, n), vals[i].den))
  /\ Accept(LAMBDA x : D(i, x) < 2^n)

\* the hint_bit loop, require_bool of each bit, require_eq of their sum and x
HintedBits(i, n) ==
  /\ Call("hint_bits", {i}) /\ InPlace /\ ~InArm /\ ~IsConst(vals[i].l)
  /\ LET x == vals[i].l
         v0 == s.nv
         ks == [k \in 1..n |-> k]
         s1 == FoldLeft(LAMBDA q, k : HintBit(AllocAdvice(q), v0 + k, x, k - 1), s, ks)
         s2 == FoldLeft(LAMBDA q, k : LET m == MulValues(q, Var(v0 + k), Var(v0 + k)) IN
                                      EmitRequireEq(m.s, m.l, Var(v0 + k)), s1, ks)
         bits == [k \in 1..n |-> Var(v0 + k)]
     IN  /\ s' = EmitRequireEq(s2, Recompose(bits), x) /\ fresh' = Len(vals) + 1
         /\ vals' = vals \o [k \in 1..n |-> FieldVal(bits[k], Map1(LAMBDA y : (y \div 2^(k-1)) % 2, i))]
  /\ Accept(LAMBDA x : D(i, x) < 2^n)

\* a product computed in a witness_begin region and pinned after it
WitnessRegion(i) ==
  /\ Call("witness", {i}) /\ InPlace /\ ~InArm /\ UNCHANGED want
  /\ \E m \in {MulValues([s EXCEPT !.wonly = TRUE], vals[i].l, vals[i].l)} :
     \E t \in {MulValues([m.s EXCEPT !.wonly = FALSE], vals[i].l, vals[i].l)} :
     Yield(EmitRequireEq(t.s, t.l, m.l), FieldVal(m.l, Map1(LAMBDA x : (x * x) % P, i)))

----------------------------------------------------------------------------
(* Native integers: what wasm computes on registers.                         *)

Bit(x, k) == (x \div 2^k) % 2
Bits2(F(_, _), x, y) == FoldLeft(LAMBDA acc, k : acc + 2^(k-1) * F(Bit(x, k-1), Bit(y, k-1)), 0, [k \in 1..Reg |-> k])
Signed(x) == IF x >= M \div 2 THEN x - M ELSE x
WasmBin(o, x, y) ==
  LET k == y % Reg IN
  CASE o = "add" -> (x + y) % M
    [] o = "sub" -> (x - y) % M
    [] o = "mul" -> (x * y) % M
    [] o = "and" -> Bits2(LAMBDA a, b : a * b, x, y)
    [] o = "or" -> Bits2(LAMBDA a, b : Max({a, b}), x, y)
    [] o = "xor" -> Bits2(LAMBDA a, b : (a + b) % 2, x, y)
    [] o = "shl" -> (x * 2^k) % M
    [] o = "shru" -> x \div 2^k
    [] o = "shrs" -> (Signed(x) \div 2^k) % M
    [] o = "rotl" -> ((x * 2^k) % M) + (x \div 2^(Reg - k))
    [] o = "rotr" -> (x \div 2^k) + ((x * 2^(Reg - k)) % M)
    [] o = "divu" -> IF y = 0 THEN 0 ELSE x \div y
    [] o = "remu" -> IF y = 0 THEN 0 ELSE x % y
WasmCmp(o, x, y) ==
  LET sx == IF o \in {"lts", "gts", "les", "ges"} THEN Signed(x) ELSE x
      sy == IF o \in {"lts", "gts", "les", "ges"} THEN Signed(y) ELSE y
      r == CASE o = "eq" -> x = y
             [] o = "ne" -> x # y
             [] o \in {"ltu", "lts"} -> sx < sy
             [] o \in {"gtu", "gts"} -> sx > sy
             [] o \in {"leu", "les"} -> sx <= sy
             [] o \in {"geu", "ges"} -> sx >= sy
  IN  IF r THEN 1 ELSE 0

BinOps == {"add", "sub", "mul", "and", "or", "xor", "shl", "shru", "shrs", "rotl", "rotr", "divu", "remu"}
CmpOps == {"eq", "ne", "ltu", "gtu", "leu", "geu", "lts", "gts", "les", "ges"}

IntBin(o, i, j) ==
  /\ Call("int_bin", {i, j}) /\ InPlace /\ o \in plan.ops /\ Supported(o, vals[i], vals[j])
  /\ \E r \in {NativeInt(s, LAMBDA q : IntBinImpl(q, o, vals[i], vals[j]))} :
     Yield(r.s, IntVal(r.v, Map2(LAMBDA x, y : WasmBin(o, x, y), i, j)))
  /\ Accept(LAMBDA x : o \in {"divu", "remu"} => D(j, x) # 0)

\* a fresh comparison wire is remembered with its operands
IntCmp(o, i, j) ==
  /\ Call("int_cmp", {i, j}) /\ InPlace /\ UNCHANGED want
  /\ o \in plan.ops /\ (vals[i].sym \/ vals[j].sym)
  /\ \E r \in {NativeInt(s, LAMBDA q : IntCmpImpl(q, o, vals[i], vals[j]))} :
     Yield(IF r.fact = None THEN r.s ELSE [r.s EXCEPT !.facts = With(@, Len(vals) + 1, The(r.fact))],
           IntVal(r.v, Map2(LAMBDA x, y : WasmCmp(o, x, y), i, j)))

Not(i) ==
  /\ Call("not", {i}) /\ InPlace /\ UNCHANGED want
  /\ LET r == NotImpl(s, vals[i]) IN Yield(r.s, IntVal(r.v, Map1(LAMBDA x : 1 - x, i)))

BoolOp(o, i, j) ==
  /\ Call("bool_op", {i, j}) /\ InPlace /\ UNCHANGED want
  /\ vals[i].sym \/ vals[j].sym
  /\ \E r \in {BoolOpImpl(s, o, vals[i], vals[j])} :
     Yield(r.s, IntVal(r.v, Map2(LAMBDA x, y : WasmBin(o, x, y), i, j)))

\* a value of at most `width` bits, sign-extended to the register
SignExtendOp(i, width) ==
  /\ Call("sign_extend", {i}) /\ InPlace /\ UNCHANGED want
  /\ vals[i].sym /\ vals[i].w <= width
  /\ \E r \in {SignExtend(s, vals[i], width, Reg)} :
     Yield(r.s, IntVal(r.v, Map1(LAMBDA x : IF x >= 2^(width-1) THEN x + M - 2^width ELSE x, i)))

IntTruncOp(i, bits) ==
  /\ Call("int_trunc", {i}) /\ InPlace /\ UNCHANGED want /\ vals[i].sym
  /\ \E r \in {IntTrunc(s, vals[i], bits)} : Yield(r.s, IntVal(r.v, Map1(LAMBDA x : x % 2^bits, i)))

\* a select on a wire
Select(c, i, j) ==
  /\ Call("select", {c, i, j}) /\ InPlace /\ UNCHANGED want
  /\ LET r == MuxBySym(s, c, vals[c].l, vals[i].l, vals[j].l)
         w == Widest(vals[i], vals[j])
     IN  Yield(r.s, IntVal(Wire(r.l, w), [x \in Inputs |-> IF D(c, x) = 1 THEN D(i, x) ELSE D(j, x)]))

\* index_form: every value of the pointer is among the candidates
IndexForm(i) ==
  /\ Call("index_form", {i}) /\ InPlace /\ UNCHANGED want /\ vals[i].sym
  /\ \E f \in {IndexFormImpl(s, vals[i])} :
     /\ f # None
     /\ Yield(The(f).s, [IntVal(The(f).v, Map1(LAMBDA x : IF x - The(f).base \in The(f).offsets
                                                          THEN x - The(f).base ELSE P, i)) EXCEPT !.on = @])

\* a bug: a bound required in an arm is learnt for the whole circuit
RequireCondLearnt(c, value) ==
  /\ Call("require_cond", {c}) /\ InPlace
  /\ LET s1 == RequireGated(s, vals[c].l, IF value THEN One ELSE Zero) IN
     s' = IF c \in DOMAIN s.facts THEN LearnBound(s1, s.facts[c], value) ELSE s1
  /\ Accept(LAMBDA x : D(c, x) = (IF value THEN 1 ELSE 0))
  /\ fresh' = 0 /\ UNCHANGED vals
\* `cond == value` is required: a trap on the other side
RequireCond(c, value) ==
  /\ Call("require_cond", {c}) /\ InPlace
  /\ LET s1 == RequireGated(s, vals[c].l, IF value THEN One ELSE Zero) IN
     s' = IF ~InArm /\ ~s.wonly /\ c \in DOMAIN s.facts THEN LearnBound(s1, s.facts[c], value) ELSE s1
  /\ Accept(LAMBDA x : D(c, x) = (IF value THEN 1 ELSE 0))
  /\ fresh' = 0 /\ UNCHANGED vals

ArmBegin(c, value) ==
  /\ Call("arm", {c}) /\ UNCHANGED <<plan, vals, want, ids, out>>
  /\ s' = [s EXCEPT !.guards = Append(@, [lit |-> IF value THEN vals[c].l ELSE Sub(One, vals[c].l), g |-> None])]
  /\ arms' = Append(arms, [on |-> {x \in Taken : D(c, x) = (IF value THEN 1 ELSE 0)},
                           cond |-> c, value |-> value, from |-> Len(vals)])
  /\ fresh' = 0

\* the arm ends: its values are out of scope, one of them leaves through the merge's select
ArmEnd(i, j) ==
  /\ out.at = "open" /\ arms # << >> /\ step = Len(plan.script)
  /\ LET arm == arms[Len(arms)]
         outer == IF Len(arms) = 1 THEN Inputs ELSE arms[Len(arms) - 1].on
         s1 == [s EXCEPT !.guards = Front(@)]
         t == IF arm.value THEN vals[i] ELSE vals[j]
         e == IF arm.value THEN vals[j] ELSE vals[i]
         r == MuxBySym(s1, arm.cond, vals[arm.cond].l, t.l, e.l)
         den == [x \in Inputs |-> IF x \in arm.on THEN D(i, x) ELSE D(j, x)]
     IN  /\ i > arm.from /\ j <= arm.from
         /\ arms' = Front(arms) /\ s' = r.s
         /\ vals' = Append([k \in DOMAIN vals |-> IF k > arm.from THEN [vals[k] EXCEPT !.on = {}] ELSE vals[k]],
                           [l |-> r.l, w |-> Max({t.w, e.w}), sym |-> TRUE, int |-> TRUE, den |-> den, on |-> outer])
         /\ fresh' = Len(vals) + 1
  /\ UNCHANGED <<plan, want, step, ids, out>>
\* an arm nothing leaves
ArmDrop ==
  /\ out.at = "open" /\ arms # << >> /\ step = Len(plan.script)
  /\ LET arm == arms[Len(arms)] IN
     vals' = [k \in DOMAIN vals |-> IF k > arm.from THEN [vals[k] EXCEPT !.on = {}] ELSE vals[k]]
  /\ s' = [s EXCEPT !.guards = Front(@)] /\ arms' = Front(arms)
  /\ fresh' = 0 /\ UNCHANGED <<plan, want, step, ids, out>>

----------------------------------------------------------------------------
(* Finishing.                                                                *)

LcVars(r) == DOMAIN r.a.t \cup DOMAIN r.b.t \cup DOMAIN r.c.t
Referenced(rows) == UNION {LcVars(rows[i]) : i \in DOMAIN rows}

Ascending(S) == [i \in 1..Cardinality(S) |-> CHOOSE v \in S : Cardinality({u \in S : u < v}) = i - 1]
\* merged products a row still reads get their row and their witness op back
ReviveSet(q) == DOMAIN q.merged \cap Referenced(q.rows)
Revive(q) ==
  LET rows == FoldLeft(LAMBDA acc, v : LET r == q.rows[q.merged[v]] IN
                                       Append(acc, [a |-> r.a, b |-> r.b, c |-> Var(v)]),
                       q.rows, Ascending(ReviveSet(q)))
  IN  [q EXCEPT !.rows = rows]

\* fill_products: the deferred product ops, from their rows
FillProducts(q) ==
  LET keep == SelectSeq(q.gen, LAMBDA o : o.op # "defer" \/ o.out \notin DOMAIN q.merged \ ReviveSet(q)) IN
  [i \in DOMAIN keep |-> IF keep[i].op = "defer"
                         THEN [op |-> "product", out |-> keep[i].out,
                               a |-> q.rows[keep[i].row].a, b |-> q.rows[keep[i].row].b]
                         ELSE keep[i]]
Outs(o) == {o.out} \cup (IF o.op = "divrem" THEN {o.out2} ELSE {})
Reads(o) == DOMAIN o.a.t \cup (IF o.op \in {"product", "xor", "or", "divrem"} THEN DOMAIN o.b.t ELSE {})

\* witness-only ops no row needs, transitively, are dropped
DropDead(q, gen) ==
  LET live == FoldRight(LAMBDA o, acc : IF Outs(o) \cap acc = {} THEN acc ELSE acc \cup Outs(o) \cup Reads(o),
                        gen, Referenced(q.rows))
  IN  IF q.wvars = {} THEN gen
      ELSE SelectSeq(gen, LAMBDA o : ~(Outs(o) \cap q.wvars # {} /\ Outs(o) \cap live = {}))

\* renumber_inputs: the inputs become variables 1..N, the rest keep their order
Renumber(q) ==
  LET others == (1..q.nv) \ {ids[k] : k \in 1..N} IN
  [v \in 1..q.nv |-> IF v \in others THEN N + Cardinality({u \in others : u <= v})
                     ELSE CHOOSE k \in 1..N : ids[k] = v]
MapLc(l, m) == [k |-> l.k, t |-> [v \in {m[u] : u \in DOMAIN l.t} |-> l.t[CHOOSE u \in DOMAIN l.t : m[u] = v]]]
MapRow(r, m) == [a |-> MapLc(r.a, m), b |-> MapLc(r.b, m), c |-> MapLc(r.c, m)]

\* check_pinning: every hint is in some row
Pinned(q, rows) == q.hints \subseteq Referenced(rows) \cup q.wvars

MapOp(o, m) == [x \in DOMAIN o |-> IF x \in {"a", "b"} THEN MapLc(o[x], m)
                                   ELSE IF x \in {"out", "out2"} THEN m[o[x]] ELSE o[x]]

\* the witness program on one input (crates/ir/src/solver.rs); empty when an op has no value
Assign(a, v, x) == [a EXCEPT ![v] = x]
InverseMod(x) == IF x = 0 THEN 0 ELSE CHOOSE z \in 1..P-1 : (x * z) % P = 1
RunOp(acc, o) ==
  LET a == The(acc)
      x == Eval(o.a, a)
      y == Eval(o.b, a)
  IN  IF acc = None THEN None
      ELSE CASE o.op = "product" -> Some(Assign(a, o.out, (x * y) % P))
             [] o.op = "linear" -> Some(Assign(a, o.out, x))
             [] o.op = "xor" -> Some(Assign(a, o.out, (x + y - 2 * x * y) % P))
             [] o.op = "or" -> Some(Assign(a, o.out, (x + y - x * y) % P))
             [] o.op = "bit" -> Some(Assign(a, o.out, (x \div 2^(o.i)) % 2))
             [] o.op = "invz" -> Some(Assign(a, o.out, InverseMod(x)))
             [] o.op = "inv" -> IF x = 0 THEN None ELSE Some(Assign(a, o.out, InverseMod(x)))
             [] o.op = "divrem" -> IF y = 0 THEN None
                                   ELSE Some(Assign(Assign(a, o.out, x \div y), o.out2, x % y))
Solve(gen, n, x) == FoldLeft(RunOp, Some([v \in 1..n |-> IF v <= N THEN x[v] ELSE 0]), gen)

Holds(r, a) == (Eval(r.a, a) * Eval(r.b, a)) % P = Eval(r.c, a)

\* every assignment of the inputs and the referenced variables that satisfies the rows:
\* the variables are enumerated in an order in which rows are completed early
RECURSIVE SolveOrder(_, _, _)
SolveOrder(rows, done, rest) ==
  LET last == {v \in rest : \E i \in DOMAIN rows : LcVars(rows[i]) \ done = {v} /\ LcVars(rows[i]) # {v}}
      bools == {v \in rest : \E i \in DOMAIN rows : LcVars(rows[i]) = {v}}
      v == Min(IF last # {} THEN last ELSE IF bools # {} THEN bools ELSE rest)
  IN  IF rest = {} THEN << >> ELSE <<v>> \o SolveOrder(rows, done \cup {v}, rest \ {v})
\* the values of v row r allows beside the others of a: one, when r is linear in v
Gap(r, a) == (Eval(r.a, a) * Eval(r.b, a) - Eval(r.c, a)) % P
Allowed(r, v, a) ==
  LET g == Gap(r, [a EXCEPT ![v] = 0])
      slope == (Gap(r, [a EXCEPT ![v] = 1]) - g) % P
  IN  IF slope # 0 THEN {(-g * InverseMod(slope)) % P} ELSE IF g = 0 THEN 0..P-1 ELSE {}
RECURSIVE Extend(_, _, _, _)
Extend(rows, S, done, order) ==
  IF order = << >> THEN S
  ELSE LET v == Head(order)
           now == done \cup {v}
           at == {r \in rows : v \in LcVars(r) /\ LcVars(r) \subseteq now}
           linear == {r \in at : v \notin DOMAIN r.a.t \cap DOMAIN r.b.t}
           Tried(a) == IF linear = {} THEN 0..P-1 ELSE Allowed(The(linear), v, a)
           T == {b \in UNION {{[a EXCEPT ![v] = x] : x \in Tried(a)} : a \in S} : \A r \in at : Holds(r, b)}
       IN  Extend(rows, T, now, Tail(order))
Solutions(rows, n) ==
  LET R == {rows[i] : i \in DOMAIN rows} IN
  IF \E r \in R : LcVars(r) = {} /\ ~Holds(r, << >>) THEN {}
  ELSE Extend(R, {[v \in 1..n |-> 0]}, {}, SolveOrder(rows, {}, Referenced(rows) \cup (1..N)))

Finish ==
  /\ out.at = "open" /\ arms = << >> /\ step = Len(plan.script)
  /\ LET q == Revive(s)
         gen == DropDead(q, FillProducts(s))
         m == Renumber(s)
         rows == [i \in DOMAIN q.rows |-> MapRow(q.rows[i], m)]
     IN  out' = IF Pinned(s, q.rows)
                THEN [at |-> "done", rows |-> rows, gen |-> [i \in DOMAIN gen |-> MapOp(gen[i], m)],
                      map |-> m, bound |-> Referenced(rows) \cup (1..N), sols |-> Solutions(rows, s.nv)]
                ELSE [at |-> "unpinned"]
  /\ UNCHANGED <<plan, s, vals, want, arms, step, fresh, ids>>

Next ==
  \/ \E i, j \in Fields : AddOrSub("add", i, j) \/ AddOrSub("sub", i, j) \/ Mul(i, j)
                          \/ XorOr("fxor", i, j) \/ XorOr("for", i, j) \/ FieldEq(i, j)
                          \/ RequireEq(i, j) \/ FieldUlt(i, j, Reg)
  \/ \E i \in Fields : Neg(i) \/ Pow(i, 3) \/ Pow(i, 5) \/ Bind(i) \/ InverseOf(i) \/ WitnessRegion(i)
                       \/ HintedBits(i, Reg)
                       \/ \E n \in {1, Reg, SmallBits} : ToBits(i, n) \/ FieldToUint(i, n)
  \/ \E i \in Ints : BoolToField(i) \/ IndexForm(i) \/ \E n \in 1..Reg : SignExtendOp(i, n) \/ IntTruncOp(i, n)
  \/ \E i, j \in Ints : (\E o \in BinOps : IntBin(o, i, j)) \/ (\E o \in CmpOps : IntCmp(o, i, j))
  \/ \E i \in Wires : Not(i) \/ \E b \in BOOLEAN : RequireCond(i, b) \/ ArmBegin(i, b)
  \/ \E i, j \in Bools, o \in {"and", "or", "xor"} : BoolOp(o, i, j)
  \/ \E c \in Wires, i, j \in Ints : Select(c, i, j)
  \/ \E i, j \in Ints : ArmEnd(i, j)
  \/ ArmDrop
  \/ Finish

Spec == Init /\ [][Next]_vars

----------------------------------------------------------------------------
(* What the emitted circuit must be.                                         *)

\* a solution's inputs, and the solution in the builder's numbering
In(a) == [k \in 1..N |-> a[k]]
Back(o, a) == [v \in 1..s.nv |-> a[o.map[v]]]
Visible(o, l) == \A v \in DOMAIN l.t : o.map[v] \in o.bound
\* a step that finishes the circuit o
Finishes(o) == out.at = "open" /\ o.at = "done"

SoundIn(o) ==
  \A a \in o.sols :
    /\ In(a) \in want
    /\ \A i \in Live : In(a) \in vals[i].on /\ Visible(o, vals[i].l)
                      => Eval(vals[i].l, Back(o, a)) = D(i, In(a))
\* No prover can cheat: whatever satisfies the rows a circuit is finished with has inputs
\* the program accepts, and every value the program can still read has in it the value the
\* program computes (rows dropped by merging, reuse, truncation or guards included).
Sound == [][Finishes(out') => SoundIn(out')]_out

CompleteIn(o) ==
  \A x \in want : LET r == Solve(o.gen, s.nv, x) IN
    r # None /\ \A i \in DOMAIN o.rows : Holds(o.rows[i], The(r))
\* The honest prover succeeds: on every input the program accepts, the witness program
\* computes an assignment that satisfies every emitted row.
Complete == [][Finishes(out') => CompleteIn(out')]_out

DeterminedIn(o) == Cardinality({In(a) : a \in o.sols}) = Cardinality(o.sols)
\* The honest prover has one witness and it satisfies the rows: the inputs decide every
\* variable a row reads, hints of untaken arms included (finish, host.rs hints; what the
\* under-constraint gate of `xark prove` demands).
HonestWitness == [][Finishes(out') => CompleteIn(out') /\ DeterminedIn(out')]_out

FactsIn(o) ==
  /\ \A a \in o.sols : LET e == Back(o, a) IN
       /\ \A v \in s.boolv : Visible(o, Var(v)) => e[v] \in {0, 1}
       /\ \A v \in DOMAIN s.width : Visible(o, Var(v)) => e[v] < 2^(s.width[v])
       /\ \A v \in DOMAIN s.vmax : Visible(o, Var(v)) => e[v] <= s.vmax[v]
       /\ \A i \in Live : vals[i].int /\ Visible(o, vals[i].l) /\ In(a) \in vals[i].on
                         => Eval(vals[i].l, e) < 2^(vals[i].w)
  /\ \A k \in DOMAIN s.cache :
       LET l == k[1]
           bits == s.cache[k]
           shown == {i \in DOMAIN bits : Visible(o, bits[i])}
           sum == Recompose(bits)
       IN  Visible(o, l) => \A a \in o.sols : LET e == Back(o, a) IN
             /\ \A i \in shown : Eval(bits[i], e) \in {0, 1}
             /\ Eval(sum, e) = Eval(l, e)
\* What the builder remembers is true in every solution: booleans, widths, learnt bounds,
\* cached and computed bits.
FactsHold == [][Finishes(out') => FactsIn(out')]_out
=============================================================================
