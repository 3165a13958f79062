----------------------------- MODULE CircuitEval -----------------------------
(***************************************************************************)
(* What is done with a decoded circuit: the witness solver (crates/ir/src/ *)
(* solver.rs), flat, levelled and compiled per template; the constraint    *)
(* check and the under-constraint analyzer, over expressions, over rows    *)
(* and streamed; the reduction of the templates for the keys and its       *)
(* evaluation and transposed evaluation (function_decode.rs).              *)
(*                                                                         *)
(* The field has P elements.  An assignment is a function on the variables *)
(* set so far; another variable reads as 0.  The FakeGlv hint is not       *)
(* modelled (a lattice reduction over 256-bit numbers).                    *)
(***************************************************************************)
EXTENDS Artifact

CONSTANTS P,            \* the field's modulus, a prime
          MaxProducts,  \* MAX_PRODUCTS of to_primitive, scaled
          WideLevel     \* PAR_LEVEL: a narrower level runs inline

ASSUME EvalAssumption ==
  /\ P \in Nat \ {0, 1} /\ MaxProducts \in Nat /\ WideLevel \in Nat
  /\ \A v \in 1..(P - 1) : \E y \in 1..(P - 1) : (v * y) % P = 1

InverseTable == [v \in 1..(P - 1) |-> CHOOSE y \in 1..(P - 1) : (v * y) % P = 1]
InverseOrZero(v) == IF v = 0 THEN 0 ELSE InverseTable[v]

Get(z, v) == IF v \in DOMAIN z THEN z[v] ELSE 0
RECURSIVE SumSeq(_)
SumSeq(s) == IF s = <<>> THEN 0 ELSE Head(s) + SumSeq(Tail(s))

EvalLc(l, z) == (l.k + SumSeq([i \in DOMAIN l.ts |-> (l.ts[i][1] % P) * Get(z, l.ts[i][2])])) % P
RowValues(row, z) == [m \in 1..3 |-> EvalLc(RowLcs(row)[m], z)]
RowSatisfied(row, z) == LET v == RowValues(row, z) IN (v[1] * v[2] - v[3]) % P = 0

(******************************* witness ops *******************************)
Bit(v, i) == (v \div 2 ^ i) % 2
Limb(v, bits, i) == (v \div 2 ^ (bits * i)) % 2 ^ bits
Recompose(vs, bits) == SumSeq([i \in DOMAIN vs |-> vs[i] * 2 ^ (bits * (i - 1))])
RECURSIVE PowMod(_, _, _)
PowMod(b, e, m) == IF e = 0 THEN 1 % m ELSE (b * PowMod(b, e - 1, m)) % m

Failed == [ok |-> FALSE, outs |-> <<>>]
Outs(vs) == [ok |-> TRUE, outs |-> [i \in DOMAIN vs |-> vs[i] % P]]

\* exec_witness_op: the values of op's outputs, in order, every LC through E
ExecWitnessOp(op, E(_)) ==
  LET in(g) == [j \in DOMAIN op.lcs[g] |-> E(op.lcs[g][j])]
      a == in(1)
      b == in(2)
      limbs(v, n) == [i \in 1..n |-> Limb(v, op.imm, i - 1)] IN
  CASE op.kind = "Product" -> Outs(<<a[1] * b[1]>>)
    [] op.kind = "Linear" -> Outs(<<a[1]>>)
    [] op.kind = "Xor" -> Outs(<<a[1] + b[1] - 2 * a[1] * b[1]>>)
    [] op.kind = "Or" -> Outs(<<a[1] + b[1] - a[1] * b[1]>>)
    [] op.kind \in {"Inverse", "InverseOrZero"} -> Outs(<<InverseOrZero(a[1])>>)
    [] op.kind = "Bit" -> Outs(<<Bit(a[1], op.imm)>>)
    [] op.kind = "Bits" -> Outs([i \in DOMAIN op.ids[1] |-> Bit(a[1], i - 1)])
    [] op.kind = "DivRem" -> IF b[1] = 0 THEN Failed ELSE Outs(<<a[1] \div b[1], a[1] % b[1]>>)
    [] op.kind = "MulModDivMod" ->
         LET m == Recompose(in(3), op.imm)
             p == Recompose(a, op.imm) * Recompose(b, op.imm) IN
         IF m = 0 THEN Failed ELSE Outs(limbs(p \div m, Len(op.ids[1])) \o limbs(p % m, Len(op.ids[2])))
    [] op.kind = "ModInverse" ->
         LET m == Recompose(b, op.imm)
             r == Recompose(a, op.imm) % m IN
         IF m < 2 THEN Failed ELSE IF r = 0 THEN Failed ELSE Outs(limbs(PowMod(r, m - 2, m), Len(op.ids[1])))
    [] op.kind = "Sub2" ->
         LET m == Recompose(in(4), op.imm)
             s == Recompose(a, op.imm) + 2 * m - Recompose(b, op.imm) - Recompose(in(3), op.imm) IN
         IF m = 0 THEN Failed ELSE IF s < 0 \/ s \div m > 2 THEN Failed
         ELSE Outs(<<2 - s \div m>> \o limbs(s % m, Len(op.ids[2])))

OutIds(op) == Cat(op.ids)
Put(z, ids, vs) ==
  LET at(v) == {i \in DOMAIN ids : ids[i] = v} IN
  [v \in DOMAIN z \cup {ids[i] : i \in DOMAIN ids} |-> IF at(v) = {} THEN z[v] ELSE vs[MaxOf(at(v))]]

Solved(z) == [ok |-> TRUE, z |-> z]
Unsolved == [ok |-> FALSE]

\* solve_witness_sequential
RECURSIVE SolveSequential(_, _)
SolveSequential(ops, z) ==
  IF ops = <<>> THEN Solved(z) ELSE
  LET r == ExecWitnessOp(Head(ops), LAMBDA l : EvalLc(l, z)) IN
  IF r.ok THEN SolveSequential(Tail(ops), Put(z, OutIds(Head(ops)), r.outs)) ELSE Unsolved

\* a bug: an op's level ignores the ops it reads through its second LC on
LevelsFirstLc(ops) ==
  LET lv[i \in 0..Len(ops)] ==
        IF i = 0 THEN 0 ELSE
        LET reads == {LcVars(AllLcs(ops[i])[1])[j] : j \in DOMAIN LcVars(AllLcs(ops[i])[1])}
            from == {j \in 1..(i - 1) : OutsOf(ops[j]) \cap reads # {}} IN
        IF from = {} THEN 0 ELSE 1 + MaxOf({lv[j] : j \in from}) IN
  [i \in DOMAIN ops |-> lv[i]]

\* an op's level is one more than those of the last writers of what it reads
Levels(ops) ==
  LET lv[i \in 0..Len(ops)] ==
        IF i = 0 THEN 0 ELSE
        LET writers(v) == {j \in 1..(i - 1) : v \in OutsOf(ops[j])}
            from == {MaxOf(writers(v)) : v \in {v \in ReadsOf(ops[i]) : writers(v) # {}}} IN
        IF from = {} THEN 0 ELSE 1 + MaxOf({lv[j] : j \in from}) IN
  [i \in DOMAIN ops |-> lv[i]]

\* solve_witness_parallel: a wide level reads the assignment before the level
SolveParallel(ops, z0) ==
  LET lv == Levels(ops)
      top == IF ops = <<>> THEN 0 ELSE MaxOf({lv[i] : i \in DOMAIN lv})
      at(n) == SelectSeq([i \in DOMAIN ops |-> i], LAMBDA i : lv[i] = n)
      level(r, n) ==
        LET is == at(n)
            es == [i \in DOMAIN is |-> ExecWitnessOp(ops[is[i]], LAMBDA l : EvalLc(l, r.z))] IN
        IF ~r.ok THEN r
        ELSE IF Len(is) < WideLevel THEN SolveSequential([i \in DOMAIN is |-> ops[is[i]]], r.z)
        ELSE IF \E i \in DOMAIN es : ~es[i].ok THEN Unsolved
        ELSE Solved(Put(r.z, Cat([i \in DOMAIN is |-> OutIds(ops[is[i]])]), Cat([i \in DOMAIN is |-> es[i].outs])))
      f[n \in 0..(top + 1)] == IF n = 0 THEN Solved(z0) ELSE LET r == f[n - 1] IN level(r, n - 1) IN
  f[top + 1]

(************************* compiled witness templates **********************)
VRef(t, n) == [t |-> t, n |-> n]
TopDef == [base |-> -1, plugs |-> <<>>]
\* resolve: a repeated plug names its last expression
Resolve(v, def) ==
  LET ps == {i \in DOMAIN def.plugs : def.plugs[i] = v} IN
  IF def.base = -1 THEN VRef("Global", v)
  ELSE IF v >= def.base THEN VRef("Internal", v - def.base)
  ELSE IF ps # {} THEN VRef("Plug", MaxOf(ps)) ELSE VRef("Global", v)
ResolveLc(l, def) == Lc(l.k % P, [i \in DOMAIN l.ts |-> <<l.ts[i][1] % P, Resolve(l.ts[i][2], def)>>])
ResolveOp(op, def) ==
  [op EXCEPT !.ids = [g \in DOMAIN op.ids |-> [i \in DOMAIN op.ids[g] |-> Resolve(op.ids[g][i], def)]],
             !.lcs = [g \in DOMAIN op.lcs |-> [j \in DOMAIN op.lcs[g] |-> ResolveLc(op.lcs[g][j], def)]]]
ResolveCall(it, def) ==
  [call |-> TRUE, def |-> it.def + 1, base |-> Resolve(it.base, def),
   plugs |-> [i \in DOMAIN it.plugs |-> ResolveLc(it.plugs[i], def)]]

\* w_items: op reads the same input as the Bit before it, which cannot change it
SameInput(prev, op, def) ==
  /\ prev.kind = "Bit" /\ op.kind = "Bit" /\ prev.lcs = op.lcs
  /\ \A i \in DOMAIN op.lcs[1][1].ts :
       LET r == op.lcs[1][1].ts[i][2] IN r # prev.ids[1][1] /\ (def = TopDef \/ r.t # "Global")

CompileW(items, def) ==
  LET flat == Cat([i \in DOMAIN items |->
                IF items[i].call THEN <<ResolveCall(items[i], def)>>
                ELSE [j \in DOMAIN items[i].ops |-> [call |-> FALSE, op |-> ResolveOp(items[i].ops[j], def)]]]) IN
  SubSeq([i \in DOMAIN flat |->
    IF flat[i].call THEN flat[i]
    ELSE [call |-> FALSE, op |-> flat[i].op,
          same |-> i > 1 /\ ~flat[i - 1].call /\ SameInput(flat[i - 1].op, flat[i].op, def)]], 1, Len(flat))

\* escapes: an op under template d writes something other than d's internals
RECURSIVE Escapes(_, _)
Escapes(defs, d) ==
  \E i \in DOMAIN defs[d] :
    LET it == defs[d][i] IN
    IF it.call THEN it.base.t # "Internal" \/ Escapes(defs, it.def)
    ELSE \E j \in DOMAIN OutIds(it.op) : OutIds(it.op)[j].t # "Internal"

CompileProgram(core) ==
  LET defs == SubSeq([d \in DOMAIN core.defs |-> CompileW(core.defs[d].w, core.defs[d])], 1, Len(core.defs)) IN
  [defs |-> defs, escapes |-> [d \in DOMAIN defs |-> Escapes(defs, d)], top |-> CompileW(core.topw, TopDef)]

\* a frame: the base of the fresh internals, the plugs over absolute variables,
\* and their values when fixed
RECURSIVE FrameLc(_, _, _)
FrameVar(f, r, z) ==
  CASE r.t = "Internal" -> Get(z, f.base + r.n)
    [] r.t = "Global" -> Get(z, r.n)
    [] OTHER -> IF f.fixed THEN f.vals[r.n] ELSE FrameLc(f, f.plugs[r.n], z)
FrameLc(f, l, z) == (l.k + SumSeq([i \in DOMAIN l.ts |-> l.ts[i][1] * FrameVar(f, l.ts[i][2], z)])) % P
FrameOut(f, r) == IF r.t = "Internal" THEN f.base + r.n ELSE r.n

\* WFrame::absolute: an LC of this frame over absolute variables
Absolute(f, l) ==
  LET part(t) ==
        IF t[2].t # "Plug" THEN Lc(0, << <<t[1], VRef("Global", FrameOut(f, t[2]))>> >>)
        ELSE IF f.fixed THEN Lc(f.vals[t[2].n] * t[1], <<>>)
        ELSE LET p == f.plugs[t[2].n] IN Lc(p.k * t[1], [i \in DOMAIN p.ts |-> <<(p.ts[i][1] * t[1]) % P, p.ts[i][2]>>])
      ps == [i \in DOMAIN l.ts |-> part(l.ts[i])] IN
  Lc((l.k + SumSeq([i \in DOMAIN ps |-> ps[i].k])) % P, Cat([i \in DOMAIN ps |-> ps[i].ts]))

\* WFrame::call
CallFrame(f, it, escapes, z) ==
  LET base == FrameOut(f, it.base)
      plugs == [i \in DOMAIN it.plugs |-> Absolute(f, it.plugs[i])]
      g == [base |-> base, plugs |-> plugs, fixed |-> FALSE, vals |-> <<>>]
      fixed == ~escapes /\ \A i \in DOMAIN plugs : \A j \in DOMAIN plugs[i].ts :
                 plugs[i].ts[j][2].t = "Global" /\ plugs[i].ts[j][2].n < base IN
  IF fixed THEN [g EXCEPT !.fixed = TRUE, !.vals = [i \in DOMAIN plugs |-> FrameLc(g, plugs[i], z)]] ELSE g

NoLast == -1
\* run: the items of a frame in order; a carried Bit reuses the last value
RECURSIVE RunCompiled(_, _, _, _, _)
RunCompiled(prog, items, f, z, last) ==
  IF items = <<>> THEN Solved(z) ELSE
  LET it == Head(items)
      carried == last # NoLast /\ it.same /\ f.fixed
      inner == CallFrame(f, it, prog.escapes[it.def], z)
      sub == RunCompiled(prog, prog.defs[it.def], inner, z, NoLast)
      r == ExecWitnessOp(it.op, LAMBDA l : IF carried THEN last ELSE FrameLc(f, l, z)) IN
  IF it.call THEN IF sub.ok THEN RunCompiled(prog, Tail(items), f, sub.z, last) ELSE Unsolved
  ELSE IF ~r.ok THEN Unsolved
  ELSE LET ls == AllLcs(it.op)
           ids == OutIds(it.op) IN
       RunCompiled(prog, Tail(items), f, Put(z, [i \in DOMAIN ids |-> FrameOut(f, ids[i])], r.outs),
                   IF carried THEN last ELSE FrameLc(f, ls[Len(ls)], z))

\* eval::solve_witness from the inputs' values
SolveCompiled(core, z0) ==
  LET prog == CompileProgram(core) IN
  RunCompiled(prog, prog.top, [base |-> 0, plugs |-> <<>>, fixed |-> TRUE, vals |-> <<>>], z0, NoLast)

-----------------------------------------------------------------------------
(* Analysis: the three views the under-constraint analyzer has of one      *)
(* circuit (its expressions, its R1CS rows, the streamed templates), the   *)
(* build's faithfulness gate, and the reduction of the templates.          *)

(****************************** expressions ********************************)
\* expr_from_r1cs: a * b - c multiplied out
ExprFromR1cs(a, b, c) ==
  LET scale(ts, m) == [i \in DOMAIN ts |-> <<ts[i][1] * m, ts[i][2]>>]
      l == SimplifyTerms(a.k * b.k - c.k, scale(a.ts, b.k) \o scale(b.ts, a.k) \o scale(c.ts, -1)) IN
  [k |-> l.k, lin |-> l.ts,
   mul |-> Cat([i \in DOMAIN a.ts |-> [j \in DOMAIN b.ts |-> <<a.ts[i][1] * b.ts[j][1], a.ts[i][2], b.ts[j][2]>>]])]

ExprVars(e) == {e.lin[i][2] : i \in DOMAIN e.lin} \cup UNION {{e.mul[i][2], e.mul[i][3]} : i \in DOMAIN e.mul}
EvalExpression(e, z) ==
  (e.k + SumSeq([i \in DOMAIN e.lin |-> (e.lin[i][1] % P) * Get(z, e.lin[i][2])])
     + SumSeq([i \in DOMAIN e.mul |-> (((e.mul[i][1] % P) * Get(z, e.mul[i][2])) % P) * Get(z, e.mul[i][3])])) % P

\* to_primitive: a row of too many products names its larger side; prog is
\* [vars, rows, wits]
ToPrimitive(prog) ==
  LET next == IF prog.vars = <<>> THEN 0 ELSE MaxOf({prog.vars[i].id : i \in DOMAIN prog.vars}) + 1
      step(acc, row) ==
        LET l == RowLcs(row)
            big == IF Len(l[1].ts) >= Len(l[2].ts) THEN l[1] ELSE l[2]
            small == IF Len(l[1].ts) >= Len(l[2].ts) THEN l[2] ELSE l[1]
            t == acc.next
            side == IF small.ts = big.ts THEN Lc(small.k - big.k, << <<1, t>> >>) ELSE small IN
        IF Len(l[1].ts) * Len(l[2].ts) <= MaxProducts
        THEN [acc EXCEPT !.exprs = Append(@, ExprFromR1cs(l[1], l[2], l[3]))]
        ELSE [acc EXCEPT !.next = @ + 1,
                         !.vars = Append(@, [id |-> t, role |-> "Derived"]),
                         !.wits = Append(@, Op("Linear", << <<t>> >>, << <<big>> >>, 0, NoNote)),
                         !.extra = Append(@, ExprFromR1cs(big, Lc(1, <<>>), LcVar(t))),
                         !.exprs = Append(@, ExprFromR1cs(LcVar(t), side, l[3]))]
      f[i \in 0..Len(prog.rows)] ==
        IF i = 0 THEN [next |-> next, vars |-> prog.vars, wits |-> prog.wits, extra |-> <<>>, exprs |-> <<>>]
        ELSE LET q == f[i - 1] IN step(q, prog.rows[i])
      r == f[Len(prog.rows)] IN
  [vars |-> r.vars, wits |-> r.wits, exprs |-> r.exprs \o r.extra]

(************************ univariate reductions ****************************)
Coeff(l, v) == SumSeq([i \in DOMAIN l.ts |-> IF l.ts[i][2] = v THEN l.ts[i][1] % P ELSE 0]) % P
\* univariate_r1cs: <<A, B, C>> of A v^2 + B v + C, the rest at z
UnivariateR1cs(row, v, z) ==
  LET l == RowLcs(row)
      av == Coeff(l[1], v)
      bv == Coeff(l[2], v)
      cv == Coeff(l[3], v)
      rest(m) == EvalLc(Lc(l[m].k, SelectSeq(l[m].ts, LAMBDA t : t[2] # v)), z) IN
  << (av * bv) % P, (av * rest(2) + rest(1) * bv - cv) % P, (rest(1) * rest(2) - rest(3)) % P >>

\* univariate_r1cs_row: from one evaluation, less v's own share
UnivariateR1csRow(row, v, z) ==
  LET l == RowLcs(row)
      full == RowValues(row, z)
      x == Get(z, v)
      rest(m) == (full[m] - Coeff(l[m], v) * x) % P
      av == Coeff(l[1], v)
      bv == Coeff(l[2], v) IN
  << (av * bv) % P, (av * rest(2) + rest(1) * bv - Coeff(l[3], v)) % P, (rest(1) * rest(2) - rest(3)) % P >>

\* univariate, of an expression
Univariate(e, v, z) ==
  LET sum(S, F(_)) == SumSeq([i \in DOMAIN S |-> F(S[i])]) % P
      c(t) == t[1] % P IN
  << sum(e.mul, LAMBDA t : IF t[2] = v /\ t[3] = v THEN c(t) ELSE 0),
     (sum(e.mul, LAMBDA t : IF t[2] = v /\ t[3] # v THEN c(t) * Get(z, t[3])
                            ELSE IF t[3] = v /\ t[2] # v THEN c(t) * Get(z, t[2]) ELSE 0)
       + sum(e.lin, LAMBDA t : IF t[2] = v THEN c(t) ELSE 0)) % P,
     (sum(e.mul, LAMBDA t : IF t[2] # v /\ t[3] # v THEN ((c(t) * Get(z, t[2])) % P) * Get(z, t[3]) ELSE 0)
       + sum(e.lin, LAMBDA t : IF t[2] # v THEN c(t) * Get(z, t[2]) ELSE 0) + e.k) % P >>

Root(u, x) == (((u[1] * x) % P) * x + u[2] * x + u[3]) % P = 0
SecondRoot(u, alpha) == ((P - u[2]) * InverseOrZero(u[1]) - alpha) % P
\* another root of a quadratic that satisfies every reduction
TwoValued(us, alpha) ==
  \E i \in DOMAIN us : us[i][1] # 0 /\
    LET beta == SecondRoot(us[i], alpha) IN beta # alpha /\ \A j \in DOMAIN us : Root(us[j], beta)

Unreferenced == "unreferenced"
Free == "free"
Two == "two-valued"
Unique == "unique"

\* check_one_var_cp and the body of analyze_underconstrained: v's verdict from
\* the reductions us of the constraints that name it
Verdict(us, alpha) ==
  IF us = <<>> THEN Unreferenced
  ELSE IF \E i \in DOMAIN us : us[i][1] = 0 /\ us[i][2] # 0 THEN Unique
  ELSE IF \A i \in DOMAIN us : us[i][1] = 0 /\ us[i][2] = 0 THEN Free
  ELSE IF TwoValued(us, alpha) THEN Two ELSE Unique

Derived(vars) == {vars[i].id : i \in {i \in DOMAIN vars : vars[i].role = "Derived"}}
Flagged(S, Of(_)) == {<<v, Of(v)>> : v \in {v \in S : Of(v) # Unique}}

AnalyzeExpressions(prim, z) ==
  Flagged(Derived(prim.vars), LAMBDA v :
    LET es == SelectSeq(prim.exprs, LAMBDA e : v \in ExprVars(e)) IN
    Verdict([i \in DOMAIN es |-> Univariate(es[i], v, z)], Get(z, v)))

Names(row, v) == \E j \in DOMAIN VarsOf(row) : VarsOf(row)[j] = v
AnalyzeRows(prog, z) ==
  Flagged(Derived(prog.vars), LAMBDA v :
    LET rs == SelectSeq(prog.rows, LAMBDA r : Names(r, v)) IN
    Verdict([i \in DOMAIN rs |-> UnivariateR1cs(rs[i], v, z)], Get(z, v)))

(**************************** streamed analysis ****************************)
Shard(core, i) == Expand(core.defs, <<core.topc[i]>>, Identity, "c")
Shards(core) == SubSeq([i \in DOMAIN core.topc |-> Shard(core, i)], 1, Len(core.topc))

\* a bug: a variable is pinned only while no other row made it quadratic
RowFlagsAny(u) == IF u[1] = 0 /\ u[2] = 0 THEN {"SEEN"} ELSE {"SEEN", "RESTRICTED", "PINNED"}
\* apply_row_flags: what one row tells of one of its variables
RowFlags(u) ==
  {"SEEN"} \cup (IF u[1] = 0 /\ u[2] = 0 THEN {} ELSE {"RESTRICTED"})
           \cup (IF u[1] = 0 /\ u[2] # 0 THEN {"PINNED"} ELSE {})

\* classify_and_check, two_valued_suspects and assemble_underconstrained
StreamUnderconstrained(core, shards, z) ==
  LET rows == Cat(shards)
      of(v) == LET rs == SelectSeq(rows, LAMBDA r : Names(r, v)) IN [i \in DOMAIN rs |-> UnivariateR1csRow(rs[i], v, z)]
      flags(us) == UNION {RowFlags(us[i]) : i \in DOMAIN us}
      derived == {v \in 0..(core.nvars - 1) : RoleOf(core, v) = "Derived"}
      verdict(v) ==
        LET us == of(v)
            f == flags(us) IN
        IF "SEEN" \notin f THEN (IF v \in core.keep THEN Unreferenced ELSE Unique)
        ELSE IF "PINNED" \in f THEN Unique
        ELSE IF "RESTRICTED" \notin f THEN Free
        ELSE IF TwoValued(us, Get(z, v)) THEN Two ELSE Unique IN
  Flagged(derived, verdict)

\* stream_check's verdict and first_failing_row's index
StreamSatisfied(shards, z) == \A i \in DOMAIN shards : \A j \in DOMAIN shards[i] : RowSatisfied(shards[i][j], z)
FirstFailingRow(shards, z) ==
  LET bad == {i \in DOMAIN Cat(shards) : ~RowSatisfied(Cat(shards)[i], z)} IN IF bad = {} THEN {} ELSE {MinOf(bad) - 1}
StreamCountConstraints(shards) == SumSeq([i \in DOMAIN shards |-> Len(shards[i])])
StreamCountMulGates(shards) ==
  SumSeq([i \in DOMAIN shards |-> Len(SelectSeq(shards[i], LAMBDA r : RowLcs(r)[1].ts # <<>> /\ RowLcs(r)[2].ts # <<>>))])

\* verify_blob_matches: the artifact against the flat program it came from
VerifyBlobMatches(core, flat) ==
  LET rows == Expand(core.defs, core.topc, Identity, "c")
      keep == {v \in 0..(core.nvars - 1) : v < Len(core.inputs) \/ v \in RowVars(rows) \/ v \in core.keep}
      wits == SelectSeq(Expand(core.defs, core.topw, Identity, "w"), LAMBDA w : PrimaryOut(w) \in keep) IN
  /\ Len(rows) = Len(flat.rows) /\ \A i \in DOMAIN rows : RowLcs(rows[i]) = RowLcs(flat.rows[i])
  /\ Len(wits) = Len(flat.wits) /\ \A i \in DOMAIN wits : wits[i] = flat.wits[i]
  /\ flat.vars = VarTable(core, keep)

(************************** reducing the templates *************************)
Dead == [kind |-> "Dead"]
\* an LC over the field, terms by variable
Canon(l) ==
  LET s == SimplifyTerms(l.k % P, [i \in DOMAIN l.ts |-> <<l.ts[i][1] % P, l.ts[i][2]>>]) IN
  Lc(s.k, SelectSeq([i \in DOMAIN s.ts |-> <<s.ts[i][1] % P, s.ts[i][2]>>], LAMBDA t : t[1] # 0))
Combine(x, m, y) == Canon(Lc(x.k + m * y.k, x.ts \o [i \in DOMAIN y.ts |-> <<m * y.ts[i][1], y.ts[i][2]>>]))
IsConst(l) == l.ts = <<>>
LcHolds(l, v) == \E i \in DOMAIN l.ts : l.ts[i][2] = v

\* the linear relation of a row with a constant side, as an LC that is zero
Relation(row) ==
  LET l == RowLcs(row) IN
  IF IsConst(l[1]) THEN Combine(Canon(Lc(-l[3].k, [i \in DOMAIN l[3].ts |-> <<-l[3].ts[i][1], l[3].ts[i][2]>>])), l[1].k, l[2])
  ELSE Combine(Canon(Lc(-l[3].k, [i \in DOMAIN l[3].ts |-> <<-l[3].ts[i][1], l[3].ts[i][2]>>])), l[2].k, l[1])
IsLinear(row) == IsConst(RowLcs(row)[1]) \/ IsConst(RowLcs(row)[2])

SubstVar(l, v, by) ==
  IF LcHolds(l, v) THEN Combine(Lc(l.k, SelectSeq(l.ts, LAMBDA t : t[2] # v)), Coeff(l, v), by) ELSE l

\* minimize_with_fill without the fill guard: the worklist as in Minimize
RECURSIVE Worklist(_, _, _)
Worklist(rows, queue, internal) ==
  IF queue = <<>> THEN SelectSeq(rows, LAMBDA r : r # Dead) ELSE
  LET i == Head(queue)
      row == rows[i]
      rest == Tail(queue)
      rel == Relation(row)
      vs == {rel.ts[j][2] : j \in DOMAIN rel.ts} \cap internal
      v == MinOf(vs)
      by == Canon(LET m == P - InverseOrZero(Coeff(rel, v))
                      o == SelectSeq(rel.ts, LAMBDA t : t[2] # v) IN
                  Lc(m * rel.k, [j \in DOMAIN o |-> <<m * o[j][1], o[j][2]>>]))
      changed == {j \in DOMAIN rows \ {i} : rows[j] # Dead /\ Names(rows[j], v)}
      queued == {rest[j] : j \in DOMAIN rest} IN
  IF row = Dead \/ ~IsLinear(row) THEN Worklist(rows, rest, internal)
  ELSE IF IsConst(rel) THEN Worklist(IF rel.k = 0 THEN [rows EXCEPT ![i] = Dead] ELSE rows, rest, internal)
  ELSE IF vs = {} THEN Worklist(rows, rest, internal)
  ELSE Worklist([j \in DOMAIN rows |->
                   IF j = i THEN Dead
                   ELSE IF j \in changed
                   THEN LET l == RowLcs(rows[j]) IN RowOp(SubstVar(l[1], v, by), SubstVar(l[2], v, by), SubstVar(l[3], v, by))
                   ELSE rows[j]],
                rest \o Ascending(changed \ queued), internal)

\* a bug: a call's outputs are not pinned in the stream that calls
CallPinsPlugsOnly(it, defs) == UNION {{LcVars(it.plugs[i])[j] : j \in DOMAIN LcVars(it.plugs[i])} : i \in DOMAIN it.plugs}

\* what a stream must keep around a call: plug variables, and the outputs as
\* the stream sees them
CallPins(it, defs) ==
  LET d == defs[it.def + 1] IN
  UNION {{LcVars(it.plugs[i])[j] : j \in DOMAIN LcVars(it.plugs[i])} : i \in DOMAIN it.plugs}
    \cup {it.base + (d.outputs[i] - d.base) : i \in {i \in DOMAIN d.outputs : d.outputs[i] >= d.base}}

\* minimize_items: the reduced rows, then the calls
MinimizeItems(items, basePins, defs) ==
  LET given == Cat([i \in DOMAIN items |-> IF items[i].call THEN <<>> ELSE items[i].ops])
      rows == SubSeq([i \in DOMAIN given |-> LET l == RowLcs(given[i]) IN RowOp(Canon(l[1]), Canon(l[2]), Canon(l[3]))],
                     1, Len(given))
      calls == SelectSeq(items, LAMBDA it : it.call)
      pins == basePins \cup UNION {CallPins(calls[i], defs) : i \in DOMAIN calls}
      reduced == Worklist(rows, [i \in DOMAIN rows |-> i], RowVars(rows) \ pins) IN
  [i \in DOMAIN reduced |-> Ops(<<reduced[i]>>)] \o calls

\* flatten_nested: a def the top stream calls has its nested calls inlined
FlattenNested(defs, top) ==
  LET used == {top[i].def + 1 : i \in {i \in DOMAIN top : top[i].call}} IN
  [d \in DOMAIN defs |->
    IF d \in used /\ \E i \in DOMAIN defs[d].c : defs[d].c[i].call
    THEN [defs[d] EXCEPT !.c = <<Ops(Expand(defs, defs[d].c, Identity, "c"))>>] ELSE defs[d]]

SeqSet(s) == {s[i] : i \in DOMAIN s}
\* ReducedRowStream::new: the reduced templates, with the rows before each item
ReducedStream(core) ==
  LET flat == FlattenNested(core.defs, core.topc)
      defs == SubSeq([d \in DOMAIN flat |->
                [flat[d] EXCEPT !.c = MinimizeItems(@, SeqSet(flat[d].plugs) \cup SeqSet(flat[d].outputs), flat)]], 1, Len(flat))
      top == MinimizeItems(core.topc, 0..(Len(core.inputs) - 1), flat)
      shards == SubSeq([i \in DOMAIN top |-> Expand(defs, <<top[i]>>, Identity, "c")], 1, Len(top))
      start[i \in 0..Len(top)] == IF i = 0 THEN 0 ELSE start[i - 1] + Len(shards[i]) IN
  [defs |-> defs, top |-> top, shards |-> shards, start |-> start]

\* visit_items of every item, and the refusal of expand_reduced
VisitItems(red) == Cat(red.shards)
Refuses(core, rows) == \E v \in 0..(Len(core.inputs) - 1) : core.inputs[v + 1] = "PublicInput" /\ v \notin RowVars(rows)

(*************** evaluation of the reduced templates and its adjoint *******)
CompileC(items, def) ==
  Cat([i \in DOMAIN items |->
    IF items[i].call THEN <<ResolveCall(items[i], def)>>
    ELSE [j \in DOMAIN items[i].ops |-> [call |-> FALSE, op |-> ResolveOp(items[i].ops[j], def)]]])
CompileRows(red) ==
  [defs |-> SubSeq([d \in DOMAIN red.defs |-> CompileC(red.defs[d].c, red.defs[d])], 1, Len(red.defs)),
   top |-> CompileC(red.top, TopDef)]

\* eval: the three values of every row, a call's plugs evaluated once
RECURSIVE EvalItems(_, _, _, _)
EvalItems(prog, items, f, z) ==
  Cat([i \in DOMAIN items |->
    LET it == items[i]
        vals == [j \in DOMAIN it.plugs |-> FrameLc(f, it.plugs[j], z)] IN
    IF ~it.call THEN << [m \in 1..3 |-> FrameLc(f, RowLcs(it.op)[m], z)] >>
    ELSE EvalItems(prog, prog.defs[it.def],
                   [base |-> FrameOut(f, it.base), fixed |-> TRUE, vals |-> SubSeq(vals, 1, Len(vals))], z)])

Column(t, n) == <<t, n>>
\* a bug: the constant of a plug's expression is left out
RouteNoConst(l, s, m, base) ==
  [i \in DOMAIN l.ts |->
    LET r == l.ts[i][2] IN
    <<CASE r.t = "Internal" -> Column("Var", base + r.n)
        [] r.t = "Global" -> Column("Var", r.n)
        [] OTHER -> Column("Plug", r.n), m, (s * l.ts[i][1]) % P>>]

\* route: s times an LC of the frame at base, back onto its columns
Route(l, s, m, base) ==
  (IF l.k = 0 THEN <<>> ELSE << <<Column("Const", 0), m, s * l.k>> >>)
    \o [i \in DOMAIN l.ts |->
         LET r == l.ts[i][2] IN
         <<CASE r.t = "Internal" -> Column("Var", base + r.n)
             [] r.t = "Global" -> Column("Var", r.n)
             [] OTHER -> Column("Plug", r.n), m, (s * l.ts[i][1]) % P>>]

\* adjoint: [row, out], the contributions of the rows of items from row on;
\* those to a plug are summed, then routed through the caller's expression
RECURSIVE Adjoint(_, _, _, _, _)
Adjoint(prog, items, base, w, row) ==
  IF items = <<>> THEN [row |-> row, out |-> <<>>] ELSE
  LET it == Head(items)
      cbase == IF it.base.t = "Internal" THEN base + it.base.n ELSE it.base.n
      sub == Adjoint(prog, prog.defs[it.def], cbase, w, row)
      adj(p, m) == SumSeq([i \in DOMAIN sub.out |->
                     IF sub.out[i][1] = Column("Plug", p) /\ sub.out[i][2] = m THEN sub.out[i][3] ELSE 0]) % P
      here == IF ~it.call
              THEN [row |-> row + 1,
                    out |-> IF w[row] = 0 THEN <<>> ELSE Cat([m \in 1..3 |-> Route(RowLcs(it.op)[m], w[row], m, base)])]
              ELSE [row |-> sub.row,
                    out |-> SelectSeq(sub.out, LAMBDA o : o[1][1] # "Plug")
                              \o Cat([p \in DOMAIN it.plugs |->
                                   Cat([m \in 1..3 |-> IF adj(p, m) = 0 THEN <<>> ELSE Route(it.plugs[p], adj(p, m), m, base)])])]
      rest == Adjoint(prog, Tail(items), base, w, here.row) IN
  [row |-> rest.row, out |-> here.out \o rest.out]

TransposeEval(prog, w) == Adjoint(prog, prog.top, 0, w, 1).out
=============================================================================
