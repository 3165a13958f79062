------------------------------ MODULE Artifact ------------------------------
(***************************************************************************)
(* circuit.xbc, the one file a build leaves of a circuit: finish and the   *)
(* encoder of crates/frontend/src/output.rs, and the decoder and expander  *)
(* of crates/ir/src/function_decode.rs.                                    *)
(*                                                                         *)
(* A stream item is a row or witness op, or a CALL of a function def.  The *)
(* encoder rolls runs of rows, of ops and of calls, delta-codes variable   *)
(* lists, pools big constants, refers back to earlier LCs and names the    *)
(* constraint stream's calls from the witness stream.  The decoder's       *)
(* panics (caught by its caller) are the cursor's sticky failure.          *)
(*                                                                         *)
(* First come the function templates (crates/frontend/src/templates.rs)    *)
(* and the call regions they come from (builder.rs): calls whose rows and  *)
(* witness ops are equal up to renaming share one def, the first of them;  *)
(* a def's body may call other defs.  An environment env is [rows, wits,   *)
(* vis, regions, stack]: rows and witness ops as opcodes (Hole where a     *)
(* merged product left none), the visibility of every variable, the        *)
(* recorded regions and the open ones.  Variables and positions are        *)
(* 0-based, as in the code.                                                *)
(***************************************************************************)
EXTENDS Bytecode, FiniteSets

CONSTANT MinRows      \* MIN_ROWS: smaller regions stay inline

Hole == [kind |-> "Hole"]
RowsOf(env, c0, c1) == SubSeq(env.rows, c0 + 1, c1)
WitsOf(env, w0, w1) == SelectSeq(SubSeq(env.wits, w0 + 1, w1), LAMBDA w : w # Hole)
NVars(env) == Len(env.vis)

(***************************** call regions ********************************)
RegionBegin(env) ==
  [env EXCEPT
    !.regions = Append(@, [c0 |-> Len(env.rows), c1 |-> 0, w0 |-> Len(env.wits), w1 |-> 0,
                           v0 |-> NVars(env), v1 |-> 0, closed |-> FALSE,
                           parent |-> IF env.stack = <<>> THEN 0 ELSE env.stack[Len(env.stack)]]),
    !.stack = Append(@, Len(env.regions) + 1)]

\* a region too small for a template is dropped, with everything inside it
RegionEnd(env) ==
  LET i == env.stack[Len(env.stack)]
      r == [env.regions[i] EXCEPT !.c1 = Len(env.rows), !.w1 = Len(env.wits),
                                  !.v1 = NVars(env), !.closed = TRUE] IN
  [env EXCEPT !.stack = SubSeq(@, 1, Len(@) - 1),
              !.regions = IF r.c1 - r.c0 < MinRows THEN SubSeq(@, 1, i - 1)
                          ELSE [@ EXCEPT ![i] = r]]

(************************ the form of a region *****************************)
\* every variable an opcode names, in traversal order (not the Bit index)
VarsOf(op) ==
  Cat(op.ids) \o Cat([g \in DOMAIN op.lcs |-> Cat([j \in DOMAIN op.lcs[g] |-> LcVars(op.lcs[g][j])])])

LcRename(l, F(_)) == Lc(l.k, [i \in DOMAIN l.ts |-> <<l.ts[i][1], F(l.ts[i][2])>>])
\* subst_witness_vars with a variable map
MapVars(op, F(_)) ==
  [op EXCEPT !.ids = [g \in DOMAIN op.ids |-> [i \in DOMAIN op.ids[g] |-> F(op.ids[g][i])]],
             !.lcs = [g \in DOMAIN op.lcs |-> [j \in DOMAIN op.lcs[g] |-> LcRename(op.lcs[g][j], F)]]]

OpsOf(env, r) == RowsOf(env, r.c0, r.c1) \o WitsOf(env, r.w0, r.w1)
MentionedIn(env, r) == LET ops == OpsOf(env, r) IN Cat([i \in DOMAIN ops |-> VarsOf(ops[i])])

\* the outside variables of a region, by first appearance
RECURSIVE Firsts(_, _, _)
Firsts(vs, v0, acc) ==
  IF vs = <<>> THEN acc
  ELSE Firsts(Tail(vs), v0, IF Head(vs) >= v0 \/ \E i \in DOMAIN acc : acc[i] = Head(vs)
                            THEN acc ELSE Append(acc, Head(vs)))
PlugsOf(env, r) == Firsts(MentionedIn(env, r), r.v0, <<>>)

\* a variable allocated after the region cannot be renamed
Renames(env, r) == LET vs == MentionedIn(env, r) IN \A i \in DOMAIN vs : vs[i] < r.v1

\* Renamer::map: internals even, plugs odd
Renamed(r, plugs, v) ==
  IF v >= r.v0 THEN 2 * (v - r.v0) ELSE 2 * ((CHOOSE i \in DOMAIN plugs : plugs[i] = v) - 1) + 1

Normalized(env, r) ==
  LET plugs == PlugsOf(env, r)
      ops == OpsOf(env, r) IN
  SubSeq([i \in DOMAIN ops |-> MapVars(ops[i], LAMBDA v : Renamed(r, plugs, v))], 1, Len(ops))

NoForm == <<>>
\* region_hash: what the hash covers.  The immediates (a bit index, a limb
\* width) are left to the exact comparison.
Form(env, r) ==
  LET n == Normalized(env, r) IN
  IF ~Renames(env, r) THEN NoForm
  ELSE << r.c1 - r.c0, r.v1 - r.v0, [i \in DOMAIN n |-> [n[i] EXCEPT !.imm = 0]],
          SubSeq(env.vis, r.v0 + 1, r.v1) >>

\* the (rows, wits) comparison of a call against its def
SameForm(env, r, s) == Renames(env, s) /\ Normalized(env, r) = Normalized(env, s)

Eligible(r) == r.closed /\ r.c1 - r.c0 >= MinRows

(******************************* detection *********************************)
Children(env, i) == SelectSeq([j \in DOMAIN env.regions |-> j], LAMBDA j : env.regions[j].parent = i)
Reversed(s) == [i \in DOMAIN s |-> s[Len(s) + 1 - i]]

\* One scope, depth first: a region whose form repeats becomes a call, the
\* first of its form also a def whose body is a new scope; another region is
\* looked into.  acc is [firsts, plan, scopes].
RECURSIVE WalkScope(_, _, _, _, _, _, _), WalkScopes(_, _, _, _)
WalkScope(env, sig, bad, parent, own, stack, acc) ==
  IF stack = <<>> THEN acc ELSE
  LET i == stack[1]
      rest == Tail(stack)
      k == sig[i]
      repeats == k # NoForm /\ Cardinality({j \in DOMAIN sig : sig[j] = k}) >= 2 /\ k # own /\ i \notin bad
      known == {d \in DOMAIN acc.firsts : sig[acc.firsts[d]] = k} IN
  IF ~repeats THEN WalkScope(env, sig, bad, parent, own, Children(env, i) \o rest, acc)
  ELSE IF known # {}
  THEN WalkScope(env, sig, bad, parent, own, rest,
         [acc EXCEPT !.plan = Append(@, [reg |-> i, def |-> CHOOSE d \in known : TRUE, parent |-> parent])])
  ELSE LET d == Len(acc.firsts) + 1 IN
       WalkScope(env, sig, bad, parent, own, rest,
         [acc EXCEPT !.firsts = Append(@, i),
                     !.plan = Append(@, [reg |-> i, def |-> d, parent |-> parent]),
                     !.scopes = Append(@, [parent |-> d, own |-> k, start |-> Children(env, i)])])

WalkScopes(env, sig, bad, acc) ==
  IF acc.scopes = <<>> THEN acc ELSE
  LET s == acc.scopes[Len(acc.scopes)] IN
  WalkScopes(env, sig, bad,
    WalkScope(env, sig, bad, s.parent, s.own, s.start, [acc EXCEPT !.scopes = SubSeq(@, 1, Len(@) - 1)]))

\* the walk is redone, looking inside every region that did not match its def
RECURSIVE Plan(_, _, _)
Plan(env, sig, bad) ==
  LET w == WalkScopes(env, sig, bad, [firsts |-> <<>>, plan |-> <<>>,
             scopes |-> << [parent |-> 0, own |-> NoForm, start |-> Children(env, 0)] >>])
      wrong == {w.plan[i].reg : i \in {i \in DOMAIN w.plan :
                 ~SameForm(env, env.regions[w.firsts[w.plan[i].def]], env.regions[w.plan[i].reg])}} IN
  IF wrong = {} THEN w ELSE Plan(env, sig, bad \cup wrong)

\* a call's internals that a row or op outside it reads
ReadOutside(env, r) ==
  {v \in r.v0..(r.v1 - 1) :
     \/ \E i \in DOMAIN env.rows : (i - 1 < r.c0 \/ i - 1 >= r.c1)
          /\ \E j \in DOMAIN VarsOf(env.rows[i]) : VarsOf(env.rows[i])[j] = v
     \/ \E i \in DOMAIN env.wits : env.wits[i] # Hole /\ (i - 1 < r.w0 \/ i - 1 >= r.w1)
          /\ \E j \in DOMAIN VarsOf(env.wits[i]) : VarsOf(env.wits[i])[j] = v}

\* the union over a def's calls, as offsets from the def's base
OwnOutputs(env, w, d) ==
  UNION {LET r == env.regions[w.plan[i].reg] IN {v - r.v0 : v \in ReadOutside(env, r)} :
           i \in {i \in DOMAIN w.plan : w.plan[i].def = d}}

\* an output of a def inside one of its body's sub-calls is one of the sub-call's too
RECURSIVE Propagate(_, _, _)
Propagate(env, w, outs) ==
  LET next == [d \in DOMAIN outs |-> outs[d] \cup
        UNION {LET r == env.regions[w.plan[i].reg]
                   pd == w.plan[i].parent
                   base == env.regions[w.firsts[pd]].v0 IN
               {o \in 0..(r.v1 - r.v0 - 1) : (r.v0 + o) - base \in outs[pd]} :
                 i \in {i \in DOMAIN w.plan : w.plan[i].def = d /\ w.plan[i].parent # 0}}] IN
  IF next = outs THEN outs ELSE Propagate(env, w, next)

RECURSIVE Ascending(_)
Ascending(S) == IF S = {} THEN <<>> ELSE LET m == CHOOSE x \in S : \A y \in S : x <= y IN <<m>> \o Ascending(S \ {m})

\* detect: the defs and the calls of env
Detect(env) ==
  LET regs == env.regions
      size(r) == <<r.c1 - r.c0, r.w1 - r.w0, r.v1 - r.v0>>
      sig == SubSeq([i \in DOMAIN regs |->
               IF Eligible(regs[i]) /\ (\E j \in DOMAIN regs \ {i} : Eligible(regs[j]) /\ size(regs[j]) = size(regs[i]))
               THEN Form(env, regs[i]) ELSE NoForm], 1, Len(regs))
      w == Plan(env, sig, {})
      outs == Propagate(env, w, [d \in DOMAIN w.firsts |-> OwnOutputs(env, w, d)]) IN
  [ defs  |-> [d \in DOMAIN w.firsts |->
                LET r == regs[w.firsts[d]] IN
                [r |-> r, base |-> r.v0, plugs |-> PlugsOf(env, r),
                 outputs |-> Ascending({r.v0 + o : o \in outs[d]})]],
    calls |-> [i \in DOMAIN w.plan |->
                LET r == regs[w.plan[i].reg]
                    p == PlugsOf(env, r) IN
                [def |-> w.plan[i].def, parent |-> w.plan[i].parent, c0 |-> r.c0, c1 |-> r.c1,
                 w0 |-> r.w0, w1 |-> r.w1, base |-> r.v0,
                 plugs |-> [j \in DOMAIN p |-> LcVar(p[j])]]] ]

-----------------------------------------------------------------------------
(* The encoder and the decoder.                                            *)

MaxCallPeriod == 1024
RefBytes      == 10      \* worth_ref: an encoded LC at least this long
SkipWindow    == 8       \* how far a witness call is looked for
MaxExponent   == 4096

OrElse(S, d) == IF S = {} THEN d ELSE CHOOSE x \in S : TRUE
MinOf(S) == CHOOSE x \in S : \A y \in S : x <= y
MaxOf(S) == CHOOSE x \in S : \A y \in S : y <= x

(****************************** constants and LCs **************************)
PutFc(v, pool) ==
  LET m == Abs(v)
      mag == MagBytes(m)
      hit == IF IsSmall(v) THEN {} ELSE PoolIndex(pool, v) IN
  IF hit # {} THEN <<3>> \o PutVarint(MinOf(hit) - 1)
  ELSE IF ~IsSmall(v) THEN <<2, IF v < 0 THEN 2 ELSE 1>> \o PutVarint(Len(mag)) \o mag
  ELSE IF m >= 128 /\ IsPow2(m) THEN <<IF v < 0 THEN 5 ELSE 4>> \o PutVarint(Log2(m))
  ELSE <<0>> \o PutIvarint(v)

PutLcG(l, pool) ==
  PutFc(l.k, pool) \o PutVarint(Len(l.ts))
    \o Cat([i \in DOMAIN l.ts |-> PutFc(l.ts[i][1], pool) \o PutIvarint(Delta(LcVars(l), i))])

RowLcs(op) == <<op.lcs[1][1], op.lcs[2][1], op.lcs[3][1]>>
PutRowG(op, pool) == LET l == RowLcs(op) IN PutLcG(l[1], pool) \o PutLcG(l[2], pool) \o PutLcG(l[3], pool)

\* put_witness_with: every LC written by Put
PutWitnessWith(op, Put(_)) ==
  LET sh == Shape[op.kind] IN
  <<sh.tag - 1>>
    \o Cat([g \in DOMAIN op.ids |-> IF sh.ids[g] = "one" THEN PutVarint(op.ids[g][1]) ELSE PutVarIds(op.ids[g])])
    \o Cat([g \in DOMAIN op.lcs |->
         (IF sh.lcs[g] = "one" THEN <<>> ELSE PutVarint(Len(op.lcs[g])))
           \o Cat([j \in DOMAIN op.lcs[g] |-> Put(op.lcs[g][j])])])
    \o (IF sh.imm = "none" THEN <<>> ELSE PutVarint(op.imm))

GetFc(c) ==
  LET t == U8(c)
      i == Ivarint(t)
      u == Varint(t)
      s == U8(t)
      g == Magnitude(s) IN
  CASE ~t.ok -> t
    [] t.v = 0 -> i
    [] t.v = 2 -> IF s.v \in {1, 2} THEN Val(g, IF s.v = 2 THEN -g.v ELSE g.v) ELSE Fail(s)
    [] t.v = 3 -> IF u.ok /\ u.v < Len(c.pool) THEN Val(u, c.pool[u.v + 1]) ELSE Fail(u)
    [] t.v \in {4, 5} -> IF u.v < MaxExponent THEN Val(u, (IF t.v = 5 THEN -1 ELSE 1) * 2 ^ u.v) ELSE Fail(u)
    [] OTHER -> Fail(t)

TermG(c) == LET k == GetFc(c)
                d == Ivarint(k) IN Val(d, <<k.v, d.v>>)
GetLcG(c) ==
  LET k == GetFc(c)
      n == Varint(k)
      t == Many(n, n.v, TermG)
      vs == Undelta([i \in DOMAIN t.v |-> t.v[i][2]]) IN
  IF ~t.ok THEN t ELSE Val(t, Lc(k.v, [i \in DOMAIN t.v |-> <<t.v[i][1], vs[i]>>]))

\* get_witness_with: every LC read by Get
GetWitnessWith(c, Get(_)) ==
  LET t == U8(c)
      ks == {k \in DOMAIN Shape \ {"Row"} : Shape[k].tag - 1 = t.v}
      One(x) == LET a == Get(x) IN Val(a, <<a.v>>)
      List(x) == LET n == Varint(x) IN Many(n, n.v, Get) IN
  IF ~t.ok \/ ks = {} THEN Fail(t) ELSE
  LET kind == CHOOSE k \in ks : TRUE
      sh == Shape[kind]
      i == Groups(t, sh.ids, OneId, VarIds)
      l == Groups(i, sh.lcs, One, List)
      m == IF sh.imm = "none" THEN Val(l, 0) ELSE Varint(l) IN
  Val(m, Op(kind, i.v, l.v, m.v, NoNote))

(********************************* calls ***********************************)
RowItem(i) == [call |-> FALSE, i |-> i]
CallItem(d, base, plugs) == [call |-> TRUE, def |-> d, base |-> base, plugs |-> plugs]

CallSig(c) == <<c.def, [i \in DOMAIN c.plugs |->
                  <<c.plugs[i].k, [j \in DOMAIN c.plugs[i].ts |-> c.plugs[i].ts[j][1]]>>]>>
CallOperands(c) == <<c.base>> \o Cat([i \in DOMAIN c.plugs |-> LcVars(c.plugs[i])])

\* a bug: the operands of the later blocks are not looked at
FollowsSig(calls, start, p, k) ==
  /\ start + (k + 1) * p - 1 <= Len(calls)
  /\ \A j \in 0..(p - 1) : CallSig(calls[start + k * p + j]) = CallSig(calls[start + j])

\* block k of the period-p run at start: the calls of block 0, each operand
\* moved by k times the step from block 0 to block 1
Follows(calls, start, p, k) ==
  /\ start + (k + 1) * p - 1 <= Len(calls)
  /\ \A j \in 0..(p - 1) :
       LET a == calls[start + j]
           b == calls[start + p + j]
           x == calls[start + k * p + j] IN
       /\ CallSig(x) = CallSig(a)
       /\ (k = 1 \/ \A o \in DOMAIN CallOperands(a) :
             CallOperands(a)[o] + k * (CallOperands(b)[o] - CallOperands(a)[o]) = CallOperands(x)[o])

\* try_call_repeat: the blocks of the run, 0 when there is no second one
TryCallRepeat(calls, start, p) ==
  IF ~Follows(calls, start, p, 1) THEN 0
  ELSE MaxOf({c \in 2..(Len(calls) + 1) : \A k \in 2..(c - 1) : Follows(calls, start, p, k)})

BareVar(l) == l.k = 0 /\ Len(l.ts) = 1 /\ l.ts[1][1] = 1
\* the bare variable before plug i, initially the call's base
PrevBare(plugs, base, i) ==
  LET before == {j \in 1..(i - 1) : BareVar(plugs[j])} IN
  IF before = {} THEN base ELSE plugs[MaxOf(before)].ts[1][2]
PutBare(plugs, base, i) == PutVarint(2 * ZigZag(plugs[i].ts[1][2] - PrevBare(plugs, base, i)))

PutPlugsCompact(plugs, base, pool) ==
  PutVarint(Len(plugs))
    \o Cat([i \in DOMAIN plugs |-> IF BareVar(plugs[i]) THEN PutBare(plugs, base, i)
                                   ELSE <<1>> \o PutLcG(plugs[i], pool)])

PutCall(c, pool) == <<5>> \o PutVarint(c.def) \o PutVarint(c.base) \o PutPlugsCompact(c.plugs, c.base, pool)

\* build_rolled_call and put_rolled_call_compact: the body is block 0 with the
\* step of every operand
PutRolledCall(calls, start, p, count, pool) ==
  LET Tmpl(j) ==
        LET c == calls[start + j]
            o0 == CallOperands(c)
            o1 == CallOperands(calls[start + p + j])
            step(i, t) == LET o == 1 + Len(Cat([h \in 1..(i - 1) |-> c.plugs[h].ts])) + t IN o1[o] - o0[o] IN
        PutVarint(c.def) \o PutVarint(c.base) \o PutIvarint(o1[1] - o0[1]) \o PutVarint(Len(c.plugs))
          \o Cat([i \in DOMAIN c.plugs |->
               IF BareVar(c.plugs[i]) THEN PutBare(c.plugs, c.base, i) \o PutIvarint(step(i, 1))
               ELSE <<1>> \o PutFc(c.plugs[i].k, pool) \o PutVarint(Len(c.plugs[i].ts))
                      \o Cat([t \in DOMAIN c.plugs[i].ts |->
                           PutFc(c.plugs[i].ts[t][1], pool) \o PutVarint(c.plugs[i].ts[t][2]) \o PutIvarint(step(i, t))])])
  IN <<6>> \o PutVarint(count) \o PutVarint(p) \o Cat([j \in 1..p |-> Tmpl(j - 1)])

Tokens(b, n) == [b |-> b, n |-> n]
Then(x, y) == Tokens(x.b \o y.b, x.n + y.n)

\* roll_call_run: at each call the block of the largest span, of the smallest
\* period among equals; a call in no block stands alone
RollCallRun(calls, pool) ==
  LET n == Len(calls)
      f[i \in 1..(n + 1)] ==
        IF i = n + 1 THEN Tokens(<<>>, 0) ELSE
        LET ps == {p \in 1..((n - i + 1) \div 2) : p <= MaxCallPeriod /\ TryCallRepeat(calls, i, p) > 0}
            span(p) == p * TryCallRepeat(calls, i, p)
            p0 == CHOOSE p \in ps : \A q \in ps : span(q) < span(p) \/ (span(q) = span(p) /\ p <= q) IN
        IF ps = {} THEN Then(Tokens(PutCall(calls[i], pool), 1), f[i + 1])
        ELSE Then(Tokens(PutRolledCall(calls, i, p0, TryCallRepeat(calls, i, p0), pool), 1), f[i + span(p0)]) IN
  f[1]

(****************** back-references and runs of rows and ops ***************)
Tabled(l) == Len(l.ts) >= 2
WorthRef(l, pool) == Len(PutLcG(l, pool)) >= RefBytes

\* the LCs of two terms or more of a row, and of the rows of a stream (LcTable)
RowTable(op) == SelectSeq(RowLcs(op), Tabled)
LcTable(items, env) ==
  Cat([i \in DOMAIN items |-> IF items[i].call THEN <<>> ELSE RowTable(env.rows[items[i].i + 1])])

NoRef == -1
\* the most recent entry before pos (1-based) that equals l, as an index
LastEqual(table, pos, l) ==
  LET js == {j \in 1..(pos - 1) : table[j] = l} IN IF js = {} THEN NoRef ELSE MaxOf(js) - 1

PutLcRef(l, ref, pool) == IF ref = NoRef THEN PutLcG(l, pool) ELSE <<6>> \o PutVarint(ref)

\* A run as one plain token, or, when that is smaller, the elements with a
\* reference one by one and the rest plain in between.
RunOf(elems, Hit(_), Ref(_), Plain(_)) ==
  LET n == Len(elems)
      f[i \in 1..(n + 1)] ==
        IF i = n + 1 THEN Tokens(<<>>, 0)
        ELSE IF Hit(i) THEN Then(Tokens(Ref(i), 1), f[i + 1])
        ELSE LET j == MinOf({j \in i..n : j = n \/ Hit(j + 1)}) IN
             Then(Tokens(Plain(SubSeq(elems, i, j)), 1), f[j + 1])
      plain == Plain(elems) IN
  IF (\E i \in 1..n : Hit(i)) /\ Len(f[1].b) < Len(plain) THEN f[1] ELSE Tokens(plain, 1)

RolledRun(ops, pool) == LET b == RollAndEncodeOpsCompact(ops, pool) IN <<7>> \o PutVarint(Len(b)) \o b
PutRowsPlain(ops, pool) == IF Len(ops) = 1 THEN <<0>> \o PutRowG(ops[1], pool) ELSE RolledRun(ops, pool)
PutWitsPlain(ops, pool) ==
  IF Len(ops) = 1 THEN <<0>> \o PutWitnessWith(ops[1], LAMBDA l : PutLcG(l, pool)) ELSE RolledRun(ops, pool)

\* put_row_run: pos entries of the table come before the run
PutRowRun(ops, table, pos, pool) ==
  LET start(i) == pos + Len(Cat([h \in 1..(i - 1) |-> RowTable(ops[h])]))
      ref(i, w) ==
        LET ls == RowLcs(ops[i])
            at == start(i) + Len(SelectSeq(SubSeq(ls, 1, w - 1), Tabled)) + 1 IN
        IF Tabled(ls[w]) /\ WorthRef(ls[w], pool) THEN LastEqual(table, at, ls[w]) ELSE NoRef IN
  RunOf(ops, LAMBDA i : \E w \in 1..3 : ref(i, w) # NoRef,
        LAMBDA i : <<8>> \o Cat([w \in 1..3 |-> PutLcRef(RowLcs(ops[i])[w], ref(i, w), pool)]),
        LAMBDA s : PutRowsPlain(s, pool))

AllLcs(op) == Cat(op.lcs)
\* put_wit_run
PutWitRun(ops, table, pool) ==
  LET ref(l) == IF Tabled(l) /\ WorthRef(l, pool) THEN LastEqual(table, Len(table) + 1, l) ELSE NoRef IN
  RunOf(ops, LAMBDA i : \E j \in DOMAIN AllLcs(ops[i]) : ref(AllLcs(ops[i])[j]) # NoRef,
        LAMBDA i : <<8>> \o PutWitnessWith(ops[i], LAMBDA l : PutLcRef(l, ref(l), pool)),
        LAMBDA s : PutWitsPlain(s, pool))

(***************************** the item streams ****************************)
\* the last item of the run of i's kind that starts at i
RunEnd(items, i) == MinOf({j \in i..Len(items) : j = Len(items) \/ items[j + 1].call # items[i].call})

SerCItems(items, env, pool) ==
  LET table == LcTable(items, env)
      n == Len(items)
      f[i \in 1..(n + 1)] ==
        IF i = n + 1 THEN Tokens(<<>>, 0) ELSE
        LET j == RunEnd(items, i)
            run == SubSeq(items, i, j) IN
        Then(IF items[i].call THEN RollCallRun(run, pool)
             ELSE PutRowRun([h \in DOMAIN run |-> env.rows[run[h].i + 1]], table,
                            Len(LcTable(SubSeq(items, 1, i - 1), env)), pool),
             f[j + 1]) IN
  PutVarint(f[1].n) \o f[1].b

FlushRefs(a) ==
  IF a.n = 0 THEN a
  ELSE [a EXCEPT !.out = Then(@, Tokens(<<4>> \o PutVarint(a.skip) \o PutVarint(a.n), 1)), !.n = 0]
FlushRun(a, table, pool) ==
  IF a.run = <<>> THEN a ELSE [a EXCEPT !.out = Then(@, PutWitRun(a.run, table, pool)), !.run = <<>>]

\* a call of the witness stream: cCalls[cur + 1 ..] is searched for it
WCall(a, c, cCalls, table, pool) ==
  LET b == FlushRun(a, table, pool)
      ss == {s \in 0..(SkipWindow - 1) : b.cur + s < Len(cCalls) /\ cCalls[b.cur + s + 1] = c}
      s == MinOf(ss) IN
  IF ss = {} THEN [FlushRefs(b) EXCEPT !.out = Then(@, Tokens(PutCall(c, pool), 1))]
  ELSE IF s = 0 /\ b.n > 0 THEN [b EXCEPT !.n = @ + 1, !.cur = @ + 1]
  ELSE [FlushRefs(b) EXCEPT !.skip = s, !.n = 1, !.cur = @ + s + 1]

RECURSIVE SerW(_, _, _, _, _, _)
SerW(items, env, cCalls, table, pool, a) ==
  IF items = <<>> THEN FlushRun(FlushRefs(a), table, pool).out
  ELSE LET it == Head(items) IN
       SerW(Tail(items), env, cCalls, table, pool,
            IF it.call THEN WCall(a, it, cCalls, table, pool)
            ELSE IF env.wits[it.i + 1] = Hole THEN a
            ELSE [FlushRefs(a) EXCEPT !.run = Append(@, env.wits[it.i + 1])])

SerWItemsStd(items, env, cCalls, table, pool) ==
  LET t == SerW(items, env, cCalls, table, pool,
                [out |-> Tokens(<<>>, 0), run |-> <<>>, skip |-> 0, n |-> 0, cur |-> 0]) IN
  PutVarint(t.n) \o t.b

\* positions i..end-1 with the ranges of the calls, in order, as CALL items
RECURSIVE Itemize(_, _, _, _, _)
Itemize(i, end, calls, lo, hi) ==
  IF i >= end THEN <<>>
  ELSE IF calls # <<>> /\ calls[1][lo] = i
  THEN <<CallItem(calls[1].def - 1, calls[1].base, calls[1].plugs)>> \o Itemize(calls[1][hi], end, Tail(calls), lo, hi)
  ELSE <<RowItem(i)>> \o Itemize(i + 1, end, calls, lo, hi)

RECURSIVE ByRow(_)
ByRow(cs) ==
  IF cs = {} THEN <<>>
  ELSE LET c == CHOOSE x \in cs : \A y \in cs : x.c0 < y.c0 \/ (x.c0 = y.c0 /\ x.c1 <= y.c1) IN
       <<c>> \o ByRow(cs \ {c})

\* scope_items of def d (0: the top level)
ScopeItems(env, t, d) ==
  LET calls == ByRow({t.calls[i] : i \in {i \in DOMAIN t.calls : t.calls[i].parent = d}})
      r == IF d = 0 THEN [c0 |-> 0, c1 |-> Len(env.rows), w0 |-> 0, w1 |-> Len(env.wits)] ELSE t.defs[d].r IN
  [c |-> Itemize(r.c0, r.c1, calls, "c0", "c1"), w |-> Itemize(r.w0, r.w1, calls, "w0", "w1")]

(******************************** the file *********************************)
LcConsts(l) == <<l.k>> \o [i \in DOMAIN l.ts |-> l.ts[i][1]]
ScopeConsts(env, s) ==
  LET ofLcs(ls) == Cat([i \in DOMAIN ls |-> LcConsts(ls[i])]) IN
  Cat([i \in DOMAIN s.c |-> IF s.c[i].call THEN ofLcs(s.c[i].plugs) ELSE ofLcs(RowLcs(env.rows[s.c[i].i + 1]))])
    \o Cat([i \in DOMAIN s.w |-> IF s.w[i].call \/ env.wits[s.w[i].i + 1] = Hole THEN <<>>
                                 ELSE ofLcs(AllLcs(env.wits[s.w[i].i + 1]))])

RECURSIVE ByUse(_)
ByUse(us) ==
  IF us = {} THEN <<>>
  ELSE LET u == CHOOSE x \in us : \A y \in us : x[2] > y[2] \/ (x[2] = y[2] /\ x[1] <= y[1]) IN
       <<u[1]>> \o ByUse(us \ {u})
\* the big constants written more than once, most used first
ConstantPool(env, scopes) ==
  LET cs == SelectSeq(Cat([i \in DOMAIN scopes |-> ScopeConsts(env, scopes[i])]), LAMBDA k : ~IsSmall(k))
      uses(k) == Cardinality({i \in DOMAIN cs : cs[i] = k}) IN
  ByUse({<<cs[i], uses(cs[i])>> : i \in {i \in DOMAIN cs : uses(cs[i]) >= 2}})

RowVars(rows) == UNION {{VarsOf(rows[i])[j] : j \in DOMAIN VarsOf(rows[i])} : i \in DOMAIN rows}
\* unreferenced variables that finish keeps and the decoder would drop
KeepExtra(env) ==
  Ascending({v \in Len(env.inputs)..(NVars(env) - 1) :
               v \notin RowVars(env.rows) /\ (env.vis[v + 1] = "Private" \/ v \in env.scratch)})

Magic == <<88, 66, 67, 0>>
Version == <<2, 0>>
VisByte(v) == CASE v = "Public" -> 0 [] v = "Private" -> 1 [] OTHER -> 2
PutStr(s) == PutVarint(Len(s)) \o s
FieldName == <<70>>
InputName(v) == <<100 + v>>

BuildFunctionBlob(env) ==
  LET t == Detect(env)
      n == Len(t.defs)
      scopes == SubSeq([i \in 1..(n + 1) |-> ScopeItems(env, t, IF i = n + 1 THEN 0 ELSE i)], 1, n + 1)
      pool == ConstantPool(env, scopes)
      Streams(s) ==
        SerCItems(s.c, env, pool)
          \o SerWItemsStd(s.w, env, SelectSeq(s.c, LAMBDA it : it.call), LcTable(s.c, env), pool) IN
  Magic \o Version \o PutStr(FieldName) \o PutStr(<<>>) \o PutVarint(NVars(env)) \o PutVarint(Len(env.inputs))
    \o Cat([i \in DOMAIN env.inputs |-> <<VisByte(env.vis[i])>> \o PutStr(InputName(i - 1))])
    \o PutVarint(Len(pool)) \o Cat([i \in DOMAIN pool |-> PutFc(pool[i], NoPool)])
    \o PutVarint(n)
    \o Cat([d \in 1..n |-> PutVarint(t.defs[d].base) \o PutVarIds(t.defs[d].plugs)
                             \o PutVarIds(t.defs[d].outputs) \o Streams(scopes[d])])
    \o Streams(scopes[n + 1]) \o PutVarIds(KeepExtra(env))

(************************ finishing a lowered circuit **********************)
SimplifyTerms(k, ts) ==
  LET vs == Ascending({ts[i][2] : i \in DOMAIN ts})
      sum(v) == LET s[i \in 0..Len(ts)] == IF i = 0 THEN 0 ELSE s[i - 1] + (IF ts[i][2] = v THEN ts[i][1] ELSE 0)
                IN s[Len(ts)] IN
  Lc(k, SelectSeq([i \in DOMAIN vs |-> <<sum(vs[i]), vs[i]>>], LAMBDA t : t[1] # 0))
MapLcs(op, F(_), G(_)) ==
  [op EXCEPT !.ids = [g \in DOMAIN op.ids |-> [i \in DOMAIN op.ids[g] |-> F(op.ids[g][i])]],
             !.lcs = [g \in DOMAIN op.lcs |-> [j \in DOMAIN op.lcs[g] |-> G(op.lcs[g][j])]]]

\* renumber_inputs: the inputs become 0..n-1 in binding order; a region that
\* binds one is no candidate, its children go to its nearest kept ancestor
RenumberInputs(env) ==
  LET n == Len(env.inputs)
      isIn(v) == \E i \in 1..n : env.inputs[i] = v
      others == SelectSeq([i \in 1..NVars(env) |-> i - 1], LAMBDA v : ~isIn(v))
      order == env.inputs \o others
      m(v) == (CHOOSE i \in DOMAIN order : order[i] = v) - 1
      mlc(l) == SimplifyTerms(l.k, [i \in DOMAIN l.ts |-> <<l.ts[i][1], m(l.ts[i][2])>>])
      binds(r) == \E v \in r.v0..(r.v1 - 1) : isIn(v)
      kept == SelectSeq([i \in DOMAIN env.regions |-> i], LAMBDA i : ~binds(env.regions[i]))
      anc[p \in 0..Len(env.regions)] ==
        IF p = 0 THEN 0
        ELSE IF binds(env.regions[p]) THEN anc[env.regions[p].parent]
        ELSE CHOOSE i \in DOMAIN kept : kept[i] = p
      moved(r) == IF r.v1 > r.v0 THEN [r EXCEPT !.v0 = m(r.v0), !.v1 = m(r.v1 - 1) + 1]
                  ELSE LET v == m(IF r.v0 < NVars(env) THEN r.v0 ELSE NVars(env) - 1) IN
                       [r EXCEPT !.v0 = v, !.v1 = v] IN
  IF order = [i \in 1..NVars(env) |-> i - 1] THEN env ELSE
  [env EXCEPT !.rows = [i \in DOMAIN env.rows |-> MapLcs(env.rows[i], m, mlc)],
              !.wits = [i \in DOMAIN env.wits |-> IF env.wits[i] = Hole THEN Hole ELSE MapLcs(env.wits[i], m, mlc)],
              !.vis = [i \in 1..NVars(env) |-> env.vis[order[i] + 1]],
              !.merged = [i \in DOMAIN env.merged |-> [env.merged[i] EXCEPT !.out = m(@)]],
              !.scratch = {m(v) : v \in env.scratch},
              !.regions = [i \in DOMAIN kept |-> [moved(env.regions[kept[i]]) EXCEPT !.parent = anc[@]]],
              !.inputs = [i \in 1..n |-> i - 1]]

\* a merged product a row still names is bound to a * b again
Revive(env) ==
  LET ref == RowVars(env.rows)
      back == {env.merged[i] : i \in {i \in DOMAIN env.merged : env.merged[i].out \in ref}}
      outs == Ascending({x.out : x \in back})
      of(i) == CHOOSE x \in back : x.out = outs[i]
      fac(x) == RowLcs(env.rows[x.row + 1]) IN
  [env EXCEPT !.rows = @ \o [i \in DOMAIN outs |-> RowOp(fac(of(i))[1], fac(of(i))[2], LcVar(outs[i]))],
              !.wits = [w \in DOMAIN env.wits |->
                 IF \E i \in DOMAIN outs : of(i).wit + 1 = w
                 THEN LET x == of(CHOOSE i \in DOMAIN outs : of(i).wit + 1 = w) IN
                      Op("Product", << <<x.out>> >>, << <<fac(x)[1]>>, <<fac(x)[2]>> >>, 0, NoNote)
                 ELSE env.wits[w]]]

OutsOf(op) == LET o == Cat(op.ids) IN {o[i] : i \in DOMAIN o}
ReadsOf(op) == LET l == AllLcs(op) IN UNION {{LcVars(l[i])[j] : j \in DOMAIN LcVars(l[i])} : i \in DOMAIN l}
\* witness-only ops nothing live reads become holes
PruneScratch(env) ==
  LET n == Len(env.wits)
      live[i \in 1..(n + 1)] ==
        IF i = n + 1 THEN RowVars(env.rows)
        ELSE LET after == live[i + 1]
                 op == env.wits[i] IN
             IF op # Hole /\ OutsOf(op) \cap after # {} THEN after \cup OutsOf(op) \cup ReadsOf(op) ELSE after IN
  IF env.scratch = {} THEN env ELSE
  [env EXCEPT !.wits = [i \in 1..n |->
     IF env.wits[i] # Hole /\ OutsOf(env.wits[i]) \cap env.scratch # {} /\ OutsOf(env.wits[i]) \cap live[1] = {}
     THEN Hole ELSE env.wits[i]]]

Finished(env) == PruneScratch(Revive(RenumberInputs(env)))

\* witness_gen_out: the first output, which decides whether an op is kept
PrimaryOut(op) == LET o == Cat(op.ids) IN o[1]
Role(vis, v, n) == IF v >= n THEN "Derived" ELSE IF vis = "Public" THEN "PublicInput" ELSE "PrivateInput"

\* the flat program a finished environment stands for
Flattened(env) ==
  LET ref == RowVars(env.rows)
      kept == SelectSeq([i \in 1..NVars(env) |-> i - 1],
                LAMBDA v : env.vis[v + 1] # "Internal" \/ v \in ref \/ v \in env.scratch) IN
  [ vars |-> [i \in DOMAIN kept |-> [id |-> kept[i], role |-> Role(env.vis[kept[i] + 1], kept[i], Len(env.inputs))]],
    rows |-> env.rows,
    wits |-> SelectSeq(env.wits, LAMBDA w : w # Hole /\ \E i \in DOMAIN kept : kept[i] = PrimaryOut(w)) ]

(******************************** decoding *********************************)
\* get_plugs_compact
GetPlugsCompact(c, base) ==
  LET n == Varint(c)
      m[i \in 0..n.v] ==
        IF i = 0 THEN [c |-> n, prev |-> base, l |-> <<>>]
        ELSE LET q == m[i - 1]
                 h == Varint(q.c)
                 v == q.prev + UnZigZag(h.v \div 2)
                 g == GetLcG(h) IN
             IF h.v % 2 = 0 THEN [c |-> h, prev |-> v, l |-> Append(q.l, LcVar(v))]
             ELSE [c |-> g, prev |-> q.prev, l |-> Append(q.l, g.v)]
      r == m[n.v] IN
  Val(r.c, r.l)

GetCall(c) == LET d == Varint(c)
                  b == Varint(d)
                  p == GetPlugsCompact(b, b.v) IN Val(p, CallItem(d.v, b.v, p.v))

\* one plug template: its constant and <<coefficient, var0, step>> terms
SteppedTerm(c) == LET k == GetFc(c)
                      v == Varint(k)
                      s == Ivarint(v) IN Val(s, <<k.v, v.v, s.v>>)
GetStepped(c, base) ==
  LET n == Varint(c)
      m[i \in 0..n.v] ==
        IF i = 0 THEN [c |-> n, prev |-> base, l |-> <<>>]
        ELSE LET q == m[i - 1]
                 h == Varint(q.c)
                 v == q.prev + UnZigZag(h.v \div 2)
                 s == Ivarint(h)
                 k == GetFc(h)
                 nt == Varint(k)
                 ts == Many(nt, nt.v, SteppedTerm) IN
             IF h.v % 2 = 0 THEN [c |-> s, prev |-> v, l |-> Append(q.l, <<0, << <<1, v, s.v>> >> >>)]
             ELSE [c |-> ts, prev |-> q.prev, l |-> Append(q.l, <<k.v, ts.v>>)]
      r == m[n.v] IN
  Val(r.c, r.l)
GetTemplate(c) == LET d == Varint(c)
                      b == Varint(d)
                      s == Ivarint(b)
                      p == GetStepped(s, b.v) IN Val(p, [def |-> d.v, base |-> b.v, step |-> s.v, plugs |-> p.v])
At(t, k) ==
  CallItem(t.def, t.base + k * t.step,
    [i \in DOMAIN t.plugs |->
      Lc(t.plugs[i][1], [j \in DOMAIN t.plugs[i][2] |->
         <<t.plugs[i][2][j][1], t.plugs[i][2][j][2] + k * t.plugs[i][2][j][3]>>])])
\* parse_rolled_calls_compact
GetRolledCalls(c) ==
  LET n == Varint(c)
      p == Varint(n)
      body == Many(p, p.v, GetTemplate) IN
  IF ~body.ok THEN body
  ELSE Val(body, Cat([k \in 1..n.v |-> [j \in DOMAIN body.v |-> At(body.v[j], k - 1)]]))

\* a decoded item: rows (or ops) or a call
Ops(ops) == [call |-> FALSE, ops |-> ops]

\* an inner run is decoded on its own; its error leaves no ops at all
GetRolledRun(c) ==
  LET n == Varint(c)
      inner == SubSeq(c.b, n.p, n.p + n.v - 1)
      r == DecodeAndExpandOpsCompact(inner, c.pool) IN
  IF ~n.ok \/ n.p + n.v - 1 > Len(c.b) THEN Fail(n)
  ELSE Val([n EXCEPT !.p = @ + n.v], IF r.ok THEN r.v ELSE <<>>)

\* an LC or a reference (6, index) into table
GetLcRef(c, table) ==
  LET r == Varint([c EXCEPT !.p = @ + 1]) IN
  IF c.ok /\ c.p <= Len(c.b) /\ c.b[c.p] = 6
  THEN IF r.ok /\ r.v < Len(table) THEN Val(r, table[r.v + 1]) ELSE Fail(r)
  ELSE GetLcG(c)
Extended(table, l) == IF Tabled(l) THEN Append(table, l) ELSE table

\* tag 8: a row whose LCs may be references, also to its own earlier ones
GetRefRow(c, table) ==
  LET a == GetLcRef(c, table)
      t1 == Extended(table, a.v)
      b == GetLcRef(a, t1)
      t2 == Extended(t1, b.v)
      d == GetLcRef(b, t2) IN
  IF ~a.ok \/ ~b.ok \/ ~d.ok THEN Fail(c) ELSE Val(d, RowOp(a.v, b.v, d.v))

GetRow(c) == LET r == Many(c, 3, GetLcG) IN IF r.ok THEN Val(r, RowOp(r.v[1], r.v[2], r.v[3])) ELSE r

CItemsOf(c, tag, table) ==
  LET row == IF tag = 8 THEN GetRefRow(c, table) ELSE GetRow(c)
      one == GetCall(c)
      run == IF tag = 6 THEN GetRolledCalls(c) ELSE GetRolledRun(c) IN
  CASE tag \in {0, 8} -> Val(row, <<Ops(<<row.v>>)>>)
    [] tag = 5 -> Val(one, <<one.v>>)
    [] tag = 6 -> run
    [] tag = 7 -> Val(run, <<Ops(SelectSeq(run.v, IsRow))>>)
    [] OTHER -> Fail(c)

TableOf(items) ==
  Cat([i \in DOMAIN items |-> IF items[i].call THEN <<>>
                              ELSE Cat([j \in DOMAIN items[i].ops |-> RowTable(items[i].ops[j])])])
ParseCItems(c) ==
  LET n == Varint(c)
      m[i \in 0..n.v] ==
        IF i = 0 THEN [c |-> n, l |-> <<>>, table |-> <<>>]
        ELSE LET q == m[i - 1]
                 t == U8(q.c)
                 g == CItemsOf(t, t.v, q.table) IN
             IF ~g.ok \/ ~t.ok THEN [q EXCEPT !.c = Fail(t)]
             ELSE [c |-> g, l |-> q.l \o g.v, table |-> q.table \o TableOf(g.v)]
      r == m[n.v] IN
  Val(r.c, [items |-> r.l, table |-> r.table])

NextCalls(calls, skip, n) == SubSeq(calls, skip + 1, skip + n)

ParseWItems(c, cItems, table) ==
  LET n == Varint(c)
      m[i \in 0..n.v] ==
        IF i = 0 THEN [c |-> n, l |-> <<>>, calls |-> SelectSeq(cItems, LAMBDA it : it.call)]
        ELSE LET q == m[i - 1]
                 t == U8(q.c)
                 op == IF t.v = 8 THEN GetWitnessWith(t, LAMBDA x : GetLcRef(x, table)) ELSE GetWitnessWith(t, GetLcG)
                 s == Varint(t)
                 k == Varint(s)
                 one == GetCall(t)
                 run == IF t.v = 6 THEN GetRolledCalls(t) ELSE GetRolledRun(t)
                 put(d, items) == [q EXCEPT !.c = d, !.l = IF d.ok THEN @ \o items ELSE @] IN
             CASE ~t.ok -> [q EXCEPT !.c = t]
               [] t.v \in {0, 8} -> put(op, <<Ops(<<op.v>>)>>)
               [] t.v = 4 -> IF ~k.ok \/ s.v + k.v > Len(q.calls) THEN [q EXCEPT !.c = Fail(t)]
                             ELSE [put(k, NextCalls(q.calls, s.v, k.v)) EXCEPT
                                     !.calls = SubSeq(@, s.v + k.v + 1, Len(@))]
               [] t.v = 5 -> put(one, <<one.v>>)
               [] t.v = 6 -> put(run, run.v)
               [] t.v = 7 -> put(run, <<Ops(SelectSeq(run.v, LAMBDA w : ~IsRow(w)))>>)
               [] OTHER -> [q EXCEPT !.c = Fail(t)]
      r == m[n.v] IN
  Val(r.c, r.l)

Input(c) == LET r == U8(c)
                n == Varint(r)
                s == Many(n, n.v, U8) IN
            Val(s, CASE r.v = 0 -> "PublicInput" [] r.v = 1 -> "PrivateInput" [] OTHER -> "Derived")
GetStr(c) == LET n == Varint(c) IN Many(n, n.v, U8)
GetDef(c) ==
  LET b == Varint(c)
      p == VarIds(b)
      o == VarIds(p)
      ci == ParseCItems(o)
      wi == ParseWItems(ci, ci.v.items, ci.v.table) IN
  IF ~ci.ok THEN ci
  ELSE Val(wi, [base |-> b.v, plugs |-> p.v, outputs |-> o.v, c |-> ci.v.items, w |-> wi.v])

Malformed == [ok |-> FALSE]
\* decode_core: header, inputs, pool, defs, top-level streams, keep-set
DecodeCore(b) ==
  LET name == GetStr([Cursor(b, NoPool) EXCEPT !.p = 7])
      nv == Varint(GetStr(name))
      ni == Varint(nv)
      ins == Many(ni, ni.v, Input)
      np == Varint(ins)
      pool == Many(np, np.v, GetFc)
      nd == Varint([pool EXCEPT !.pool = IF pool.ok THEN pool.v ELSE NoPool])
      ds == Many(nd, nd.v, GetDef)
      ci == ParseCItems(ds)
      wi == ParseWItems(ci, ci.v.items, ci.v.table)
      keep == VarIds(wi) IN
  IF Len(b) < 6 \/ SubSeq(b, 5, 6) # Version THEN Malformed
  ELSE IF ~ci.ok \/ ~keep.ok THEN Malformed
  ELSE [ok |-> TRUE, nvars |-> nv.v, inputs |-> ins.v, defs |-> ds.v, topc |-> ci.v.items, topw |-> wi.v,
        keep |-> {keep.v[i] : i \in DOMAIN keep.v}]

(******************************* expansion *********************************)
Identity == [identity |-> TRUE, dbase |-> 0, base |-> 0, plugs |-> <<>>]

\* Subst::get, as the LC a variable becomes
Image(s, v) ==
  LET ps == {i \in DOMAIN s.plugs : s.plugs[i][1] = v} IN
  IF s.identity THEN LcVar(v)
  ELSE IF v >= s.dbase THEN LcVar(s.base + (v - s.dbase))
  ELSE IF ps # {} THEN s.plugs[MaxOf(ps)][2] ELSE LcVar(v)

SubstLc(l, s) ==
  LET im == [i \in DOMAIN l.ts |-> Image(s, l.ts[i][2])]
      k[i \in 0..Len(l.ts)] == IF i = 0 THEN l.k ELSE k[i - 1] + im[i].k * l.ts[i][1] IN
  SimplifyTerms(k[Len(l.ts)],
    Cat([i \in DOMAIN l.ts |-> [j \in DOMAIN im[i].ts |-> <<im[i].ts[j][1] * l.ts[i][1], im[i].ts[j][2]>>]]))

SubstOut(v, s) == Image(s, v).ts[1][2]
SubstOp(op, s) == MapLcs(op, LAMBDA v : SubstOut(v, s), LAMBDA l : SubstLc(l, s))

\* call_subst: a repeated plug keeps its last expression
CallSubst(def, base, plugs) ==
  [identity |-> FALSE, dbase |-> def.base, base |-> base,
   plugs |-> [i \in DOMAIN def.plugs |-> <<def.plugs[i], plugs[i]>>]]

\* expand_c and expand_w (stream "c" or "w"), and their visiting twins
RECURSIVE Expand(_, _, _, _)
Expand(defs, items, s, stream) ==
  Cat([i \in DOMAIN items |->
    LET it == items[i] IN
    IF ~it.call THEN [j \in DOMAIN it.ops |-> SubstOp(it.ops[j], s)]
    ELSE LET def == defs[it.def + 1] IN
         Expand(defs, def[stream],
                CallSubst(def, SubstOut(it.base, s), [j \in DOMAIN it.plugs |-> SubstLc(it.plugs[j], s)]), stream)])

Kept(core, rows) ==
  {v \in 0..(core.nvars - 1) : v < Len(core.inputs) \/ v \in RowVars(rows) \/ v \in core.keep}
RoleOf(core, v) == IF v < Len(core.inputs) THEN core.inputs[v + 1] ELSE "Derived"
VarTable(core, kept) == LET vs == Ascending(kept) IN [i \in DOMAIN vs |-> [id |-> vs[i], role |-> RoleOf(core, vs[i])]]

\* expand_function_blob
ExpandFunctionBlob(b) ==
  LET core == DecodeCore(b)
      rows == Expand(core.defs, core.topc, Identity, "c")
      wits == Expand(core.defs, core.topw, Identity, "w")
      kept == Kept(core, rows) IN
  IF ~core.ok THEN Malformed
  ELSE [ok |-> TRUE, vars |-> VarTable(core, kept), rows |-> rows,
        wits |-> SelectSeq(wits, LAMBDA w : PrimaryOut(w) \in kept)]
=============================================================================
