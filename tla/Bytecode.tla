------------------------------ MODULE Bytecode ------------------------------
(***************************************************************************)
(* The compact codec of rolled opcode runs (crates/ir/src/bytecode.rs):    *)
(* varints and tagged field constants, one opcode per constraint or        *)
(* witness op, the rolling of periodic runs into (nested) repeats and      *)
(* their expansion.  Everything here is a pure function; a stream is a     *)
(* sequence of bytes and a decoder threads a cursor whose error is sticky  *)
(* (the code's `?`).                                                       *)
(*                                                                         *)
(* The code's i64 and u64 are scaled: a constant is "small" when it fits   *)
(* SmallBits signed bits, and the u64 path takes SmallBytes bytes.         *)
(***************************************************************************)
EXTENDS Integers, Sequences

CONSTANTS SmallBits, SmallBytes

ASSUME ScaledWidths == SmallBytes \in Nat \ {0} /\ SmallBits = 8 * SmallBytes - 1

(***************************** small helpers *******************************)
Abs(v) == IF v < 0 THEN -v ELSE v

RECURSIVE Cat(_), Log2(_)
Cat(ss) == IF ss = <<>> THEN <<>> ELSE Head(ss) \o Cat(Tail(ss))
Log2(m) == IF m = 1 THEN 0 ELSE 1 + Log2(m \div 2)
IsPow2(m) == m > 0 /\ 2 ^ Log2(m) = m

\* FieldConst::as_i64
IsSmall(v) == -(2 ^ SmallBits) <= v /\ v < 2 ^ SmallBits

(**************************** linear combinations **************************)
\* constant plus terms <<coefficient, variable>>, in order
Lc(k, ts) == [k |-> k, ts |-> ts]
LcVar(v) == Lc(0, << <<1, v>> >>)

(***************************************************************************)
(* The operands of each opcode, in the order every traversal visits them:  *)
(* identifier groups, then groups of linear combinations, then the         *)
(* immediate.  A group "one" has exactly one element and no length.        *)
(***************************************************************************)
Shape == [
  Row           |-> [tag |-> 0,  ids |-> <<>>, lcs |-> <<"one", "one", "one">>, imm |-> "none"],
  Product       |-> [tag |-> 1,  ids |-> <<"one">>, lcs |-> <<"one", "one">>, imm |-> "none"],
  Linear        |-> [tag |-> 2,  ids |-> <<"one">>, lcs |-> <<"one">>, imm |-> "none"],
  Xor           |-> [tag |-> 3,  ids |-> <<"one">>, lcs |-> <<"one", "one">>, imm |-> "none"],
  Or            |-> [tag |-> 4,  ids |-> <<"one">>, lcs |-> <<"one", "one">>, imm |-> "none"],
  Inverse       |-> [tag |-> 5,  ids |-> <<"one">>, lcs |-> <<"one">>, imm |-> "none"],
  InverseOrZero |-> [tag |-> 6,  ids |-> <<"one">>, lcs |-> <<"one">>, imm |-> "none"],
  Bit           |-> [tag |-> 7,  ids |-> <<"one">>, lcs |-> <<"one">>, imm |-> "index"],
  Bits          |-> [tag |-> 8,  ids |-> <<"list">>, lcs |-> <<"one">>, imm |-> "none"],
  DivRem        |-> [tag |-> 9,  ids |-> <<"one", "one">>, lcs |-> <<"one", "one">>, imm |-> "none"],
  MulModDivMod  |-> [tag |-> 10, ids |-> <<"list", "list">>, lcs |-> <<"list", "list", "list">>, imm |-> "limb"],
  ModInverse    |-> [tag |-> 11, ids |-> <<"list">>, lcs |-> <<"list", "list">>, imm |-> "limb"],
  Sub2          |-> [tag |-> 12, ids |-> <<"one", "list">>, lcs |-> <<"list", "list", "list", "list">>, imm |-> "limb"],
  FakeGlv       |-> [tag |-> 13, ids |-> <<"list">>, lcs |-> <<"list", "list", "list">>, imm |-> "limb"]]

NoNote == <<>>

\* An opcode: groups of identifiers, groups of LCs, the immediate, the note
Op(kind, ids, lcs, imm, note) == [kind |-> kind, ids |-> ids, lcs |-> lcs, imm |-> imm, note |-> note]
RowOp(a, b, c) == Op("Row", <<>>, << <<a>>, <<b>>, <<c>> >>, 0, NoNote)
IsRow(op) == op.kind = "Row"

(******************************** encoding *********************************)
RECURSIVE PutVarint(_), MagBytes(_)
PutVarint(v) == IF v < 128 THEN <<v>> ELSE <<128 + (v % 128)>> \o PutVarint(v \div 128)
MagBytes(m) == IF m < 256 THEN <<m>> ELSE <<m % 256>> \o MagBytes(m \div 256)

ZigZag(v) == IF v >= 0 THEN 2 * v ELSE -2 * v - 1
PutIvarint(v) == PutVarint(ZigZag(v))

NoPool == <<>>
PoolIndex(pool, v) == {i \in DOMAIN pool : pool[i] = v}

PutFieldconst(v, pool) ==
  LET m == Abs(v)
      hit == IF IsSmall(v) THEN {} ELSE PoolIndex(pool, v) IN
  IF hit # {} THEN <<6>> \o PutVarint((CHOOSE i \in hit : TRUE) - 1)
  ELSE IF v = 0 THEN <<0>>
  ELSE IF v = 1 THEN <<1>>
  ELSE IF v = -1 THEN <<2>>
  ELSE IF IsPow2(m) THEN <<IF v < 0 THEN 8 ELSE 7>> \o PutVarint(Log2(m))
  ELSE IF Len(MagBytes(m)) <= SmallBytes THEN <<IF v < 0 THEN 4 ELSE 3>> \o PutVarint(m)
  ELSE <<5, IF v < 0 THEN 2 ELSE 1>> \o PutVarint(Len(MagBytes(m))) \o MagBytes(m)

\* each variable of a list as a zigzag delta from the one before it
Delta(vs, i) == vs[i] - (IF i = 1 THEN 0 ELSE vs[i - 1])

PutLc(lc, pool) ==
  LET vs == [i \in DOMAIN lc.ts |-> lc.ts[i][2]] IN
  PutFieldconst(lc.k, pool) \o PutVarint(Len(lc.ts))
    \o Cat([i \in DOMAIN lc.ts |-> PutFieldconst(lc.ts[i][1], pool) \o PutIvarint(Delta(vs, i))])

PutVarIds(ids) == PutVarint(Len(ids)) \o Cat([i \in DOMAIN ids |-> PutIvarint(Delta(ids, i))])

PutLcs(lcs, pool) == PutVarint(Len(lcs)) \o Cat([i \in DOMAIN lcs |-> PutLc(lcs[i], pool)])

\* put_opt_str: a note is a sequence of runs, each text or digits (see below)
PutNote(note) == IF note = NoNote THEN <<0>> ELSE <<1, note>>

\* put_opcode: put_r1csrow, or put_witness under the kind's own tag
PutOpcode(op, pool) ==
  LET sh == Shape[op.kind] IN
  <<sh.tag>>
    \o Cat([g \in DOMAIN op.ids |-> IF sh.ids[g] = "one" THEN PutVarint(op.ids[g][1]) ELSE PutVarIds(op.ids[g])])
    \o Cat([g \in DOMAIN op.lcs |-> IF sh.lcs[g] = "one" THEN PutLc(op.lcs[g][1], pool) ELSE PutLcs(op.lcs[g], pool)])
    \o (IF sh.imm = "none" THEN <<>> ELSE PutVarint(op.imm))
    \o (IF IsRow(op) THEN PutNote(op.note) ELSE <<>>)

(******************************** decoding *********************************)
Cursor(b, pool) == [b |-> b, p |-> 1, ok |-> TRUE, v |-> 0, pool |-> pool]
Fail(c) == [c EXCEPT !.ok = FALSE, !.v = 0]
Val(c, v) == IF c.ok THEN [c EXCEPT !.v = v] ELSE c

\* Cursor::take of one byte: past the end is Truncated
U8(c) == IF c.ok /\ c.p <= Len(c.b) THEN [c EXCEPT !.p = @ + 1, !.v = c.b[c.p]] ELSE Fail(c)

\* n values read one after the other
Many(c, n, Get(_)) ==
  LET m[i \in 0..n] == IF i = 0 THEN [c |-> c, l |-> <<>>]
                       ELSE LET q == m[i - 1]
                                g == Get(q.c) IN [c |-> g, l |-> Append(q.l, g.v)] IN
  LET r == m[n] IN Val(r.c, r.l)

RECURSIVE Varint(_)
Varint(c) ==
  LET a == U8(c)
      r == Varint(a) IN
  IF ~a.ok \/ a.v < 128 THEN a ELSE Val(r, (a.v - 128) + 128 * r.v)

UnZigZag(u) == IF u % 2 = 0 THEN u \div 2 ELSE -((u + 1) \div 2)
Ivarint(c) == LET a == Varint(c) IN Val(a, UnZigZag(a.v))

RECURSIVE FromMag(_)
FromMag(bs) == IF bs = <<>> THEN 0 ELSE Head(bs) + 256 * FromMag(Tail(bs))

\* a big constant's magnitude: length, then little-endian bytes
Magnitude(c) == LET n == Varint(c)
                    m == Many(n, IF n.ok THEN n.v ELSE 0, U8) IN Val(m, FromMag(m.v))

Fieldconst(c) ==
  LET t == U8(c)
      u == Varint(t)
      s == U8(t)
      g == Magnitude(s) IN
  CASE ~t.ok -> t
    [] t.v = 0 -> Val(t, 0)
    [] t.v = 1 -> Val(t, 1)
    [] t.v = 2 -> Val(t, -1)
    [] t.v = 3 -> u
    [] t.v = 4 -> Val(u, -u.v)
    [] t.v = 5 -> IF s.v \in {1, 2} THEN Val(g, IF s.v = 2 THEN -g.v ELSE g.v) ELSE Fail(s)
    [] t.v = 6 -> IF u.ok /\ u.v < Len(c.pool) THEN Val(u, c.pool[u.v + 1]) ELSE Fail(u)
    [] t.v = 7 -> Val(u, 2 ^ u.v)
    [] t.v = 8 -> Val(u, -(2 ^ u.v))
    [] OTHER -> Fail(t)

\* running sums of zigzag deltas
Undelta(ds) == LET s[i \in 0..Len(ds)] == IF i = 0 THEN 0 ELSE s[i - 1] + ds[i] IN
               [i \in DOMAIN ds |-> s[i]]

TermDelta(c) == LET k == Fieldconst(c)
                    d == Ivarint(k) IN Val(d, <<k.v, d.v>>)
GetLc(c) ==
  LET k == Fieldconst(c)
      n == Varint(k)
      t == Many(n, n.v, TermDelta)
      vs == Undelta([i \in DOMAIN t.v |-> t.v[i][2]]) IN
  IF ~t.ok THEN t ELSE Val(t, Lc(k.v, [i \in DOMAIN t.v |-> <<t.v[i][1], vs[i]>>]))

VarIds(c) == LET n == Varint(c)
                 d == Many(n, n.v, Ivarint) IN IF d.ok THEN Val(d, Undelta(d.v)) ELSE d

Lcs(c) == LET n == Varint(c) IN Many(n, n.v, GetLc)

OptNote(c) == LET t == U8(c)
                  s == U8(t) IN IF ~t.ok \/ t.v = 0 THEN Val(t, NoNote) ELSE s

OneId(c) == LET a == Varint(c) IN Val(a, <<a.v>>)
OneLc(c) == LET a == GetLc(c) IN Val(a, <<a.v>>)

\* the groups of a shape, each read by its own form
Groups(c, forms, One(_), List(_)) ==
  LET m[i \in 0..Len(forms)] ==
        IF i = 0 THEN [c |-> c, l |-> <<>>]
        ELSE LET q == m[i - 1]
                 g == IF forms[i] = "one" THEN One(q.c) ELSE List(q.c) IN
             [c |-> g, l |-> Append(q.l, g.v)] IN
  LET r == m[Len(forms)] IN Val(r.c, r.l)

\* Cursor::opcode: the body of the kind whose tag was read
Opcode(c) ==
  LET t == U8(c)
      ks == {k \in DOMAIN Shape : Shape[k].tag = t.v} IN
  IF ~t.ok \/ ks = {} THEN Fail(t) ELSE
  LET kind == CHOOSE k \in ks : TRUE
      sh == Shape[kind]
      i == Groups(t, sh.ids, OneId, VarIds)
      l == Groups(i, sh.lcs, OneLc, Lcs)
      m == IF sh.imm = "none" THEN Val(l, 0) ELSE Varint(l)
      n == IF kind = "Row" THEN OptNote(m) ELSE Val(m, NoNote) IN
  Val(n, Op(kind, i.v, l.v, m.v, n.v))

(**************************** operands and notes ***************************)
LcVars(lc) == [i \in DOMAIN lc.ts |-> lc.ts[i][2]]

\* visit_opcode_operands: ids, LC variables, and the Bit index
Operands(op) ==
  Cat(op.ids) \o Cat([g \in DOMAIN op.lcs |-> Cat([j \in DOMAIN op.lcs[g] |-> LcVars(op.lcs[g][j])])])
    \o (IF Shape[op.kind].imm = "index" THEN <<op.imm>> ELSE <<>>)

\* the operands before the j-th element of group g
LcBefore(op, g, j) ==
  Len(Cat(op.ids)) + Len(Cat([h \in 1..(g - 1) |-> Cat([i \in DOMAIN op.lcs[h] |-> LcVars(op.lcs[h][i])])]))
    + Len(Cat([i \in 1..(j - 1) |-> LcVars(op.lcs[g][i])]))

\* op with its operands, in the same order, replaced by vs
SetOperands(op, vs) ==
  [op EXCEPT
    !.ids = [g \in DOMAIN op.ids |-> LET o == Len(Cat(SubSeq(op.ids, 1, g - 1))) IN
                                     [i \in DOMAIN op.ids[g] |-> vs[o + i]]],
    !.lcs = [g \in DOMAIN op.lcs |-> [j \in DOMAIN op.lcs[g] |->
               LET o == LcBefore(op, g, j)
                   l == op.lcs[g][j] IN
               Lc(l.k, [i \in DOMAIN l.ts |-> <<l.ts[i][1], vs[o + i]>>])]],
    !.imm = IF Shape[op.kind].imm = "index" THEN vs[Len(vs)] ELSE @]

\* A run of a note is [t |-> text] or [d |-> its decimal digits]
RECURSIVE Digits(_), Number(_)
Digits(v) == IF v < 10 THEN <<v>> ELSE Digits(v \div 10) \o <<v % 10>>
Number(ds) == IF ds = <<>> THEN 0 ELSE 10 * Number(SubSeq(ds, 1, Len(ds) - 1)) + ds[Len(ds)]
IsDigits(r) == "d" \in DOMAIN r

\* blank_digits: what the structural bytes keep of a note
BlankDigits(note) == [i \in DOMAIN note |-> IF IsDigits(note[i]) THEN <<"#">> ELSE <<note[i].t>>]

\* apply_note_template: k steps added to the listed digit runs; a negative
\* number prints with a sign, which no digit run equals
ApplyNoteTemplate(note, k, runs) ==
  [i \in DOMAIN note |->
    IF \E r \in DOMAIN runs : runs[r][1] = i
    THEN LET st == runs[CHOOSE r \in DOMAIN runs : runs[r][1] = i][2]
             v == Number(note[i].d) + k * st IN
         IF v < 0 THEN [t |-> "-"] ELSE [d |-> Digits(v)]
    ELSE note[i]]

NoChange == [rule |-> "NoChange", runs |-> <<>>]
NoRule == [rule |-> "None", runs |-> <<>>]

\* derive_note_rule: the rule from iteration 0's note to iteration 1's
DeriveNoteRule(a, b) ==
  LET moved == {i \in DOMAIN a : IsDigits(a[i]) /\ Number(a[i].d) # Number(b[i].d)}
      runs == [n \in 1..Len(a) |-> <<n, IF n \in moved THEN Number(b[n].d) - Number(a[n].d) ELSE 0>>]
      sel == SelectSeq(runs, LAMBDA r : r[1] \in moved) IN
  IF a = b THEN NoChange
  ELSE IF a = NoNote \/ b = NoNote \/ Len(a) # Len(b) THEN NoRule
  ELSE IF \E i \in DOMAIN a : IsDigits(a[i]) # IsDigits(b[i]) \/ (~IsDigits(a[i]) /\ a[i] # b[i]) THEN NoRule
  ELSE IF ApplyNoteTemplate(a, 1, sel) = b THEN [rule |-> "Template", runs |-> sel] ELSE NoRule

ShiftNote(note, k, rule) ==
  IF rule.rule = "Template" /\ note # NoNote THEN ApplyNoteTemplate(note, k, rule.runs) ELSE note

(********************************* rolling *********************************)
Flat(op) == [rep |-> FALSE, op |-> op]
RepeatOf(count, body, steps, notes) ==
  [rep |-> TRUE, count |-> count, body |-> body, steps |-> steps, notes |-> notes]

RECURSIVE ItemOperands(_), ItemNotes(_), ItemStruct(_), ShiftItem(_, _, _, _)
ItemOperands(it) == IF it.rep THEN Cat([i \in DOMAIN it.body |-> ItemOperands(it.body[i])]) ELSE Operands(it.op)
ItemNotes(it) ==
  IF it.rep THEN Cat([i \in DOMAIN it.body |-> ItemNotes(it.body[i])])
  ELSE IF IsRow(it.op) THEN <<it.op.note>> ELSE <<>>

\* shift_item_operands and shift_item_notes of one item, from its own slots
ShiftItem(it, k, steps, notes) ==
  IF ~it.rep
  THEN LET o == Operands(it.op)
           op == SetOperands(it.op, [i \in DOMAIN o |-> o[i] + k * steps[i]]) IN
       Flat(IF IsRow(op) THEN [op EXCEPT !.note = ShiftNote(@, k, notes[1])] ELSE op)
  ELSE [it EXCEPT !.body =
         [i \in DOMAIN it.body |->
           LET so == Len(Cat([h \in 1..(i - 1) |-> ItemOperands(it.body[h])]))
               no == Len(Cat([h \in 1..(i - 1) |-> ItemNotes(it.body[h])])) IN
           ShiftItem(it.body[i], k, SubSeq(steps, so + 1, Len(steps)), SubSeq(notes, no + 1, Len(notes)))]]

\* put_opcode_struct: the opcode with every operand and every digit run blank
OpcodeStruct(op) ==
  LET o == Operands(op) IN
  <<PutOpcode([SetOperands(op, [i \in DOMAIN o |-> 0]) EXCEPT !.note = NoNote], NoPool), BlankDigits(op.note)>>

ItemStruct(it) ==
  IF ~it.rep THEN <<0, OpcodeStruct(it.op)>>
  ELSE <<1, it.count, it.steps, it.notes, [i \in DOMAIN it.body |-> ItemStruct(it.body[i])]>>

\* one past the largest count of blocks that follow the rule from block 0 to 1
Block(items, start, p) == SubSeq(items, start, start + p - 1)
Blk(items, Of(_)) == Cat([i \in DOMAIN items |-> Of(items[i])])

RECURSIVE Extend(_, _, _, _, _, _)
Extend(items, start, p, steps, rules, count) ==
  LET base == start + count * p
      b0 == Block(items, start, p)
      bk == Block(items, base, p)
      o0 == Blk(b0, ItemOperands)
      ok == Blk(bk, ItemOperands)
      n0 == Blk(b0, ItemNotes)
      nk == Blk(bk, ItemNotes) IN
  IF base + p - 1 > Len(items) THEN count
  ELSE IF \E j \in 1..p : ItemStruct(bk[j]) # ItemStruct(b0[j]) THEN count
  ELSE IF \E i \in DOMAIN o0 : o0[i] + count * steps[i] # ok[i] THEN count
  ELSE IF \E i \in DOMAIN n0 : ShiftNote(n0[i], count, rules[i]) # nk[i] THEN count
  ELSE Extend(items, start, p, steps, rules, count + 1)

NoRepeat == [rep |-> FALSE, op |-> "none"]

\* try_build_repeat: the maximal repeat of period p at start, or none
TryBuildRepeat(items, start, p) ==
  IF start + 2 * p - 1 > Len(items) THEN NoRepeat ELSE
  LET b0 == Block(items, start, p)
      b1 == Block(items, start + p, p)
      o0 == Blk(b0, ItemOperands)
      o1 == Blk(b1, ItemOperands)
      n0 == Blk(b0, ItemNotes)
      n1 == Blk(b1, ItemNotes)
      steps == [i \in DOMAIN o0 |-> o1[i] - o0[i]]
      rules == [i \in DOMAIN n0 |-> DeriveNoteRule(n0[i], n1[i])] IN
  IF \E j \in 1..p : ItemStruct(b0[j]) # ItemStruct(b1[j]) THEN NoRepeat
  ELSE IF \E i \in DOMAIN rules : rules[i] = NoRule THEN NoRepeat
  ELSE RepeatOf(Extend(items, start, p, steps, rules, 2), b0, steps, rules)

MaxPeriodTries == 8
HashCheckCap == 32
MaxRollPasses == 64
NoPeriod == 1000000

\* the period tried at i: the first of at most 8 later items with i's hash
\* whose block matches (the hash of an item stands for its structure)
CandidatePeriod(hs, i) ==
  LET n == Len(hs)
      same == {j \in (i + 1)..n : hs[j] = hs[i]}
      tried == {j \in same : Len(SelectSeq([k \in 1..(j - i) |-> i + k], LAMBDA k : k \in same)) <= MaxPeriodTries}
      fits == {j \in tried : LET p == j - i IN
                 i + 2 * p - 1 <= n /\ \A t \in 0..((IF p < HashCheckCap THEN p ELSE HashCheckCap) - 1) :
                                          hs[i + t] = hs[i + p + t]} IN
  IF fits = {} THEN NoPeriod ELSE (CHOOSE j \in fits : \A k \in fits : j <= k) - i

\* roll_pass from item i on: a run is left for a later pass when a finer one
\* starts inside its first block
RECURSIVE RollFrom(_, _, _), RollStreamN(_, _)
RollFrom(items, cand, i) ==
  IF i > Len(items) THEN <<>> ELSE
  LET p == cand[i]
      finer == \E j \in (i + 1)..(i + p - 1) : j <= Len(items) /\ cand[j] < p
      rep == IF p = NoPeriod \/ finer THEN NoRepeat ELSE TryBuildRepeat(items, i, p) IN
  IF rep = NoRepeat THEN <<items[i]>> \o RollFrom(items, cand, i + 1)
  ELSE <<rep>> \o RollFrom(items, cand, i + p * rep.count)

RollPass(items) ==
  LET hs == SubSeq([i \in DOMAIN items |-> ItemStruct(items[i])], 1, Len(items))
      cand == SubSeq([i \in DOMAIN items |-> CandidatePeriod(hs, i)], 1, Len(items)) IN
  IF Len(items) < 2 THEN items ELSE RollFrom(items, cand, 1)

\* roll_stream: passes until nothing changes, so inner loops nest in outer ones
RollStreamN(items, passes) ==
  LET next == RollPass(items) IN
  IF passes = 0 \/ Len(next) = Len(items) THEN next ELSE RollStreamN(next, passes - 1)
RollStream(ops) == RollStreamN([i \in DOMAIN ops |-> Flat(ops[i])], MaxRollPasses - 1)

PutNoteRule(r) ==
  IF r = NoChange THEN <<0>>
  ELSE <<1>> \o PutVarint(Len(r.runs))
         \o Cat([i \in DOMAIN r.runs |-> PutVarint(r.runs[i][1] - 1) \o PutIvarint(r.runs[i][2])])

RECURSIVE PutItemCompact(_, _)
PutItemCompact(it, pool) ==
  IF ~it.rep THEN <<0>> \o PutOpcode(it.op, pool)
  ELSE <<1>> \o PutVarint(it.count) \o PutVarint(Len(it.body))
         \o Cat([i \in DOMAIN it.body |-> PutItemCompact(it.body[i], pool)])
         \o PutVarint(Len(it.steps)) \o Cat([i \in DOMAIN it.steps |-> PutIvarint(it.steps[i])])
         \o PutVarint(Len(it.notes))
         \o (IF \A i \in DOMAIN it.notes : it.notes[i] = NoChange THEN <<0>>
             ELSE <<1>> \o Cat([i \in DOMAIN it.notes |-> PutNoteRule(it.notes[i])]))

RollAndEncodeOpsCompact(ops, pool) ==
  LET items == RollStream(ops) IN
  PutVarint(Len(items)) \o Cat([i \in DOMAIN items |-> PutItemCompact(items[i], pool)])

NoteRun(c) == LET i == Varint(c)
                  s == Ivarint(i) IN Val(s, <<i.v + 1, s.v>>)
GetNoteRule(c) ==
  LET t == U8(c)
      n == Varint(t)
      r == Many(n, n.v, NoteRun) IN
  IF ~t.ok \/ t.v \notin {0, 1} THEN Fail(t)
  ELSE IF t.v = 0 THEN Val(t, NoChange) ELSE Val(r, [rule |-> "Template", runs |-> r.v])

RECURSIVE ItemCompact(_), EmitItem(_)
ItemCompact(c) ==
  LET t == U8(c)
      op == Opcode(t)
      n == Varint(t)
      nb == Varint(n)
      b == Many(nb, nb.v, ItemCompact)
      ns == Varint(b)
      s == Many(ns, ns.v, Ivarint)
      nn == Varint(s)
      f == U8(nn)
      r == Many(f, nn.v, GetNoteRule) IN
  IF ~t.ok \/ t.v \notin {0, 1} THEN Fail(t)
  ELSE IF t.v = 0 THEN Val(op, Flat(op.v))
  ELSE IF ~f.ok \/ f.v \notin {0, 1} THEN Fail(f)
  ELSE IF f.v = 0 THEN Val(f, RepeatOf(n.v, b.v, s.v, [i \in 1..nn.v |-> NoChange]))
  ELSE Val(r, RepeatOf(n.v, b.v, s.v, r.v))

\* emit_item, emit_repeat_iter: iteration k shifts the body, nested loops too
EmitItem(it) ==
  IF ~it.rep THEN <<it.op>>
  ELSE Cat([k \in 1..it.count |->
         Cat([i \in DOMAIN it.body |-> EmitItem(ShiftItem(it, k - 1, it.steps, it.notes).body[i])])])

DecodeAndExpandOpsCompact(bytes, pool) ==
  LET n == Varint(Cursor(bytes, pool))
      r == Many(n, n.v, ItemCompact) IN
  IF r.ok THEN Val(r, Cat([i \in DOMAIN r.v |-> EmitItem(r.v[i])])) ELSE r
=============================================================================
