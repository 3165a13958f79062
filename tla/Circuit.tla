------------------------------- MODULE Circuit -------------------------------
(***************************************************************************)
(* A circuit from the end of its lowering to its use: the environment is   *)
(* finished and written as circuit.xbc; the file is decoded, its reduced   *)
(* rows written as r1cs.stream (a setup) and its witness solved from input *)
(* values (a proof).  What is lowered is the environment's (the statements *)
(* of an instance); every other step is the code's.                        *)
(*                                                                         *)
(* r1cs.stream (crates/ir/src/r1cs_stream.rs) holds the rows a setup       *)
(* reduced a circuit to, in windows that decode independently.  A variable *)
(* is <<id, public>>; an LC's constants are indexes into the file's pool,  *)
(* whose entry 0 is zero.                                                  *)
(***************************************************************************)
EXTENDS CircuitEval

\* What a step calls is a parameter and the configuration gives it its definition in
\* these modules: TLC's coverage then counts the steps and not the codec's expressions,
\* of which it would build a tree per call.
CONSTANTS
  WindowRows,         \* WINDOW_ROWS, scaled
  InputValues,        \* the values an input is given
  EncodeCircuit(_),   \* BuildFunctionBlob
  DecodeCircuit(_),   \* DecodeCore
  ReduceCircuit(_),   \* ReducedStream
  WriteRows(_, _),    \* RowsFile
  SolveCircuit(_, _)  \* SolveCompiled

ASSUME WindowAssumption == WindowRows \in Nat \ {0}

RowMagic == <<88, 82, 67, 83>>
OffsetBytes == 2        \* a window offset's width, 8 in the code
RowMin == 6             \* an encoded row has six bytes at least

(************************ encoding of r1cs.stream **************************)
\* Pool::intern over the constants in the order they are met
RECURSIVE Intern(_, _)
Intern(ks, pool) ==
  IF ks = <<>> THEN pool
  ELSE Intern(Tail(ks), IF \E i \in DOMAIN pool : pool[i] = Head(ks) THEN pool ELSE Append(pool, Head(ks)))
IndexIn(pool, v) == (CHOOSE i \in DOMAIN pool : pool[i] = v) - 1

\* the terms by variable; equal variables stay apart (readers add them up)
RECURSIVE ByVar(_)
ByVar(ts) ==
  IF ts = <<>> THEN <<>>
  ELSE LET i == CHOOSE i \in DOMAIN ts : \A j \in DOMAIN ts : ts[i][2] < ts[j][2] \/ (ts[i][2] = ts[j][2] /\ i <= j) IN
       <<ts[i]>> \o ByVar(SubSeq(ts, 1, i - 1) \o SubSeq(ts, i + 1, Len(ts)))

\* put_lc
EncodeLc(l, pool) ==
  LET ts == ByVar(l.ts) IN
  PutVarint(IndexIn(pool, l.k)) \o PutVarint(Len(ts))
    \o Cat([i \in DOMAIN ts |-> PutVarint(ts[i][2] - (IF i = 1 THEN 0 ELSE ts[i - 1][2])) \o PutVarint(IndexIn(pool, ts[i][1]))])

\* a constant's bytes: none for zero, else its sign and magnitude (the code's
\* two's complement)
ConstBytes(v) == IF v = 0 THEN <<>> ELSE <<IF v < 0 THEN 1 ELSE 0>> \o MagBytes(Abs(v))
OffsetLe(o) == [i \in 1..OffsetBytes |-> (o \div 256 ^ (i - 1)) % 256]

EncodeRows(fingerprint, vs, rows) ==
  LET consts == Cat([i \in DOMAIN rows |-> Cat([m \in 1..3 |->
                  LET l == RowLcs(rows[i])[m] IN <<l.k>> \o [t \in DOMAIN l.ts |-> l.ts[t][1]]])])
      pool == Intern(consts, <<0>>)
      enc == SubSeq([i \in DOMAIN rows |-> Cat([m \in 1..3 |-> EncodeLc(RowLcs(rows[i])[m], pool)])], 1, Len(rows))
      nw == (Len(rows) + WindowRows - 1) \div WindowRows
      offset(w) == Len(Cat(SubSeq(enc, 1, (w - 1) * WindowRows))) IN
  RowMagic \o PutStr(fingerprint)
    \o PutVarint(Len(vs)) \o Cat([i \in DOMAIN vs |-> PutVarint(vs[i][1]) \o <<IF vs[i][2] THEN 1 ELSE 0>>])
    \o PutVarint(Len(pool)) \o Cat([i \in DOMAIN pool |-> PutStr(ConstBytes(pool[i]))])
    \o PutVarint(Len(rows)) \o PutVarint(WindowRows) \o PutVarint(nw)
    \o Cat([w \in 1..nw |-> OffsetLe(offset(w))]) \o Cat(enc)

(************************ decoding of r1cs.stream **************************)
VarEntry(c) == LET i == Varint(c)
                   f == U8(i) IN IF f.ok /\ f.v > 1 THEN Fail(f) ELSE Val(f, <<i.v, f.v = 1>>)
PoolEntry(c) == LET s == GetStr(c) IN
                IF ~s.ok THEN s ELSE Val(s, IF s.v = <<>> THEN 0
                                            ELSE (IF s.v[1] = 1 THEN -1 ELSE 1) * FromMag(Tail(s.v)))
OffsetEntry(c) == LET o == Many(c, OffsetBytes, U8) IN IF o.ok THEN Val(o, FromMag(o.v)) ELSE o

BadFile == [ok |-> FALSE]
Duplicate(vs) == \E i, j \in DOMAIN vs : i < j /\ vs[i][1] = vs[j][1]
Left(c) == Len(c.b) - c.p + 1

\* a count of entries of at least size bytes each
Counted(c, size) == IF c.ok /\ c.v * size > Left(c) THEN Fail(c) ELSE c

\* RowFile::parse
ParseRows(b) ==
  LET print == GetStr([Cursor(b, NoPool) EXCEPT !.p = 5])
      nv == Counted(Varint(print), 2)
      vs == Many(nv, nv.v, VarEntry)
      np == Varint(vs)
      pool == Many(np, np.v, PoolEntry)
      nr == Varint(pool)
      win == Varint(nr)
      nw == Counted(Varint(win), OffsetBytes)
      offs == Many(nw, nw.v, OffsetEntry)
      len == Left(offs)
      o == offs.v IN
  IF Len(b) < 4 \/ SubSeq(b, 1, 4) # RowMagic THEN BadFile
  ELSE IF ~vs.ok THEN BadFile
  ELSE IF Duplicate(vs.v) THEN BadFile
  ELSE IF ~nw.ok \/ win.v = 0 THEN BadFile
  ELSE IF nw.v # (nr.v + win.v - 1) \div win.v THEN BadFile
  ELSE IF ~offs.ok \/ nr.v * RowMin > len THEN BadFile
  ELSE IF \E w \in DOMAIN o : o[w] >= len \/ (w > 1 /\ o[w] <= o[w - 1]) \/ (w = 1 /\ o[w] # 0) THEN BadFile
  ELSE [ok |-> TRUE, b |-> b, print |-> print.v, vars |-> vs.v, pool |-> pool.v, rows |-> nr.v, window |-> win.v,
        offsets |-> o, start |-> offs.p]

\* one LC of a window: constant index, then variable deltas and indexes
WindowTerm(c) ==
  LET d == Varint(c)
      k == Varint(d) IN
  IF k.ok /\ k.v >= Len(c.pool) THEN Fail(k) ELSE IF k.ok THEN Val(k, <<c.pool[k.v + 1], d.v>>) ELSE k
WindowLc(c) ==
  LET k == Varint(c)
      n == Varint(k)
      t == Many(n, n.v, WindowTerm)
      vs == Undelta([i \in DOMAIN t.v |-> t.v[i][2]]) IN
  IF ~t.ok \/ k.v >= Len(c.pool) THEN Fail(t)
  ELSE Val(t, Lc(c.pool[k.v + 1], [i \in DOMAIN t.v |-> <<t.v[i][1], vs[i]>>]))

\* decode_window of w (1-based): it must end where the next one starts
DecodeWindow(f, w) ==
  LET n == IF w * f.window < f.rows THEN f.window ELSE f.rows - (w - 1) * f.window
      r == Many([Cursor(f.b, f.pool) EXCEPT !.p = f.start + f.offsets[w]], 3 * n, WindowLc)
      end == IF w < Len(f.offsets) THEN f.start + f.offsets[w + 1] ELSE Len(f.b) + 1 IN
  IF ~r.ok \/ r.p # end THEN BadFile
  ELSE [ok |-> TRUE, rows |-> [i \in 1..n |-> RowOp(r.v[3 * i - 2], r.v[3 * i - 1], r.v[3 * i])]]

\* every window of a parsed file
Windows(f) == [w \in 1..Len(f.offsets) |-> DecodeWindow(f, w)]

(*************************** a circuit's steps *****************************)
VARIABLES
  env,      \* what the frontend lowers into (Artifact)
  blob,     \* the bytes of circuit.xbc, <<>> before
  core,     \* the decoded file
  red,      \* its reduced templates (ReducedRowStream)
  rowfile,  \* the bytes of r1cs.stream
  witness   \* [ok, z] of the compiled solver, with the inputs x

vars == <<env, blob, core, red, rowfile, witness>>

None == <<>>
EmptyEnv == [rows |-> <<>>, wits |-> <<>>, vis |-> <<>>, regions |-> <<>>, stack |-> <<>>,
             inputs |-> <<>>, merged |-> <<>>, scratch |-> {}]

Init == /\ env = EmptyEnv
        /\ blob = None /\ core = None /\ red = None /\ rowfile = None /\ witness = None

\* finish: the environment is completed and the artifact encoded
Finish ==
  /\ blob = None /\ env.stack = <<>> /\ env.inputs # <<>>
  /\ env' = Finished(env)
  /\ blob' = EncodeCircuit(env')
  /\ UNCHANGED <<core, red, rowfile, witness>>

\* a later command reads the file
Load ==
  /\ blob # None /\ core = None
  /\ core' = DecodeCircuit(blob)
  /\ UNCHANGED <<env, blob, red, rowfile, witness>>

Fingerprint == <<1, 2>>
PublicOf(c, v) == v < Len(c.inputs) /\ c.inputs[v + 1] = "PublicInput"
RowsFile(c, r) ==
  LET rows == VisitItems(r)
      kept == Ascending(Kept(c, rows))
  IN  EncodeRows(Fingerprint, [i \in DOMAIN kept |-> <<kept[i], PublicOf(c, kept[i])>>], rows)
\* setup: the reduced rows and the variables they or the inputs name
Reduce ==
  /\ core # None /\ red = None
  /\ red' = ReduceCircuit(core)
  /\ rowfile' = WriteRows(core, red')
  /\ UNCHANGED <<env, blob, core, witness>>

\* prove: the witness of given inputs
Solve ==
  /\ red # None /\ witness = None
  /\ \E x \in [0..(Len(core.inputs) - 1) -> InputValues] :
       witness' = [x |-> x, s |-> SolveCircuit(core, x)]
  /\ UNCHANGED <<env, blob, core, red, rowfile>>

CodeNext == Finish \/ Load \/ Reduce \/ Solve

-----------------------------------------------------------------------------
FlatProgram == Flattened(env)
Noted(rows) ==
  [i \in DOMAIN rows |-> [rows[i] EXCEPT !.note = << [t |-> "row "], [d |-> Digits(7 + i)] >>]]
Cuts(b) == {n \in 0..(Len(b) - 1) : n >= Len(b) - 6 \/ n % 11 = 0}
(* The artifact stands for the flat program: it decodes and expands to     *)
(* exactly the rows, the surviving witness ops and the variables of the    *)
(* lowering, the build's gate agrees, and the rolled codec keeps the notes *)
(* of rows too.  A file cut short anywhere is refused, never read as a     *)
(* smaller circuit (function_encode.rs, function_decode.rs, bytecode.rs).  *)
ArtifactRoundTrip(c) ==
  /\ c.ok
  /\ LET e == ExpandFunctionBlob(blob) IN
     e.rows = FlatProgram.rows /\ e.wits = FlatProgram.wits /\ e.vars = FlatProgram.vars
  /\ VerifyBlobMatches(c, FlatProgram)
  /\ LET rows == Noted(FlatProgram.rows)
         pool == ConstantPool(env, <<[c |-> [i \in DOMAIN env.rows |-> RowItem(i - 1)], w |-> <<>>]>>) IN
     DecodeAndExpandOpsCompact(RollAndEncodeOpsCompact(rows, pool), pool).v = rows
  /\ \A n \in Cuts(blob) : ~DecodeCore(SubSeq(blob, 1, n)).ok

(* r1cs.stream: every window decodes to its own rows, in order, and a file *)
(* cut short is refused by the parser or by one of its windows             *)
(* (r1cs_stream.rs).                                                       *)
RowFileRoundTrip(file, r) ==
  LET f == ParseRows(file)
      ws == Windows(f)
      rows == VisitItems(r)
      sorted(row) == LET l == RowLcs(row) IN [m \in 1..3 |-> Lc(l[m].k, ByVar(l[m].ts))]
      got == Cat([w \in DOMAIN ws |-> ws[w].rows]) IN
  /\ f.ok /\ f.rows = Len(rows)
  /\ \A w \in DOMAIN ws : ws[w].ok
  /\ [i \in DOMAIN got |-> RowLcs(got[i])] = [i \in DOMAIN rows |-> sorted(rows[i])]
  /\ \A n \in Cuts(file) : LET g == ParseRows(SubSeq(file, 1, n)) IN
       ~g.ok \/ \E w \in 1..Len(g.offsets) : ~DecodeWindow(g, w).ok

(* Both files of a circuit say what was written to them and refuse any     *)
(* part of themselves; each is looked at when it is first read or written. *)
RoundTrip ==
  [][/\ core' # core => ArtifactRoundTrip(core')
     /\ red' # red => RowFileRoundTrip(rowfile', red')]_<<core, red>>

-----------------------------------------------------------------------------
\* whether values for the variables beyond x satisfy rows, one variable at a time
RECURSIVE Extends(_, _, _)
Extends(todo, due, z) ==
  IF todo = <<>> THEN TRUE
  ELSE \E v \in 0..(P - 1) :
         LET z1 == Put(z, <<Head(todo)>>, <<v>>) IN
         /\ \A i \in DOMAIN due[Head(todo)] : RowSatisfied(due[Head(todo)][i], z1)
         /\ Extends(Tail(todo), due, z1)
Satisfiable(rows, x) ==
  LET vs == Ascending(RowVars(rows) \ DOMAIN x)
      last(row) == LET own == {v \in RowVars(<<row>>) : v \notin DOMAIN x} IN IF own = {} THEN -1 ELSE MaxOf(own)
      due == [v \in SeqSet(vs) \cup {-1} |-> SelectSeq(rows, LAMBDA r : last(r) = v)] IN
  (\A i \in DOMAIN due[-1] : RowSatisfied(due[-1][i], x)) /\ Extends(vs, due, x)

SolutionsKept(x, s) ==
    LET rows == VisitItems(red)
        z == s.z IN
    /\ Satisfiable(FlatProgram.rows, x) <=> Satisfiable(rows, x)
    /\ (s.ok /\ \A i \in DOMAIN FlatProgram.rows : RowSatisfied(FlatProgram.rows[i], z))
         => \A i \in DOMAIN rows : RowSatisfied(rows[i], z)
\* Reducing the templates keeps what can be proved: for every input values the
\* reduced rows have a solution exactly when the rows of the circuit have one,
\* and a witness that satisfies the circuit satisfies them.
ReductionKeepsSolutions == [][witness' # None => SolutionsKept(witness'.x, witness'.s)]_witness

Weights(n) == [i \in 1..n |-> (i * i) % 5]
Columns(rows) == {Column("Const", 0)} \cup {Column("Var", v) : v \in RowVars(rows)}
Entry(row, m, col) ==
  IF col[1] = "Const" THEN RowLcs(row)[m].k % P ELSE Coeff(RowLcs(row)[m], col[2])
ItemsEvaluate(z) ==
    LET rows == VisitItems(red)
        prog == CompileRows(red)
        w == Weights(Len(rows))
        t == TransposeEval(prog, w) IN
    /\ EvalItems(prog, prog.top, [base |-> 0, fixed |-> TRUE, vals |-> <<>>], z)
         = [i \in DOMAIN rows |-> RowValues(rows[i], z)]
    /\ red.start[Len(red.top)] = Len(rows)
    /\ \A i \in DOMAIN t : t[i][1] \in Columns(rows)
    /\ \A col \in Columns(rows) : \A m \in 1..3 :
         SumSeq([i \in DOMAIN t |-> IF t[i][1] = col /\ t[i][2] = m THEN t[i][3] ELSE 0]) % P
           = SumSeq([i \in DOMAIN rows |-> w[i] * Entry(rows[i], m, col)]) % P
\* The templates evaluated in place give the values of the expanded rows, each
\* item's rows where item_row_start says, and the transposed evaluation gives
\* every column the weights of its rows.
EvaluationAgrees == [][witness' # None /\ witness'.s.ok => ItemsEvaluate(witness'.s.z)]_witness

-----------------------------------------------------------------------------
OnKept(z) == [v \in {FlatProgram.vars[i].id : i \in DOMAIN FlatProgram.vars} |-> Get(z, v)]
SolvedAsInOrder(x, s) ==
    LET seq == SolveSequential(FlatProgram.wits, x)
        par == SolveParallel(FlatProgram.wits, x)
        all == SolveSequential(Expand(core.defs, core.topw, Identity, "w"), x) IN
    /\ par.ok = seq.ok /\ (seq.ok => par.z = seq.z)
    /\ s.ok = all.ok /\ (all.ok => s.z = all.z)
    /\ all.ok => seq.ok /\ OnKept(all.z) = OnKept(seq.z)
\* Every way to solve a witness gives the values of the sequential one (or
\* fails when it fails): level by level, and by templates compiled once.
SolversAgree == [][witness' # None => SolvedAsInOrder(witness'.x, witness'.s)]_witness

Factored(prim) == Len(prim.vars) > Len(FlatProgram.vars)
SameAnalysis(x, z) ==
    LET prog == [vars |-> FlatProgram.vars, rows |-> FlatProgram.rows, wits |-> FlatProgram.wits]
        prim == ToPrimitive(prog)
        zp == SolveSequential(prim.wits, x).z
        shards == Shards(core)
        sat == \A i \in DOMAIN FlatProgram.rows : RowSatisfied(FlatProgram.rows[i], z)
        rows == AnalyzeRows(prog, z) IN
    /\ StreamUnderconstrained(core, shards, z) = rows
    /\ ~Factored(prim) => AnalyzeExpressions(prim, z) = rows
    /\ StreamSatisfied(shards, z) = sat
    /\ sat <=> \A i \in DOMAIN prim.exprs : EvalExpression(prim.exprs[i], zp) = 0
    /\ FirstFailingRow(shards, z)
         = (IF sat THEN {} ELSE {MinOf({i \in DOMAIN FlatProgram.rows : ~RowSatisfied(FlatProgram.rows[i], z)}) - 1})
    /\ StreamCountConstraints(shards) = Len(FlatProgram.rows)
\* The three analyzers flag the same variables for the same reasons, the three
\* checks accept the same witnesses, and the failing row named is the first.
AnalyzersAgree == [][witness' # None /\ witness'.s.ok => SameAnalysis(witness'.x, witness'.s.z)]_witness
=============================================================================
