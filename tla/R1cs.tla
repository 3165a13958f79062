-------------------------------- MODULE R1cs --------------------------------
(***************************************************************************)
(* Streaming rows: the variable order contract, row windows of the three   *)
(* sources and the evaluations over them                                   *)
(* (src/crates/groth16/src/r1cs.rs).                                       *)
(*                                                                         *)
(* A circuit is [vars, rows, items, fileWindow]: vars a sequence of        *)
(* [id, public], rows of [a, b, c], each a linear combination              *)
(* [constant, terms] with terms a sequence of <<var, coeff>>; items the    *)
(* row counts of the bytecode's top-level items and fileWindow the rows of *)
(* a window of the row file.  A source is such a circuit with its kind.    *)
(***************************************************************************)
EXTENDS Field, SequencesExt

SourceKinds == {"Program", "Bytecode", "BytecodeExpanded", "RowFile"}

-----------------------------------------------------------------------------
(* VarLayout: position 0 is the constant 1, then the public variables in   *)
(* the order of their ids, then the others.                                *)

LayoutOf(vars) ==
    LET sorted == SortSeq(vars, LAMBDA v, w : v.id < w.id)
        pub == SelectSeq(sorted, LAMBDA v : v.public)
        aux == SelectSeq(sorted, LAMBDA v : ~v.public)
        all == pub \o aux
    IN  [ids |-> [p \in 1..Len(all) |-> all[p].id], numInstance |-> Len(pub) + 1]

NumVars(l) == Len(l.ids) + 1
NumWitness(l) == NumVars(l) - l.numInstance

(* The dense table (filled by position, the gaps unallocated) when the ids *)
(* are at most twice their number, the map from ids else.                  *)
Unallocated == -1
PositionOf(l) ==
    LET last == CHOOSE m \in {-1} \cup {l.ids[p] : p \in 1..Len(l.ids)} :
                    \A p \in 1..Len(l.ids) : l.ids[p] <= m
        dense == l.ids # << >> /\ last + 1 <= 2 * Len(l.ids)
    IN  [id \in (IF dense THEN 0..last ELSE {l.ids[p] : p \in 1..Len(l.ids)}) |->
            IF \E p \in 1..Len(l.ids) : l.ids[p] = id
            THEN CHOOSE p \in 1..Len(l.ids) : l.ids[p] = id
            ELSE Unallocated]

(* The assignment z of a solved map; a variable it lacks is zero. *)
Assignment(l, value) ==
    <<1>> \o [p \in 1..Len(l.ids) |-> IF l.ids[p] \in DOMAIN value THEN value[l.ids[p]] ELSE 0]

-----------------------------------------------------------------------------
(* Row chunks: terms <<position, coefficient>> in one sequence, the        *)
(* offsets of each row's three combinations in another.                    *)

(* CoeffCache::fr: the residue of a signed constant. *)
Residue(c) == c % P

LcTerms(lc, pos) ==
    (IF lc.constant # 0 THEN <<<<0, Residue(lc.constant)>>>> ELSE << >>)
        \o [j \in 1..Len(lc.terms) |-> <<pos[lc.terms[j][1]], Residue(lc.terms[j][2])>>]

EmptyChunk(firstRow) == [firstRow |-> firstRow, offsets |-> <<0>>, terms |-> << >>]
PushLc(ch, ts) ==
    [ch EXCEPT !.terms = @ \o ts, !.offsets = Append(@, Len(ch.terms) + Len(ts))]
PushRow(ch, row, pos) ==
    PushLc(PushLc(PushLc(ch, LcTerms(row.a, pos)), LcTerms(row.b, pos)), LcTerms(row.c, pos))

ChunkRows(ch) == (Len(ch.offsets) - 1) \div 3
ChunkTerms(ch, row, m) == Slice(ch.terms, At(ch.offsets, 3 * row + m), At(ch.offsets, 3 * row + m + 1))
ChunkEval(ch, row, m, z) ==
    Total(LET ts == ChunkTerms(ch, row, m)
          IN  [j \in 1..Len(ts) |-> Mul(At(z, ts[j][1]), ts[j][2])])

-----------------------------------------------------------------------------
(* Windows [from, to) of rows, in order.                                   *)

RowStart(src, item) == IF item = 0 THEN 0 ELSE FoldLeft(LAMBDA a, b : a + b, 0, SubSeq(src.items, 1, item))

RECURSIVE ItemWindows(_, _, _)
ItemWindows(src, item, hint) ==
    IF item = Len(src.items) THEN << >>
    ELSE Let(RowStart(src, item), LAMBDA row0 :
         LET short(i) == RowStart(src, i) - row0 < hint IN
         Let(CHOOSE i \in (item..Len(src.items)) :
                /\ i = Len(src.items) \/ ~short(i)
                /\ \A k \in item..(i - 1) : short(k), LAMBDA stop :
         <<[from |-> row0, to |-> RowStart(src, stop)]>> \o ItemWindows(src, stop, hint)))

Windows(src, hint) ==
    LET n == Len(src.rows) IN
    CASE src.kind = "Program" ->
            LET step == AtLeast(hint, 1)
            IN  Vec(CeilDiv(n, step), LAMBDA j : [from |-> j * step, to |-> AtMost(n, (j + 1) * step)])
      [] src.kind \in {"Bytecode", "BytecodeExpanded"} -> ItemWindows(src, 0, hint)
      [] src.kind = "RowFile" ->
            LET per == AtLeast(CeilDiv(hint, src.fileWindow), 1)
                wins == CeilDiv(n, src.fileWindow)
            IN  Vec(CeilDiv(wins, per), LAMBDA j :
                    [from |-> j * per * src.fileWindow,
                     to |-> AtMost(AtMost((j + 1) * per, wins) * src.fileWindow, n)])

RECURSIVE PushRows(_, _, _, _)
PushRows(ch, src, from, to) ==
    IF from = to THEN ch
    ELSE PushRows(PushRow(ch, At(src.rows, from), PositionOf(src.layout)), src, from + 1, to)
Expand(src, w) == PushRows(EmptyChunk(w.from), src, w.from, w.to)

(* eval_items: a window of the bytecode evaluated without expanding it. *)
LcValue(lc, value(_)) ==
    Add(Residue(lc.constant), Total([j \in 1..Len(lc.terms) |->
                                       Mul(value(lc.terms[j][1]), Residue(lc.terms[j][2]))]))
Side(row, m) == IF m = 0 THEN row.a ELSE IF m = 1 THEN row.b ELSE row.c

EvalWindow(src, w, z, m) ==
    LET pos == PositionOf(src.layout) IN
    IF src.kind = "Bytecode"
    THEN Vec(w.to - w.from, LAMBDA i :
             LcValue(Side(At(src.rows, w.from + i), m), LAMBDA id : At(z, pos[id])))
    ELSE LET ch == Expand(src, w) IN Vec(w.to - w.from, LAMBDA i : ChunkEval(ch, i, m, z))

(* eval_rows: each window fills the rows of its own slice of the output. *)
EvalRows(src, z, hint, m) ==
    Let(Windows(src, hint), LAMBDA ws :
    Let([j \in 1..Len(ws) |-> EvalWindow(src, ws[j], z, m)], LAMBDA parts :
    LET holder(i) == CHOOSE j \in 1..Len(ws) : ws[j].from <= i /\ i < ws[j].to IN
    Vec(Len(src.rows), LAMBDA i : At(parts[holder(i)], i - ws[holder(i)].from))))

AllSatisfied == -1
FirstUnsatisfied(src, z, hint) ==
    Let(Windows(src, hint), LAMBDA ws :
    Let([j \in 1..Len(ws) |-> Expand(src, ws[j])], LAMBDA chunks :
    LET bad(j, i) == Mul(ChunkEval(chunks[j], i, 0, z), ChunkEval(chunks[j], i, 1, z))
                        # ChunkEval(chunks[j], i, 2, z) IN
    Let({ws[j].from + i : <<j, i>> \in
            {p \in (1..Len(ws)) \X (0..Len(src.rows)) :
                p[2] < ChunkRows(chunks[p[1]]) /\ bad(p[1], p[2])}}, LAMBDA rows :
    IF rows = {} THEN AllSatisfied ELSE CHOOSE r \in rows : \A o \in rows : r <= o)))

(* transpose_eval: for each position the weighted sum of its column. *)
TransposeEval(src, w, hint, m) ==
    Let(Windows(src, hint), LAMBDA ws :
    Let([j \in 1..Len(ws) |-> Expand(src, ws[j])], LAMBDA chunks :
    LET inRow(j, i, p) == LET ts == ChunkTerms(chunks[j], i, m)
                          IN  Total([t \in 1..Len(ts) |-> IF ts[t][1] = p THEN ts[t][2] ELSE 0]) IN
    Vec(NumVars(src.layout), LAMBDA p :
        Total([j \in 1..Len(ws) |->
                 Total(Vec(ws[j].to - ws[j].from, LAMBDA i :
                           Mul(At(w, ws[j].from + i), inRow(j, i, p))))]))))

(* The columns of the three matrices by position, each in the order of its *)
(* rows (setup.rs Columns, whose parallel fill is sorted afterwards).      *)
Column(src, m, p, hint) ==
    Let(Windows(src, hint), LAMBDA ws :
    LET cells(j, i) == Let(SelectSeq(ChunkTerms(Expand(src, ws[j]), i, m), LAMBDA t : t[1] = p), LAMBDA ts :
                       [t \in 1..Len(ts) |-> <<ws[j].from + i, ts[t][2]>>]) IN
    FlattenSeq([j \in 1..Len(ws) |->
        FlattenSeq(Vec(ws[j].to - ws[j].from, LAMBDA i : cells(j, i)))]))

SourceOf(circuit, kind) ==
    [kind |-> kind, rows |-> circuit.rows, items |-> circuit.items,
     fileWindow |-> circuit.fileWindow, layout |-> LayoutOf(circuit.vars)]

-----------------------------------------------------------------------------
(* The rows by definition. *)
Satisfies(circuit, value) ==
    \A i \in 1..Len(circuit.rows) :
        LET v(id) == IF id \in DOMAIN value THEN value[id] ELSE 0
            r == circuit.rows[i]
        IN  Mul(LcValue(r.a, v), LcValue(r.b, v)) = LcValue(r.c, v)
=============================================================================
