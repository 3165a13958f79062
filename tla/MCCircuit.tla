------------------------------ MODULE MCCircuit ------------------------------
(***************************************************************************)
(* Small circuits: up to MaxStatements statements over a public input 0,   *)
(* each on it and on the variable made last: products, affine sums, hints  *)
(* with their rows, late inputs, merged products and calls of gadgets.     *)
(***************************************************************************)
EXTENDS Circuit

CONSTANTS MaxStatements

VARIABLE count
mcvars == <<vars, count>>

Last(e) == NVars(e) - 1
Fresh(e, v) == [e EXCEPT !.vis = Append(@, v)]
Row(e, a, b, c) == [e EXCEPT !.rows = Append(@, RowOp(a, b, c))]
Hint(e, kind, outs, ins, imm) == [e EXCEPT !.wits = Append(@, Op(kind, outs, ins, imm, NoNote))]
V(v) == LcVar(v)
OneLcs(ls) == [i \in DOMAIN ls |-> <<ls[i]>>]
Const(k) == Lc(k, <<>>)

Input0 == [EmptyEnv EXCEPT !.vis = <<"Public">>, !.inputs = <<0>>]
LateInput(e) == [Fresh(e, "Private") EXCEPT !.inputs = Append(@, NVars(e))]

Mul(e, a, b) ==
  LET o == NVars(e) IN
  Hint(Row(Fresh(e, "Internal"), V(a), V(b), V(o)), "Product", << <<o>> >>, OneLcs(<<V(a), V(b)>>), 0)

\* x * y asserted equal to y: the product's variable is not used
MulEq(e, a, b) ==
  LET o == NVars(e) IN
  [Row(Fresh(e, "Internal"), V(a), V(b), V(b)) EXCEPT
     !.wits = Append(@, Hole), !.merged = Append(@, [out |-> o, wit |-> Len(e.wits), row |-> Len(e.rows)])]

Affine(e, a, b) ==
  LET o == NVars(e)
      l == Lc(1, IF a = b THEN << <<40000, a>> >> ELSE << <<40000, a>>, <<-3, b>> >>) IN
  Hint(Row(Fresh(e, "Internal"), l, Const(1), V(o)), "Linear", << <<o>> >>, OneLcs(<<l>>), 0)

\* two hinted bits, boolean and recomposed
Bits2(e, a) ==
  LET o == NVars(e)
      b(i) == Lc(-1, << <<1, o + i>> >>)
      h(x, i) == Hint(Fresh(x, "Private"), "Bit", << <<o + i>> >>, OneLcs(<<V(a)>>), i)
      r(x, i) == Row(x, V(o + i), b(i), Const(0)) IN
  Row(r(r(h(h(e, 0), 1), 0), 1), Lc(0, [i \in 1..2 |-> <<2 ^ (i - 1), o + i - 1>>]), Const(1), V(a))

\* z = 1 exactly when a = 0
IsZero(e, a) ==
  LET i == NVars(e)
      z == i + 1
      e1 == Hint(Fresh(Fresh(e, "Private"), "Internal"), "InverseOrZero", << <<i>> >>, OneLcs(<<V(a)>>), 0)
      e2 == Hint(e1, "Linear", << <<z>> >>, OneLcs(<<Lc(1, << <<-1, a>> >>)>>), 0) IN
  Row(Row(e2, V(a), V(i), Lc(1, << <<-1, z>> >>)), V(a), V(z), Const(0))

\* a hinted bit that nothing recomposes: both its values fit
LooseBit(e, a) ==
  LET o == NVars(e)
      h == Hint(Fresh(e, "Private"), "Bit", << <<o>> >>, OneLcs(<<V(a)>>), 0) IN
  Row(h, V(o), Lc(-1, << <<1, o>> >>), Const(0))

Halves(e, a) ==
  LET q == NVars(e)
      e1 == Hint(Fresh(Fresh(e, "Private"), "Private"), "DivRem", << <<q>>, <<q + 1>> >>,
                 OneLcs(<<Lc(3, << <<1, a>> >>), Const(2)>>), 0) IN
  Row(e1, Lc(0, << <<2, q>>, <<1, q + 1>> >>), Const(1), Lc(3, << <<1, a>> >>))

\* witness-only variables: one a hint reads, one nothing does
Scratch(e, a) ==
  LET s == NVars(e)
      e1 == Hint(Fresh(e, "Internal"), "Linear", << <<s>> >>, OneLcs(<<Lc(2, << <<1, a>> >>)>>), 0)
      e2 == Hint(Fresh(e1, "Internal"), "Product", << <<s + 1>> >>, OneLcs(<<V(s), V(a)>>), 0)
      e3 == Hint(Fresh(e2, "Private"), "Xor", << <<s + 2>> >>, OneLcs(<<V(s), V(a)>>), 0) IN
  [Row(e3, V(a), V(s + 2), V(s + 2)) EXCEPT !.scratch = @ \cup {s, s + 1}]

Cube(e, a) == LET f == Mul(RegionBegin(e), a, a) IN RegionEnd(Mul(f, Last(f), a))
Outer(e, a) == LET f == Cube(RegionBegin(e), a) IN RegionEnd(Mul(f, Last(f), 0))
BitCall(e, a) == LET f == RegionEnd(Bits2(RegionBegin(e), a)) IN Mul(f, Last(f) - 1, a)
EqCall(e, a) == LET f == MulEq(RegionBegin(e), a, 0) IN RegionEnd(Mul(Mul(f, 0, a), Last(f) + 1, a))
Tiny(e, a) == RegionEnd(Mul(RegionBegin(e), a, 0))

Times(e, n, F(_)) == LET f[i \in 0..n] == IF i = 0 THEN e ELSE LET x == f[i - 1] IN F(x) IN f[n]

Statements(e) ==
  LET l == Last(e) IN
  {LateInput(e), Mul(e, 0, l), MulEq(e, 0, l), Affine(e, 0, l), Bits2(e, l), IsZero(e, l), Halves(e, l), LooseBit(e, l),
   Scratch(e, l), Cube(e, 0), Outer(e, l), BitCall(e, l), EqCall(e, l), Tiny(e, l),
   Times(e, 3, LAMBDA x : Cube(x, Last(x))), Times(e, 2, LAMBDA x : Outer(x, Last(x))),
   Times(e, 4, LAMBDA x : Mul(x, 0, Last(x)))}

\* after the first statement: those that read its output and those that start
\* or join a rolled run
Followers(e) ==
  LET l == Last(e) IN
  {Mul(e, 0, l), Bits2(e, l), Cube(e, 0), Outer(e, l), BitCall(e, l), Times(e, 3, LAMBDA x : Cube(x, Last(x)))}

MCInit == Init /\ count = 0
Begin == env = EmptyEnv /\ env' = Input0 /\ UNCHANGED <<blob, core, red, rowfile, witness, count>>
Lower == /\ blob = None /\ env # EmptyEnv /\ count < MaxStatements
         /\ env' \in (IF count = 0 THEN Statements(env) ELSE Followers(env)) /\ count' = count + 1
         /\ UNCHANGED <<blob, core, red, rowfile, witness>>
MCNext == Begin \/ Lower \/ (CodeNext /\ UNCHANGED count)
MCSpec == MCInit /\ [][MCNext]_mcvars
=============================================================================
