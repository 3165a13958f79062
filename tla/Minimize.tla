------------------------------ MODULE Minimize ------------------------------
(***************************************************************************)
(* R1CS minimization (crates/ir/src/minimize.rs): a worklist of rows       *)
(* a * b = c over the field of P elements.  A row that is really linear    *)
(* defines its lowest Internal variable, which is then substituted away;   *)
(* the rows it changes go back on the worklist.  The certificate (Trace)   *)
(* that the Lean checker reads is kept along the way.                      *)
(*                                                                         *)
(* A linear combination is a function on 0..N: its constant at 0, then the *)
(* coefficients, 0 for a variable it does not hold.  A dead row is Dead.   *)
(***************************************************************************)
EXTENDS Naturals, Sequences, SequencesExt, FiniteSetsExt

CONSTANTS
  P,         \* the field's modulus, a prime
  N,         \* variables 1..N
  Internal,  \* those that are Internal
  Fill,      \* the fill-in guard (MAX_FILL)
  Programs   \* sequences of rows

Vars  == 1..N
Field == 0..(P - 1)
Lc    == [0..N -> Field]
Row   == [1..3 -> Lc]

ASSUME MinimizeAssumption ==
  /\ P \in Nat /\ P > 1 /\ N \in Nat /\ Fill \in Nat
  /\ \A x \in 1..(P - 1) : \E y \in 1..(P - 1) : (x * y) % P = 1
  /\ Internal \subseteq Vars
  /\ \A rows \in Programs : rows \in Seq(Row)

VARIABLES
  prog,     \* the rows given
  cons,     \* the rows now
  occ,      \* variable -> rows that may hold it
  queue,    \* the worklist (in_queue[i]: i is in it)
  steps,    \* Trace.steps: [var, row, lc]
  subs,     \* Trace.substitutions: for each step, <<row, form>> -> m
  dropped   \* Trace.dropped

vars == <<prog, cons, occ, queue, steps, subs, dropped>>

-----------------------------------------------------------------------------
Dead == <<>>

Minus(x) == (P - x) % P
Inverse_Of(x) == CHOOSE y \in Field : (x * y) % P = 1

Terms(lc)   == {v \in Vars : lc[v] # 0}
IsConst(lc) == Terms(lc) = {}
Scale(lc, m) == [v \in 0..N |-> (lc[v] * m) % P]
Sub(x, y)    == [v \in 0..N |-> (x[v] + Minus(y[v])) % P]

(* subst_site on one form: lc with v replaced by vlc.                      *)
Subst(lc, v, vlc) ==
  [u \in 0..N |-> ((IF u = v THEN 0 ELSE lc[u]) + lc[v] * vlc[u]) % P]

Holds(row, v) == row # Dead /\ \E form \in 1..3 : row[form][v] # 0

SubstRow(row, v, vlc) == [form \in 1..3 |-> Subst(row[form], v, vlc)]

(* The relation of a row whose a or b is a constant.                       *)
IsLinear(row) == IsConst(row[1]) \/ IsConst(row[2])

Relation(row) ==
  IF IsConst(row[1]) THEN Sub(Scale(row[2], row[1][0]), row[3])
                     ELSE Sub(Scale(row[1], row[2][0]), row[3])

(* Internal variables the relation holds; the lowest is eliminated.        *)
Pivots(rel) == Terms(rel) \cap Internal
Pivot(rel)  == Min(Pivots(rel))

Replacement_NotInverted(rel) ==
  LET v == Pivot(rel) IN Scale([rel EXCEPT ![v] = 0], Minus(rel[v]))

(* v = - (rel without v) / coeff.                                          *)
Replacement(rel) ==
  LET v == Pivot(rel) IN Scale([rel EXCEPT ![v] = 0], Minus(Inverse_Of(rel[v])))

Eliminable(row) ==
  /\ row # Dead /\ IsLinear(row)
  /\ Pivots(Relation(row)) # {}
  /\ Cardinality(Terms(Replacement(Relation(row)))) <= Fill

-----------------------------------------------------------------------------
Init ==
  /\ prog \in Programs
  /\ cons = prog
  /\ occ = [v \in Vars |-> {i \in DOMAIN prog : Holds(prog[i], v)}]
  /\ queue = [i \in 1..Len(prog) |-> i]
  /\ steps = <<>> /\ subs = <<>> /\ dropped = {}

Trivial(row) == row # Dead /\ IsLinear(row) /\ IsConst(Relation(row))

(* A dead, quadratic, infeasible, input-only or too dense row stays.       *)
Pass ==
  /\ queue # <<>>
  /\ LET row == cons[Head(queue)] IN
     /\ ~ Eliminable(row)
     /\ ~ (Trivial(row) /\ Relation(row)[0] = 0)
  /\ queue' = Tail(queue)
  /\ UNCHANGED <<prog, cons, occ, steps, subs, dropped>>

(* 0 = 0 is dropped.                                                       *)
Drop ==
  /\ queue # <<>>
  /\ LET row == cons[Head(queue)] IN Trivial(row) /\ Relation(row)[0] = 0
  /\ cons' = [cons EXCEPT ![Head(queue)] = Dead]
  /\ dropped' = dropped \cup {Head(queue)}
  /\ queue' = Tail(queue)
  /\ UNCHANGED <<prog, occ, steps, subs>>

(* The rows among the sites that hold v, other than the defining one.      *)
Changed(i, v) == {j \in occ[v] \ {i} : Holds(cons[j], v)}

Introduced(j, v, vlc) == {u \in Terms(vlc) : \E form \in 1..3 :
                            cons[j][form][v] # 0 /\ cons[j][form][u] = 0}

(* v's sites are taken out; the rows that gain a variable become its.      *)
OccAfter(changed, v, vlc) ==
  [u \in Vars |-> (IF u = v THEN {} ELSE occ[u])
                    \cup {j \in changed : u \in Introduced(j, v, vlc)}]

Requeued_None(changed, rest) == rest

(* A finite set of numbers in ascending order.                             *)
Ascending(S) ==
  [k \in 1..Cardinality(S) |-> CHOOSE i \in S : Cardinality({j \in S : j <= i}) = k]

(* The changed rows that are not waiting already, in the sites' order.     *)
Requeued(changed, rest) == rest \o Ascending(changed \ ToSet(rest))

Substitutions_First(changed, v) ==
  [site \in {<<j, Min({f \in 1..3 : cons[j][f][v] # 0})>> : j \in changed} |->
     cons[site[1]][site[2]][v]]

(* The multiplier of every changed form.                                   *)
Substitutions(changed, v) ==
  [site \in {s \in changed \X (1..3) : cons[s[1]][s[2]][v] # 0} |->
     cons[site[1]][site[2]][v]]

Eliminate ==
  /\ queue # <<>>
  /\ Eliminable(cons[Head(queue)])
  /\ LET i       == Head(queue)
         rel     == Relation(cons[i])
         v       == Pivot(rel)
         vlc     == Replacement(rel)
         changed == Changed(i, v)
     IN /\ cons' = [j \in DOMAIN cons |->
                      IF j = i THEN Dead
                      ELSE IF j \in changed THEN SubstRow(cons[j], v, vlc) ELSE cons[j]]
        /\ occ' = OccAfter(changed, v, vlc)
        /\ queue' = Requeued(changed, Tail(queue))
        /\ steps' = Append(steps, [var |-> v, row |-> i, lc |-> vlc])
        /\ subs' = Append(subs, Substitutions(changed, v))
        /\ UNCHANGED <<prog, dropped>>

Next == Pass \/ Drop \/ Eliminate

Spec == Init /\ [][Next]_vars

-----------------------------------------------------------------------------
(* Properties.                                                             *)

Assignments == [Vars -> Field]

(* The value of lc at z, one variable after the other.                     *)
PartialEval(lc, z) ==
  LET sum[n \in 0..N] == IF n = 0 THEN lc[0] ELSE (sum[n - 1] + lc[n] * z[n]) % P
  IN sum

Eval(lc, z) == PartialEval(lc, z)[N]

Satisfied(row, z) ==
  row = Dead \/ (Eval(row[1], z) * Eval(row[2], z)) % P = Eval(row[3], z)

(* After every turn the remaining rows together with the eliminated        *)
(* variables' definitions have exactly the solutions of the rows given:    *)
(* elimination neither forges a witness nor rejects an honest one.         *)
SolutionsPreserved ==
  \A z \in Assignments :
    (\A i \in DOMAIN prog : Satisfied(prog[i], z))
      <=> /\ \A i \in DOMAIN cons : Satisfied(cons[i], z)
          /\ \A k \in DOMAIN steps : z[steps[k].var] = Eval(steps[k].lc, z)

(* An eliminated variable is gone for good: no row and no later definition *)
(* holds it, although sites are only found through the append-only index.  *)
EliminatedGone ==
  \A k \in DOMAIN steps :
    /\ \A i \in DOMAIN cons : ~ Holds(cons[i], steps[k].var)
    /\ \A l \in k..Len(steps) : steps[l].lc[steps[k].var] = 0

(* The fixpoint XARK_VERIFY asserts: when the worklist is empty no row     *)
(* left defines a variable that is cheap to eliminate, or is 0 = 0.        *)
Fixpoint ==
  queue = <<>> =>
    \A i \in DOMAIN cons :
      ~ Eliminable(cons[i]) /\ ~ (Trivial(cons[i]) /\ Relation(cons[i])[0] = 0)

(* The given form with its recorded substitutions made again, step by step *)
(* as the checker makes them: each adds m * (lc - var).                    *)
Added(lc, m, step) ==
  [u \in 0..N |-> (lc[u] + m * (step.lc[u] + (IF u = step.var THEN P - 1 ELSE 0))) % P]

Replay(i, form) ==
  LET lc[k \in 0..Len(steps)] ==
        IF k = 0 THEN prog[i][form]
        ELSE IF <<i, form>> \in DOMAIN subs[k]
          THEN Added(lc[k - 1], subs[k][<<i, form>>], steps[k])
          ELSE lc[k - 1]
  IN lc

(* The certificate explains the result: each row left is the given one     *)
(* with its recorded substitutions made, and every missing row was dropped *)
(* or defines a step.                                                      *)
TraceExplains ==
  \A i \in DOMAIN cons :
    /\ cons[i] # Dead =>
         \A form \in 1..3 : cons[i][form] = Replay(i, form)[Len(steps)]
    /\ cons[i] = Dead <=> (i \in dropped \/ \E k \in DOMAIN steps : steps[k].row = i)

(* The pass ends where it claims to: eliminated variables are gone and     *)
(* nothing cheap to eliminate is left.                                     *)
ReducedForm == EliminatedGone /\ Fixpoint
=============================================================================
