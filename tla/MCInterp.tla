------------------------------ MODULE MCInterp ------------------------------
(***************************************************************************)
(* Small circuit programs run by the symbolic machine and, for every       *)
(* assignment of their inputs, by the concrete one.  A program is a        *)
(* prelude that reads the inputs, then a statement of Before, a branching  *)
(* over arms that store, call, return, require or panic, and a statement   *)
(* of After.  The symbolic machine runs the fused code, the concrete one   *)
(* the code as it was decoded.                                             *)
(***************************************************************************)
EXTENDS Interp

CONSTANTS Before, Arms, Far, Conds, After   \* names of the statements and conditions

VARIABLES prog   \* the statements of the program written so far

(* One bool and one two-bit input. *)
Inputs == (0 .. 1) \X (0 .. 3)
InputWidths == <<1, 2>>
InputValues == [w \in Inputs |-> w]

K(n, signed, wide) == [n |-> n, signed |-> signed, wide |-> wide]
B8 == K(1, FALSE, FALSE)
I32 == K(Half, FALSE, FALSE)
(* Locals: 1 is the bool input, 2 the two-bit input, 3 a temporary. *)
Stmt == [
  setA   |-> <<<<"get", 1>>, <<"set", 3>>>>,
  set3   |-> <<<<"const", 3>>, <<"set", 3>>>>,
  addB   |-> <<<<"get", 3>>, <<"get", 2>>, <<"bin", "add", FALSE>>, <<"set", 3>>>>,
  inc    |-> <<<<"get", 3>>, <<"const", 1>>, <<"bin", "add", FALSE>>, <<"set", 3>>>>,
  xor    |-> <<<<"get", 3>>, <<"get", 1>>, <<"bin", "xor", FALSE>>, <<"set", 3>>>>,
  divB   |-> <<<<"const", 6>>, <<"get", 2>>, <<"bin", "div_u", FALSE>>, <<"set", 3>>>>,
  st0B   |-> <<<<"const", 0>>, <<"get", 2>>, <<"store", B8, 0>>>>,
  st1T   |-> <<<<"const", 0>>, <<"get", 3>>, <<"store", I32, 1>>>>,
  stIdx  |-> <<<<"get", 2>>, <<"const", 1>>, <<"store", B8, 3>>>>,
  stOob  |-> <<<<"get", 2>>, <<"const", 1>>, <<"store", I32, 5>>>>,
  ldOob  |-> <<<<"get", 2>>, <<"load", I32, 5>>, <<"set", 3>>>>,
  stFar  |-> <<<<"get", 3>>, <<"get", 2>>, <<"store", B8, 4>>>>,
  ldFar  |-> <<<<"get", 3>>, <<"load", B8, 4>>, <<"set", 3>>>>,
  stT    |-> <<<<"get", 3>>, <<"get", 2>>, <<"store", I32, 0>>>>,
  ld0    |-> <<<<"const", 0>>, <<"load", I32, 0>>, <<"set", 3>>>>,
  ld64   |-> <<<<"const", 0>>, <<"load", I64, 0>>, <<"wrap">>, <<"set", 3>>>>,
  copy   |-> <<<<"const", 2>>, <<"const", 0>>, <<"const", 5>>, <<"mcopy">>>>,
  fill   |-> <<<<"const", 1>>, <<"const", 6>>, <<"un", "popcnt", FALSE>>, <<"const", 4>>,
               <<"mfill">>>>,
  words  |-> <<<<"const", 0>>, <<"set", 3>>, <<"get", 3>>, <<"get", 3>>, <<"load", I64, 0>>,
               <<"store", I64, 4>>, <<"get", 3>>, <<"get", 3>>, <<"load", I64, 4>>,
               <<"store", I64, 8>>>>,
  sel    |-> <<<<"const", 4>>, <<"get", 3>>, <<"get", 1>>, <<"select">>, <<"set", 3>>>>,
  req    |-> <<<<"get", 3>>, <<"const", 2>>, <<"cmp", "lt_u", FALSE>>, <<"import", "require", 0>>>>,
  gset   |-> <<<<"gget", 1>>, <<"const", 1>>, <<"bin", "sub", FALSE>>, <<"tee", 3>>, <<"gset", 1>>>>,
  trap   |-> <<<<"unreachable">>>>,
  panic  |-> <<<<"import", "panic", 0>>>>,
  ret    |-> <<<<"return">>>>,
  input  |-> <<<<"import", "input", 1>>, <<"drop">>>>,
  call   |-> <<<<"get", 1>>, <<"call", 2>>>>,
  icall  |-> <<<<"get", 1>>, <<"const", 1>>, <<"icall", <<1, 0>>>>>>,
  move   |-> <<<<"const", 3>>, <<"const", 0>>, <<"load", I32, 0>>, <<"store", I32, 1>>>>,
  grow   |-> <<<<"const", 1>>, <<"mgrow">>, <<"drop">>>>,
  msize  |-> <<<<"msize">>, <<"set", 3>>>>,
  nop    |-> <<<<"nop">>>> ]
Cond == [
  a   |-> <<<<"get", 1>>>>,
  b   |-> <<<<"get", 2>>>>,
  t   |-> <<<<"get", 3>>>>,
  notB |-> <<<<"get", 2>>, <<"eqz", FALSE>>>>,
  ltT |-> <<<<"get", 3>>, <<"const", 2>>, <<"cmp", "lt_u", FALSE>>>> ]

If(c, s, t) == Cond[c] \o <<<<"if", 0, 0>>>> \o Stmt[s] \o <<<<"else">>>> \o Stmt[t] \o <<<<"end">>>>
Skip(c, s, t) == <<<<"block", 0, 0>>>> \o Stmt[s] \o Cond[c] \o <<<<"br_if", 0>>>>
                   \o Stmt[t] \o <<<<"end">>>>
Leave(c, s, t) == <<<<"block", 0, 0>>, <<"block", 0, 0>>>> \o Cond[c] \o <<<<"br_if", 1>>>>
                    \o Stmt[s] \o <<<<"end">>>> \o Stmt[t] \o <<<<"end">>>>
Match(s, t) == <<<<"block", 0, 0>>, <<"block", 0, 0>>, <<"get", 2>>, <<"br_table", <<0, 1, 0>>>>,
                 <<"end">>>> \o Stmt[s] \o <<<<"end">>>> \o Stmt[t]
Loop(s) == <<<<"const", 0>>, <<"set", 3>>, <<"loop", 0>>, <<"get", 3>>, <<"const", 1>>,
             <<"bin", "add", FALSE>>, <<"set", 3>>>> \o Stmt[s] \o
           <<<<"get", 3>>, <<"const", 2>>, <<"cmp", "lt_u", FALSE>>, <<"br_if", 0>>, <<"end">>>>

(* Arms that leave the loop counter alone; those of Far reach out of       *)
(* bounds, with an index or with one of two selected pointers.             *)
Straight == {"st0B", "st1T", "stIdx", "stT", "call", "req", "trap", "ret"}
Branching ==
  {If(c, s, t) : c \in Conds, s \in Arms, t \in Arms}
    \cup {Skip(c, s, t) : c \in Conds, s \in Arms, t \in Arms}
    \cup {Leave(c, s, t) : c \in Conds, s \in Arms, t \in Arms}
    \cup {Match(s, t) : s \in Arms, t \in Arms}
    \cup {If(c, s, "inc") : c \in Conds, s \in Far} \cup {Skip(c, "nop", s) : c \in Conds, s \in Far}
    \cup {Match(s, "nop") : s \in Far}
    \cup {Loop(s) : s \in Arms \cap Straight}

(* Function 2: `if a { return } mem[0] = 1'. *)
Callee == <<<<"get", 1>>, <<"br_if", 0>>, <<"const", 0>>, <<"const", 1>>, <<"store", B8, 0>>,
            <<"end">>>>
Prelude == <<<<"import", "input", 1>>, <<"set", 1>>, <<"import", "input", 2>>, <<"set", 2>>>>
Funcs(p, decode(_)) ==
  <<[params |-> 0, results |-> 0, locals |-> 3,
     code |-> decode(DecodeBody(Prelude \o FlattenSeq(p) \o <<<<"end">>>>))],
    [params |-> 1, results |-> 0, locals |-> 0, code |-> decode(DecodeBody(Callee))]>>
Table == <<0, 2>>
Symbolic(p) == RunExport(Machine(Funcs(p, Fuse), Table, 1, <<C(2)>>, None))
Plain(ops) == ops
Concrete(p, w) == RunExport(Machine(Funcs(p, Plain), Table, 1, <<C(2)>>, <<w>>))

Init == prog = <<>>
Next == \/ /\ Len(prog) = 0
           /\ \E s \in Before : prog' = Append(prog, Stmt[s])
        \/ /\ Len(prog) = 1
           /\ \E s \in Branching : prog' = Append(prog, s)
        \/ /\ Len(prog) = 2
           /\ \E s \in After : prog' = Append(prog, Stmt[s])
Spec == Init /\ [][Next]_prog

Rejects(r) == r.err = "diverged" \/ r.sat = {}

(* Whatever branches were taken under witness conditions, probed, undone   *)
(* and merged, every assignment the emitted constraints admit is one on    *)
(* which the program runs to its end without a panic or a failed require,  *)
(* and the merged globals and memory, bytes and symbolic contents,         *)
(* evaluate to what that run leaves (interp.rs fork, merge, run_path).     *)
LoweringSound(p, s) ==
  LET same(w, r) == /\ [i \in DOMAIN s.st.globals |-> Eval(s.st.globals[i], w)]
                         = [i \in DOMAIN r.st.globals |-> r.st.globals[i][2]]
                    /\ \A a \in DOMAIN r.mem :
                         Eval(<<"b", <<<<s.mem[a], s.shadow[a]>>>>>>, w) = r.mem[a]
  IN \A w \in s.sat : LET r == Concrete(p, w) IN ~Rejects(r) /\ same(w, r)

(* The per-granule counts of symbolic bytes, which let a concrete load     *)
(* skip the shadow, are exact after every store, copy, fill, undo and      *)
(* merge (interp.rs set_shadow, clear_shadow).                             *)
CountsExact(s) ==
  \A g \in DOMAIN s.gran :
    s.gran[g] = Cardinality({a \in DOMAIN s.mem : a \div Word = g /\ s.shadow[a] # None})

MergedState(p) ==
  LET s == Symbolic(p)
  IN s.err = "" => LoweringSound(p, s) /\ CountsExact(s)

LoweredAll(p) ==
  LET s == Symbolic(p)
  IN CASE s.err = "error" \/ s.split -> TRUE
       [] s.err = "diverged" -> \A w \in Witness : Rejects(Concrete(p, w))
       [] OTHER -> \A w \in Witness \ s.sat : Rejects(Concrete(p, w))

(* What the branches of a program merge into is what the program does: its *)
(* constraints admit only assignments it runs to its end on, and its       *)
(* globals, its memory and the counts that let a load skip the symbolic    *)
(* bytes are then those the run leaves (interp.rs fork, merge, run_path).  *)
MergedStateExact == [][MergedState(prog')]_prog

(* An assignment the constraints exclude is one on which the program       *)
(* panics, traps or fails a requirement: pruning an arm that can only      *)
(* panic, and ruling out an index that is out of bounds, loses no honest   *)
(* execution (interp.rs fork, load_any, store_any).  An access through a   *)
(* select of two pointers, one out of bounds, is the exception: it traps   *)
(* for both (interp.rs select_store, load_op).                             *)
LoweringComplete == [][LoweredAll(prog')]_prog
=============================================================================
