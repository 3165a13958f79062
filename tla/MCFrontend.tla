---------------------------- MODULE MCFrontend ----------------------------
(* Circuits of two or three calls over a field of 17 elements and 2-bit     *)
(* registers.                                                               *)
EXTENDS Frontend

Plan(leaves, numbers, script, ops) ==
  [leaves |-> leaves, numbers |-> numbers, script |-> script, ops |-> ops]

\* integer operators on what other integer operators return
Arithmetic == Plan(<<2, 2>>, <<1>>, <<{"int_bin"}, {"int_bin"}>>, {"add", "mul", "and", "divu"})
\* every integer operator, and what is done with its result
Results == Plan(<<2, 1>>, <<2>>, <<{"int_bin", "int_cmp", "select", "bool_op", "not"}, {"int_trunc", "sign_extend", "index_form", "bool_to_field"}>>, BinOps \cup CmpOps)
\* bounds learnt from a required comparison
Bounds == Plan(<<2, 1>>, <<1>>, <<{"int_cmp"}, {"require_cond"}, {"int_bin", "int_cmp", "index_form"}>>, {"ltu", "geu", "add", "divu"})
\* integer operators in the arms of a witness branch
IntArms == Plan(<<2, 1>>, <<1>>, <<{"arm"}, {"int_bin", "int_cmp"}, {"require_cond", "arm"}>>, {"ltu", "mul", "divu"})
NestedArms == Plan(<<1, 1>>, << >>, <<{"arm"}, {"arm"}, {"int_bin", "require_cond"}>>, {"mul", "divu"})
\* an input wider than a register
Wide == Plan(<<3, 1>>, <<1>>, <<{"int_bin", "int_cmp", "select"}>>, BinOps \cup CmpOps)
\* field calls, and a constraint or a decomposition of what they return
FieldCalls == Plan(<<0, 0>>, << >>,
  <<{"sub", "neg", "mul", "pow", "fxor", "witness", "inverse", "eq"}, {"require_eq", "to_bits", "mul", "bind", "field_to_uint", "bool_to_field"}>>, {})
FieldPairs == Plan(<<0, 1>>, << >>, <<{"mul", "for", "bool_to_field"}, {"to_bits", "require_eq", "mul", "eq"}, {"to_bits", "require_eq", "ult", "mul"}>>, {})
\* field calls in an arm
FieldArms == Plan(<<0, 1>>, << >>, <<{"arm"}, {"to_bits", "inverse", "mul", "eq"}, {"to_bits", "inverse", "require_eq", "ult"}>>, {})
\* bits hinted one by one, of an input and of a sum
Hinted == Plan(<<0, 0>>, << >>, <<{"add"}, {"hint_bits"}>>, {})

MCPlans == {Arithmetic, Results, Bounds, IntArms, NestedArms, Wide, FieldCalls, FieldPairs, FieldArms, Hinted}
\* ... and of a product
HintPlans == {Plan(<<0, 0>>, << >>, <<{"mul"}, {"hint_bits"}>>, {})}
=============================================================================
