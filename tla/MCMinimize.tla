----------------------------- MODULE MCMinimize -----------------------------
(* Instances of Minimize for TLC: every program of three rows out of a     *)
(* family of linear, quadratic, trivial and infeasible ones over F_5, with *)
(* one input (1) and two Internal variables (2, 3).                        *)
EXTENDS Minimize

Form(k, a, b, c) == (0 :> k) @@ (1 :> a) @@ (2 :> b) @@ (3 :> c)

Zero == Form(0, 0, 0, 0)
One  == Form(1, 0, 0, 0)
Two  == Form(2, 0, 0, 0)

SampleRows ==
  { <<One, Form(0, 1, 0, 0), Form(0, 0, 1, 0)>>,
    <<Form(0, 0, 2, 1), One, Form(0, 1, 0, 0)>>,
    <<Two, Form(0, 0, 0, 1), Form(3, 1, 0, 0)>>,
    <<Two, Form(1, 0, 1, 0), Form(0, 0, 0, 1)>>,
    <<One, Form(0, 1, 2, 3), Zero>>,
    <<Form(0, 1, 0, 0), Form(0, 0, 1, 0), Form(0, 0, 0, 1)>>,
    <<Form(0, 0, 1, 0), Form(4, 0, 1, 0), Zero>>,
    <<Form(0, 1, 0, 3), Form(0, 0, 1, 3), Form(2, 0, 1, 0)>>,
    <<Form(0, 3, 1, 0), Form(1, 0, 0, 1), Form(0, 0, 0, 2)>>,
    <<Form(0, 0, 0, 1), Form(0, 0, 0, 1), Form(0, 1, 0, 0)>>,
    <<Zero, Form(0, 1, 1, 1), Form(0, 0, 0, 0)>>,
    <<One, Two, One>>,
    <<Form(0, 1, 0, 0), One, Form(2, 0, 0, 0)>>,
    <<Form(0, 0, 3, 3), Two, Form(0, 0, 1, 1)>> }

SamplePrograms == [1..3 -> SampleRows]
=============================================================================
