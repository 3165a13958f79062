--------------------------- MODULE MCProofSystem ---------------------------
(***************************************************************************)
(* ProofSystem over the field of 577 elements, with two circuits of one    *)
(* shape, and next to it the arithmetic and the file formats it rests on,  *)
(* each as a case of its own: a case may be asked before the system starts. *)
(***************************************************************************)
EXTENDS ProofSystem, KeyFiles

VARIABLE case

CurvePoints == INSTANCE Points WITH
    Q <- 19, Width <- 5, Window <- 2, B2 <- <<1, 4>>, MontR <- 13
ASSUME CurvePoints!PointsAssumption

Lc(c, ts) == [constant |-> c, terms |-> ts]
Row(a, b, c) == [a |-> a, b |-> b, c |-> c]
V(id, public) == [id |-> id, public |-> public]

(* x*x = y, (k*x + 3)*y = z, w*w = w; ids are sparse, the public y and z   *)
(* are neither first nor in order, and u is in no row.                     *)
CircuitOf(k) ==
    [vars |-> <<V(4, FALSE), V(9, TRUE), V(2, TRUE), V(1, FALSE), V(30, FALSE)>>,
     rows |-> <<Row(Lc(0, <<<<4, 1>>>>), Lc(0, <<<<4, 1>>>>), Lc(0, <<<<9, 1>>>>)),
                Row(Lc(3, <<<<4, k>>>>), Lc(0, <<<<9, 1>>>>), Lc(0, <<<<2, 1>>>>)),
                Row(Lc(-1, <<<<1, 1>>>>), Lc(0, <<<<1, -2>>>>), Lc(0, << >>))>>,
     items |-> <<1, 2>>, fileWindow |-> 2]
MCCircuits == <<CircuitOf(1), CircuitOf(-5)>>

Solve(k, x, w) ==
    (4 :> x) @@ (9 :> Mul(x, x)) @@ (2 :> Mul((k * x + 3) % P, Mul(x, x))) @@ (1 :> w)
MCValues ==
    <<{Solve(1, 3, 1) @@ (30 :> 570), [Solve(1, 3, 1) EXCEPT ![2] = 55], [Solve(1, 3, 2) EXCEPT ![9] = 9]},
      {Solve(-5, 200, 0), [Solve(-5, 200, 0) EXCEPT ![9] = 1]}>>

MCWaste == {[alpha |-> 11, beta |-> 23, gamma |-> 401, delta |-> 77, t |-> 42]}

Honest(power, rho) ==
    [ptau |-> HonestPtau(power, 42, 11, 23), rho |-> rho, honest |-> TRUE, tau |-> 42, alpha |-> 11, beta |-> 23]
Inconsistent(ptau) == [Honest(3, 100) EXCEPT !.ptau = ptau, !.honest = FALSE]
H3 == HonestPtau(3, 42, 11, 23)
MCTranscripts ==
    <<Honest(3, 99), Honest(4, 99), Honest(2, 99),
      Inconsistent([H3 EXCEPT !.alphaTauG1[5] = 300]),                       \* another alpha in one place
      Inconsistent([H3 EXCEPT !.alphaTauG1 = HonestPtau(3, 43, 11, 23).alphaTauG1]),
      Inconsistent([H3 EXCEPT !.betaG2 = 24]),
      Inconsistent([H3 EXCEPT !.tauG2 = HonestPtau(3, 43, 11, 23).tauG2]),
      Inconsistent(HonestPtau(3, 1, 11, 23)),
      Inconsistent(HonestPtau(3, 42, 0, 23))>>

Cfg(kind, r, s, chunk, accel, spill, teeOn) ==
    [kind |-> kind, r |-> r, s |-> s, chunk |-> chunk, accel |-> accel, spill |-> spill, tee |-> teeOn]
MCConfigs ==
    {Cfg("Program", 5, 7, 2, "none", FALSE, TRUE),
     Cfg("Bytecode", 0, 7, 100, "none", TRUE, TRUE),
     Cfg("RowFile", 570, 0, 4, "takes", FALSE, TRUE),
     Cfg("BytecodeExpanded", 5, 7, 2, "declines", FALSE, FALSE),
     Cfg("Bytecode", 0, 0, 1, "declines", TRUE, FALSE)}

-----------------------------------------------------------------------------
(* The cases.                                                              *)

TransformSizes == {1, 2, 3, 4, 9, 12, 16, 24, 32, 36, 48, 72}
Domains == [n \in TransformSizes |-> WithSize(n, 3)]

TransformCases == [about : {"transform"}, n : TransformSizes, k : 0..3]
(* 70 points of one class are split between tasks: two parts with one      *)
(* window for scalars of two bits with one thread, four with eight, and    *)
(* one or two parts with two windows for scalars of six bits.              *)
MsmCases == [about : {"msm"}, n : {0, 1, 5, 24, 70}, k : 0..3, m : 0..7]
FixedBaseCases == [about : {"fixed base"}, base : {0, 1, 570}, m : 0..3]
PointCases == [about : {"point"}, x : (0..31) \X {0, 1, 18, 19, 31}]
KeyFileCases == [about : {"key file"}, compressed : BOOLEAN, domain : {0, 4}, cut : {3, 5, 6, 13, 14, 20} \cup 30..70]
Orders == {<<1, 2, 3, 4, 5, 6>>, <<6, 7, 5, 4, 3, 2, 1>>, <<1, 2, 3, 4, 5>>}
PtauCases == [about : {"ptau"}, power : {1, 2}, order : Orders, cut : {1, 2, 7, 20, 40}]
Cases == TransformCases \cup MsmCases \cup FixedBaseCases \cup PointCases \cup KeyFileCases \cup PtauCases

NoCase == [about |-> "none"]

(* Repeated and opposite bases, infinity, spread ones; small, spread,      *)
(* constant, near-P, wide and one-sided scalars, multiples of P and near   *)
(* them (unreduced), and scalars of one class.                             *)
Base(i, k) ==
    CASE k = 0 -> 7
      [] k = 1 -> IF i % 3 = 0 THEN 7 ELSE 570
      [] k = 2 -> ((i * i) + 1) % P
      [] k = 3 -> IF i % 4 = 1 THEN 0 ELSE 1 + (i % 2)
Scalar(i, m) ==
    CASE m = 0 -> i % 4
      [] m = 1 -> (i * 37) % P
      [] m = 2 -> 3
      [] m = 3 -> (570 + i) % P
      [] m = 4 -> 64 + (i % 64)
      [] m = 5 -> (300 + 5 * i) % P
      [] m = 6 -> P * (i % 8) + i \div 8
      [] m = 7 -> 32 + (i % 32)

SampleKey ==
    [alpha |-> 1, beta2 |-> 2, gamma2 |-> 3, delta2 |-> 4, abc |-> <<5, 6>>, beta |-> 7, delta |-> 8,
     vectors |-> <<<<9, 10, 11>>, <<0, 0, 1>>, <<12, 13>>, <<14>>, << >>>>]

AgreeOn(c) ==
    CASE c.about = "none" -> TRUE
      [] c.about = "transform" ->
            LET d == Domains[c.n]
            IN  TransformsAgree(d, Vec(d.n, LAMBDA i : IF i = c.k THEN 5 ELSE ((i * i) + c.k) % 7))
      [] c.about = "msm" ->
            MsmAgrees(Vec(c.n, LAMBDA i : Base(i, c.k)), Vec(c.n, LAMBDA i : Scalar(i, c.m)))
      [] c.about = "fixed base" ->
            FixedBaseAgrees(c.base, Vec(40, LAMBDA i : (Scalar(i, c.m) + (i * 13)) % P))
      [] c.about = "point" ->
            CurvePoints!CompressedAgrees(c.x) /\ CurvePoints!UncompressedAgrees(c.x)
      [] c.about = "key file" -> KeyFilesAgree(SampleKey, c.compressed, c.domain, c.cut)
      [] c.about = "ptau" -> PtauFilesAgree(c.power, c.order, c.cut)

(* What the proof system rests on, case by case: a blocked transform is    *)
(* the transform, whole and in a worker's parts (fft.rs, accel.rs); the    *)
(* bucket method is the sum of products whatever the window, the batch and *)
(* the threads (msm.rs), and so are the fixed-base tables (setup.rs);      *)
(* points (decode.rs, solana.rs) and files (pk.rs, keys.rs, transcode.rs,  *)
(* ptau.rs) are read as they were written.                                 *)
KernelsAgree == [][AgreeOn(case')]_case

MCClassBits == <<1, 2, 4, 6, 8, 12>>

MCInit == Init /\ case = NoCase
MCNext ==
    /\ case = NoCase
    /\ \/ Next /\ UNCHANGED case
       \/ Init /\ case' \in Cases /\ UNCHANGED vars
MCSpec == MCInit /\ [][MCNext]_<<vars, case>>
=============================================================================
