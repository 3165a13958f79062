------------------------------ MODULE Groth16 ------------------------------
(***************************************************************************)
(* Keys, quotient and proof of src/crates/groth16/src: setup.rs's two      *)
(* setups, qap.rs's quotient, the parts of prover.rs that are functions,   *)
(* the pairing check of types.rs and the powers-of-tau checks of           *)
(* src/crates/backend/src/ptau.rs.  ProofSystem puts them in order.        *)
(*                                                                         *)
(* The generators are 1, so a point k*G is k.                              *)
(***************************************************************************)
EXTENDS R1cs, Fft, Msm

CONSTANTS Tile,         \* FftConfig::tile
          WindowHint,   \* rows asked for in a window where the code asks for 2^14
          SpillBlock    \* SPILL_BLOCK, elements read back per step

ASSUME Groth16Assumption ==
    Tile \in Nat \ {0} /\ WindowHint \in Nat \ {0} /\ SpillBlock \in Nat \ {0}

MinDomain(src) == Len(src.rows) + src.layout.numInstance

DomainOfSize(src, n) == IF n < MinDomain(src) THEN NoDomain ELSE WithSize(n, Tile)

(* The domain a key with hLen H points was made for. *)
KeyDomain(src, hLen) ==
    IF DomainOfSize(src, hLen + 1) # NoDomain THEN DomainOfSize(src, hLen + 1)
    ELSE IF hLen = 0 THEN NoDomain ELSE DomainOfSize(src, hLen)

-----------------------------------------------------------------------------
(* The quotient h = (A*B - C) / Z.                                         *)

Padded(rows, extra, n) == rows \o extra \o Zeros(n - Len(rows) - Len(extra))

(* combine: the spilled vector is read back block by block. *)
Combine(buf, spilled, f(_, _)) ==
    LET blocks == Vec(CeilDiv(Len(buf), SpillBlock), LAMBDA b :
                      Slice(spilled, b * SpillBlock, AtMost(Len(buf), (b + 1) * SpillBlock)))
    IN  Vec(Len(buf), LAMBDA i : f(At(buf, i), At(At(blocks, i \div SpillBlock), i % SpillBlock)))

(* The coset transforms, done here or in parts by an accelerator. *)
CosetOf(d, v, accel) == IF accel /\ IsBlocked(d) THEN ToCosetInParts(d, v, 2, 3) ELSE ToCoset(d, v, Gen)
BackFromCoset(d, v, accel) ==
    IF accel /\ IsBlocked(d) THEN FromCosetInParts(d, v, 2, 3) ELSE FromCosetToT(d, v, Inv(Gen))

QuotientOf(src, z, d, hint, accel, spill) ==
    Let(src.layout.numInstance, LAMBDA ninst :
    Let(Inv(Sub(Pow(Gen, d.n), 1)), LAMBDA zInv :
    Let(CosetOf(d, Padded(EvalRows(src, z, hint, 0), Slice(z, 0, ninst), d.n), accel), LAMBDA a :
    Let(CosetOf(d, Padded(EvalRows(src, z, hint, 1), << >>, d.n), accel), LAMBDA b :
    Let(CosetOf(d, Padded(EvalRows(src, z, hint, 2), << >>, d.n), accel), LAMBDA c :
    LET over(ab, y) == Mul(Sub(ab, y), zInv) IN
    Let(IF spill THEN Combine(b, a, LAMBDA x, y : Mul(x, y)) ELSE ZipWith(a, b, LAMBDA x, y : Mul(x, y)), LAMBDA ab :
    Let(IF spill THEN Combine(c, ab, LAMBDA x, y : over(y, x)) ELSE ZipWith(ab, c, over), LAMBDA h :
    [t |-> BackFromCoset(d, h, accel), n1 |-> d.n1, n2 |-> d.n2])))))))

(* Quotient::gather: natural-order coefficients [off, off + len). *)
Gather(q, off, len) ==
    Vec(len, LAMBDA j : At(q.t, ((off + j) % q.n1) * q.n2 + (off + j) \div q.n1))

-----------------------------------------------------------------------------
(* Setup.  `waste` holds the secrets alpha, beta, gamma, delta and t.      *)

(* All Lagrange basis values at t, a point outside the domain. *)
Vanishing(n, t) == Sub(Pow(t, n), 1)
LagrangeAt(n, t) ==
    Vec(n, LAMBDA i : LET w == Pow(RootOfUnity(n), i)
                      IN  Mul(Mul(Vanishing(n, t), Inv(n % P)), Mul(w, Inv(Sub(t, w)))))

FixedBaseAll(scalars, count) == FixedMul(FixedBaseTable(1, count), scalars)

VectorNames == <<"a", "b1", "b2", "h", "l">>     \* the file's order

DevSetup(src, kind, waste) ==
    LET m == Len(src.rows)
        ninst == src.layout.numInstance
        nv == NumVars(src.layout)
        n == DomainSize(kind, m + ninst)
        u == LagrangeAt(n, waste.t)
        weights == Slice(u, 0, m)
        plain == TransposeEval(src, weights, WindowHint, 0)
        a == Vec(nv, LAMBDA p : Add(At(plain, p), IF p < ninst THEN At(u, m + p) ELSE 0))
        b == TransposeEval(src, weights, WindowHint, 1)
        c == TransposeEval(src, weights, WindowHint, 2)
        abc(i) == Add(Add(Mul(waste.beta, At(a, i)), Mul(waste.alpha, At(b, i))), At(c, i))
        nonZero(v) == Len(SelectSeq(Slice(v, 0, nv - 1), LAMBDA x : x # 0))
        count == nonZero(a) + nonZero(b) + nv - 1 + n + 1
        mulAll(v) == FixedBaseAll(v, count)
        h0 == Mul(Vanishing(n, waste.t), Inv(waste.delta))
        vk == [alpha |-> waste.alpha, beta |-> waste.beta, gamma |-> waste.gamma,
               delta |-> waste.delta,
               abc |-> mulAll(Vec(ninst, LAMBDA i : Mul(abc(i), Inv(waste.gamma))))]
    IN  [domain |-> n, vk |-> vk, beta |-> waste.beta, delta |-> waste.delta,
         a |-> mulAll(a), b1 |-> mulAll(b), b2 |-> FixedBaseAll(b, nonZero(b)),
         h |-> mulAll(Vec(n - 1, LAMBDA i : Mul(h0, Pow(waste.t, i)))),
         l |-> mulAll(Vec(nv - ninst, LAMBDA i : Mul(abc(ninst + i), Inv(waste.delta))))]

(* A powers-of-tau transcript, and the checks it must pass. *)
HonestPtau(power, tau, alpha, beta) ==
    LET n == 2 ^ power IN
    [power |-> power,
     tauG1 |-> Vec(2 * n - 1, LAMBDA i : Pow(tau, i)),
     tauG2 |-> Vec(n, LAMBDA i : Pow(tau, i)),
     alphaTauG1 |-> Vec(n, LAMBDA i : Mul(alpha, Pow(tau, i))),
     betaTauG1 |-> Vec(n, LAMBDA i : Mul(beta, Pow(tau, i))),
     betaG2 |-> beta]

CheckPtauCoversCircuit(ptau, need) == AtLeast(NextPowerOfTwo(AtLeast(need, 1)), 2) <= 2 ^ ptau.power

CheckPtauSectionLengths(ptau, n) ==
    /\ 2 * n - 1 <= Len(ptau.tauG1)
    /\ n <= Len(ptau.tauG2) /\ n <= Len(ptau.alphaTauG1) /\ n <= Len(ptau.betaTauG1)

(* e(a, b) = e(c, d) *)
PairingsAgree(a, b, c, d) == Mul(a, b) = Mul(c, d)

(* A ladder is checked in one go, its points weighted with the powers of a *)
(* challenge rho that is hashed from all of them.                          *)
LadderOk(points, rho, lo, hi) ==
    LET m == Len(points)
        weigh(from) == Total(Vec(m - 1, LAMBDA i : Mul(At(points, from + i), Pow(rho, i))))
    IN  m < 2 \/ PairingsAgree(weigh(1), lo, weigh(0), hi)

\* a bug: the ladder of alpha is not checked
VerifyPowersNoAlpha(ptau, rho) ==
    /\ 2 <= Len(ptau.tauG1) /\ 2 <= Len(ptau.tauG2)
    /\ At(ptau.tauG1, 0) = 1 /\ At(ptau.tauG2, 0) = 1
    /\ ptau.alphaTauG1 # << >> /\ ptau.betaTauG1 # << >>
    /\ At(ptau.tauG1, 1) \notin {0, 1}
    /\ At(ptau.alphaTauG1, 0) # 0
    /\ At(ptau.betaTauG1, 0) # 0 /\ ptau.betaG2 # 0
    /\ PairingsAgree(At(ptau.tauG1, 1), 1, 1, At(ptau.tauG2, 1))
    /\ \A v \in {ptau.tauG1, ptau.betaTauG1} :
           LadderOk(v, rho, At(ptau.tauG2, 0), At(ptau.tauG2, 1))
    /\ LadderOk(ptau.tauG2, rho, At(ptau.tauG1, 0), At(ptau.tauG1, 1))
    /\ PairingsAgree(At(ptau.betaTauG1, 0), 1, 1, ptau.betaG2)
VerifyPowersConsistency(ptau, rho) ==
    /\ 2 <= Len(ptau.tauG1) /\ 2 <= Len(ptau.tauG2)
    /\ At(ptau.tauG1, 0) = 1 /\ At(ptau.tauG2, 0) = 1
    /\ ptau.alphaTauG1 # << >> /\ ptau.betaTauG1 # << >>
    /\ At(ptau.tauG1, 1) \notin {0, 1}
    /\ At(ptau.alphaTauG1, 0) # 0
    /\ At(ptau.betaTauG1, 0) # 0 /\ ptau.betaG2 # 0
    /\ PairingsAgree(At(ptau.tauG1, 1), 1, 1, At(ptau.tauG2, 1))
    /\ \A v \in {ptau.tauG1, ptau.alphaTauG1, ptau.betaTauG1} :
           LadderOk(v, rho, At(ptau.tauG2, 0), At(ptau.tauG2, 1))
    /\ LadderOk(ptau.tauG2, rho, At(ptau.tauG1, 0), At(ptau.tauG1, 1))
    /\ PairingsAgree(At(ptau.betaTauG1, 0), 1, 1, ptau.betaG2)

ValidateForCircuit(ptau, src, rho) ==
    /\ CheckPtauCoversCircuit(ptau, MinDomain(src))
    /\ CheckPtauSectionLengths(ptau, NextPowerOfTwo(MinDomain(src)))
    /\ VerifyPowersConsistency(ptau, rho)

(* The Lagrange basis in the group: the inverse transform of the powers. *)
LagrangeIn(d, points) == Coefficients(d, Slice(points, 0, d.n))

ColumnSums(src, m, lambda) ==
    Vec(NumVars(src.layout), LAMBDA p :
        Let(Column(src, m, p, WindowHint), LAMBDA col :
        Total([j \in 1..Len(col) |->
                 LET at == At(lambda, col[j][1])
                 IN  IF col[j][2] = 1 THEN at
                     ELSE IF col[j][2] = P - 1 THEN Neg(at) ELSE Mul(at, col[j][2])])))

Phase2Setup(src, ptau, gamma, delta) ==
    LET m == Len(src.rows)
        ninst == src.layout.numInstance
        nv == NumVars(src.layout)
        n == NextPowerOfTwo(m + ninst)
        d == WithSplit(1, n, Tile)
        withInstance(v, lam) == Vec(nv, LAMBDA p : Add(At(v, p), IF p < ninst THEN At(lam, m + p) ELSE 0))
        lam == LagrangeIn(d, ptau.tauG1)
        lamAlpha == LagrangeIn(d, ptau.alphaTauG1)
        lamBeta == LagrangeIn(d, ptau.betaTauG1)
        betaA == withInstance(ColumnSums(src, 0, lamBeta), lamBeta)
        alphaB == ColumnSums(src, 1, lamAlpha)
        w == ColumnSums(src, 2, lam)
        combined == Vec(nv, LAMBDA p : Add(Add(At(betaA, p), At(alphaB, p)), At(w, p)))
        scaled(from, to, k) == Map(Slice(combined, from, to), LAMBDA x : Mul(x, k))
    IN  [domain |-> n,
         vk |-> [alpha |-> At(ptau.alphaTauG1, 0), beta |-> ptau.betaG2, gamma |-> gamma,
                 delta |-> delta, abc |-> scaled(0, ninst, Inv(gamma))],
         beta |-> At(ptau.betaTauG1, 0), delta |-> delta,
         a |-> withInstance(ColumnSums(src, 0, lam), lam),
         b1 |-> ColumnSums(src, 1, lam),
         b2 |-> ColumnSums(src, 1, LagrangeIn(d, ptau.tauG2)),
         h |-> Vec(n - 1, LAMBDA k : Mul(Sub(At(ptau.tauG1, n + k), At(ptau.tauG1, k)), Inv(delta))),
         l |-> scaled(ninst, nv, Inv(delta))]

-----------------------------------------------------------------------------
(* Proof and verification.                                                 *)

CheckShape(src, key, domain) ==
    /\ Len(key.a) = NumVars(src.layout)
    /\ Len(key.b1) = NumVars(src.layout)
    /\ Len(key.b2) = NumVars(src.layout)
    /\ Len(key.l) = NumWitness(src.layout)
    /\ Len(key.h) + 1 = domain \/ Len(key.h) = domain
    /\ Len(key.vk.abc) = src.layout.numInstance

AssembleProof(key, r, s, sums) ==
    LET a == Add(Add(Mul(key.delta, r), sums.a), key.vk.alpha)
        b1 == IF r = 0 THEN 0 ELSE Add(Add(Mul(key.delta, s), sums.b1), key.beta)
        b == Add(Add(Mul(key.vk.delta, s), sums.b2), key.vk.beta)
        c == Add(Add(Sub(Add(Mul(a, s), Mul(b1, r)), Mul(key.delta, Mul(r, s))), sums.l), sums.h)
    IN  [a |-> a, b |-> b, c |-> c]

Verify(vk, inputs, proof) ==
    /\ Len(inputs) = Len(vk.abc) - 1 /\ vk.abc # << >>
    /\ LET acc == Add(vk.abc[1], Dot(inputs, Tail(vk.abc)))
       IN  Sub(Sub(Mul(proof.a, proof.b), Mul(acc, vk.gamma)), Mul(proof.c, vk.delta))
             = Mul(vk.alpha, vk.beta)

(* The on-chain proof carries -A; reading it negates it back. *)
AssembleProofBytes(proof) == <<Neg(proof.a), proof.b, proof.c>>
DecodeProof(bytes) == [a |-> Neg(bytes[1]), b |-> bytes[2], c |-> bytes[3]]
(* The program's pairing: e(-A, B) e(alpha, beta) e(acc, gamma) e(C, delta) = 1. *)
OnChainVerify(vk, inputs, bytes) ==
    LET acc == Add(vk.abc[1], Dot(inputs, Tail(vk.abc)))
    IN  0 = Total(<<Mul(bytes[1], bytes[2]), Mul(vk.alpha, vk.beta), Mul(acc, vk.gamma),
                    Mul(bytes[3], vk.delta)>>)
=============================================================================
