-------------------------------- MODULE Fft --------------------------------
(***************************************************************************)
(* The blocked FFT of src/crates/groth16/src/fft.rs: domains of 2^k, 3*2^k *)
(* and 9*2^k points, the four-step transforms with tiled column passes and *)
(* fused row passes, and the kernels a worker runs on a part of a vector.  *)
(*                                                                         *)
(* The in-place loops are folds over the same index order; the tasks rayon *)
(* runs at once write disjoint elements, so a pass is one value.           *)
(***************************************************************************)
EXTENDS Field

CONSTANTS MinBlockedLog    \* FftConfig::min_blocked_log (12 in the code)

ASSUME FftAssumption == MinBlockedLog \in Nat

IsPowerOfTwo(n) == n > 0 /\ \E k \in 0..20 : 2 ^ k = n
NextPowerOfTwo(n) == CHOOSE m \in {2 ^ k : k \in 0..20} : n <= m /\ (m = 1 \/ m \div 2 < n)
TrailingZeros(n) == CHOOSE k \in 0..20 : n % 2 ^ k = 0 /\ n % 2 ^ (k + 1) # 0

(* DomainKind::size: the smallest 2^k, or the smallest of 2^k, 3*2^k and   *)
(* 9*2^k, that holds minSize points.                                       *)
DoubledUntil(q, minSize) ==
    CHOOSE r \in {q * 2 ^ k : k \in 0..20} : minSize <= r /\ (r = q \/ r \div 2 < minSize)
SmoothSize(minSize) ==
    CHOOSE r \in {DoubledUntil(q, minSize) : q \in {1, 3, 9}} :
        \A q \in {1, 3, 9} : r <= DoubledUntil(q, minSize)
DomainSize(kind, minSize) ==
    IF kind = "Radix2" THEN NextPowerOfTwo(AtLeast(minSize, 1)) ELSE SmoothSize(minSize)

-----------------------------------------------------------------------------
(* Domains.                                                                *)

GeometricRow(base, count) == Vec(count, LAMBDA i : Pow(base, i))
Tables(root, n1, n2) ==
    [twN1 |-> GeometricRow(Pow(root, n2), IF n1 % 3 = 0 THEN n1 ELSE n1 \div 2),
     twN2 |-> GeometricRow(Pow(root, n1), n2 \div 2),
     colStep |-> IF n1 > 1 THEN GeometricRow(root, n2) ELSE << >>]

NoDomain == [n |-> 0]

WithSplit(n1, n2, tile) ==
    IF \/ n1 = 0
       \/ ~IsPowerOfTwo(n2)
       \/ (n1 \div 2 ^ TrailingZeros(n1)) \notin {1, 3, 9}
       \/ ~HasRoot(n1 * n2)
    THEN NoDomain
    ELSE LET omega == RootOfUnity(n1 * n2)
         IN  [n |-> n1 * n2, n1 |-> n1, n2 |-> n2,
              tile |-> AtMost(AtLeast(tile, 1), n2),
              sizeInv |-> Inv((n1 * n2) % P),
              fwd |-> Tables(omega, n1, n2),
              inv |-> Tables(Inv(omega), n1, n2)]

WithSize(n, tile) ==
    LET q == IF n % 9 = 0 THEN 9 ELSE IF n % 3 = 0 THEN 3 ELSE 1
        k == TrailingZeros(n \div q)
    IN  IF n # q * 2 ^ k THEN NoDomain
        ELSE IF k < MinBlockedLog
             THEN IF q = 1 THEN WithSplit(1, n, tile) ELSE WithSplit(q, 2 ^ k, tile)
             ELSE WithSplit(q * 2 ^ (k \div 2), 2 ^ (k - k \div 2), tile)

IsBlocked(d) == d.n1 > 1

-----------------------------------------------------------------------------
(* Sub-transforms.                                                         *)

RECURSIVE ReverseBits(_, _)
ReverseBits(i, bits) ==
    IF bits = 0 THEN 0
    ELSE (i % 2) * 2 ^ (bits - 1) + ReverseBits(i \div 2, bits - 1)
BitrevPermute(a) ==
    LET bits == TrailingZeros(Len(a)) IN Vec(Len(a), LAMBDA i : At(a, ReverseBits(i, bits)))

(* One layer of butterflies over blocks of 2m, then the layers above it. *)
RECURSIVE Butterflies(_, _, _, _)
Butterflies(a, tw, s, m) ==
    IF m >= Len(a) THEN a
    ELSE LET stride == Len(a) \div (2 * m)
             hi(i) == LET j == i % m
                      IN  IF j = 0 THEN At(a, i + m) ELSE Mul(At(a, i + m), At(tw, j * stride * s))
         IN  Butterflies(
               Vec(Len(a), LAMBDA i :
                   IF i % (2 * m) < m THEN Add(At(a, i), hi(i)) ELSE Sub(At(a, i - m), hi(i - m))),
               tw, s, 2 * m)

Radix2FftStrided(a, tw, s) ==
    IF Len(a) <= 1 THEN a ELSE Butterflies(BitrevPermute(a), tw, s, 1)
Radix2Fft(a, tw) == Radix2FftStrided(a, tw, 1)

(* Radix-3 decimation in time over the radix-2 sub-transforms, with four   *)
(* multiplications for three outputs.                                      *)
RECURSIVE MixedFft(_, _, _)
MixedFft(a, tw, s) ==
    IF Len(a) % 3 # 0 THEN Radix2FftStrided(a, tw, s)
    ELSE LET m == Len(a) \div 3
             f == [j \in 0..2 |-> MixedFft(Vec(m, LAMBDA i : At(a, 3 * i + j)), tw, 3 * s)]
             f0 == f[0]
             f1 == f[1]
             f2 == f[2]
             half == Inv(2)
             w3 == At(tw, m * s)
             c == Mul(Sub(w3, Mul(w3, w3)), half)
             x1 == Vec(m, LAMBDA k : Mul(At(f1, k), At(tw, k * s)))
             x2 == Vec(m, LAMBDA k : Mul(At(f2, k), At(tw, 2 * k * s)))
             mid(k) == Sub(At(f0, k), Mul(Add(At(x1, k), At(x2, k)), half))
             d(k) == Mul(Sub(At(x1, k), At(x2, k)), c)
         IN  Vec(Len(a), LAMBDA i :
                 LET k == i % m IN
                 IF i < m THEN Add(At(f0, k), Add(At(x1, k), At(x2, k)))
                 ELSE IF i < 2 * m THEN Add(mid(k), d(k)) ELSE Sub(mid(k), d(k)))

ColFft(d, col, t) ==
    IF d.n1 % 3 = 0 THEN MixedFft(col, t.twN1, 1) ELSE Radix2Fft(col, t.twN1)

-----------------------------------------------------------------------------
(* Passes.                                                                 *)

Twiddled(col, step, scale) == Vec(Len(col), LAMBDA r : Mul(At(col, r), Mul(scale, Pow(step, r))))

(* The column kernel on one column, number c of the whole domain. *)
ColsCore(d, col, c, t, tw, scale) ==
    LET step == At(t.colStep, c)
    IN  IF tw = "Pre" THEN ColFft(d, Twiddled(col, step, scale), t)
        ELSE Twiddled(ColFft(d, col, t), step, scale)

(* Columns c0, c0+1, ... gathered from a row-major buffer of the given width. *)
GatherCols(buf, rows, width, c0, b) ==
    Vec(b, LAMBDA j : Vec(rows, LAMBDA r : At(buf, r * width + c0 + j)))

(* col_pass: tiles of `tile` columns gathered, transformed and scattered.  *)
ColPass(d, buf, t, tw, scale) ==
    Let(CeilDiv(d.n2, d.tile), LAMBDA tiles :
    Let(Vec(tiles, LAMBDA bt :
            LET c0 == bt * d.tile
                b == AtMost(d.tile, d.n2 - c0)
                cols == GatherCols(buf, d.n1, d.n2, c0, b)
            IN  Vec(b, LAMBDA j : ColsCore(d, At(cols, j), c0 + j, t, tw, scale))), LAMBDA done :
    Vec(d.n, LAMBDA i :
        LET c == i % d.n2 IN At(At(At(done, c \div d.tile), c % d.tile), i \div d.n2))))

(* One row through the stages of a chain; k1 is its number in the domain. *)
CosetRow(d, row, k1, g) ==
    Vec(Len(row), LAMBDA j : Mul(At(row, j), Mul(Pow(g, k1), Pow(g, d.n1 * j))))
RowStage(d, row, k1, st) ==
    CASE st.kind = "Fft" -> Radix2Fft(row, d.fwd.twN2)
      [] st.kind = "Ifft" -> Radix2Fft(row, d.inv.twN2)
      [] st.kind = "Scale" -> Map(row, LAMBDA v : Mul(v, st.k))
      [] st.kind = "Coset" -> CosetRow(d, row, k1, st.k)

RECURSIVE RowStages(_, _, _, _)
RowStages(d, row, k1, stages) ==
    IF stages = << >> THEN row ELSE RowStages(d, RowStage(d, row, k1, Head(stages)), k1, Tail(stages))

RowsKernel(d, rows, firstRow, stages) ==
    Let(Vec(Len(rows) \div d.n2, LAMBDA i :
            RowStages(d, Slice(rows, i * d.n2, (i + 1) * d.n2), firstRow + i, stages)), LAMBDA done :
    Vec(Len(rows), LAMBDA i : At(At(done, i \div d.n2), i % d.n2)))

FftRow == [kind |-> "Fft", k |-> 1]
IfftRow == [kind |-> "Ifft", k |-> 1]
ScaleRow(k) == [kind |-> "Scale", k |-> k]
CosetBy(g) == [kind |-> "Coset", k |-> g]

RowsPass(d, buf, stages) == RowsKernel(d, buf, 0, stages)

(* transpose_map, one tile of output rows after the other. *)
Transpose(src, rows, cols) ==
    Vec(rows * cols, LAMBDA i : At(src, (i % rows) * cols + i \div rows))

ColOp(d, op) ==
    IF op = "InversePost" THEN [t |-> d.inv, tw |-> "Post", scale |-> d.sizeInv]
    ELSE [t |-> d.fwd, tw |-> "Pre", scale |-> 1]

(* The column kernel of a worker: an n1 x b row-major block at column c0. *)
ColsKernel(d, block, c0, op) ==
    Let(Len(block) \div d.n1, LAMBDA b :
    Let(ColOp(d, op), LAMBDA o :
    Let(Transpose(block, d.n1, b), LAMBDA cm :
    Let(Vec(b, LAMBDA j :
            ColsCore(d, Slice(cm, j * d.n1, (j + 1) * d.n1), c0 + j, o.t, o.tw, o.scale)), LAMBDA done :
    Let(Vec(Len(block), LAMBDA i : At(At(done, i \div d.n1), i % d.n1)), LAMBDA flat :
    Transpose(flat, b, d.n1))))))

ColPassOp(d, buf, op) == LET o == ColOp(d, op) IN ColPass(d, buf, o.t, o.tw, o.scale)

-----------------------------------------------------------------------------
(* Transforms.                                                             *)

FftToT(d, a) ==
    IF ~IsBlocked(d) THEN Radix2Fft(a, d.fwd.twN2)
    ELSE RowsPass(d, ColPass(d, a, d.fwd, "Post", 1), <<FftRow>>)

FftFromT(d, a) ==
    IF ~IsBlocked(d) THEN Radix2Fft(a, d.fwd.twN2)
    ELSE ColPass(d, RowsPass(d, a, <<FftRow>>), d.fwd, "Pre", 1)

ScaleAll(a, k) == Map(a, LAMBDA v : Mul(v, k))

IfftToT(d, a) ==
    IF ~IsBlocked(d) THEN ScaleAll(Radix2Fft(a, d.inv.twN2), d.sizeInv)
    ELSE RowsPass(d, ColPass(d, a, d.inv, "Post", d.sizeInv), <<IfftRow>>)

IfftFromT(d, a) ==
    IF ~IsBlocked(d) THEN ScaleAll(Radix2Fft(a, d.inv.twN2), d.sizeInv)
    ELSE ColPass(d, RowsPass(d, a, <<IfftRow>>), d.inv, "Pre", d.sizeInv)

CosetScaleT(d, a, g) == RowsKernel(d, a, 0, <<CosetBy(g)>>)

ToCoset(d, a, g) ==
    IF ~IsBlocked(d) THEN FftFromT(d, CosetScaleT(d, IfftToT(d, a), g))
    ELSE ColPassOp(d, RowsPass(d, ColPassOp(d, a, "InversePost"), <<IfftRow, CosetBy(g), FftRow>>),
                   "ForwardPre")

FromCosetToT(d, a, gInv) ==
    IF ~IsBlocked(d) THEN CosetScaleT(d, IfftToT(d, a), gInv)
    ELSE RowsPass(d, ColPassOp(d, a, "InversePost"), <<IfftRow, CosetBy(gInv)>>)

TToNatural(d, a) == Transpose(a, d.n1, d.n2)
FftNatural(d, a) == IF IsBlocked(d) THEN TToNatural(d, FftToT(d, a)) ELSE FftToT(d, a)
IfftNatural(d, a) == IF IsBlocked(d) THEN TToNatural(d, IfftToT(d, a)) ELSE IfftToT(d, a)

-----------------------------------------------------------------------------
(* The two coset transforms with their sweeps farmed out in parts: the row *)
(* sweep in blocks of rowsPer whole rows, the column sweeps in blocks of   *)
(* colsPer columns (accel.rs's kernel_rows and kernel_cols).               *)

KernelRows(d, rows, firstRow, toCoset) ==
    RowsKernel(d, rows, firstRow,
               IF toCoset THEN <<IfftRow, CosetBy(Gen), FftRow>> ELSE <<IfftRow, CosetBy(Inv(Gen))>>)

RowsInParts(d, buf, rowsPer, toCoset) ==
    LET parts == CeilDiv(d.n1, rowsPer)
        done == Vec(parts, LAMBDA p :
                    KernelRows(d, Slice(buf, p * rowsPer * d.n2, AtMost((p + 1) * rowsPer, d.n1) * d.n2),
                               p * rowsPer, toCoset))
        per == rowsPer * d.n2
    IN  Vec(d.n, LAMBDA i : At(At(done, i \div per), i % per))

ColsInParts(d, buf, colsPer, op) ==
    Let(CeilDiv(d.n2, colsPer), LAMBDA parts :
    LET width(p) == AtMost(colsPer, d.n2 - p * colsPer) IN
    Let(Vec(parts, LAMBDA p :
            ColsKernel(d, Vec(d.n1 * width(p), LAMBDA i :
                              At(buf, (i \div width(p)) * d.n2 + p * colsPer + (i % width(p)))),
                       p * colsPer, op)), LAMBDA done :
    Vec(d.n, LAMBDA i :
        LET c == i % d.n2
            p == c \div colsPer
        IN  At(At(done, p), (i \div d.n2) * width(p) + (c % colsPer)))))

ToCosetInParts(d, a, rowsPer, colsPer) ==
    ColsInParts(d, RowsInParts(d, ColsInParts(d, a, colsPer, "InversePost"), rowsPer, TRUE),
                colsPer, "ForwardPre")
FromCosetInParts(d, a, rowsPer, colsPer) ==
    RowsInParts(d, ColsInParts(d, a, colsPer, "InversePost"), rowsPer, FALSE)

-----------------------------------------------------------------------------
(* The transforms by definition.                                           *)

EvalPoly(coeffs, x) == Total(Vec(Len(coeffs), LAMBDA i : Mul(At(coeffs, i), Pow(x, i))))
Dft(d, a) == Vec(d.n, LAMBDA i : EvalPoly(a, Pow(RootOfUnity(d.n), i)))
Coefficients(d, evals) ==
    Vec(d.n, LAMBDA i : Mul(Inv(d.n), EvalPoly(evals, Pow(Inv(RootOfUnity(d.n)), i))))
(* T-layout: position k1*n2 + k2 holds index k1 + n1*k2. *)
InT(d, a) == Vec(d.n, LAMBDA p : At(a, p \div d.n2 + d.n1 * (p % d.n2)))

TransformsAgree(d, a) ==
    LET dft == Dft(d, a)
        coeffs == Coefficients(d, a)
        onCoset == Vec(d.n, LAMBDA i : EvalPoly(coeffs, Mul(Gen, Pow(RootOfUnity(d.n), i))))
        coset == ToCoset(d, a, Gen)
    IN  /\ FftToT(d, a) = InT(d, dft)
        /\ FftFromT(d, InT(d, a)) = dft
        /\ IfftToT(d, a) = InT(d, coeffs)
        /\ IfftFromT(d, InT(d, a)) = coeffs
        /\ FftNatural(d, a) = dft
        /\ IfftNatural(d, dft) = a
        /\ coset = onCoset
        /\ FromCosetToT(d, onCoset, Inv(Gen)) = InT(d, coeffs)
        /\ IsBlocked(d) => \A rowsPer \in 1..AtMost(d.n1, 3), colsPer \in 1..AtMost(d.n2, 3) :
               /\ ToCosetInParts(d, a, rowsPer, colsPer) = onCoset
               /\ FromCosetInParts(d, onCoset, rowsPer, colsPer) = InT(d, coeffs)
=============================================================================
