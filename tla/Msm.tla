-------------------------------- MODULE Msm --------------------------------
(***************************************************************************)
(* Multi-scalar multiplication: the bucket method of                       *)
(* src/crates/groth16/src/msm.rs with its magnitude classes, signed        *)
(* windows and batch-affine buckets, and the fixed-base tables of          *)
(* setup.rs.  A point is its discrete logarithm (Field), 0 the point at    *)
(* infinity; an affine addition keeps the case split that its chord, its   *)
(* doubling and its cancellation need.                                     *)
(*                                                                         *)
(* Scaled with the field: FrBits for Fr's 254 bits, ClassBits for the      *)
(* bounds 1, 16, 32, 64, 128, 256, SmallBits for the 128 bits past which a *)
(* scalar is tried as r - s, and Batch for 512 additions per inversion.    *)
(***************************************************************************)
EXTENDS Field

CONSTANTS FrBits,       \* bits of the modulus P
          ClassBits,    \* CLASS_BITS, increasing, the last one covering every scalar
          SmallBits,    \* scalars longer than this are tried as P - s
          Batch         \* additions that share one inversion

ASSUME MsmAssumption ==
    /\ FrBits \in Nat /\ 2 ^ (FrBits - 1) <= P /\ P < 2 ^ FrBits
    /\ ClassBits \in Seq(Nat) /\ ClassBits[1] = 1
    /\ \A i \in 2..Len(ClassBits) : ClassBits[i - 1] < ClassBits[i]
    /\ FrBits <= ClassBits[Len(ClassBits)]
    /\ SmallBits \in Nat /\ Batch \in Nat \ {0}

NumBits(s) == CHOOSE b \in 0..30 : s < 2 ^ b /\ (b = 0 \/ 2 ^ (b - 1) <= s)
BitsAt(s, pos, len) == (s \div 2 ^ pos) % 2 ^ len
Abs(d) == IF d < 0 THEN -d ELSE d

(* The signed digit w of width c. *)
BoothDigit(s, w, c) ==
    LET v == BitsAt(s, w * c, c)
        carry == IF w = 0 THEN 0 ELSE BitsAt(s, w * c - 1, 1)
    IN  v + carry - (v \div 2 ^ (c - 1)) * 2 ^ c

WindowBits(n, bits) ==
    LET cost(c) == CeilDiv(bits + 1, c) * (5 * n + 7 * 2 ^ c)
    IN  CHOOSE c \in 2..15 : \A o \in 2..15 : cost(c) < cost(o) \/ (cost(c) = cost(o) /\ c <= o)

-----------------------------------------------------------------------------
(* Batch-affine buckets.  `batch` and `queue` hold <<bucket, point>>.      *)

NewBuckets(nb) ==
    [val |-> Zeros(nb), used |-> Vec(nb, LAMBDA b : FALSE), stamp |-> Zeros(nb), epoch |-> 1,
     batch |-> << >>, queue |-> << >>, side |-> << >>]

(* The sum that lambda gives when its denominator was taken from the       *)
(* bucket's value `before`; a denominator that is stale gives some point.  *)
AffineSum(before, value, q) == IF before = value THEN Add(value, q) ELSE Gen

(* Each addition of the batch, the last first. *)
RECURSIVE ApplyBatch(_, _, _)
ApplyBatch(ab, before, i) ==
    IF i = 0 THEN ab
    ELSE LET b == ab.batch[i][1]
             q == ab.batch[i][2]
             sum == AffineSum(before[i], At(ab.val, b), q)
         IN  ApplyBatch([ab EXCEPT !.val[b + 1] = IF sum = 0 THEN @ ELSE sum,
                                   !.used[b + 1] = sum # 0],
                        before, i - 1)

Flush(ab) ==
    LET before == [i \in 1..Len(ab.batch) |-> At(ab.val, ab.batch[i][1])]
    IN  [ApplyBatch(ab, before, Len(ab.batch)) EXCEPT !.batch = << >>, !.epoch = @ + 1]

\* a bug: a bucket may be twice in a batch
PlaceUnstamped(ab, b, q) ==
    IF ~At(ab.used, b)
    THEN [ab |-> [ab EXCEPT !.val[b + 1] = q, !.used[b + 1] = TRUE], ok |-> TRUE]
    ELSE LET in == [ab EXCEPT !.batch = Append(@, <<b, q>>)]
         IN  [ab |-> IF Len(in.batch) = Batch THEN Flush(in) ELSE in, ok |-> TRUE]
(* place: the buckets after it, and whether the addition was taken. *)
Place(ab, b, q) ==
    IF ~At(ab.used, b)
    THEN [ab |-> [ab EXCEPT !.val[b + 1] = q, !.used[b + 1] = TRUE], ok |-> TRUE]
    ELSE IF At(ab.stamp, b) = ab.epoch THEN [ab |-> ab, ok |-> FALSE]
    ELSE LET in == [ab EXCEPT !.stamp[b + 1] = ab.epoch, !.batch = Append(@, <<b, q>>)]
         IN  [ab |-> IF Len(in.batch) = Batch THEN Flush(in) ELSE in, ok |-> TRUE]

(* drain: the queue is offered to the batch, what is refused stays queued. *)
RECURSIVE Offer(_, _)
Offer(ab, q) ==
    IF q = << >> THEN ab
    ELSE Let(Place(ab, q[1][1], q[1][2]), LAMBDA p :
         Offer(IF p.ok THEN p.ab ELSE [p.ab EXCEPT !.queue = Append(@, Head(q))], Tail(q)))
Drain(ab) == Offer([ab EXCEPT !.queue = << >>], ab.queue)

Spill(ab) ==
    LET nb == Len(ab.val)
        queued(b) == SelectSeq(ab.queue, LAMBDA e : e[1] = b)
        old(b) == IF ab.side = << >> THEN 0 ELSE At(ab.side, b)
    IN  [ab EXCEPT !.side = Vec(nb, LAMBDA b :
                               Add(old(b), Total([i \in 1..Len(queued(b)) |-> queued(b)[i][2]]))),
                   !.queue = << >>]

AddPoint(ab, b, q) ==
    Let(Place(ab, b, q), LAMBDA p :
    IF p.ok
    THEN IF p.ab.epoch # ab.epoch THEN Drain(p.ab) ELSE p.ab
    ELSE LET in == [p.ab EXCEPT !.queue = Append(@, <<b, q>>)] IN
         IF Len(in.queue) < Batch THEN in
         ELSE LET out == Drain(Flush(in))
              IN  IF Len(out.queue) > Batch \div 2 THEN Spill(out) ELSE out)

FinishBuckets(ab) ==
    LET round(x) == IF x.queue = << >> THEN x ELSE Flush(Drain(x)) IN
    Let(round(round(Flush(ab))), LAMBDA last :
    IF last.queue = << >> THEN last ELSE Spill(last))

BucketSum(ab, b) ==
    Add(IF At(ab.used, b) THEN At(ab.val, b) ELSE 0, IF ab.side = << >> THEN 0 ELSE At(ab.side, b))

-----------------------------------------------------------------------------
(* Pippenger over the entries of one class; an entry is [i, neg].          *)

(* The running sum: bucket b counts b + 1 times. *)
RunningSum(sums) ==
    LET n == Len(sums)
        run[b \in 0..n] == IF b = n THEN [running |-> 0, res |-> 0]
                           ELSE LET above == run[b + 1]
                                    r == Add(above.running, At(sums, b))
                                IN  [running |-> r, res |-> Add(above.res, r)]
    IN  run[0].res

RECURSIVE FillAffine(_, _)
FillAffine(ab, work) ==
    IF work = << >> THEN FinishBuckets(ab)
    ELSE FillAffine(IF work[1].d = 0 \/ work[1].p = 0 THEN ab
                    ELSE AddPoint(ab, Abs(work[1].d) - 1, IF work[1].d < 0 THEN Neg(work[1].p) ELSE work[1].p),
                    Tail(work))

FillPlain(nb, work) ==
    Vec(nb, LAMBDA b :
        Total([k \in 1..Len(work) |->
                 IF Abs(work[k].d) # b + 1 THEN 0
                 ELSE IF work[k].d < 0 THEN Neg(work[k].p) ELSE work[k].p]))

(* One window over one slice of the points; `work` pairs digits and points. *)
SliceSum(work, c, batchAffine) ==
    LET nb == 2 ^ (c - 1) IN
    IF batchAffine /\ Len(work) >= 4 * nb
    THEN Let(FillAffine(NewBuckets(nb), work), LAMBDA ab : RunningSum(Vec(nb, LAMBDA b : BucketSum(ab, b))))
    ELSE RunningSum(FillPlain(nb, work))

Magnitude(s, e) == IF e.neg THEN P - s ELSE s

Pippenger(bases, scalars, entries, bits, threads, batchAffine) ==
    IF entries = << >> THEN 0
    ELSE Let(Len(entries), LAMBDA n :
         Let(WindowBits(n, bits), LAMBDA c :
         Let(CeilDiv(bits + 1, c), LAMBDA windows :
         Let(AtLeast(AtMost(CeilDiv(2 * threads, windows), AtLeast(n \div 2 ^ (c + 1), 1)), 1), LAMBDA parts :
         Let(CeilDiv(n, parts), LAMBDA partLen :
         LET digit(k, w) == LET e == entries[k]
                                d == BoothDigit(Magnitude(At(scalars, e.i), e), w, c)
                            IN  IF e.neg THEN -d ELSE d
             work(w, part) == LET lo == part * partLen
                                  hi == AtMost(n, lo + partLen)
                              IN  [k \in 1..AtLeast(hi - lo, 0) |->
                                     [d |-> digit(lo + k, w), p |-> At(bases, entries[lo + k].i)]] IN
         Let(Vec(windows * parts, LAMBDA t :
                 SliceSum(work(t \div parts, t % parts), c, batchAffine)), LAMBDA sums :
         LET total[w \in 0..windows] ==
                IF w = windows THEN 0
                ELSE Add(Mul(2 ^ c % P, total[w + 1]), Total(Slice(sums, w * parts, (w + 1) * parts)))
         IN  total[0]))))))

(* The class of min(|s|, |P - s|), 0 for a scalar that is zero. *)
Classify(s) ==
    LET pos == NumBits(s)
        other == IF SmallBits < pos /\ s < P THEN NumBits(P - s) ELSE pos
        bits == AtMost(pos, other)
        class == CHOOSE k \in 1..Len(ClassBits) :
                    bits <= ClassBits[k] /\ \A j \in 1..(k - 1) : ClassBits[j] < bits
    IN  IF s = 0 THEN [class |-> 0, neg |-> FALSE]
        ELSE [class |-> class, neg |-> other < pos]

MsmOf(bases, scalars, threads, batchAffine) ==
    Let(AtMost(Len(bases), Len(scalars)), LAMBDA n :
    Let(Vec(n, LAMBDA i : Classify(At(scalars, i))), LAMBDA kinds :
    Let(Vec(n, LAMBDA i : i), LAMBDA indices :
    LET in(k) == LET is == SelectSeq(indices, LAMBDA i : At(kinds, i).class = k)
                 IN  [j \in 1..Len(is) |-> [i |-> is[j], neg |-> At(kinds, is[j]).neg]] IN
    Let(LET es == in(1)
        IN  Total([j \in 1..Len(es) |->
                     IF es[j].neg THEN Neg(At(bases, es[j].i)) ELSE At(bases, es[j].i)]), LAMBDA unit :
    Add(unit, Total([k \in 1..(Len(ClassBits) - 1) |->
                       Pippenger(bases, scalars, in(k + 1), ClassBits[k + 1], threads, batchAffine)]))))))

(* StreamingMsm: a vector folded chunk by chunk. *)
StreamedMsm(bases, scalars, chunk, threads, batchAffine) ==
    LET n == AtMost(Len(bases), Len(scalars))
    IN  Total(Vec(CeilDiv(n, chunk), LAMBDA j :
                  MsmOf(Slice(bases, j * chunk, AtMost(n, (j + 1) * chunk)),
                        Slice(scalars, j * chunk, AtMost(n, (j + 1) * chunk)), threads, batchAffine)))

(* naive_msm: double and add. *)
NaiveMsm(bases, scalars) ==
    LET top == ClassBits[Len(ClassBits)]
        term(p, s) == LET acc[i \in 0..top] ==
                            IF i = top THEN 0
                            ELSE Add(Mul(2, acc[i + 1]), IF BitsAt(s, i, 1) = 1 THEN p ELSE 0)
                      IN  acc[0]
    IN  Total(Vec(AtMost(Len(bases), Len(scalars)), LAMBDA i : term(At(bases, i), At(scalars, i))))

-----------------------------------------------------------------------------
(* FixedBase: multiples of one point, for setup's batch multiplications.   *)

FixedBaseWidth(numScalars) ==
    IF numScalars < 32 THEN 4 ELSE ((NumBits(numScalars) - 1) * 69) \div 100 + 1

FixedBaseTable(base, numScalars) ==
    LET w == FixedBaseWidth(numScalars)
    IN  [w |-> w,
         table |-> Vec(CeilDiv(FrBits + 1, w), LAMBDA k :
                       Vec(2 ^ (w - 1), LAMBDA j : Mul((j + 1) % P, Mul(Pow(2, w * k), base))))]

(* Digits in (-2^(w-1), 2^(w-1)], the lowest first. *)
FixedDigits(s, w, windows) ==
    LET half == 2 ^ (w - 1)
        run[k \in 0..windows] ==
            IF k = 0 THEN [carry |-> 0, out |-> << >>]
            ELSE LET below == run[k - 1]
                     v == BitsAt(s, (k - 1) * w, w) + below.carry
                     carry == IF v > half THEN 1 ELSE 0
                 IN  [carry |-> carry, out |-> Append(below.out, v - carry * 2 ^ w)]
    IN  run[windows].out

(* mul_chunk: one window after the other over the accumulators of a chunk. *)
FixedMul(t, scalars) ==
    LET windows == Len(t.table)
        one(s) ==
            Let(FixedDigits(s, t.w, windows), LAMBDA ds :
            LET acc[k \in 0..windows] ==
                    IF k = 0 THEN 0
                    ELSE LET a == acc[k - 1]
                             d == ds[k]
                             e == At(t.table, k - 1)[Abs(d)]
                             q == IF d < 0 THEN Neg(e) ELSE e
                         IN  IF d = 0 THEN a
                             ELSE IF a = 0 THEN q
                             ELSE Add(a, q)
            IN  acc[windows])
    IN  Map(scalars, one)

-----------------------------------------------------------------------------
(* Every path gives the sum of the products. *)
SumOfProducts(bases, scalars) ==
    Total(Vec(AtMost(Len(bases), Len(scalars)), LAMBDA i : Mul(At(bases, i), At(scalars, i) % P)))

MsmAgrees(bases, scalars) ==
    LET sum == SumOfProducts(bases, scalars) IN
    /\ NaiveMsm(bases, scalars) = sum
    /\ \A threads \in {1, 8}, batchAffine \in BOOLEAN :
           MsmOf(bases, scalars, threads, batchAffine) = sum
    /\ \A chunk \in {1, 3, 17} : StreamedMsm(bases, scalars, chunk, 1, TRUE) = sum

FixedBaseAgrees(base, scalars) ==
    \A numScalars \in {1, 32, 80, 2000} :
        FixedMul(FixedBaseTable(base, numScalars), scalars) = Map(scalars, LAMBDA s : Mul(base, s))
=============================================================================
