---------------------------- MODULE ProofSystem ----------------------------
(***************************************************************************)
(* From a circuit to a checked proof: a setup writes the key, the key may  *)
(* be transcoded, the prover streams its five vectors while it computes    *)
(* the quotient, and the proof is checked before it is returned            *)
(* (setup.rs, pk.rs, transcode.rs, prover.rs and accel.rs of               *)
(* src/crates/groth16/src, over the functions of Groth16).                 *)
(*                                                                         *)
(* With neither an accelerator nor a spill directory the quotient is       *)
(* computed by another thread while the first three vectors stream; else   *)
(* the steps run in turn.  The order in which two threads finish, the      *)
(* chunk at which an accelerator declines and the seams of the streams are *)
(* open.                                                                   *)
(***************************************************************************)
EXTENDS Groth16

CONSTANTS
    Circuits,      \* a sequence of circuits
    Values,        \* Values[c]: the solved maps tried on circuit c
    Waste,         \* the secrets a dev setup may draw
    Transcripts,   \* the powers-of-tau files, [ptau, rho]
    Configs,       \* the ways to prove: [kind, r, s, chunk, accel, spill, tee]
    DomainKinds    \* the domains a setup may be asked for

VARIABLES
    key,      \* the key file: NoKey, or [circuit, compressed, stated, body, from]
    job,      \* the proof being made: NoJob, or its circuit, values and configuration
    next,     \* the index in VectorNames of the vector to stream next
    sums,     \* the sums of the vectors streamed so far
    quotient, \* the quotient, or NoQuotient
    tee,      \* the uncompressed copy being written: [on, next, ok, out]
    copied,   \* what finish_tee said, and the copy it left
    result    \* how the proof ended

vars == <<key, job, next, sums, quotient, tee, copied, result>>

NoKey == [circuit |-> 0]
NoJob == [circuit |-> 0]
NoQuotient == [n1 |-> 0]
NoSums == [v \in {"a", "b1", "b2", "h", "l"} |-> 0]
NoTee == [on |-> FALSE, next |-> 1, ok |-> FALSE, out |-> << >>]
NotCopied == [complete |-> FALSE, out |-> << >>]
Pending == [kind |-> "Pending"]

Init ==
    /\ key = NoKey /\ job = NoJob /\ next = 1 /\ sums = NoSums /\ quotient = NoQuotient
    /\ tee = NoTee /\ copied = NotCopied /\ result = Pending

Source(c, kind) == SourceOf(Circuits[c], kind)

-----------------------------------------------------------------------------
(* Keys.  A v2 header states the domain, a legacy one does not.            *)

MakeKey(c, body, compressed, stated, from) ==
    [circuit |-> c, compressed |-> compressed, stated |-> IF stated THEN body.domain ELSE 0,
     body |-> body, from |-> from]

DevSetupKey(c, kind, waste, compressed) ==
    /\ key = NoKey
    /\ key' = MakeKey(c, DevSetup(Source(c, "Program"), kind, waste), compressed, TRUE,
                      [setup |-> "dev", waste |-> waste, kind |-> kind])
    /\ UNCHANGED <<job, next, sums, quotient, tee, copied, result>>

(* setup_from_ptau: no key from a transcript that fails a check. *)
Phase2SetupKey(c, i, waste) ==
    /\ key = NoKey
    /\ LET file == Transcripts[i]
           src == Source(c, "Bytecode")
       IN  IF ValidateForCircuit(file.ptau, src, file.rho)
           THEN /\ key' = MakeKey(c, Phase2Setup(src, file.ptau, waste.gamma, waste.delta), TRUE, TRUE,
                                  [setup |-> "phase2", file |-> i, waste |-> waste, kind |-> "Radix2"])
                /\ UNCHANGED result
           ELSE /\ result' = [kind |-> "BadTranscript", circuit |-> c, file |-> i]
                /\ key' = [circuit |-> -1]
    /\ UNCHANGED <<job, next, sums, quotient, tee, copied>>

(* A key written before the headers had a domain: without one. *)
LegacyHeader ==
    /\ key.circuit > 0 /\ key.stated # 0 /\ job = NoJob
    /\ key.from.kind = "Radix2"
    /\ key' = [key EXCEPT !.stated = 0]
    /\ UNCHANGED <<job, next, sums, quotient, tee, copied, result>>

(* KeyTranscoder: every point re-encoded, the header's domain kept. *)
Transcode ==
    /\ key.circuit > 0 /\ key.compressed /\ job = NoJob
    /\ key' = [key EXCEPT !.compressed = FALSE]
    /\ UNCHANGED <<job, next, sums, quotient, tee, copied, result>>

-----------------------------------------------------------------------------
(* Proving.                                                                *)

Concurrent(j) == j.accel = "none" /\ ~j.spill

(* prove_impl up to its first stream: the domain, the header's domain and  *)
(* the shape must fit the rows.                                            *)
StartProof(c, values, cfg) ==
    /\ key.circuit > 0 /\ job = NoJob
    /\ \E src \in {Source(c, cfg.kind)} :
       \E d \in {KeyDomain(src, Len(key.body.h))} :
       \E ok \in {d # NoDomain /\ key.stated \in {0, d.n} /\ CheckShape(src, key.body, d.n)} :
       /\ job' = [circuit |-> c, values |-> values, kind |-> cfg.kind, r |-> cfg.r, s |-> cfg.s,
                  chunk |-> cfg.chunk, accel |-> cfg.accel, spill |-> cfg.spill]
       /\ result' = IF ok THEN Pending ELSE [kind |-> "KeyMismatch"]
    /\ tee' = [on |-> cfg.tee, next |-> 1, ok |-> cfg.tee,
               out |-> IF cfg.tee THEN <<key.stated, key.body.vk, key.body.beta, key.body.delta>> ELSE << >>]
    /\ UNCHANGED <<key, next, sums, quotient, copied>>

Running == job # NoJob /\ result = Pending
JobSource == Source(job.circuit, job.kind)
Z == Assignment(LayoutOf(Circuits[job.circuit].vars), job.values)
JobDomain == KeyDomain(JobSource, Len(key.body.h))

(* quotient_for, with the other vectors or between B2 and H. *)
ComputeQuotient ==
    /\ Running /\ quotient = NoQuotient
    /\ Concurrent(job) \/ next = 4
    /\ quotient' = QuotientOf(JobSource, Z, JobDomain, job.chunk, job.accel # "none", job.spill)
    /\ UNCHANGED <<key, job, next, sums, tee, copied, result>>

(* The spill file cannot be made, written or read back (ProveError::Spill). *)
SpillFails ==
    /\ Running /\ quotient = NoQuotient /\ next = 4
    /\ job.spill
    /\ result' = [kind |-> "Spill"]
    /\ UNCHANGED <<key, job, next, sums, quotient, tee, copied>>

(* The scalars that go with positions [off, off + len) of a vector. *)
Scalars(v, off, len) ==
    CASE v \in {"a", "b1", "b2"} -> Slice(Z, off, off + len)
      [] v = "h" -> Gather(quotient, off, len)
      [] v = "l" -> LET ninst == JobSource.layout.numInstance IN Slice(Z, ninst + off, ninst + off + len)

(* A vector streamed in chunks, each with the scalars asked for by offset. *)
ChunkSum(v, points, j) ==
    LET off == j * job.chunk
        len == AtMost(job.chunk, Len(points) - off)
    IN  MsmOf(Slice(points, off, off + len), Scalars(v, off, len), 1, TRUE)
StreamSum(v, points) ==
    Total(Vec(CeilDiv(Len(points), job.chunk), LAMBDA j : ChunkSum(v, points, j)))

(* accel_msm: the partial sums of the chunks the accelerator took, and     *)
(* whether it took all of them; declineAt is the first it declines.        *)
AccelParts(v, points, declineAt) ==
    LET chunks == CeilDiv(Len(points), job.chunk)
    IN  [taken |-> declineAt >= chunks,
         sum |-> Total(Vec(AtMost(declineAt, chunks), LAMBDA j : ChunkSum(v, points, j)))]

\* a bug: what the accelerator summed before it declined is kept
VectorSumKept(v, points, declineAt) ==
    LET accel == AccelParts(v, points, declineAt)
    IN  IF job.accel # "none" /\ accel.taken THEN accel.sum
        ELSE Add(StreamSum(v, points), IF job.accel # "none" THEN accel.sum ELSE 0)
VectorSum(v, points, declineAt) ==
    Let(AccelParts(v, points, declineAt), LAMBDA accel :
    IF job.accel # "none" /\ accel.taken THEN accel.sum ELSE StreamSum(v, points))

(* SerializedPk::stream copies the vector when it is the one the copy      *)
(* expects; raw chunks for an accelerator end the copy.                    *)
TeeAfter(i, points, raw, decoded) ==
    LET offered == [tee EXCEPT !.ok = @ /\ ~raw]
        ok == offered.ok /\ tee.next = i
    IN  IF ~tee.on THEN tee
        ELSE IF ~decoded THEN offered
        ELSE [offered EXCEPT !.ok = ok, !.next = @ + 1, !.out = IF ok THEN Append(@, points) ELSE @]

StreamVector(declineAt) ==
    /\ Running /\ next \in 1..5
    /\ next = 4 => quotient # NoQuotient
    /\ \E v \in {VectorNames[next]} :
       \E points \in {key.body[v]} :
       \E skipped \in {v = "b1" /\ job.r = 0} :      \* B1 pairs with r only
       \E taken \in {job.accel # "none" /\ AccelParts(v, points, declineAt).taken} :
       /\ sums' = [sums EXCEPT ![v] = IF skipped THEN 0 ELSE VectorSum(v, points, declineAt)]
       /\ tee' = IF skipped THEN tee ELSE TeeAfter(next, points, job.accel # "none", ~taken)
    /\ next' = next + 1
    /\ UNCHANGED <<key, job, quotient, copied, result>>

(* The proof put together and, before it is returned, verified under the   *)
(* key's own verifying key (ProverConfig::self_check).                     *)
FinishProof ==
    /\ Running /\ next = 6
    /\ \E proof \in {AssembleProof(key.body, job.r, job.s, sums)} :
       \E inputs \in {Slice(Z, 1, JobSource.layout.numInstance)} :
       \E row \in {FirstUnsatisfied(JobSource, Z, WindowHint)} :
       result' = IF Verify(key.body.vk, inputs, proof) THEN [kind |-> "Proof", proof |-> proof]
                 ELSE IF row # AllSatisfied THEN [kind |-> "Unsatisfied", row |-> row]
                 ELSE [kind |-> "SelfCheckFailed"]
    /\ copied' = [complete |-> tee.on /\ tee.ok /\ tee.next = 6, out |-> tee.out]
    /\ UNCHANGED <<key, job, next, sums, quotient, tee>>

Setup ==
    \/ \E c \in 1..Len(Circuits), kind \in DomainKinds, w \in Waste, compressed \in BOOLEAN :
           DevSetupKey(c, kind, w, compressed)
    \/ \E c \in 1..Len(Circuits), i \in 1..Len(Transcripts), w \in Waste : Phase2SetupKey(c, i, w)

Start ==
    \E c \in 1..Len(Circuits), cfg \in Configs :
        \E values \in Values[c] : StartProof(c, values, cfg)

Stream ==
    /\ Running
    /\ \E declineAt \in (IF job.accel = "declines" THEN 0..1 ELSE {1000}) : StreamVector(declineAt)

Next == Setup \/ LegacyHeader \/ Transcode \/ Start \/ ComputeQuotient \/ SpillFails \/ Stream \/ FinishProof

Spec == Init /\ [][Next]_vars /\ WF_vars(ComputeQuotient) /\ WF_vars(Stream) /\ WF_vars(FinishProof)

-----------------------------------------------------------------------------
(* Properties.                                                             *)

Done == job # NoJob /\ result # Pending
OwnKey == key.circuit = job.circuit
Holds == Satisfies(Circuits[job.circuit], job.values)
Inputs == Slice(Z, 1, JobSource.layout.numInstance)

(* A solved circuit and its own key give a proof that verifies, here and   *)
(* in the on-chain form, whatever source the rows came from, whatever the  *)
(* domain, the chunks, the randomness, and whether an accelerator took,    *)
(* declined or half took the vectors or the quotient was spilled, unless   *)
(* the spill file itself failed (prover.rs prove_impl).                    *)
ProofVerifies ==
    Done /\ OwnKey /\ Holds /\ result.kind # "Spill" =>
        /\ result.kind = "Proof"
        /\ Verify(key.body.vk, Inputs, result.proof)
        /\ OnChainVerify(key.body.vk, Inputs, AssembleProofBytes(result.proof))
        /\ DecodeProof(AssembleProofBytes(result.proof)) = result.proof

(* A failed proof says why: values that break the circuit are blamed on    *)
(* the first row they break, a key of another circuit on the key, and      *)
(* neither yields a proof; a spill file that failed is an error of its own *)
(* (prover.rs check_shape, self_check_failure and ProveError).             *)
FailureExplained ==
    Done /\ result.kind # "Spill" =>
        /\ ~Holds => \/ result = [kind |-> "KeyMismatch"] /\ ~OwnKey
                     \/ /\ result.kind = "Unsatisfied"
                        /\ ~Satisfies([Circuits[job.circuit] EXCEPT !.rows = SubSeq(@, 1, result.row + 1)], job.values)
                        /\ Satisfies([Circuits[job.circuit] EXCEPT !.rows = SubSeq(@, 1, result.row)], job.values)
        /\ Holds /\ ~OwnKey => result.kind \in {"KeyMismatch", "SelfCheckFailed"}

(* What a finished proof is, of a solved circuit and of a broken one       *)
(* (prover.rs prove_impl).                                                 *)
OutcomeExact == ProofVerifies /\ FailureExplained

(* Every way to the same secrets gives the same key: a phase-2 setup from  *)
(* an honest transcript is the dev setup on its tau, alpha and beta, a     *)
(* dishonest transcript gives no key, and a copy of the key that the       *)
(* prover reports complete is the key (setup.rs phase2_setup, ptau.rs      *)
(* validate_for_circuit, pk.rs finish_tee).                                *)
KeyCopiesAgree ==
    /\ key.circuit > 0 =>
        /\ key.from.setup = "phase2" =>
            LET file == Transcripts[key.from.file] IN
            /\ file.honest
            /\ key.body = DevSetup(Source(key.circuit, "Program"), "Radix2",
                                   [alpha |-> file.alpha, beta |-> file.beta, t |-> file.tau,
                                    gamma |-> key.from.waste.gamma, delta |-> key.from.waste.delta])
    /\ result.kind = "BadTranscript" =>
        LET file == Transcripts[result.file] IN
        ~file.honest \/ 2 ^ file.ptau.power < MinDomain(Source(result.circuit, "Program"))
    /\ copied.complete =>
        copied.out = <<key.stated, key.body.vk, key.body.beta, key.body.delta,
                       key.body.a, key.body.b1, key.body.b2, key.body.h, key.body.l>>
=============================================================================
