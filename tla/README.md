# A TLA+ model of xark

xark compiles Rust functions to Groth16 circuits, makes keys for them, proves
(natively, and in a browser from a key that is still downloading), runs
trusted-setup ceremonies and exports verifiers. This directory models it in
TLA+, checks the model with TLC on small instances, and proves with TLAPS what
matters most about the parts that share state, for every instance.

`PROJECT.json` lists the components and what of each is left out, the runs,
the mutants (a plausible bug in one definition for every checked property),
the source lines each definition stands for, the hazards, the findings and the
theorems. Source paths below are relative to `src/crates`.

## 1. The system

| Component | State it keeps | Operations | What is hard |
|---|---|---|---|
| Phase-2 ceremony (`cli/commands/ceremony.rs`, `backend/ceremony.rs`) | a directory: baseline, keys, count, an attestation per contribution, metadata | `init`, `contribute`, `verify`, `finalize` | several files that must agree, no lock, interruption between any two writes |
| Key directory (`cli/commands/{setup,prove,export}.rs`) | `pk.bin`, `vk.bin`, `metadata.json`, `r1cs.stream`, `pk.decoded.bin`, the proof, the exported crate | `setup`, `prove`, `export` | temporary names and renames, caches of another key, builds that change underneath |
| Build driver (`cli/cli.rs`, `frontend/lib.rs`) | the build's outputs, their times, its stamp, `.build-lock` | `build`, and the build before every command | reuse by stamp, staleness by time, partial writes, two builds |
| Frontend (`frontend/{interp,host,builder}.rs`) | a wasm machine with symbolic values; the rows, witness program, memo tables and facts of the circuit being lowered | wasm instructions, intrinsics | branches on witness values, reuse of rows, facts that outlive the arm they hold in |
| Circuit output (`frontend/{output,templates}.rs`) | templates, the encoder's dictionaries | `finish`, encoding | calls and rows rolled into loops |
| Circuit IR (`ir/`) | the decoder's cursor, solver schedules | decode, expand, solve, analyse, reduce | several views of one circuit that must agree |
| Boundary minimization (`ir/minimize.rs`) | rows, occurrence index, worklist, certificate | one turn of the worklist | a stale index, rows that change after they were looked at |
| Groth16 (`groth16/`) | vectors, spill file | FFT, MSM, quotient, `setup`, `prove`, `verify` | mixed-radix domains, batched affine addition, an accelerator that gives up midway |
| Key files, powers of tau, Solana layouts (`groth16/{pk,transcode,decode}.rs`, `backend/{keys,ptau,solana}.rs`) | files | read, write, transcode | three formats and three point encodings |
| Key stream and push prover (`groth16/{keystream,push}.rs`) | buffer, stage, `h`, five accumulators | `push`, `finish` | input cut at any byte, a domain known only from a length |
| Worker pool (`wasm/js/pool*.mjs`) | shared buffers, a counter, a flag, message queues | transforms, `msm`, `decompress` | shared memory, `Atomics.wait`/`notify`, kernels that throw |
| Schema, inputs, clients, language (`schema/`, `lang/`, `prover/inputs.rs`, `cli/commands/client/`) | none | encode, decode, read back | four parties that must agree on one encoding |
| Gadgets (`src/gadgets/`) | none | limb arithmetic, curves, signatures | what hints must not be able to claim |
| Reports, Lean development, test harness | | | not modelled |

How they interact. `build` lowers a crate (interpreter, host, builder), finishes
it into templates and writes `circuit.xbc`. `setup` reads it, reduces and
minimizes its rows, writes them as `r1cs.stream` and makes keys; the ceremony
and powers-of-tau files are other ways to make them. `prove` encodes the inputs
by the schema, solves the witness, streams key and rows through the prover and
checks its own proof; `export` reads key, metadata and a sample. These commands
communicate only through files, without a lock (a build excludes builds,
nothing else). In the browser the key's bytes go through the key stream, whose
events drive the push prover, which hands its data-parallel steps to the worker
pool and blocks until it is done.

## 2. Modules

State machines over shared files and memory, which the theorems are about:

* `Ceremony`: `dir` maps file names to contents; each command is a process with
  a program counter and locals and one action per file it reads, writes,
  renames or removes, in the code's order. `Stop` ends a command anywhere (an
  interruption, or the `?` of a failed operation); a file being written is then
  `Torn`. A trapdoor delta is the set of its factors (a seed and one fresh
  secret per contribution), so pairing checks are equalities of sets.
* `KeyStore`: the same for `setup` (temporary files, metadata removed, three
  renames), `prove` (builds and sets up on demand, finds rows, uses or makes
  the decoded copy, checks its own proof) and `export`. A key is its setup,
  circuit digest, constraint form, mode and compression.
* `Build`: `build_stable` file by file under its lock: compile, take the key,
  reuse or clear, write, stamp. The lock, a removal, a write, a touch and a read
  may be refused, with what the code makes of each refusal, and any process be
  killed; a file is emptied (`Torn`) before it is filled. Commands judge the
  directory without the lock, by files and times; a torn `deps` shows them only
  the edits that `Cargo.toml` and `src/` show. Time is the number of edits so far. Cargo and lowering are functions of the sources'
  version that fail on given ones (modelled from how they are called).
* `KeyStream` and `PushProver` (which extends it): bytes are positions in the
  file, so "nothing lost, repeated or shifted" is arithmetic; the prover is the
  handler of the parser's events. Scalars are indices, domains their sizes
  (`2^k`, three or nine times that; `TwoAdicity` is 28 in the code, 3 for TLC).
* `WorkerPool`: the proving thread and each worker's event loop; every access
  to the counter, the flag and the buffers is a step. A cell holds the call and
  passes it has been through, so a kernel that reads another call's yields
  `Bad`. `SerialPool` is what its caller takes it for: one call at a time, each
  of which ends with the whole of its own result or throws.
* `Minimize`: one action per outcome of a turn of the worklist, the occurrence
  index as the code keeps it, the certificate as variables, rows over F_P. The
  value of a combination is a recursive function over the variables.

Lowering and circuits:

* `Interp`: the symbolic machine. A wire is what it evaluates to under each
  assignment of the inputs, the constraints so far the set of assignments that
  satisfy them; memory is bytes, with the symbolic-byte counters. The concrete
  machine is the same module with one assignment.
* `Builder` (rows, products and their reuse, merging, revival, gates),
  `HostInt` (integer operators, bounds) and `Frontend` (the intrinsics in any
  order, and `Finish`) over a small field. Beside the builder's state
  `Frontend` carries what the program means, and compares.
* `Bytecode` (opcodes, rolled runs), `Artifact` (regions to function
  definitions; the encoder and decoder of `circuit.xbc`), `CircuitEval` (three
  solvers; row checks, underconstraint, reduction), `Circuit` (from `finish` to
  use, with `r1cs.stream`).

Arithmetic, keys and inputs:

* `Field`, `Fft`, `Msm`, `R1cs`, `Groth16`, `ProofSystem` (setup, transcoding,
  and a proof whose quotient may be computed by another thread), `Points`
  (encodings and square roots), `KeyFiles` (formats and powers of tau). A point
  is its discrete logarithm, an affine addition keeps its case split.
* `Schema`, `Inputs` (types and their layout; the codec; all readers and
  writers of a circuit's inputs, with the generated client), `Bignum` (a gadget is the
  set of results its rows accept under any hints), `Signatures` (ECDSA and
  EdDSA over small groups).

`MC*` modules give the instances for TLC; `*Proofs` modules and `Induction`
hold the theorems. `MCCeremony` (directories edited behind the contributors'
backs) and `MCKeyStore` (which commands may overlap) have theorems too, in
`EditedProofs` and `KeyStoreProofs`. `map` names, of helpers that stand for the
same lines, the one that says most.
`Field` and `Builder` define `Let(x, body(_))`, which evaluates `x` once; TLC
would evaluate a LET once per use. `Circuit` takes its codec, solver and
reduction as CONSTANT operators that `MCCircuit.cfg` binds to the modules'
definitions: TLC's coverage would otherwise build a tree of the codec per call.
Operators that take an operator (`Let`, `LcRename`, `PutWitnessWith`, `Combine`
and the like) have no entry of their own in `map`; what they are instantiated
with has.

## 3. What the runs check

| Run | Instance | Properties |
|---|---|---|
| `ceremony` | one command at a time, interrupted anywhere; two transcripts, two seeds, three secrets, counts to 3; directories with up to two edited files | `AcceptedSound`: what verify accepts is the initial keys with delta times the attested secrets; `RecordedKept`, `MetadataDescribesKeys`, `FinalizedKeysFrozen`; `AcceptedLinksGenuine`: no attestation passes for another's |
| `keystore` | one command at a time over two circuits by two compilers; export in both modes; a setup beside a prove | `DirectoryDescribed`, `DescribedKeyProvesAlone`, `ExportsSound` |
| `build` | two processes, two runs, one edit, one fault; sources that work, fail in cargo, fail to lower | `DirectoryConsistent`; `NeverOlderThanSource`; `SuccessLeavesThisBuild`, `FailedLeavesNoOldCircuit`; `ProcessesEnd` |
| `worker_pool` | two workers, 2 x 3 matrix, tiles of 1, up to 3 points, two calls | `BarrierHolds`, `CountsJobs`, `FailureReported`; `ImplementsSerialPool`, the refinement with its liveness |
| `push_prover` | chunks of 2, lengths of 2 bytes, points of 1 and 2, keys of the circuit's shape or off by one, in every partition | `StreamInOrder`, `FoldExact`, `FittingKeyProves` |
| `minimize` | all systems of three sample rows over F_5, one input, two Internal variables, fill-in guard 1 | `SolutionsPreserved`, `ReducedForm`, `TraceExplains` |
| `frontend_branches` | prelude, witness branch over two arms, closing statement; 2-bit bytes, pages of 8 | `MergedStateExact`, `LoweringComplete` |
| `frontend_lowering` | one to three intrinsics, in and out of arms, over F_17 with 2-bit registers | `Sound`, `HonestWitness`, `FactsHold` |
| `frontend_hint` | the bits of a pending product | `Complete` is violated: the finding below |
| `circuit_format` | lowered circuits of up to two statements over F_7, constants of 16 bits, templates from two rows, windows of two | `RoundTrip`, `SolversAgree`, `AnalyzersAgree`, `ReductionKeepsSolutions`, `EvaluationAgrees` |
| `proof_system` | F_577, three-row circuits on domains of 6 and 8 points, transforms of sizes 1 to 72, sums of up to 70 products, points over F_19 | `OutcomeExact`, `KeyCopiesAgree`, `KernelsAgree` |
| `library` | F_17 packed in 4 bits, 2-bit bytes; limb curves of 9 points, ECDSA groups of 13 and 17, EdDSA of 104 | `InputsAgree`, `InputsExact`, `LimbsExact`, `SignaturesExact` |

Some properties are of steps, `[][P(x')]_x`: a value is judged when it is made,
once, and not again in every state that holds it.

The finding (`frontend_hint`): `hint_bit` reads its operand without making a
pending product real (`frontend/host.rs:1939`), so when a later `require_eq`
merges that product's row, the honest witness does not satisfy the rows;
`frontend/host.rs:1746` promises a hint the solver can always compute.

### Bounds, and why they are enough

Ceremonies: two contributions make every pair of files that can disagree, three
let an interrupted one lie between finished ones; several commands at once are
the theorems' business. Key directory: two keys, since each property compares a
file with one other. Build: two runs let one process build while another builds
or uses what is there, before or after an edit; one fault refuses every lock,
removal, touch and write, at its start or midway, and hits every step as a crash. Pool: two workers and three columns or points give the
uneven split, two calls the reuse of buffers. Key stream: vectors of none,
fewer and more points than a chunk, points of one and two bytes, meet every
branch at every buffer length; one and three rows tell the radix-2 domain from
the smallest one. Minimization: three rows let an elimination make a quadratic
row linear that then defines a variable of a third; in F_5 an inverse, a
negation and the identity all differ; the guard of one term is met by three
variables. Interpreter: two bytes to a word and words that straddle a boundary
exercise mixing and splitting; an arm of each kind of statement beside each
other, and arms that reach out of bounds with an index or with one of two
selected pointers. Frontend: sizes keep the order register < small constant < bound < field
of the code, and three calls suffice for a fact to be made, a branch to end and
the fact to be used. Circuits: two statements, one of them a call of a nested
and repeated gadget, roll, nest and refer back in every table of the encoder.
Proof system: 577 has the roots of unity for both kinds of domain, and its size
spreads scalars over all magnitude classes; 70 points are split between
threads, in two or four slices, with one window and with two, and scalars up to
six bits above and multiples of the modulus are unreduced. Library: each packed group is full,
short and overfull; one byte value is in no
text and is replaced by two others, and the least timestamp and the last step of
the time type have no date, the others do; groups small enough that all signatures and all hints are
tried, with the exceptional cases of incomplete addition common.

`MaxRuns`, `MaxEdits`, `MaxFaults`, `MaxCalls`, `MaxCount`, `MaxKeys`,
`MaxExtra`, `MaxStatements` and the interpreter's step bounds are caps of the
model, in guards; the theorems hold for every value of those they mention.

`EditWhileBuilding = FALSE` in `build`: nobody edits the sources from the time a
build takes its lock until it drops it. In `keystore` builds change only while
no command runs, except beside the setup-and-prove pair; there a described key
may be replaced before it is read, and prove's own check refuses, which is all
the code promises: hence `DescribedKeyProvesAlone`. Only development keys are
made in its proving scenario, since nothing in `prove` tells the modes apart.

### Fairness

`WorkerPool`: the proving thread's steps and each worker's event loop are weakly
fair, because threads run; when a call starts is the caller's choice. `Build`:
each process's own steps are weakly fair; crashes, edits and new commands are
not. The lock needs no more: its holders are finitely many and each ends.
`ProofSystem`: both threads run. Everything else is safety.

## 4. What is proved

TLAPS checks these for every value of the constants that satisfies the modules'
assumptions. Each proof module builds a chain of inductive invariants, each
containing the one before it; the properties are seldom inductive by
themselves. Every safety property of the state machines over shared files and
memory, and of the minimizer, is stated by a theorem.

Induction over data is by the least counterexample. The library's induction
theorems take an operator, which the provers cannot instantiate; `Induction`
states what is needed over sets instead: `LeastNat` (from the well-foundedness
of the naturals), `SegmentInduction` (a statement is the set of indices at which
it holds) and `SegmentRecursion` (a recursive function on `0..n` exists and
satisfies its equations).

**`CeremonyProofs`** (zero, seeds and secrets distinct).
`TypeCorrect` and `VerificationSound` (`[]AcceptedSound`) hold for any number
of commands at once. `Inv` adds to the types what each verifying command has
established so far: its seed is a seed, its chain passed `VerifyChain`, its keys
are those it compared. The mathematics is `ChainProduct` (after `i` accepted
links delta is the baseline times their secrets) and `ChecksAreSound`.
`ContributionsKept`, `MetadataTruthful` and `KeysFrozen` assume `Alone`, one
command at a time: the tool takes no lock, and with two at once the second is
false (a contribution in flight replaces keys that a finalize describes). `Solo`
says what the files mean between any two steps (`Kept`) and what the command
under way has done so far (`Current`).

**`EditedProofs`**, any number of contributions and of edits, any secrets the
editor knows, any initial keys. The specification is `MCCeremony`'s: a directory
in which keys, count, baseline, recorded seed and attestations were replaced
after the contributions, read by any number of commands at once.
`EditedSound` is `[]AcceptedSound` there. `LinksGenuine`
(`[]AcceptedLinksGenuine`): each link of an accepted chain is of a secret the
editor knows or the very statement a contributor proved. `Edited` strengthens
`Inv` by what no edit can do: every attestation, in a file or already read,
carries a proof that a contributor made or that is of the editor's own secret
(`VouchedFor`). The link itself may be anything; only the comparison of
`verify_chain` binds it to its proof, so the property is not inductive without
the proofs.

**`WorkerPoolProofs`**, any number of workers, matrix, tile, points and calls.
`BarrierCorrect`, `CounterCorrect`: that nothing runs after the barrier follows
from counting; `Accounting` says that inside a barrier counter, queue and busy
workers add up to the jobs posted. `FailuresReported`: `Reporting` ties the
shared flag to the call under way. `AnswersWhole`: a result that is returned is
wholly its call's; `Computing` says which columns or rows each worker owns
(ranges partition the work: `Shaped`, `Owned`), that what it reads was written
by the previous pass (`Supplied`) and what is finished is written (`Written`).
`RefinesSerialPool`: `Spec => Serial!Safe`, every step of the threads is a step
of the serial machine or leaves it alone. `TypeCorrect`.

**`StreamProofs`**, any key, chunk size and cut. `Streamed`: `Parsed` relates
stage, position and buffer to the layout of the file (`Layout`: the vectors
follow each other without a gap). `Folded`: `Summed` says that what has been
folded is exactly the pairs of point and scalar before the current stage, as a
bag, and that vectors still to come fit the scalars there are.
`FittingProved` (`[]FittingKeyProves`): no chunk and no event of a key made for
the circuit is refused. The header may only imply a domain, and the first
quotient may be for another than the key's; `Fitted` says which domains `h` can
be for, and that from the first vector on it is for the key's own. It rests on
`FittingDomains`: the radix-2 domain the code falls back to is never one point
short of the key's, so the length of `H` gives a quotient for it away, and that
length has the key's domain as its only reading. The failing guards are written out
(`HeaderFits`, `LenFits`), so no ENABLED is needed. The assumption on
`RowCounts` is that a radix-2 domain exists, which `domain_for` expects.

**`MinimizeProofs`**, any prime field, program, choice of Internal variables and
fill-in guard. `SolutionsKept` (`[]SolutionsPreserved`): at every turn the rows
left, with the definitions of the eliminated variables, have exactly the
solutions of the rows given, as relations over all assignments. `Reduced`
(`[]ReducedForm`): an eliminated variable is in no row although rows are found
only by the append-only index, and at the end nothing cheap to eliminate is
left. `Explained` (`[]TraceExplains`): each row left is the given one after its
recorded substitutions in order, and the missing rows are dropped or define a
step. `IInv` adds `Indexed` (the index misses no row that holds a variable,
without which a substitution would skip one) and `Settled` (a row that does not
wait has nothing left to do, without which an empty worklist would mean
nothing). The algebra beneath it is that evaluation is linear and that
substituting a variable by a combination evaluates to replacing its value
(sums of `N` terms, by `SegmentInduction`); the certificate is a chain of sums,
built by `SegmentRecursion`. `MinimizeAssumption` says that the field has
inverses and that programs are sequences of rows.

**`BuildProofs`**, any processes, versions, options, and any interleaving,
crashes and refused operations. `DirectoryCorrect` (`[]DirectoryConsistent`): `Placing`
holds for each build, by its step, what it has removed and written, and of the
directory that its complete outputs are one build's, that `deps` beside a
circuit makes them whole, and that a stamp names its circuit. `SuccessTold`
follows, as a property of steps. So does `FailureTold`: a failed build leaves no
older circuit, and the two ways out that the statement names (the lock refused,
the removal of `circuit.xbc` refused) are the only ones. `NeverStale`
(`[]NeverOlderThanSource`) assumes `~EditWhileBuilding`; `Aging` says that a
circuit as new as the sources is of the sources, and what a command has seen of
them. It is false without the assumption, and without the exception that the
property makes for a `deps` that was cut off (see below). `TypeCorrect`.

**`KeyStoreProofs`**, any processes, circuits, compilers, number of keys.

* `Described`: `Spec /\ []OneSetup => []DirectoryDescribed`. Two setups at once
  write under the same temporary names. `Setting` follows a setup from its
  first temporary file to its last rename.
* `ExportsCorrect`: `Spec /\ []OneSetup /\ []ExportAlone => ExportsSound`. No
  other export and no setup overlaps an export; export reads `vk.bin` and the
  metadata beside it at different times, and two write one crate.
* `DescribedProves`: with `~BuildRaces`, `Spec /\ []Alone =>
  []DescribedKeyProves`: one command at a time, any of them interrupted
  anywhere, over a `circuit.xbc` that changes between them. `Knowing` follows
  what each command remembers of circuit and directory.
* `DescribedAlone`: `MCSpec => []DescribedKeyProvesAlone` where at most one
  process may run setups. In the scenarios of the run other than the setup
  beside a prove, commands do not overlap because only that process moves
  (`RunAlone`): `Alone` is a consequence here, not an assumption.

`ContentAssumption` of `KeyStore` says only that the values for an absent and a
torn file are not contents of files and that no digest is a circuit.

### Only model-checked, and why

* Liveness is out of the prover's reach: `ProcessesEnd` and the liveness part
  of `ImplementsSerialPool`.
* `OutcomeExact` and `KeyCopiesAgree` of `ProofSystem`: the verdict of a proof is
  computed by transforms, multi-exponentiations and point arithmetic written
  with recursive operators, which the prover cannot take. That the verdict is
  right for every circuit would need the algebra of Groth16 itself.
* The other modules with recursive operators (`Interp`, `Builder` to `Frontend`,
  `Bytecode` to `Circuit`, `Field` to `Groth16`, `Points`, `KeyFiles`, `Schema`,
  `Inputs`, `Bignum`, `Signatures`) compute over data: they are compared with
  reference definitions over all inputs of their instances.

## 5. Where code and words disagree

Besides the finding, these showed while modelling; no run is spent on them.

* A contribution interrupted between its renames leaves keys the counted chain
  does not explain (`cli/commands/ceremony.rs:238`; the comment at 220 says that
  it leaves keys, attestation and count agreeing).
* A ceremony without contributions can be finalized as production-safe.
* An export that reads `vk.bin` before a setup ends and `metadata.json` after it
  takes a development key for a production one (`cli/commands/export.rs:104`,
  `cli/commands/setup.rs:572`).
* A source edited while it is being built is older than `circuit.xbc` and not in
  it, so the build counts as current (`cli/cli.rs:142`; the comment at 181).
* A build that is killed while it writes `deps`, or whose write fails midway
  (`cli/cli.rs:492`), leaves an empty or shorter list. `stale_build` asks only
  that the file is there (137), so an edit of a path dependency, or a file taken
  away, is not noticed and a command goes on with the older circuit, which the
  comment at 181 rules out. `NeverOlderThanSource` excepts exactly that case.
* A build that is refused its lock (`cli/cli.rs:382`) or the removal of
  `circuit.xbc` (396) fails and leaves the earlier circuit, although the comment
  at 387 has it that later commands must not go on with it.
  `FailedLeavesNoOldCircuit` excepts these two.
* A failed write of `schema.json` does not keep `deps` from being written
  (`cli/cli.rs:492`): a build without its schema counts as complete; hence
  `CurrentIsWhole` speaks of `circuit.xbc` and `sources.json`.
* A domain hint one point short of the key's passes the length test, and the
  proof fails its self-check instead of costing one recomputation
  (`groth16/prover.rs:42`); hence no hint in `FittingKeyProves`.
* A load or store through a select of two pointers goes through each, so it
  traps when one is out of bounds, also where the other is meant
  (`frontend/interp.rs:1488`, 2438, 2491), while an index out of bounds is only
  ruled out (`load_any`). In an arm the trap rules out the whole arm.
  `LoweringComplete` excepts the programs that do this.
* `memory.grow` on a probed path or in an arm is not undone
  (`frontend/interp.rs:2078-2095`; the comment at 2870 on `probe` says that state
  and memory are left as they were).
* An error in the inner run of a rolled block is taken for an empty run
  (`ir/function_decode.rs`, near 548 and 607; the comment at 1634 promises a
  clean error for a corrupted file).
* `schema/lib.rs:151` says every leaf is given exactly once: of two keys that
  name one leaf (`msg` and `msg[0]`) the path silently wins (`PathsReplace`, a
  part of `InputsExact`), and flat keys
  through tuples (`pair.0`) are refused. `prover/inputs.rs:20` spells tuple
  elements `name[i]`. For a newtype over several leaves the schema counts one
  leaf where the host reads several.
* Times outside the years 0 to 9999 decode to decimal seconds (`schema/time.rs:116`),
  which the codec reads back but the TypeScript client gives to `new Date`
  (`client/ts.rs:145`): an invalid or another date. Hence "where dates can be
  written" in `InputsAgree`.
* On decoding, bits of a Bitfield past its last variant are dropped, overlapping
  limbs are or-ed, and bytes of a Text that are not UTF-8 are replaced
  (`schema/lib.rs:665`): a prover can make up leaves that decode to another
  value's. `InputsExact` excepts these (`Loose`), and no others.
* `src/gadgets/xark-ed25519/src/lib.rs:14` and 444 state the uncofactored
  equation; the gadget, and line 465, check the cofactored one.

## 6. What is not modelled

* Two setups in one directory at once (the contents of half-written temporary
  files), two processes caching one decoded key, commands with explicit output
  paths, `--deterministic-rng`; build directories given with `--out`, and a
  newer `xark` as a reason to rebuild.
* A worker that dies while the proving thread waits: the wait has no timeout
  and the code no answer.
* Floating point and bit counting in the interpreter (concrete only), host
  functions for limbs and curves (their meaning is in `Bignum`, `Signatures`).
* The search for a second witness, debug information, JSON, profiles, reports;
  the Lean export and development; the on-chain verifier's crate and syscalls.
* Hash gadgets and Pedersen tables (straight-line arithmetic and constants),
  widths of carries and quotients at full size, interpolation rows, the lattice
  reduction (any short vector will do).
* Hashing, as far as it is: a digest is its content; a challenge is any
  non-zero value.

## 7. What is next

1. Two setups at once in `KeyStore`, with half-written temporary files, and what
   of `Described` survives them.
2. `OutcomeExact` from the field's and the transforms' laws as assumptions, with
   the recursive operators behind them as recursive functions.
3. A worker that dies in `WorkerPool`, and which of its theorems stand until it
   does.
