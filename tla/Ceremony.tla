------------------------------ MODULE Ceremony ------------------------------
(***************************************************************************)
(* The phase-2 trusted-setup ceremony: `xark ceremony init | contribute |  *)
(* verify | finalize` (crates/cli/src/commands/ceremony.rs) over the       *)
(* library functions of crates/backend/src/ceremony.rs.                    *)
(*                                                                         *)
(* The only shared state is a directory of files.  Every command is a      *)
(* process that reads, writes, renames and removes whole files one at a    *)
(* time, and that may stop between any two of those steps (Crash): an      *)
(* interruption, or the `?` of a failed file operation.  No lock is taken. *)
(*                                                                         *)
(* A trapdoor delta is a product of independent secrets, so it is          *)
(* represented by the set of its factors: the seed the initial keys were   *)
(* derived from, and one fresh secret per contribution.  Zero is the       *)
(* absorbing factor.  Group elements delta*G1 and delta*G2 are equal       *)
(* exactly when their deltas are.                                          *)
(***************************************************************************)
EXTENDS Naturals, Sequences, FiniteSets

CONSTANTS
  Procs,      \* running `xark ceremony` commands
  Circuits,   \* builds (`circuit.xbc`), told apart by their circuit_hash
  Ptaus,      \* phase-1 transcripts
  Seeds,      \* phase-2 seeds
  Secrets,    \* contributors' secrets delta_i
  Zero,       \* the zero scalar
  MaxCount,   \* bound on the contributions of one ceremony
  Absent,     \* no file of that name
  Torn        \* a file whose write was interrupted: it does not parse

ASSUME CeremonyAssumption ==
  /\ MaxCount \in Nat
  /\ Absent # Torn
  /\ Zero \notin Seeds \cup Secrets
  /\ Seeds \cap Secrets = {}

VARIABLES
  dir,        \* the ceremony directory: name -> content
  pc,         \* the step each command is at
  loc,        \* what each command holds in memory
  used,       \* secrets drawn so far (OsRng never repeats one)
  recorded    \* secrets whose `contribute` reported success since the last `init`

vars == <<dir, pc, loc, used, recorded>>

-----------------------------------------------------------------------------
(* File names.                                                             *)

File(name) == <<name, 0, "file">>
Att(i)     == <<"contribution.json", i, "file">>
Tmp(f)     == <<f[1], f[2], "tmp">>

BASELINE == File("baseline_delta_g1.bin")
CMETA    == File("circuit_meta.json")
COUNT    == File("contribution_count")
METADATA == File("metadata.json")
PK       == File("proving_key.bin")
VK       == File("verifying_key.bin")

(* ceremony_files: what a ceremony keeps, in the sorted order in which     *)
(* `init --force` removes it ("contribution_0001.json" sorts before        *)
(* "contribution_count", and a ".tmp" right after the name it is for).     *)
SortedNames ==
  <<BASELINE, CMETA>>
    \o [k \in 1..(2 * MaxCount) |->
          IF k % 2 = 1 THEN Att((k + 1) \div 2) ELSE Tmp(Att(k \div 2))]
    \o <<COUNT, Tmp(COUNT), METADATA, PK, Tmp(PK), VK, Tmp(VK)>>

Names ==
  {BASELINE, CMETA, COUNT, METADATA, PK, VK, Tmp(COUNT), Tmp(PK), Tmp(VK)}
    \cup {Att(i) : i \in 1..MaxCount} \cup {Tmp(Att(i)) : i \in 1..MaxCount}

Exists(f)   == dir[f] # Absent
Readable(f) == dir[f] \notin {Absent, Torn}

ExistingFiles == {f \in Names : Exists(f)}

(* The listed files are removed in sorted order.                           *)
FirstOf(files) ==
  {SortedNames[i] : i \in {i \in 1..Len(SortedNames) :
     SortedNames[i] \in files /\ \A j \in 1..(i - 1) : SortedNames[j] \notin files}}

-----------------------------------------------------------------------------
(* Keys, contributions and their checks (backend/src/ceremony.rs).         *)

Delta == SUBSET (Seeds \cup Secrets \cup {Zero})

Times(delta, x) == IF x = Zero \/ Zero \in delta THEN {Zero} ELSE delta \cup {x}

IsZero(delta) == Zero \in delta

(* Everything in the keys a contribution leaves alone (alpha, beta, gamma, *)
(* gamma_abc, the A and B queries) is determined by these three.           *)
Rest == [circuit : Circuits, ptau : Ptaus, seed : Seeds]

(* g2: delta_g2;  g1: delta_g1;  hl: the delta the H and L queries are     *)
(* divided by;  vk: the proving key's own copy of the verifying key.       *)
VerifyingKey == [rest : Rest, g2 : Delta]
ProvingKey   == [rest : Rest, vk : VerifyingKey, g1 : Delta, hl : Delta]

(* proof: the statement the Schnorr proof of knowledge of d was made for   *)
(* (its challenge hashes prev, new and d*G2).                              *)
Statement    == [prev : Delta, new : Delta, d : Secrets \cup {Zero}]
Contribution == [prev : Delta, new : Delta, d : Secrets \cup {Zero}, proof : Statement]

CircuitMeta == [circuit : Circuits, seed : Seeds]
Metadata    ==
  [circuit : Circuits, vk : VerifyingKey \cup {Torn}, contributors : 0..MaxCount]

(* A missing file and one that does not parse are told from any content.   *)
ASSUME ContentAssumption ==
  \A c \in {Absent, Torn} :
    c \notin Nat \cup Contribution \cup ProvingKey \cup VerifyingKey \cup Metadata

InitialVk(rest) == [rest |-> rest, g2 |-> {rest.seed}]
InitialPk(rest) ==
  [rest |-> rest, vk |-> InitialVk(rest), g1 |-> {rest.seed}, hl |-> {rest.seed}]

(* contribute: delta_i is applied to delta_g1 of the proving key, to       *)
(* delta_g2 of the VERIFYING key (copied into the proving key), and its    *)
(* inverse to H and L.                                                     *)
ContributedPk(pk, vk, x) ==
  [pk EXCEPT !.g1 = Times(@, x), !.vk.g2 = Times(vk.g2, x), !.hl = Times(@, x)]
ContributedVk(vk, x) == [vk EXCEPT !.g2 = Times(@, x)]
Attestation(pk, x) ==
  [prev |-> pk.g1, new |-> Times(pk.g1, x), d |-> x,
   proof |-> [prev |-> pk.g1, new |-> Times(pk.g1, x), d |-> x]]

SchnorrValid(c) == c.proof = [prev |-> c.prev, new |-> c.new, d |-> c.d]

(* The delta the chain has reached after its first i contributions.        *)
Running(baseline, chain, i) == IF i = 0 THEN baseline ELSE chain[i].new

ValidLink_NoSchnorr(running, c) ==
  /\ c.prev = running
  /\ ~ IsZero({c.d}) /\ ~ IsZero(c.new)
  /\ c.new = Times(c.prev, c.d)

(* A link starts where the last one ended, is not degenerate, carries a    *)
(* proof of knowledge for this very link, and multiplies delta by the      *)
(* secret it commits to.                                                   *)
ValidLink(running, c) ==
  /\ c.prev = running
  /\ ~ IsZero({c.d}) /\ ~ IsZero(c.new)
  /\ SchnorrValid(c)
  /\ c.new = Times(c.prev, c.d)

(* verify_chain                                                            *)
VerifyChain(baseline, chain) ==
  /\ \A i \in 1..Len(chain) : ValidLink(Running(baseline, chain, i - 1), chain[i])
  /\ ~ IsZero(Running(baseline, chain, Len(chain)))

KeysConsistentWithChain_Unbound(pk, vk, baseline, chain) == pk.g1 = vk.g2

(* verify_keys_consistent_with_chain                                       *)
KeysConsistentWithChain(pk, vk, baseline, chain) ==
  /\ pk.g1 = Running(baseline, chain, Len(chain))
  /\ pk.g1 = vk.g2

(* verify_keys_match_initial                                               *)
KeysMatchInitial(pk, vk, rest) ==
  /\ pk.vk = vk
  /\ vk.rest = rest /\ pk.rest = rest
  /\ pk.hl = vk.g2

-----------------------------------------------------------------------------
(* The commands.  A failed check or a failed file operation ends a command *)
(* where it is: that is Stop, which is also what an interruption does.     *)

NoLoc ==
  [op |-> "none", circuit |-> Absent, ptau |-> Absent, seed |-> Absent,
   todo |-> {}, k |-> 0, count |-> 0, chain |-> <<>>,
   pk |-> Absent, vk |-> Absent, x |-> Absent, hashed |-> Absent]

LocRest(p) ==
  [circuit |-> loc[p].circuit, ptau |-> loc[p].ptau, seed |-> loc[p].seed]

(* What run_init writes, in order: straight to the final names.            *)
InitWrites(rest) ==
  << <<BASELINE, {rest.seed}>>, <<PK, InitialPk(rest)>>, <<VK, InitialVk(rest)>>,
     <<COUNT, 0>>, <<CMETA, [circuit |-> rest.circuit, seed |-> rest.seed]>> >>

NewIndex_Reused(count) == IF count = 0 THEN 1 ELSE count

NewIndex(count) == count + 1

(* What run_contribute writes under temporary names, then the order in     *)
(* which it renames them into place.                                       *)
ContributeWrites(l) ==
  << <<Tmp(PK), ContributedPk(l.pk, l.vk, l.x)>>, <<Tmp(VK), ContributedVk(l.vk, l.x)>>,
     <<Tmp(Att(NewIndex(l.count))), Attestation(l.pk, l.x)>>,
     <<Tmp(COUNT), NewIndex(l.count)>> >>

ContributeRenames(n) == <<Att(n), PK, VK, COUNT>>

(* The file a command at this step is writing: torn if it stops there.     *)
BeingWritten(p) ==
  CASE pc[p] = "init_write"       -> {InitWrites(LocRest(p))[loc[p].k][1]}
    [] pc[p] = "contribute_write" -> {ContributeWrites(loc[p])[loc[p].k][1]}
    [] pc[p] = "finalize_write"   -> {METADATA}
    [] OTHER                      -> {}

Goto(p, step, l) ==
  /\ pc'  = [pc EXCEPT ![p] = step]
  /\ loc' = [loc EXCEPT ![p] = l]

Stop(p) ==
  /\ pc[p] # "idle"
  /\ Goto(p, "idle", NoLoc)
  /\ \/ UNCHANGED dir
     \/ \E f \in BeingWritten(p) : dir' = [dir EXCEPT ![f] = Torn]
  /\ UNCHANGED <<used, recorded>>

(* run_init: refuse an existing ceremony unless forced; derive the keys;   *)
(* only then discard what is there, file by file.                          *)
StartInit(p, force, rest) ==
  /\ pc[p] = "idle"
  /\ force \/ ExistingFiles = {}
  /\ Goto(p, "init_clear", [NoLoc EXCEPT !.op = "init", !.circuit = rest.circuit,
              !.ptau = rest.ptau, !.seed = rest.seed, !.todo = ExistingFiles])
  /\ UNCHANGED <<dir, used, recorded>>

InitClear(p) ==
  /\ pc[p] = "init_clear"
  /\ \E f \in FirstOf(loc[p].todo) :
       /\ Exists(f)
       /\ dir' = [dir EXCEPT ![f] = Absent]
       /\ Goto(p, "init_clear", [loc[p] EXCEPT !.todo = @ \ {f}])
  /\ recorded' = {}
  /\ UNCHANGED used

InitCleared(p) ==
  /\ pc[p] = "init_clear"
  /\ loc[p].todo = {}
  /\ Goto(p, "init_write", [loc[p] EXCEPT !.k = 1])
  /\ UNCHANGED <<dir, used, recorded>>

InitWrite(p) ==
  LET w == InitWrites(LocRest(p))[loc[p].k] IN
  /\ pc[p] = "init_write"
  /\ dir' = [dir EXCEPT ![w[1]] = w[2]]
  /\ IF loc[p].k = 5 THEN Goto(p, "idle", NoLoc)
                     ELSE Goto(p, "init_write", [loc[p] EXCEPT !.k = @ + 1])
  /\ UNCHANGED <<used, recorded>>

(* run_contribute                                                          *)
StartContribute(p) ==
  /\ pc[p] = "idle"
  /\ Exists(BASELINE)
  /\ Goto(p, "contribute_check", [NoLoc EXCEPT !.op = "contribute"])
  /\ UNCHANGED <<dir, used, recorded>>

ContributeCheck_Skipped(p) ==
  /\ pc[p] = "contribute_check"
  /\ Goto(p, "contribute_pk", loc[p])
  /\ UNCHANGED <<dir, used, recorded>>

ContributeCheck(p) ==
  /\ pc[p] = "contribute_check"
  /\ ~ Exists(METADATA)
  /\ Goto(p, "contribute_pk", loc[p])
  /\ UNCHANGED <<dir, used, recorded>>

ContributeReadPk(p) ==
  /\ pc[p] = "contribute_pk"
  /\ Readable(PK)
  /\ Goto(p, "contribute_vk", [loc[p] EXCEPT !.pk = dir[PK]])
  /\ UNCHANGED <<dir, used, recorded>>

ContributeReadVk(p) ==
  /\ pc[p] = "contribute_vk"
  /\ Readable(VK)
  /\ Goto(p, "contribute_count", [loc[p] EXCEPT !.vk = dir[VK]])
  /\ UNCHANGED <<dir, used, recorded>>

Drawn(l, x, count) == [l EXCEPT !.x = x, !.count = count, !.k = 1]

(* The secret is drawn and applied in memory, then the count is read.      *)
ContributeReadCount(p) ==
  /\ pc[p] = "contribute_count"
  /\ Readable(COUNT)
  /\ dir[COUNT] < MaxCount                      \* bound of the model
  /\ \E x \in Secrets \ used :
       /\ used' = used \cup {x}
       /\ Goto(p, "contribute_write", Drawn(loc[p], x, dir[COUNT]))
  /\ UNCHANGED <<dir, recorded>>

ContributeWrite(p) ==
  LET w == ContributeWrites(loc[p])[loc[p].k] IN
  /\ pc[p] = "contribute_write"
  /\ dir' = [dir EXCEPT ![w[1]] = w[2]]
  /\ IF loc[p].k = 4 THEN Goto(p, "contribute_rename", [loc[p] EXCEPT !.k = 1])
                     ELSE Goto(p, "contribute_write", [loc[p] EXCEPT !.k = @ + 1])
  /\ UNCHANGED <<used, recorded>>

ContributeRename(p) ==
  LET f == ContributeRenames(NewIndex(loc[p].count))[loc[p].k] IN
  /\ pc[p] = "contribute_rename"
  /\ Exists(Tmp(f))
  /\ dir' = [dir EXCEPT ![f] = dir[Tmp(f)], ![Tmp(f)] = Absent]
  /\ IF loc[p].k = 4
       THEN /\ Goto(p, "idle", NoLoc)
            /\ recorded' = recorded \cup {loc[p].x}
       ELSE /\ Goto(p, "contribute_rename", [loc[p] EXCEPT !.k = @ + 1])
            /\ UNCHANGED recorded
  /\ UNCHANGED used

(* run_verify, which run_finalize calls first.  The verifier brings its    *)
(* own build of the circuit and its own .ptau.                             *)
StartVerify(p, op, circuit, ptau) ==
  /\ pc[p] = "idle"
  /\ Exists(BASELINE)
  /\ Goto(p, "verify_meta",
          [NoLoc EXCEPT !.op = op, !.circuit = circuit, !.ptau = ptau])
  /\ UNCHANGED <<dir, used, recorded>>

VerifyMeta(p) ==
  /\ pc[p] = "verify_meta"
  /\ Readable(CMETA)
  /\ dir[CMETA].circuit = loc[p].circuit
  /\ Goto(p, "verify_baseline", [loc[p] EXCEPT !.seed = dir[CMETA].seed])
  /\ UNCHANGED <<dir, used, recorded>>

(* The recorded baseline must be the recomputed initial keys' delta.       *)
VerifyBaseline(p) ==
  /\ pc[p] = "verify_baseline"
  /\ Readable(BASELINE)
  /\ dir[BASELINE] = {loc[p].seed}
  /\ Goto(p, "verify_count", loc[p])
  /\ UNCHANGED <<dir, used, recorded>>

VerifyCount(p) ==
  /\ pc[p] = "verify_count"
  /\ Readable(COUNT)
  /\ Goto(p, "verify_contributions", [loc[p] EXCEPT !.count = dir[COUNT]])
  /\ UNCHANGED <<dir, used, recorded>>

VerifyReadContribution(p) ==
  LET f == Att(Len(loc[p].chain) + 1) IN
  /\ pc[p] = "verify_contributions"
  /\ Len(loc[p].chain) < loc[p].count
  /\ Readable(f)
  /\ Goto(p, "verify_contributions", [loc[p] EXCEPT !.chain = Append(@, dir[f])])
  /\ UNCHANGED <<dir, used, recorded>>

VerifyCheckChain(p) ==
  /\ pc[p] = "verify_contributions"
  /\ Len(loc[p].chain) = loc[p].count
  /\ VerifyChain({loc[p].seed}, loc[p].chain)
  /\ Goto(p, "verify_pk", loc[p])
  /\ UNCHANGED <<dir, used, recorded>>

VerifyReadPk(p) ==
  /\ pc[p] = "verify_pk"
  /\ Readable(PK)
  /\ Goto(p, "verify_vk", [loc[p] EXCEPT !.pk = dir[PK]])
  /\ UNCHANGED <<dir, used, recorded>>

(* Read the verifying key and bind both keys to the chain and the circuit. *)
VerifyKeys(p) ==
  /\ pc[p] = "verify_vk"
  /\ Readable(VK)
  /\ KeysConsistentWithChain(loc[p].pk, dir[VK], {loc[p].seed}, loc[p].chain)
  /\ KeysMatchInitial(loc[p].pk, dir[VK], LocRest(p))
  /\ Goto(p, IF loc[p].op = "finalize" THEN "finalize_meta" ELSE "verified",
          [loc[p] EXCEPT !.vk = dir[VK]])
  /\ UNCHANGED <<dir, used, recorded>>

(* run_finalize, after run_verify returned Ok: everything is read again.   *)
FinalizeMeta(p) ==
  /\ pc[p] = "finalize_meta"
  /\ Readable(CMETA)
  /\ Goto(p, "finalize_keys", [loc[p] EXCEPT !.circuit = dir[CMETA].circuit])
  /\ UNCHANGED <<dir, used, recorded>>

FinalizeLoadKeys(p) ==
  /\ pc[p] = "finalize_keys"
  /\ Readable(PK) /\ Readable(VK)
  /\ Goto(p, "finalize_hash", loc[p])
  /\ UNCHANGED <<dir, used, recorded>>

FinalizeHashVk(p) ==
  /\ pc[p] = "finalize_hash"
  /\ Exists(VK)
  /\ Goto(p, "finalize_count", [loc[p] EXCEPT !.hashed = dir[VK]])
  /\ UNCHANGED <<dir, used, recorded>>

FinalizeCount(p) ==
  /\ pc[p] = "finalize_count"
  /\ Readable(COUNT)
  /\ Goto(p, "finalize_write", [loc[p] EXCEPT !.count = dir[COUNT]])
  /\ UNCHANGED <<dir, used, recorded>>

FinalizeWrite(p) ==
  /\ pc[p] = "finalize_write"
  /\ dir' = [dir EXCEPT ![METADATA] =
               [circuit |-> loc[p].circuit, vk |-> loc[p].hashed,
                contributors |-> loc[p].count]]
  /\ Goto(p, "idle", NoLoc)
  /\ UNCHANGED <<used, recorded>>

-----------------------------------------------------------------------------
Init ==
  /\ dir = [f \in Names |-> Absent]
  /\ pc  = [p \in Procs |-> "idle"]
  /\ loc = [p \in Procs |-> NoLoc]
  /\ used = {}
  /\ recorded = {}

InitStep(p) ==
  \/ \E force \in BOOLEAN, rest \in Rest : StartInit(p, force, rest)
  \/ InitClear(p) \/ InitCleared(p) \/ InitWrite(p)

ContributeStep(p) ==
  \/ StartContribute(p) \/ ContributeCheck(p)
  \/ ContributeReadPk(p) \/ ContributeReadVk(p) \/ ContributeReadCount(p)
  \/ ContributeWrite(p) \/ ContributeRename(p)

VerifyStep(p) ==
  \/ \E op \in {"verify", "finalize"}, c \in Circuits, t \in Ptaus : StartVerify(p, op, c, t)
  \/ VerifyMeta(p) \/ VerifyBaseline(p) \/ VerifyCount(p)
  \/ VerifyReadContribution(p) \/ VerifyCheckChain(p)
  \/ VerifyReadPk(p) \/ VerifyKeys(p)

FinalizeStep(p) ==
  \/ FinalizeMeta(p) \/ FinalizeLoadKeys(p) \/ FinalizeHashVk(p)
  \/ FinalizeCount(p) \/ FinalizeWrite(p)

Next ==
  \E p \in Procs :
    InitStep(p) \/ ContributeStep(p) \/ VerifyStep(p) \/ FinalizeStep(p) \/ Stop(p)

Spec == Init /\ [][Next]_vars

-----------------------------------------------------------------------------
(* Properties.                                                             *)

Steps ==
  {"idle", "init_clear", "init_write", "contribute_check", "contribute_pk", "contribute_vk",
   "contribute_count", "contribute_write", "contribute_rename", "verify_meta",
   "verify_baseline", "verify_count", "verify_contributions", "verify_pk", "verify_vk",
   "verified", "finalize_meta", "finalize_keys", "finalize_hash", "finalize_count",
   "finalize_write"}

DirTypeOK ==
  /\ DOMAIN dir = Names
  /\ dir[BASELINE] \in Delta \cup {Absent, Torn}
  /\ dir[CMETA] \in CircuitMeta \cup {Absent, Torn}
  /\ \A f \in {COUNT, Tmp(COUNT)} : dir[f] \in 0..MaxCount \cup {Absent, Torn}
  /\ \A f \in {PK, Tmp(PK)} : dir[f] \in ProvingKey \cup {Absent, Torn}
  /\ \A f \in {VK, Tmp(VK)} : dir[f] \in VerifyingKey \cup {Absent, Torn}
  /\ dir[METADATA] \in Metadata \cup {Absent, Torn}
  /\ \A i \in 1..MaxCount : \A f \in {Att(i), Tmp(Att(i))} :
       dir[f] \in Contribution \cup {Absent, Torn}

Locals ==
  [op : {"none", "init", "contribute", "verify", "finalize"},
   circuit : Circuits \cup {Absent}, ptau : Ptaus \cup {Absent}, seed : Seeds \cup {Absent},
   todo : SUBSET Names, k : 0..5, count : 0..MaxCount, chain : Seq(Contribution),
   pk : ProvingKey \cup {Absent}, vk : VerifyingKey \cup {Absent},
   x : Secrets \cup {Absent}, hashed : VerifyingKey \cup {Absent, Torn}]

(* Every file holds what its name says, or is missing or torn; every       *)
(* command is at one of its steps and every drawn secret is a secret.      *)
TypeOK ==
  /\ DirTypeOK
  /\ pc \in [Procs -> Steps]
  /\ loc \in [Procs -> Locals]
  /\ used \subseteq Secrets
  /\ recorded \subseteq Secrets

ChainSecrets(chain) == {chain[i].d : i \in 1..Len(chain)}

(* The verification promise (run_verify's "the shipped keys are the        *)
(* circuit's initial keys with only delta changed, by the chain"): when a  *)
(* command accepts, the keys it read are the recomputed initial keys of    *)
(* its own circuit and transcript, and in every delta-dependent part delta *)
(* is exactly the seed's times one secret of each attestation it read.     *)
AcceptedSound ==
  \A p \in Procs : pc[p] \in {"verified", "finalize_meta"} =>
    LET l == loc[p]
        delta == {l.seed} \cup ChainSecrets(l.chain)
    IN /\ l.pk = [rest |-> LocRest(p), vk |-> l.vk, g1 |-> delta, hl |-> delta]
       /\ l.vk = [rest |-> LocRest(p), g2 |-> delta]
       /\ Zero \notin delta

DirChain == [i \in 1..dir[COUNT] |-> dir[Att(i)]]

DirExplained ==
  /\ \A i \in 1..dir[COUNT] : Readable(Att(i))
  /\ KeysConsistentWithChain(dir[PK], dir[VK], dir[BASELINE], DirChain)
  /\ dir[PK].vk = dir[VK]

(* A production-safe metadata.json (run_finalize) lies beside exactly the  *)
(* verifying key it names, the matching proving key, and, until a forced   *)
(* init starts discarding them, the attestations that explain both.        *)
MetadataDescribesKeys ==
  Readable(METADATA) =>
    /\ Readable(PK) /\ Readable(VK)
    /\ dir[VK] = dir[METADATA].vk
    /\ dir[PK].vk = dir[VK] /\ dir[PK].g1 = dir[VK].g2 /\ dir[PK].hl = dir[VK].g2
    /\ recorded \subseteq dir[VK].g2
    /\ Exists(BASELINE) =>
         /\ dir[COUNT] = dir[METADATA].contributors
         /\ DirExplained
         /\ dir[VK].g2 = dir[BASELINE] \cup ChainSecrets(DirChain)

(* A contribution reported as recorded (run_contribute's last message)     *)
(* stays in both keys and keeps its attestation among the counted ones,    *)
(* whatever is interrupted later, until an init discards the ceremony.     *)
RecordedKept ==
  \A x \in recorded :
    /\ Readable(PK) /\ x \in dir[PK].g1
    /\ Readable(VK) /\ x \in dir[VK].g2
    /\ Readable(COUNT)
    /\ \E i \in 1..dir[COUNT] : Readable(Att(i)) /\ dir[Att(i)].d = x

(* While a metadata.json exists, no step changes the keys beside it: a     *)
(* contribution is refused, and a forced init removes it before the keys.  *)
FinalizedKeysFrozen ==
  [][Exists(METADATA) /\ Exists(METADATA)' =>
       dir'[PK] = dir[PK] /\ dir'[VK] = dir[VK]]_vars
=============================================================================
