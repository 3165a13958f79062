--------------------------- MODULE CeremonyProofs ---------------------------
(***************************************************************************)
(* Proofs about Ceremony, for any circuits, transcripts, seeds, secrets and*)
(* number of contributions.  With any number of commands at once the types *)
(* are kept and verification is sound (AcceptedSound); when commands do    *)
(* not overlap, recorded contributions are kept, metadata.json is truthful *)
(* and finalized keys do not change, wherever a command is interrupted.    *)
(***************************************************************************)
EXTENDS Ceremony, Induction

-----------------------------------------------------------------------------
(* The chain checks.                                                       *)

(* A chain that verify_chain accepts has, after its first i links, reached *)
(* exactly the baseline times the secrets of those links.                  *)
LEMMA ChainProduct ==
  ASSUME NEW s \in Seeds, NEW chain \in Seq(Contribution), VerifyChain({s}, chain)
  PROVE  \A i \in 0..Len(chain) :
           Running({s}, chain, i) = {s} \cup {chain[j].d : j \in 1..i}
<1> DEFINE Good == {i \in 0..Len(chain) :
                      Running({s}, chain, i) = {s} \cup {chain[j].d : j \in 1..i}}
<1>1. Len(chain) \in Nat /\ \A i \in 1..Len(chain) : chain[i] \in Contribution
  OBVIOUS
<1>2. 0 \in Good
  BY <1>1 DEF Running
<1>3. ASSUME NEW i \in 0..Len(chain), i # 0, i - 1 \in Good
      PROVE  i \in Good
  <2>1. i \in 1..Len(chain) /\ i \in Nat
    BY <1>1, <1>3
  <2>2. ValidLink(Running({s}, chain, i - 1), chain[i])
    BY <2>1 DEF VerifyChain
  <2>3. chain[i].new = Times(Running({s}, chain, i - 1), chain[i].d)
    BY <2>2 DEF ValidLink
  <2>4. chain[i].d # Zero /\ Zero \notin chain[i].new
    BY <2>2 DEF ValidLink, IsZero
  <2>5. chain[i].new = Running({s}, chain, i - 1) \cup {chain[i].d}
    BY <2>3, <2>4 DEF Times
  <2>6. Running({s}, chain, i - 1) = {s} \cup {chain[j].d : j \in 1..(i - 1)}
    BY <1>3
  <2>7. {chain[j].d : j \in 1..i} = {chain[j].d : j \in 1..(i - 1)} \cup {chain[i].d}
    BY <2>1
  <2>8. Running({s}, chain, i) = chain[i].new
    BY <2>1 DEF Running
  <2> QED
    BY <2>5, <2>6, <2>7, <2>8
<1>4. \A i \in 0..Len(chain) : i \in Good
  <2> HIDE DEF Good
  <2> QED BY <1>1, <1>2, <1>3, SegmentInduction
<1> QED
  BY <1>4

RestOf(l) == [circuit |-> l.circuit, ptau |-> l.ptau, seed |-> l.seed]

Checked(l) ==
  /\ VerifyChain({l.seed}, l.chain)
  /\ KeysConsistentWithChain(l.pk, l.vk, {l.seed}, l.chain)
  /\ KeysMatchInitial(l.pk, l.vk, RestOf(l))

(* Keys that pass the three checks are the initial keys with delta changed *)
(* by exactly the chain's secrets, in every place where delta occurs.      *)
LEMMA ChecksAreSound ==
  ASSUME NEW l \in Locals, l.seed \in Seeds, l.pk \in ProvingKey, l.vk \in VerifyingKey,
         Checked(l)
  PROVE  LET delta == {l.seed} \cup ChainSecrets(l.chain)
         IN /\ l.pk = [rest |-> RestOf(l), vk |-> l.vk, g1 |-> delta, hl |-> delta]
            /\ l.vk = [rest |-> RestOf(l), g2 |-> delta]
            /\ Zero \notin delta
<1> DEFINE delta == {l.seed} \cup ChainSecrets(l.chain)
<1>1. l.chain \in Seq(Contribution) /\ Len(l.chain) \in Nat
  BY DEF Locals
<1>2. Running({l.seed}, l.chain, Len(l.chain)) = delta
  <2>1. VerifyChain({l.seed}, l.chain)
    BY DEF Checked
  <2>2. \A i \in 0..Len(l.chain) :
          Running({l.seed}, l.chain, i) = {l.seed} \cup {l.chain[j].d : j \in 1..i}
    BY <1>1, <2>1, ChainProduct
  <2>3. Len(l.chain) \in 0..Len(l.chain)
    BY <1>1
  <2> QED
    BY <2>2, <2>3 DEF ChainSecrets
<1>3. Zero \notin delta
  BY <1>2 DEF Checked, VerifyChain, IsZero
<1>4. l.pk.g1 = delta /\ l.vk.g2 = delta
  BY <1>2 DEF Checked, KeysConsistentWithChain
<1>5. l.pk.vk = l.vk /\ l.vk.rest = RestOf(l) /\ l.pk.rest = RestOf(l) /\ l.pk.hl = delta
  BY <1>4 DEF Checked, KeysMatchInitial
<1> HIDE DEF delta
<1>6. l.vk = [rest |-> RestOf(l), g2 |-> delta]
  BY <1>4, <1>5 DEF VerifyingKey
<1>7. l.pk = [rest |-> RestOf(l), vk |-> l.vk, g1 |-> delta, hl |-> delta]
  BY <1>4, <1>5 DEF ProvingKey
<1> QED
  BY <1>3, <1>6, <1>7 DEF delta

-----------------------------------------------------------------------------
(* What a command holds in memory at each of its steps.  It depends on     *)
(* that command alone: no other command's step can disturb it.             *)

LocOK(step, l) ==
  /\ step \in {"init_clear", "init_write"} => RestOf(l) \in Rest
  /\ step = "init_write" => l.k \in 1..5
  /\ step \in {"contribute_vk", "contribute_count", "contribute_write", "contribute_rename",
              "verify_vk"} => l.pk \in ProvingKey
  /\ step \in {"contribute_count", "contribute_write", "contribute_rename"}
       => l.vk \in VerifyingKey
  /\ step \in {"contribute_write", "contribute_rename"} =>
       l.k \in 1..4 /\ l.x \in Secrets /\ l.count \in 0..(MaxCount - 1)
  /\ step = "verify_meta" => l.circuit \in Circuits /\ l.ptau \in Ptaus
  /\ step \in {"verify_baseline", "verify_count", "verify_contributions", "verify_pk",
              "verify_vk", "verified", "finalize_meta"} => RestOf(l) \in Rest
  /\ step \in {"verify_pk", "verify_vk"} => VerifyChain({l.seed}, l.chain)
  /\ step \in {"verified", "finalize_meta"} =>
       l.pk \in ProvingKey /\ l.vk \in VerifyingKey /\ Checked(l)
  /\ step \in {"finalize_keys", "finalize_hash", "finalize_count", "finalize_write"}
       => l.circuit \in Circuits
  /\ step \in {"finalize_count", "finalize_write"} => l.hashed \in VerifyingKey \cup {Torn}

Inv == TypeOK /\ \A p \in Procs : LocOK(pc[p], loc[p])

(* The record a command starts from.                                       *)
LEMMA NoLocOK == NoLoc \in Locals /\ LocOK("idle", NoLoc)
<1>1. NoLoc \in Locals
  BY CeremonyAssumption DEF NoLoc, Locals
<1>2. LocOK("idle", NoLoc)
  BY DEF LocOK
<1> QED
  BY <1>1, <1>2

(* A step that moves one command keeps the others' part of the invariant.  *)
LEMMA GotoKeeps ==
  ASSUME Inv, NEW p \in Procs, NEW step \in Steps, NEW l \in Locals, LocOK(step, l),
         Goto(p, step, l), DirTypeOK', used' \subseteq Secrets, recorded' \subseteq Secrets
  PROVE  Inv'
<1>1. pc' \in [Procs -> Steps] /\ loc' \in [Procs -> Locals]
  BY DEF Inv, TypeOK, Goto
<1>2. \A q \in Procs : LocOK(pc'[q], loc'[q])
  <2>1. pc'[p] = step /\ loc'[p] = l
    BY DEF Inv, TypeOK, Goto
  <2>2. \A q \in Procs \ {p} : pc'[q] = pc[q] /\ loc'[q] = loc[q]
    BY DEF Inv, TypeOK, Goto
  <2> QED
    BY <2>1, <2>2 DEF Inv
<1> QED
  BY <1>1, <1>2 DEF Inv, TypeOK

(* No two names of the directory are the same file.                        *)
LEMMA NamesDistinct ==
  /\ \A f \in {CMETA, COUNT, METADATA, PK, VK, Tmp(COUNT), Tmp(PK), Tmp(VK)} : f # BASELINE
  /\ \A f \in {BASELINE, COUNT, METADATA, PK, VK, Tmp(COUNT), Tmp(PK), Tmp(VK)} : f # CMETA
  /\ \A f \in {BASELINE, CMETA, METADATA, PK, VK, Tmp(PK), Tmp(VK)} :
       f # COUNT /\ f # Tmp(COUNT)
  /\ \A f \in {BASELINE, CMETA, COUNT, PK, VK, Tmp(COUNT), Tmp(PK), Tmp(VK)} : f # METADATA
  /\ \A f \in {BASELINE, CMETA, COUNT, METADATA, VK, Tmp(COUNT), Tmp(VK)} :
       f # PK /\ f # Tmp(PK)
  /\ \A f \in {BASELINE, CMETA, COUNT, METADATA, PK, Tmp(COUNT), Tmp(PK)} :
       f # VK /\ f # Tmp(VK)
  /\ \A i \in Nat : \A f \in {BASELINE, CMETA, COUNT, METADATA, PK, VK,
                             Tmp(COUNT), Tmp(PK), Tmp(VK)} : f # Att(i) /\ f # Tmp(Att(i))
  BY DEF File, Att, Tmp, BASELINE, CMETA, COUNT, METADATA, PK, VK

(* What a file may hold, by its name.                                      *)
Holds(f, content) ==
  /\ f = BASELINE => content \in Delta \cup {Absent, Torn}
  /\ f = CMETA => content \in CircuitMeta \cup {Absent, Torn}
  /\ f \in {COUNT, Tmp(COUNT)} => content \in 0..MaxCount \cup {Absent, Torn}
  /\ f \in {PK, Tmp(PK)} => content \in ProvingKey \cup {Absent, Torn}
  /\ f \in {VK, Tmp(VK)} => content \in VerifyingKey \cup {Absent, Torn}
  /\ f = METADATA => content \in Metadata \cup {Absent, Torn}
  /\ \A i \in 1..MaxCount : f \in {Att(i), Tmp(Att(i))} =>
       content \in Contribution \cup {Absent, Torn}

(* The directory is typed exactly when every name holds what it may.       *)
LEMMA DirByName == DirTypeOK <=> DOMAIN dir = Names /\ \A f \in Names : Holds(f, dir[f])
<1>1. {BASELINE, CMETA, COUNT, METADATA, PK, VK, Tmp(COUNT), Tmp(PK), Tmp(VK)} \subseteq Names
      /\ \A i \in 1..MaxCount : Att(i) \in Names /\ Tmp(Att(i)) \in Names
  BY DEF Names
<1>2. ASSUME DirTypeOK, NEW f \in Names PROVE Holds(f, dir[f])
  BY <1>2 DEF DirTypeOK, Holds
<1>3. ASSUME \A f \in Names : Holds(f, dir[f]), DOMAIN dir = Names PROVE DirTypeOK
  BY <1>1, <1>3 DEF DirTypeOK, Holds
<1> QED
  BY <1>2, <1>3 DEF DirTypeOK

(* Replacing one file by something it may hold keeps the directory typed.  *)
LEMMA WriteKeeps ==
  ASSUME DirTypeOK, NEW f \in Names, NEW content, Holds(f, content),
         dir' = [dir EXCEPT ![f] = content]
  PROVE  DirTypeOK'
<1>1. DOMAIN dir' = Names /\ \A g \in Names : Holds(g, dir'[g])
  BY DirByName DEF DirTypeOK
<1>2. /\ {BASELINE, CMETA, COUNT, METADATA, PK, VK, Tmp(COUNT), Tmp(PK), Tmp(VK)}
           \subseteq Names
      /\ \A i \in 1..MaxCount : Att(i) \in Names /\ Tmp(Att(i)) \in Names
  BY DEF Names
<1> QED
  BY <1>1, <1>2 DEF DirTypeOK, Holds

(* So does a rename.                                                       *)
LEMMA RenameKeeps ==
  ASSUME DirTypeOK, NEW f \in Names, NEW g \in Names, Holds(f, dir[g]), Holds(g, Absent),
         dir' = [dir EXCEPT ![f] = dir[g], ![g] = Absent]
  PROVE  DirTypeOK'
<1>1. DOMAIN dir' = Names /\ \A h \in Names : Holds(h, dir'[h])
  BY DirByName DEF DirTypeOK
<1>2. /\ {BASELINE, CMETA, COUNT, METADATA, PK, VK, Tmp(COUNT), Tmp(PK), Tmp(VK)}
           \subseteq Names
      /\ \A i \in 1..MaxCount : Att(i) \in Names /\ Tmp(Att(i)) \in Names
  BY DEF Names
<1> QED
  BY <1>1, <1>2 DEF DirTypeOK, Holds

(* Each kind of content under its own name.                                *)
LEMMA HoldsByName ==
  /\ \A f \in Names : Holds(f, Absent) /\ Holds(f, Torn)
  /\ \A c \in Delta : Holds(BASELINE, c)
  /\ \A c \in CircuitMeta : Holds(CMETA, c)
  /\ \A c \in 0..MaxCount : Holds(COUNT, c) /\ Holds(Tmp(COUNT), c)
  /\ \A c \in ProvingKey : Holds(PK, c) /\ Holds(Tmp(PK), c)
  /\ \A c \in VerifyingKey : Holds(VK, c) /\ Holds(Tmp(VK), c)
  /\ \A c \in Metadata : Holds(METADATA, c)
  /\ \A c \in Contribution, i \in 1..MaxCount : Holds(Att(i), c) /\ Holds(Tmp(Att(i)), c)
<1> USE NamesDistinct
<1>1. \A f \in Names : Holds(f, Absent) /\ Holds(f, Torn)
  BY DEF Holds
<1>2. \A i \in 1..MaxCount : i \in Nat
  OBVIOUS
<1>3. /\ \A c \in Delta : Holds(BASELINE, c)
      /\ \A c \in CircuitMeta : Holds(CMETA, c)
      /\ \A c \in Metadata : Holds(METADATA, c)
  BY <1>2 DEF Holds
<1>4. \A c \in 0..MaxCount : Holds(COUNT, c) /\ Holds(Tmp(COUNT), c)
  BY <1>2 DEF Holds
<1>5. \A c \in ProvingKey : Holds(PK, c) /\ Holds(Tmp(PK), c)
  BY <1>2 DEF Holds
<1>6. \A c \in VerifyingKey : Holds(VK, c) /\ Holds(Tmp(VK), c)
  BY <1>2 DEF Holds
<1>7. \A c \in Contribution, i \in 1..MaxCount : Holds(Att(i), c) /\ Holds(Tmp(Att(i)), c)
  BY <1>2 DEF Holds
<1> QED
  BY <1>1, <1>3, <1>4, <1>5, <1>6, <1>7

(* What a successful read returns.                                         *)
LEMMA ReadTypes ==
  ASSUME DirTypeOK
  PROVE  /\ Readable(CMETA) => dir[CMETA] \in CircuitMeta
         /\ Readable(COUNT) => dir[COUNT] \in 0..MaxCount
         /\ Readable(PK) => dir[PK] \in ProvingKey
         /\ Readable(VK) => dir[VK] \in VerifyingKey
         /\ Exists(VK) => dir[VK] \in VerifyingKey \cup {Torn}
         /\ \A i \in 1..MaxCount : Readable(Att(i)) => dir[Att(i)] \in Contribution
  BY DEF DirTypeOK, Readable, Exists

(* A contribution applied in memory gives keys and an attestation.         *)
LEMMA ContributeTypes ==
  ASSUME NEW pk \in ProvingKey, NEW vk \in VerifyingKey, NEW x \in Secrets
  PROVE  /\ ContributedPk(pk, vk, x) \in ProvingKey
         /\ ContributedVk(vk, x) \in VerifyingKey
         /\ Attestation(pk, x) \in Contribution
<1>1. \A d \in Delta : Times(d, x) \in Delta
  BY DEF Times, Delta
<1>2. Times(pk.g1, x) \in Delta /\ Times(pk.hl, x) \in Delta /\ Times(vk.g2, x) \in Delta
      /\ pk.g1 \in Delta
  BY <1>1 DEF ProvingKey, VerifyingKey
<1>3. ContributedPk(pk, vk, x) \in ProvingKey
  BY <1>2 DEF ContributedPk, ProvingKey, VerifyingKey
<1>4. ContributedVk(vk, x) \in VerifyingKey
  BY <1>2 DEF ContributedVk, VerifyingKey
<1>5. Attestation(pk, x) \in Contribution
  BY <1>2 DEF Attestation, Contribution, Statement
<1> QED
  BY <1>3, <1>4, <1>5

(* Every file init writes is a file of the directory, with its content.    *)
LEMMA InitWritesTypes ==
  ASSUME NEW rest \in Rest, NEW k \in 1..5
  PROVE  InitWrites(rest)[k][1] \in Names
         /\ Holds(InitWrites(rest)[k][1], InitWrites(rest)[k][2])
<1>1. rest.seed \in Seeds /\ rest.circuit \in Circuits /\ {rest.seed} \in Delta
  BY DEF Rest, Delta
<1>2. InitialVk(rest) \in VerifyingKey
  BY <1>1 DEF InitialVk, VerifyingKey
<1>3. InitialPk(rest) \in ProvingKey
  BY <1>1, <1>2 DEF InitialPk, ProvingKey
<1>4. [circuit |-> rest.circuit, seed |-> rest.seed] \in CircuitMeta
  BY <1>1 DEF CircuitMeta
<1>5. Holds(BASELINE, {rest.seed}) /\ Holds(PK, InitialPk(rest)) /\ Holds(VK, InitialVk(rest))
      /\ Holds(COUNT, 0) /\ Holds(CMETA, [circuit |-> rest.circuit, seed |-> rest.seed])
  BY <1>1, <1>2, <1>3, <1>4, HoldsByName, CeremonyAssumption
<1>6. {BASELINE, PK, VK, COUNT, CMETA} \subseteq Names
  BY DEF Names
<1>7. k = 1 \/ k = 2 \/ k = 3 \/ k = 4 \/ k = 5
  OBVIOUS
<1> QED
  BY <1>5, <1>6, <1>7 DEF InitWrites

(* Every temporary file contribute writes, and every file it renames.      *)
LEMMA ContributeWritesTypes ==
  ASSUME NEW l \in Locals, l.pk \in ProvingKey, l.vk \in VerifyingKey, l.x \in Secrets,
         l.count \in 0..(MaxCount - 1), NEW k \in 1..4
  PROVE  /\ ContributeWrites(l)[k][1] \in Names
         /\ Holds(ContributeWrites(l)[k][1], ContributeWrites(l)[k][2])
<1> DEFINE n == NewIndex(l.count)
<1>1. n \in 1..MaxCount /\ n \in 0..MaxCount
  BY CeremonyAssumption DEF NewIndex
<1>2. Holds(Tmp(PK), ContributedPk(l.pk, l.vk, l.x))
      /\ Holds(Tmp(VK), ContributedVk(l.vk, l.x))
      /\ Holds(Tmp(Att(n)), Attestation(l.pk, l.x)) /\ Holds(Tmp(COUNT), n)
  BY <1>1, ContributeTypes, HoldsByName
<1>3. {Tmp(PK), Tmp(VK), Tmp(Att(n)), Tmp(COUNT)} \subseteq Names
  BY <1>1 DEF Names
<1>4. k = 1 \/ k = 2 \/ k = 3 \/ k = 4
  OBVIOUS
<1> QED
  BY <1>2, <1>3, <1>4 DEF ContributeWrites

(* Every rename of contribute puts a file of the right type in place.      *)
LEMMA ContributeRenamesTypes ==
  ASSUME NEW n \in 1..MaxCount, NEW k \in 1..4, DirTypeOK
  PROVE  LET f == ContributeRenames(n)[k]
         IN f \in Names /\ Tmp(f) \in Names /\ Holds(f, dir[Tmp(f)])
<1>1. {PK, VK, Att(n), COUNT, Tmp(PK), Tmp(VK), Tmp(Att(n)), Tmp(COUNT)} \subseteq Names
  BY DEF Names
<1>2. Holds(PK, dir[Tmp(PK)]) /\ Holds(VK, dir[Tmp(VK)]) /\ Holds(COUNT, dir[Tmp(COUNT)])
      /\ Holds(Att(n), dir[Tmp(Att(n))])
  BY <1>1, HoldsByName DEF DirTypeOK
<1>3. k = 1 \/ k = 2 \/ k = 3 \/ k = 4
  OBVIOUS
<1> QED
  BY <1>1, <1>2, <1>3 DEF ContributeRenames

(* Starting a list of file operations over.                                *)
LEMMA FromFirst ==
  ASSUME NEW l \in Locals
  PROVE  [l EXCEPT !.k = 1] \in Locals
BY DEF Locals

(* What contribute remembers once it has drawn its secret.                 *)
LEMMA DrawnType ==
  ASSUME NEW l \in Locals, NEW y \in Secrets, NEW c \in 0..MaxCount
  PROVE  LET m == Drawn(l, y, c)
         IN /\ m \in Locals /\ m.k = 1 /\ m.x = y /\ m.count = c
            /\ m.pk = l.pk /\ m.vk = l.vk
<1> DEFINE m1 == [l EXCEPT !.x = y]
           m2 == [m1 EXCEPT !.count = c]
           m3 == [m2 EXCEPT !.k = 1]
<1>1. m1 \in Locals
  BY DEF Locals
<1>2. m1.x = y /\ m1.pk = l.pk /\ m1.vk = l.vk
  BY DEF Locals
<1>3. Drawn(l, y, c) = m3
  BY DEF Drawn
<1> HIDE DEF m1
<1>4. m2 \in Locals
  BY <1>1 DEF Locals
<1>5. m2.x = m1.x /\ m2.pk = m1.pk /\ m2.vk = m1.vk /\ m2.count = c
  BY <1>1 DEF Locals
<1> HIDE DEF m2
<1>6. m3 \in Locals
  BY <1>4, FromFirst
<1>7. m3.x = m2.x /\ m3.pk = m2.pk /\ m3.vk = m2.vk /\ m3.count = m2.count /\ m3.k = 1
  BY <1>4 DEF Locals
<1> HIDE DEF m3
<1>8. m3.x = y /\ m3.pk = l.pk /\ m3.vk = l.vk /\ m3.count = c /\ m3.k = 1
  BY <1>2, <1>5, <1>7
<1> QED
  BY <1>3, <1>6, <1>8

(* The induction step: every step of every command keeps the invariant.    *)
LEMMA StepKeeps == Inv /\ [Next]_vars => Inv'
<1> SUFFICES ASSUME Inv, [Next]_vars PROVE Inv'
  OBVIOUS
<1>u. CASE UNCHANGED vars
  BY <1>u DEF Inv, TypeOK, DirTypeOK, vars
<1>n. CASE Next
  <2> PICK p \in Procs :
        InitStep(p) \/ ContributeStep(p) \/ VerifyStep(p) \/ FinalizeStep(p) \/ Stop(p)
    BY <1>n DEF Next
  <2>t. /\ loc[p] \in Locals /\ LocOK(pc[p], loc[p])
        /\ DirTypeOK /\ used \subseteq Secrets /\ recorded \subseteq Secrets
    BY DEF Inv, TypeOK
  <2>r. LocRest(p) = RestOf(loc[p])
    BY DEF LocRest, RestOf
  <2>i. CASE InitStep(p)
    <3>1. ASSUME NEW force \in BOOLEAN, NEW rest \in Rest, StartInit(p, force, rest)
          PROVE  Inv'
      <4> DEFINE l == [NoLoc EXCEPT !.op = "init", !.circuit = rest.circuit,
                !.ptau = rest.ptau, !.seed = rest.seed, !.todo = ExistingFiles]
      <4>1. l \in Locals /\ RestOf(l) \in Rest
        BY NoLocOK DEF Locals, NoLoc, Rest, RestOf, ExistingFiles
      <4>2. DirTypeOK' /\ used' \subseteq Secrets /\ recorded' \subseteq Secrets
        BY <2>t, <3>1 DEF StartInit, DirTypeOK
      <4>3. Goto(p, "init_clear", l) /\ "init_clear" \in Steps
        BY <3>1 DEF StartInit, Steps
      <4> HIDE DEF l
      <4>4. LocOK("init_clear", l)
        BY <4>1 DEF LocOK
      <4> QED
        BY <4>1, <4>2, <4>3, <4>4, GotoKeeps
    <3>2. ASSUME InitClear(p) PROVE Inv'
      <4>1. PICK f \in FirstOf(loc[p].todo) :
              /\ dir' = [dir EXCEPT ![f] = Absent]
              /\ Goto(p, "init_clear", [loc[p] EXCEPT !.todo = @ \ {f}])
        BY <3>2 DEF InitClear
      <4>2. f \in Names
        BY <2>t DEF FirstOf, Locals
      <4>3. DirTypeOK'
        BY <2>t, <4>1, <4>2, HoldsByName, WriteKeeps
      <4> DEFINE l == [loc[p] EXCEPT !.todo = @ \ {f}]
      <4>4. l \in Locals /\ RestOf(l) = RestOf(loc[p])
        BY <2>t DEF Locals, RestOf
      <4>5. pc[p] = "init_clear" /\ "init_clear" \in Steps
            /\ used' \subseteq Secrets /\ recorded' \subseteq Secrets
        BY <2>t, <3>2 DEF InitClear, Steps
      <4>6. Goto(p, "init_clear", l)
        BY <4>1
      <4> HIDE DEF l
      <4>7. LocOK("init_clear", l)
        BY <2>t, <4>4, <4>5 DEF LocOK
      <4> QED
        BY <4>3, <4>4, <4>5, <4>6, <4>7, GotoKeeps
    <3>3. ASSUME InitCleared(p) PROVE Inv'
      <4> DEFINE l == [loc[p] EXCEPT !.k = 1]
      <4>1. l \in Locals /\ RestOf(l) = RestOf(loc[p]) /\ l.k = 1
        BY <2>t DEF Locals, RestOf
      <4>2. DirTypeOK' /\ used' \subseteq Secrets /\ recorded' \subseteq Secrets
        BY <2>t, <3>3 DEF InitCleared, DirTypeOK
      <4>3. Goto(p, "init_write", l) /\ "init_write" \in Steps /\ pc[p] = "init_clear"
        BY <3>3 DEF InitCleared, Steps
      <4> HIDE DEF l
      <4>4. LocOK("init_write", l)
        BY <2>t, <4>1, <4>3 DEF LocOK
      <4> QED
        BY <4>1, <4>2, <4>3, <4>4, GotoKeeps
    <3>4. ASSUME InitWrite(p) PROVE Inv'
      <4> DEFINE w == InitWrites(LocRest(p))[loc[p].k]
      <4>1. /\ pc[p] = "init_write" /\ dir' = [dir EXCEPT ![w[1]] = w[2]]
            /\ used' \subseteq Secrets /\ recorded' \subseteq Secrets
        BY <2>t, <3>4 DEF InitWrite
      <4>2. LocRest(p) \in Rest /\ loc[p].k \in 1..5
        BY <2>t, <2>r, <4>1 DEF LocOK
      <4>3. w[1] \in Names /\ Holds(w[1], w[2])
        BY <4>2, InitWritesTypes
      <4>4. DirTypeOK'
        <5> HIDE DEF w
        <5> QED BY <2>t, <4>1, <4>3, WriteKeeps
      <4>5. CASE loc[p].k = 5
        <5>1. Goto(p, "idle", NoLoc) /\ "idle" \in Steps
          BY <3>4, <4>5 DEF InitWrite, Steps
        <5> QED
          BY <4>1, <4>4, <5>1, NoLocOK, GotoKeeps
      <4>6. CASE loc[p].k # 5
        <5> DEFINE l == [loc[p] EXCEPT !.k = @ + 1]
        <5>1. Goto(p, "init_write", l) /\ "init_write" \in Steps
          BY <3>4, <4>6 DEF InitWrite, Steps
        <5>2. l \in Locals /\ RestOf(l) = RestOf(loc[p]) /\ l.k \in 1..5
          BY <2>t, <4>2, <4>6 DEF Locals, RestOf
        <5> HIDE DEF l
        <5>3. LocOK("init_write", l)
          BY <2>r, <4>2, <5>2 DEF LocOK
        <5> QED
          BY <4>1, <4>4, <5>1, <5>2, <5>3, GotoKeeps
      <4> QED
        BY <4>5, <4>6
    <3> QED
      BY <2>i, <3>1, <3>2, <3>3, <3>4 DEF InitStep
  <2>c. CASE ContributeStep(p)
    <3>1. ASSUME StartContribute(p) PROVE Inv'
      <4> DEFINE l == [NoLoc EXCEPT !.op = "contribute"]
      <4>1. l \in Locals
        BY NoLocOK DEF Locals
      <4>2. DirTypeOK' /\ used' \subseteq Secrets /\ recorded' \subseteq Secrets
        BY <2>t, <3>1 DEF StartContribute, DirTypeOK
      <4>3. Goto(p, "contribute_check", l) /\ "contribute_check" \in Steps
        BY <3>1 DEF StartContribute, Steps
      <4> HIDE DEF l
      <4>4. LocOK("contribute_check", l)
        BY DEF LocOK
      <4> QED
        BY <4>1, <4>2, <4>3, <4>4, GotoKeeps
    <3>2. ASSUME ContributeCheck(p) PROVE Inv'
      <4>1. DirTypeOK' /\ used' \subseteq Secrets /\ recorded' \subseteq Secrets
        BY <2>t, <3>2 DEF ContributeCheck, DirTypeOK
      <4>2. Goto(p, "contribute_pk", loc[p]) /\ "contribute_pk" \in Steps
        BY <3>2 DEF ContributeCheck, Steps
      <4>3. LocOK("contribute_pk", loc[p])
        BY DEF LocOK
      <4> QED
        BY <2>t, <4>1, <4>2, <4>3, GotoKeeps
    <3>3. ASSUME ContributeReadPk(p) PROVE Inv'
      <4> DEFINE l == [loc[p] EXCEPT !.pk = dir[PK]]
      <4>1. dir[PK] \in ProvingKey
        BY <2>t, <3>3, ReadTypes DEF ContributeReadPk
      <4>2. l \in Locals /\ l.pk = dir[PK]
        BY <2>t, <4>1 DEF Locals
      <4>3. DirTypeOK' /\ used' \subseteq Secrets /\ recorded' \subseteq Secrets
        BY <2>t, <3>3 DEF ContributeReadPk, DirTypeOK
      <4>4. Goto(p, "contribute_vk", l) /\ "contribute_vk" \in Steps
        BY <3>3 DEF ContributeReadPk, Steps
      <4>5. LocOK(pc[p], loc[p]) /\ pc[p] = "contribute_pk"
        BY <2>t, <3>3 DEF ContributeReadPk
      <4> HIDE DEF l
      <4>6. LocOK("contribute_vk", l)
        BY <4>1, <4>2, <4>5 DEF LocOK
      <4> QED
        BY <4>2, <4>3, <4>4, <4>6, GotoKeeps
    <3>4. ASSUME ContributeReadVk(p) PROVE Inv'
      <4> DEFINE l == [loc[p] EXCEPT !.vk = dir[VK]]
      <4>1. dir[VK] \in VerifyingKey
        BY <2>t, <3>4, ReadTypes DEF ContributeReadVk
      <4>2. l \in Locals /\ l.vk = dir[VK] /\ l.pk = loc[p].pk
        BY <2>t, <4>1 DEF Locals
      <4>3. DirTypeOK' /\ used' \subseteq Secrets /\ recorded' \subseteq Secrets
        BY <2>t, <3>4 DEF ContributeReadVk, DirTypeOK
      <4>4. Goto(p, "contribute_count", l) /\ "contribute_count" \in Steps
        BY <3>4 DEF ContributeReadVk, Steps
      <4>5. LocOK(pc[p], loc[p]) /\ pc[p] = "contribute_vk"
        BY <2>t, <3>4 DEF ContributeReadVk
      <4> HIDE DEF l
      <4>6. LocOK("contribute_count", l)
        BY <4>1, <4>2, <4>5 DEF LocOK
      <4> QED
        BY <4>2, <4>3, <4>4, <4>6, GotoKeeps
    <3>5. ASSUME ContributeReadCount(p) PROVE Inv'
      <4>1. PICK x \in Secrets \ used :
              /\ used' = used \cup {x}
              /\ Goto(p, "contribute_write", Drawn(loc[p], x, dir[COUNT]))
        BY <3>5 DEF ContributeReadCount
      <4> DEFINE l == Drawn(loc[p], x, dir[COUNT])
      <4>2. /\ pc[p] = "contribute_count" /\ dir[COUNT] \in 0..MaxCount
            /\ dir[COUNT] < MaxCount /\ UNCHANGED <<dir, recorded>>
        BY <2>t, <3>5, ReadTypes DEF ContributeReadCount
      <4>3. dir[COUNT] \in 0..(MaxCount - 1)
        BY <4>2, CeremonyAssumption
      <4>4. /\ l \in Locals /\ l.k = 1 /\ l.x = x /\ l.count = dir[COUNT]
            /\ l.pk = loc[p].pk /\ l.vk = loc[p].vk
        BY <2>t, <4>2, DrawnType
      <4>5. DirTypeOK' /\ used' \subseteq Secrets /\ recorded' \subseteq Secrets
        BY <2>t, <4>1, <4>2 DEF DirTypeOK
      <4>6. Goto(p, "contribute_write", l) /\ "contribute_write" \in Steps
        BY <4>1 DEF Steps
      <4> HIDE DEF l
      <4>7. LocOK("contribute_write", l)
        BY <2>t, <4>2, <4>3, <4>4 DEF LocOK
      <4> QED
        BY <4>4, <4>5, <4>6, <4>7, GotoKeeps
    <3>6. ASSUME ContributeWrite(p) PROVE Inv'
      <4> DEFINE w == ContributeWrites(loc[p])[loc[p].k]
      <4>1. /\ pc[p] = "contribute_write" /\ dir' = [dir EXCEPT ![w[1]] = w[2]]
            /\ used' \subseteq Secrets /\ recorded' \subseteq Secrets
        BY <2>t, <3>6 DEF ContributeWrite
      <4>2. /\ loc[p].pk \in ProvingKey /\ loc[p].vk \in VerifyingKey /\ loc[p].x \in Secrets
            /\ loc[p].count \in 0..(MaxCount - 1) /\ loc[p].k \in 1..4
        BY <2>t, <4>1 DEF LocOK
      <4>3. w[1] \in Names /\ Holds(w[1], w[2])
        BY <2>t, <4>2, ContributeWritesTypes
      <4>4. DirTypeOK'
        <5> HIDE DEF w
        <5> QED BY <2>t, <4>1, <4>3, WriteKeeps
      <4> DEFINE l == [loc[p] EXCEPT !.k = IF loc[p].k = 4 THEN 1 ELSE @ + 1]
                 step == IF loc[p].k = 4 THEN "contribute_rename" ELSE "contribute_write"
      <4>5. Goto(p, step, l) /\ step \in Steps
        BY <2>t, <3>6 DEF ContributeWrite, Steps
      <4>6. /\ l \in Locals /\ l.k \in 1..4 /\ l.x = loc[p].x /\ l.count = loc[p].count
            /\ l.pk = loc[p].pk /\ l.vk = loc[p].vk
        BY <2>t, <4>2 DEF Locals
      <4>7. step = "contribute_rename" \/ step = "contribute_write"
        OBVIOUS
      <4> HIDE DEF l, step
      <4>8. LocOK(step, l)
        BY <4>2, <4>6, <4>7 DEF LocOK
      <4> QED
        BY <4>1, <4>4, <4>5, <4>6, <4>8, GotoKeeps
    <3>7. ASSUME ContributeRename(p) PROVE Inv'
      <4> DEFINE f == ContributeRenames(NewIndex(loc[p].count))[loc[p].k]
      <4>1. /\ pc[p] = "contribute_rename" /\ used' = used
            /\ dir' = [dir EXCEPT ![f] = dir[Tmp(f)], ![Tmp(f)] = Absent]
        BY <3>7 DEF ContributeRename
      <4>2. /\ loc[p].pk \in ProvingKey /\ loc[p].vk \in VerifyingKey /\ loc[p].x \in Secrets
            /\ loc[p].count \in 0..(MaxCount - 1) /\ loc[p].k \in 1..4
        BY <2>t, <4>1 DEF LocOK
      <4>3. f \in Names /\ Tmp(f) \in Names /\ Holds(f, dir[Tmp(f)]) /\ Holds(Tmp(f), Absent)
        <5>1. NewIndex(loc[p].count) \in 1..MaxCount
          BY <4>2, CeremonyAssumption DEF NewIndex
        <5> QED
          BY <2>t, <4>2, <5>1, ContributeRenamesTypes, HoldsByName
      <4>4. DirTypeOK'
        <5> HIDE DEF f
        <5> QED BY <2>t, <4>1, <4>3, RenameKeeps
      <4>5. CASE loc[p].k = 4
        <5>1. Goto(p, "idle", NoLoc) /\ "idle" \in Steps /\ recorded' = recorded \cup {loc[p].x}
          BY <3>7, <4>5 DEF ContributeRename, Steps
        <5>2. used' \subseteq Secrets /\ recorded' \subseteq Secrets
          BY <2>t, <4>1, <4>2, <4>5, <5>1 DEF LocOK
        <5> QED
          BY <4>4, <5>1, <5>2, NoLocOK, GotoKeeps
      <4>6. CASE loc[p].k # 4
        <5> DEFINE l == [loc[p] EXCEPT !.k = @ + 1]
        <5>1. Goto(p, "contribute_rename", l) /\ "contribute_rename" \in Steps
              /\ recorded' = recorded
          BY <3>7, <4>6 DEF ContributeRename, Steps
        <5>2. /\ l \in Locals /\ l.k \in 1..4 /\ l.x = loc[p].x /\ l.count = loc[p].count
              /\ l.pk = loc[p].pk /\ l.vk = loc[p].vk
          BY <2>t, <4>2, <4>6 DEF Locals
        <5> HIDE DEF l
        <5>3. LocOK("contribute_rename", l)
          BY <2>t, <4>1, <4>2, <5>2 DEF LocOK
        <5> QED
          BY <2>t, <4>1, <4>4, <5>1, <5>2, <5>3, GotoKeeps
      <4> QED
        BY <4>5, <4>6
    <3> QED
      BY <2>c, <3>1, <3>2, <3>3, <3>4, <3>5, <3>6, <3>7 DEF ContributeStep
  <2>v. CASE VerifyStep(p)
    <3>1. ASSUME NEW op \in {"verify", "finalize"}, NEW c \in Circuits, NEW t \in Ptaus,
                 StartVerify(p, op, c, t)
          PROVE  Inv'
      <4> DEFINE l == [NoLoc EXCEPT !.op = op, !.circuit = c, !.ptau = t]
      <4>1. l \in Locals /\ l.circuit = c /\ l.ptau = t
        BY NoLocOK DEF Locals
      <4>2. DirTypeOK' /\ used' \subseteq Secrets /\ recorded' \subseteq Secrets
        BY <2>t, <3>1 DEF StartVerify, DirTypeOK
      <4>3. Goto(p, "verify_meta", l) /\ "verify_meta" \in Steps
        BY <3>1 DEF StartVerify, Steps
      <4> HIDE DEF l
      <4>4. LocOK("verify_meta", l)
        BY <4>1 DEF LocOK
      <4> QED
        BY <4>1, <4>2, <4>3, <4>4, GotoKeeps
    <3>2. ASSUME VerifyMeta(p) PROVE Inv'
      <4> DEFINE l == [loc[p] EXCEPT !.seed = dir[CMETA].seed]
      <4>1. dir[CMETA].seed \in Seeds
        BY <2>t, <3>2, ReadTypes DEF VerifyMeta, CircuitMeta
      <4>2. pc[p] = "verify_meta" /\ loc[p].circuit \in Circuits /\ loc[p].ptau \in Ptaus
        BY <2>t, <3>2 DEF VerifyMeta, LocOK
      <4>3. l \in Locals /\ RestOf(l) \in Rest
        BY <2>t, <4>1, <4>2 DEF Locals, RestOf, Rest
      <4>4. DirTypeOK' /\ used' \subseteq Secrets /\ recorded' \subseteq Secrets
        BY <2>t, <3>2 DEF VerifyMeta, DirTypeOK
      <4>5. Goto(p, "verify_baseline", l) /\ "verify_baseline" \in Steps
        BY <3>2 DEF VerifyMeta, Steps
      <4> HIDE DEF l
      <4>6. LocOK("verify_baseline", l)
        BY <4>3 DEF LocOK
      <4> QED
        BY <4>3, <4>4, <4>5, <4>6, GotoKeeps
    <3>3. ASSUME VerifyBaseline(p) PROVE Inv'
      <4>1. DirTypeOK' /\ used' \subseteq Secrets /\ recorded' \subseteq Secrets
        BY <2>t, <3>3 DEF VerifyBaseline, DirTypeOK
      <4>2. Goto(p, "verify_count", loc[p]) /\ "verify_count" \in Steps
            /\ pc[p] = "verify_baseline"
        BY <3>3 DEF VerifyBaseline, Steps
      <4>3. LocOK("verify_count", loc[p])
        BY <2>t, <4>2 DEF LocOK
      <4> QED
        BY <2>t, <4>1, <4>2, <4>3, GotoKeeps
    <3>4. ASSUME VerifyCount(p) PROVE Inv'
      <4> DEFINE l == [loc[p] EXCEPT !.count = dir[COUNT]]
      <4>1. dir[COUNT] \in 0..MaxCount
        BY <2>t, <3>4, ReadTypes DEF VerifyCount
      <4>2. l \in Locals /\ RestOf(l) = RestOf(loc[p])
        BY <2>t, <4>1 DEF Locals, RestOf
      <4>3. DirTypeOK' /\ used' \subseteq Secrets /\ recorded' \subseteq Secrets
        BY <2>t, <3>4 DEF VerifyCount, DirTypeOK
      <4>4. Goto(p, "verify_contributions", l) /\ "verify_contributions" \in Steps
        BY <3>4 DEF VerifyCount, Steps
      <4>5. LocOK(pc[p], loc[p]) /\ pc[p] = "verify_count"
        BY <2>t, <3>4 DEF VerifyCount
      <4> HIDE DEF l
      <4>6. LocOK("verify_contributions", l)
        BY <4>1, <4>2, <4>5 DEF LocOK
      <4> QED
        BY <4>2, <4>3, <4>4, <4>6, GotoKeeps
    <3>5. ASSUME VerifyReadContribution(p) PROVE Inv'
      <4> DEFINE i == Len(loc[p].chain) + 1
                 l == [loc[p] EXCEPT !.chain = Append(@, dir[Att(i)])]
      <4>1. loc[p].chain \in Seq(Contribution) /\ loc[p].count \in 0..MaxCount
        BY <2>t DEF Locals
      <4>2. i \in 1..MaxCount
        BY <3>5, <4>1, CeremonyAssumption DEF VerifyReadContribution
      <4>3. dir[Att(i)] \in Contribution
        BY <2>t, <3>5, <4>2, ReadTypes DEF VerifyReadContribution
      <4>4. l \in Locals /\ RestOf(l) = RestOf(loc[p])
        <5>1. Append(loc[p].chain, dir[Att(i)]) \in Seq(Contribution)
          BY <4>1, <4>3
        <5> QED
          BY <2>t, <5>1 DEF Locals, RestOf
      <4>5. DirTypeOK' /\ used' \subseteq Secrets /\ recorded' \subseteq Secrets
        BY <2>t, <3>5 DEF VerifyReadContribution, DirTypeOK
      <4>6. Goto(p, "verify_contributions", l) /\ "verify_contributions" \in Steps
            /\ pc[p] = "verify_contributions"
        BY <3>5 DEF VerifyReadContribution, Steps
      <4> HIDE DEF l
      <4>7. LocOK("verify_contributions", l)
        BY <2>t, <4>4, <4>6 DEF LocOK
      <4> QED
        BY <4>4, <4>5, <4>6, <4>7, GotoKeeps
    <3>6. ASSUME VerifyCheckChain(p) PROVE Inv'
      <4>1. DirTypeOK' /\ used' \subseteq Secrets /\ recorded' \subseteq Secrets
        BY <2>t, <3>6 DEF VerifyCheckChain, DirTypeOK
      <4>2. Goto(p, "verify_pk", loc[p]) /\ "verify_pk" \in Steps
            /\ pc[p] = "verify_contributions" /\ VerifyChain({loc[p].seed}, loc[p].chain)
        BY <3>6 DEF VerifyCheckChain, Steps
      <4>3. LocOK("verify_pk", loc[p])
        BY <2>t, <4>2 DEF LocOK
      <4> QED
        BY <2>t, <4>1, <4>2, <4>3, GotoKeeps
    <3>7. ASSUME VerifyReadPk(p) PROVE Inv'
      <4> DEFINE l == [loc[p] EXCEPT !.pk = dir[PK]]
      <4>1. dir[PK] \in ProvingKey
        BY <2>t, <3>7, ReadTypes DEF VerifyReadPk
      <4>2. l \in Locals /\ RestOf(l) = RestOf(loc[p]) /\ l.pk = dir[PK]
            /\ l.seed = loc[p].seed /\ l.chain = loc[p].chain
        BY <2>t, <4>1 DEF Locals, RestOf
      <4>3. DirTypeOK' /\ used' \subseteq Secrets /\ recorded' \subseteq Secrets
        BY <2>t, <3>7 DEF VerifyReadPk, DirTypeOK
      <4>4. Goto(p, "verify_vk", l) /\ "verify_vk" \in Steps
        BY <3>7 DEF VerifyReadPk, Steps
      <4>5. LocOK(pc[p], loc[p]) /\ pc[p] = "verify_pk"
        BY <2>t, <3>7 DEF VerifyReadPk
      <4> HIDE DEF l
      <4>6. LocOK("verify_vk", l)
        BY <4>1, <4>2, <4>5 DEF LocOK
      <4> QED
        BY <4>2, <4>3, <4>4, <4>6, GotoKeeps
    <3>8. ASSUME VerifyKeys(p) PROVE Inv'
      <4> DEFINE l == [loc[p] EXCEPT !.vk = dir[VK]]
                 step == IF loc[p].op = "finalize" THEN "finalize_meta" ELSE "verified"
      <4>1. dir[VK] \in VerifyingKey
        BY <2>t, <3>8, ReadTypes DEF VerifyKeys
      <4>2. /\ l \in Locals /\ RestOf(l) = RestOf(loc[p]) /\ l.pk = loc[p].pk
            /\ l.vk = dir[VK] /\ l.seed = loc[p].seed /\ l.chain = loc[p].chain
        BY <2>t, <4>1 DEF Locals, RestOf
      <4>3. DirTypeOK' /\ used' \subseteq Secrets /\ recorded' \subseteq Secrets
        BY <2>t, <3>8 DEF VerifyKeys, DirTypeOK
      <4>4. Goto(p, step, l) /\ step \in Steps
        BY <3>8 DEF VerifyKeys, Steps
      <4>5. /\ pc[p] = "verify_vk"
            /\ KeysConsistentWithChain(loc[p].pk, dir[VK], {loc[p].seed}, loc[p].chain)
            /\ KeysMatchInitial(loc[p].pk, dir[VK], LocRest(p))
        BY <3>8 DEF VerifyKeys
      <4>6. step = "finalize_meta" \/ step = "verified"
        OBVIOUS
      <4>7. loc[p].pk \in ProvingKey /\ VerifyChain({loc[p].seed}, loc[p].chain)
            /\ RestOf(loc[p]) \in Rest
        BY <2>t, <4>5 DEF LocOK
      <4> HIDE DEF l, step
      <4>8. Checked(l)
        BY <2>r, <4>2, <4>5, <4>7 DEF Checked
      <4>9. LocOK(step, l)
        BY <4>1, <4>2, <4>6, <4>7, <4>8 DEF LocOK
      <4> QED
        BY <4>2, <4>3, <4>4, <4>9, GotoKeeps
    <3> QED
      BY <2>v, <3>1, <3>2, <3>3, <3>4, <3>5, <3>6, <3>7, <3>8 DEF VerifyStep
  <2>f. CASE FinalizeStep(p)
    <3>1. ASSUME FinalizeMeta(p) PROVE Inv'
      <4> DEFINE l == [loc[p] EXCEPT !.circuit = dir[CMETA].circuit]
      <4>1. dir[CMETA].circuit \in Circuits
        BY <2>t, <3>1, ReadTypes DEF FinalizeMeta, CircuitMeta
      <4>2. l \in Locals /\ l.circuit \in Circuits
        BY <2>t, <4>1 DEF Locals
      <4>3. DirTypeOK' /\ used' \subseteq Secrets /\ recorded' \subseteq Secrets
        BY <2>t, <3>1 DEF FinalizeMeta, DirTypeOK
      <4>4. Goto(p, "finalize_keys", l) /\ "finalize_keys" \in Steps
        BY <3>1 DEF FinalizeMeta, Steps
      <4> HIDE DEF l
      <4>5. LocOK("finalize_keys", l)
        BY <4>2 DEF LocOK
      <4> QED
        BY <4>2, <4>3, <4>4, <4>5, GotoKeeps
    <3>2. ASSUME FinalizeLoadKeys(p) PROVE Inv'
      <4>1. DirTypeOK' /\ used' \subseteq Secrets /\ recorded' \subseteq Secrets
        BY <2>t, <3>2 DEF FinalizeLoadKeys, DirTypeOK
      <4>2. Goto(p, "finalize_hash", loc[p]) /\ "finalize_hash" \in Steps
            /\ pc[p] = "finalize_keys"
        BY <3>2 DEF FinalizeLoadKeys, Steps
      <4>3. LocOK("finalize_hash", loc[p])
        BY <2>t, <4>2 DEF LocOK
      <4> QED
        BY <2>t, <4>1, <4>2, <4>3, GotoKeeps
    <3>3. ASSUME FinalizeHashVk(p) PROVE Inv'
      <4> DEFINE l == [loc[p] EXCEPT !.hashed = dir[VK]]
      <4>1. dir[VK] \in VerifyingKey \cup {Torn}
        BY <2>t, <3>3, ReadTypes DEF FinalizeHashVk
      <4>2. l \in Locals /\ l.hashed = dir[VK] /\ l.circuit = loc[p].circuit
        BY <2>t, <4>1 DEF Locals
      <4>3. DirTypeOK' /\ used' \subseteq Secrets /\ recorded' \subseteq Secrets
        BY <2>t, <3>3 DEF FinalizeHashVk, DirTypeOK
      <4>4. Goto(p, "finalize_count", l) /\ "finalize_count" \in Steps
        BY <3>3 DEF FinalizeHashVk, Steps
      <4>5. LocOK(pc[p], loc[p]) /\ pc[p] = "finalize_hash"
        BY <2>t, <3>3 DEF FinalizeHashVk
      <4> HIDE DEF l
      <4>6. LocOK("finalize_count", l)
        BY <4>1, <4>2, <4>5 DEF LocOK
      <4> QED
        BY <4>2, <4>3, <4>4, <4>6, GotoKeeps
    <3>4. ASSUME FinalizeCount(p) PROVE Inv'
      <4> DEFINE l == [loc[p] EXCEPT !.count = dir[COUNT]]
      <4>1. dir[COUNT] \in 0..MaxCount
        BY <2>t, <3>4, ReadTypes DEF FinalizeCount
      <4>2. l \in Locals /\ l.hashed = loc[p].hashed /\ l.circuit = loc[p].circuit
        BY <2>t, <4>1 DEF Locals
      <4>3. DirTypeOK' /\ used' \subseteq Secrets /\ recorded' \subseteq Secrets
        BY <2>t, <3>4 DEF FinalizeCount, DirTypeOK
      <4>4. Goto(p, "finalize_write", l) /\ "finalize_write" \in Steps
        BY <3>4 DEF FinalizeCount, Steps
      <4>5. LocOK(pc[p], loc[p]) /\ pc[p] = "finalize_count"
        BY <2>t, <3>4 DEF FinalizeCount
      <4> HIDE DEF l
      <4>6. LocOK("finalize_write", l)
        BY <4>1, <4>2, <4>5 DEF LocOK
      <4> QED
        BY <4>2, <4>3, <4>4, <4>6, GotoKeeps
    <3>5. ASSUME FinalizeWrite(p) PROVE Inv'
      <4> DEFINE m == [circuit |-> loc[p].circuit, vk |-> loc[p].hashed,
                       contributors |-> loc[p].count]
      <4>1. /\ pc[p] = "finalize_write" /\ dir' = [dir EXCEPT ![METADATA] = m]
            /\ used' \subseteq Secrets /\ recorded' \subseteq Secrets
            /\ Goto(p, "idle", NoLoc) /\ "idle" \in Steps
        BY <2>t, <3>5 DEF FinalizeWrite, Steps
      <4>2. m \in Metadata
        BY <2>t, <4>1 DEF LocOK, Locals, Metadata
      <4>3. METADATA \in Names
        BY DEF Names
      <4> HIDE DEF m
      <4>4. DirTypeOK'
        BY <2>t, <4>1, <4>2, <4>3, HoldsByName, WriteKeeps
      <4> QED
        BY <4>1, <4>4, NoLocOK, GotoKeeps
    <3> QED
      BY <2>f, <3>1, <3>2, <3>3, <3>4, <3>5 DEF FinalizeStep
  <2>s. CASE Stop(p)
    <3>1. Goto(p, "idle", NoLoc) /\ "idle" \in Steps
          /\ used' \subseteq Secrets /\ recorded' \subseteq Secrets
      BY <2>t, <2>s DEF Stop, Steps
    <3>2. BeingWritten(p) \subseteq Names
      <4>1. CASE pc[p] = "init_write"
        <5>1. LocRest(p) \in Rest /\ loc[p].k \in 1..5
          BY <2>t, <2>r, <4>1 DEF LocOK
        <5>2. InitWrites(LocRest(p))[loc[p].k][1] \in Names
          BY <5>1, InitWritesTypes
        <5> QED
          BY <4>1, <5>2 DEF BeingWritten
      <4>2. CASE pc[p] = "contribute_write"
        <5>1. ContributeWrites(loc[p])[loc[p].k][1] \in Names
          BY <2>t, <4>2, ContributeWritesTypes DEF LocOK
        <5> QED
          BY <4>2, <5>1 DEF BeingWritten
      <4>3. CASE pc[p] = "finalize_write"
        BY <4>3 DEF BeingWritten, Names
      <4>4. CASE pc[p] \notin {"init_write", "contribute_write", "finalize_write"}
        BY <4>4 DEF BeingWritten
      <4> QED
        BY <4>1, <4>2, <4>3, <4>4
    <3>3. DirTypeOK'
      <4>1. CASE UNCHANGED dir
        BY <2>t, <4>1 DEF DirTypeOK
      <4>2. ASSUME NEW f \in BeingWritten(p), dir' = [dir EXCEPT ![f] = Torn]
            PROVE  DirTypeOK'
        BY <2>t, <3>2, <4>2, HoldsByName, WriteKeeps
      <4> QED
        BY <2>s, <4>1, <4>2 DEF Stop
    <3> QED
      BY <3>1, <3>3, NoLocOK, GotoKeeps
  <2> QED
    BY <2>i, <2>c, <2>v, <2>f, <2>s
<1> QED
  BY <1>u, <1>n

(* The empty directory, with no command running, satisfies the invariant.  *)
LEMMA InitInv == Init => Inv
<1> SUFFICES ASSUME Init PROVE Inv
  OBVIOUS
<1>1. DirTypeOK
  <2>1. dir = [f \in Names |-> Absent]
    BY DEF Init
  <2>2. \A f \in Names : Holds(f, dir[f])
    BY <2>1, HoldsByName
  <2> QED
    BY <2>1, <2>2, DirByName
<1>2. pc \in [Procs -> Steps] /\ loc \in [Procs -> Locals] /\ used = {} /\ recorded = {}
  BY NoLocOK DEF Init, Steps
<1>3. \A p \in Procs : LocOK(pc[p], loc[p])
  BY NoLocOK DEF Init
<1> QED
  BY <1>1, <1>2, <1>3 DEF Inv, TypeOK

(* Whatever the commands do, in whatever order, and wherever they are      *)
(* interrupted, every file of the directory holds what its name says or is *)
(* torn (run_init, run_contribute, run_verify, run_finalize).              *)
THEOREM TypeCorrect == Spec => []TypeOK
<1>1. Inv => TypeOK
  BY DEF Inv
<1> QED
  BY InitInv, StepKeeps, <1>1, PTL DEF Spec

(* The checks of run_verify suffice, whoever wrote the directory: all that *)
(* is used of a command is what it has read and compared.                  *)
LEMMA ReadSound == Inv => AcceptedSound
<1> SUFFICES ASSUME Inv, NEW p \in Procs, pc[p] \in {"verified", "finalize_meta"}
             PROVE  LET l == loc[p]
                        delta == {l.seed} \cup ChainSecrets(l.chain)
                    IN /\ l.pk = [rest |-> LocRest(p), vk |-> l.vk, g1 |-> delta, hl |-> delta]
                       /\ l.vk = [rest |-> LocRest(p), g2 |-> delta]
                       /\ Zero \notin delta
  BY DEF AcceptedSound
<1>1. LocRest(p) = RestOf(loc[p])
  BY DEF LocRest, RestOf
<1>2. loc[p] \in Locals /\ LocOK(pc[p], loc[p])
  BY DEF Inv, TypeOK
<1>3. /\ RestOf(loc[p]) \in Rest /\ loc[p].pk \in ProvingKey
      /\ loc[p].vk \in VerifyingKey /\ Checked(loc[p])
  BY <1>2 DEF LocOK
<1>4. loc[p].seed \in Seeds
  BY <1>3 DEF RestOf, Rest
<1> QED
  BY <1>1, <1>2, <1>3, <1>4, ChecksAreSound

(* A verify or finalize that accepts has read keys that are the recomputed *)
(* initial keys with delta multiplied by exactly the chain's secrets: the  *)
(* checks of run_verify suffice although nothing locks the directory.      *)
THEOREM VerificationSound == Spec => []AcceptedSound
  BY InitInv, StepKeeps, ReadSound, PTL DEF Spec

-----------------------------------------------------------------------------
(* One command at a time.                                                  *)

(* The tool takes no lock.  What it keeps across an interruption (a        *)
(* recorded contribution, a truthful metadata.json, the keys beside it) it *)
(* keeps for whoever does not run two commands in one directory at once.   *)
Alone == \A p, q \in Procs : p = q

(* No key has a zero trapdoor: init derives none, and no secret is zero.   *)
ZeroFree ==
  /\ Readable(PK) => Zero \notin dir[PK].g1
  /\ Readable(VK) => Zero \notin dir[VK].g2

Kept == RecordedKept /\ MetadataDescribesKeys /\ ZeroFree

(* The keys in the directory are explained by the attestations it counts.  *)
Vouched ==
  /\ Readable(PK) /\ Readable(VK) /\ Readable(COUNT)
  /\ dir[PK].vk = dir[VK] /\ dir[PK].g1 = dir[VK].g2 /\ dir[PK].hl = dir[VK].g2
  /\ DirExplained
  /\ dir[VK].g2 = dir[BASELINE] \cup ChainSecrets(DirChain)

(* A contribution with its first files renamed into place and the others   *)
(* still under their temporary names.                                      *)
Placed(l) ==
  LET n == NewIndex(l.count) IN
  /\ dir[COUNT] = l.count /\ dir[Tmp(COUNT)] = n
  /\ dir[IF l.k > 1 THEN Att(n) ELSE Tmp(Att(n))] = Attestation(l.pk, l.x)
  /\ dir[IF l.k > 2 THEN PK ELSE Tmp(PK)] = ContributedPk(l.pk, l.vk, l.x)
  /\ dir[IF l.k > 3 THEN VK ELSE Tmp(VK)] = ContributedVk(l.vk, l.x)
  /\ l.k <= 2 => dir[PK] = l.pk
  /\ l.k <= 3 => dir[VK] = l.vk

Contributing ==
  {"contribute_pk", "contribute_vk", "contribute_count", "contribute_write", "contribute_rename"}

Finalizing ==
  {"finalize_meta", "finalize_keys", "finalize_hash", "finalize_count", "finalize_write"}

(* What a command at this step remembers is still what the directory holds.*)
Current(step, l) ==
  /\ step = "init_clear" => l.todo = ExistingFiles
  /\ step = "init_write" => recorded = {}
  /\ step \in Contributing \cup {"init_write"} => ~ Exists(METADATA)
  /\ step \in {"contribute_vk", "contribute_count", "contribute_write"} =>
       Readable(PK) /\ l.pk = dir[PK]
  /\ step \in {"contribute_count", "contribute_write"} => Readable(VK) /\ l.vk = dir[VK]
  /\ step = "contribute_write" =>
       /\ l.count = dir[COUNT]
       /\ \A j \in 1..(l.k - 1) : dir[ContributeWrites(l)[j][1]] = ContributeWrites(l)[j][2]
  /\ step = "contribute_rename" => Placed(l)
  /\ step \in {"verify_meta", "verify_baseline", "verify_count"} => l.chain = <<>>
  /\ step \in {"verify_count", "verify_contributions", "verify_pk", "verify_vk"} =>
       dir[BASELINE] = {l.seed}
  /\ step \in {"verify_contributions", "verify_pk", "verify_vk"} =>
       /\ Readable(COUNT) /\ l.count = dir[COUNT]
       /\ \A i \in 1..Len(l.chain) : Readable(Att(i)) /\ l.chain[i] = dir[Att(i)]
  /\ step \in {"verify_pk", "verify_vk"} => Len(l.chain) = l.count
  /\ step = "verify_vk" => Readable(PK) /\ l.pk = dir[PK]
  /\ step \in Finalizing => Vouched
  /\ step \in {"finalize_count", "finalize_write"} => l.hashed = dir[VK]
  /\ step = "finalize_write" => l.count = dir[COUNT]

Solo == Kept /\ \A p \in Procs : \A step \in {pc[p]}, l \in {loc[p]} : Current(step, l)

(* What FinalizedKeysFrozen says of one step.                              *)
Frozen ==
  Exists(METADATA) /\ Exists(METADATA)' => dir'[PK] = dir[PK] /\ dir'[VK] = dir[VK]

(* A step of the only command.                                             *)
LEMMA AloneMoves ==
  ASSUME Alone, Inv, NEW p \in Procs, NEW step, NEW l, Goto(p, step, l),
         Kept', Current(step, l)'
  PROVE  Solo'
<1>1. pc'[p] = step /\ loc'[p] = l
  BY DEF Inv, TypeOK, Goto
<1>2. \A q \in Procs : \A s \in {pc'[q]}, m \in {loc'[q]} : s = step /\ m = l
  BY <1>1 DEF Alone
<1> QED
  BY <1>2 DEF Solo

(* A step that only reads.                                                 *)
LEMMA ReadingMoves ==
  ASSUME Alone, Inv, Solo, NEW p \in Procs, NEW step, NEW l, Goto(p, step, l),
         UNCHANGED <<dir, recorded>>, Current(step, l)
  PROVE  Solo' /\ Frozen
<1>1. Kept'
  BY DEF Solo, Kept, RecordedKept, MetadataDescribesKeys, ZeroFree, Readable, Exists,
         DirExplained, DirChain
<1>2. Current(step, l)'
  BY DEF Current, ExistingFiles, Exists, Readable, Placed, Vouched, DirExplained, DirChain
<1>3. Frozen
  BY DEF Frozen
<1> QED
  BY <1>1, <1>2, <1>3, AloneMoves

(* The counted part of the directory: both keys, the baseline, the count,  *)
(* and as many attestations as it says.                                    *)
SameCounted ==
  /\ \A f \in {BASELINE, COUNT, PK, VK} : dir'[f] = dir[f]
  /\ Readable(COUNT) => \A i \in 1..dir[COUNT] : dir'[Att(i)] = dir[Att(i)]

(* What is said of it holds while it does not change.                      *)
LEMMA CountedStays ==
  ASSUME SameCounted
  PROVE  /\ Vouched => Vouched'
         /\ RecordedKept /\ recorded' = recorded => RecordedKept'
         /\ ZeroFree => ZeroFree'
<1>1. Readable(COUNT) => DirChain' = DirChain
  BY DEF SameCounted, DirChain
<1>2. ASSUME Vouched PROVE Vouched'
  <2>1. DirChain' = DirChain /\ dir'[COUNT] = dir[COUNT]
    BY <1>1, <1>2 DEF Vouched, SameCounted
  <2>2. \A i \in 1..dir[COUNT] : dir'[Att(i)] = dir[Att(i)]
    BY <1>2 DEF Vouched, SameCounted
  <2>3. DirExplained'
    BY <1>2, <2>1, <2>2 DEF Vouched, DirExplained, Readable, SameCounted
  <2> QED
    BY <1>2, <2>1, <2>3 DEF Vouched, Readable, SameCounted
<1>3. RecordedKept /\ recorded' = recorded => RecordedKept'
  BY DEF RecordedKept, SameCounted, Readable
<1>4. ZeroFree => ZeroFree'
  BY DEF ZeroFree, SameCounted, Readable
<1> QED
  BY <1>2, <1>3, <1>4

(* So does the metadata, when it does not change either.                   *)
LEMMA MetadataStays ==
  ASSUME DirTypeOK, SameCounted, dir'[METADATA] = dir[METADATA], recorded' = recorded,
         MetadataDescribesKeys
  PROVE  MetadataDescribesKeys'
<1> SUFFICES ASSUME Readable(METADATA) PROVE MetadataDescribesKeys'
  BY DEF MetadataDescribesKeys, Readable
<1>1. dir[METADATA] \in Metadata
  BY DEF DirTypeOK, Readable
<1>2. ASSUME Exists(BASELINE)
      PROVE  /\ dir'[COUNT] = dir'[METADATA].contributors
             /\ DirExplained'
             /\ dir'[VK].g2 = dir'[BASELINE] \cup ChainSecrets(DirChain)'
  <2>1. dir[COUNT] = dir[METADATA].contributors /\ dir[COUNT] \in Nat
    BY <1>1, <1>2, CeremonyAssumption DEF MetadataDescribesKeys, Metadata
  <2>2. Readable(COUNT)
    BY <2>1, ContentAssumption DEF Readable
  <2>3. Vouched
    BY <1>2, <2>2 DEF Vouched, MetadataDescribesKeys
  <2>4. Vouched'
    BY <2>3, CountedStays
  <2> QED
    BY <2>1, <2>4 DEF Vouched, SameCounted
<1> QED
  BY <1>2 DEF MetadataDescribesKeys, SameCounted, Readable, Exists

(* A command that has ended remembers nothing.                             *)
LEMMA IdleIsCurrent == \A l : Current("idle", l)'
  BY DEF Current, Contributing, Finalizing

(* Where the elements of three sequences are once these are concatenated.  *)
Joined(s, a, b, c) ==
  /\ Len(s) = Len(a) + Len(b) + Len(c)
  /\ \A i \in 1..Len(a) : s[i] = a[i]
  /\ \A i \in 1..Len(b) : s[Len(a) + i] = b[i]
  /\ \A i \in 1..Len(c) : s[Len(a) + Len(b) + i] = c[i]

(* Concatenation puts them there.                                          *)
LEMMA ThreeParts ==
  ASSUME NEW S, NEW a \in Seq(S), NEW b \in Seq(S), NEW c \in Seq(S),
         NEW s, s = a \o b \o c
  PROVE  Joined(s, a, b, c)
<1>1. a \o b \in Seq(S) /\ Len(a \o b) = Len(a) + Len(b) /\ Len(a) \in Nat /\ Len(b) \in Nat
      /\ Len(c) \in Nat
  OBVIOUS
<1>2. \A i \in 1..Len(a) : (a \o b)[i] = a[i]
  OBVIOUS
<1>3. \A i \in 1..Len(b) : (a \o b)[Len(a) + i] = b[i]
  OBVIOUS
<1>4. /\ Len(s) = Len(a \o b) + Len(c)
      /\ \A i \in 1..Len(a \o b) : s[i] = (a \o b)[i]
      /\ \A i \in 1..Len(c) : s[Len(a \o b) + i] = c[i]
  BY <1>1
<1> QED
  BY <1>1, <1>2, <1>3, <1>4 DEF Joined

(* The order in which init removes what is there: the baseline first, and  *)
(* metadata.json before either key.                                        *)
LEMMA ClearOrder ==
  ASSUME NEW files, files \subseteq Names, NEW f \in FirstOf(files)
  PROVE  /\ f \in files
         /\ BASELINE \in files => f = BASELINE
         /\ METADATA \in files => f \notin {PK, VK}
<1> DEFINE head == <<BASELINE, CMETA>>
           mid  == [k \in 1..(2 * MaxCount) |->
                      IF k % 2 = 1 THEN Att((k + 1) \div 2) ELSE Tmp(Att(k \div 2))]
           last == <<COUNT, Tmp(COUNT), METADATA, PK, Tmp(PK), VK, Tmp(VK)>>
           All  == Names \cup {Att(i) : i \in Nat} \cup {Tmp(Att(i)) : i \in Nat}
<1>1. SortedNames = head \o mid \o last
  BY DEF SortedNames
<1>2. head \in Seq(All) /\ Len(head) = 2 /\ head[1] = BASELINE /\ head[2] = CMETA
  BY DEF Names
<1>3. mid \in Seq(All) /\ Len(mid) = 2 * MaxCount
      /\ \A k \in 1..(2 * MaxCount) : mid[k] \notin {PK, VK}
  <2>1. \A k \in 1..(2 * MaxCount) : k \div 2 \in Nat /\ (k + 1) \div 2 \in Nat
    BY CeremonyAssumption
  <2>2. \A k \in 1..(2 * MaxCount) : mid[k] \in All /\ mid[k] \notin {PK, VK}
    BY <2>1, NamesDistinct
  <2>3. 2 * MaxCount \in Nat
    BY CeremonyAssumption
  <2>4. mid \in [1..(2 * MaxCount) -> All] /\ DOMAIN mid = 1..(2 * MaxCount)
    BY <2>2
  <2> HIDE DEF mid
  <2> QED
    BY <2>2, <2>3, <2>4
<1>4. last \in Seq(All) /\ Len(last) = 7 /\ last[1] = COUNT /\ last[2] = Tmp(COUNT)
      /\ last[3] = METADATA
  BY DEF Names
<1> HIDE DEF mid, head, last, All
<1>5. /\ Len(SortedNames) = 2 * MaxCount + 9
      /\ SortedNames[1] = head[1] /\ SortedNames[2] = head[2]
      /\ \A i \in 1..(2 * MaxCount) : SortedNames[2 + i] = mid[i]
      /\ \A i \in 1..7 : SortedNames[2 + 2 * MaxCount + i] = last[i]
  <2>1. Joined(SortedNames, head, mid, last)
    <3>1. head \in Seq(All) /\ mid \in Seq(All) /\ last \in Seq(All)
      BY <1>2, <1>3, <1>4
    <3> QED
      BY <1>1, <3>1, ThreeParts, Zenon
  <2>2. Len(head) = 2 /\ Len(mid) = 2 * MaxCount /\ Len(last) = 7 /\ 2 * MaxCount \in Nat
    BY <1>2, <1>3, <1>4, CeremonyAssumption
  <2>3. Len(SortedNames) = 2 * MaxCount + 9
    BY <2>1, <2>2 DEF Joined
  <2>4. SortedNames[1] = head[1] /\ SortedNames[2] = head[2]
    BY <2>1, <2>2 DEF Joined
  <2>5. \A i \in 1..(2 * MaxCount) : SortedNames[2 + i] = mid[i]
    BY <2>1, <2>2 DEF Joined
  <2>6. \A i \in 1..7 : SortedNames[2 + 2 * MaxCount + i] = last[i]
    BY <2>1, <2>2 DEF Joined
  <2> QED
    BY <2>3, <2>4, <2>5, <2>6
<1>6. PICK i \in 1..Len(SortedNames) :
        f = SortedNames[i] /\ f \in files /\ \A j \in 1..(i - 1) : SortedNames[j] \notin files
  BY DEF FirstOf
<1>7. BASELINE \in files => f = BASELINE
  BY <1>2, <1>5, <1>6
<1>8. ASSUME METADATA \in files PROVE f \notin {PK, VK}
  <2>1. SortedNames[2 + 2 * MaxCount + 3] = METADATA /\ 2 * MaxCount \in Nat
    BY <1>4, <1>5, CeremonyAssumption
  <2>2. i \in 1..(2 + 2 * MaxCount + 3)
    BY <1>5, <1>6, <1>8, <2>1
  <2>3. CASE i = 1 \/ i = 2
    BY <1>2, <1>5, <1>6, <2>3, NamesDistinct
  <2>4. CASE i - 2 \in 1..(2 * MaxCount)
    <3>1. SortedNames[2 + (i - 2)] = mid[i - 2]
      BY <1>5, <2>4
    <3> QED
      BY <1>3, <1>6, <2>1, <2>4, <3>1
  <2>5. CASE i - 2 - 2 * MaxCount \in 1..3
    <3>1. SortedNames[2 + 2 * MaxCount + (i - 2 - 2 * MaxCount)] = last[i - 2 - 2 * MaxCount]
      BY <1>5, <2>5
    <3>2. f \in {COUNT, Tmp(COUNT), METADATA}
      BY <1>4, <1>6, <2>1, <2>5, <3>1
    <3> QED
      BY <3>2, NamesDistinct
  <2> QED
    BY <2>1, <2>2, <2>3, <2>4, <2>5
<1> QED
  BY <1>6, <1>7, <1>8

(* The names the properties speak of.                                      *)
LEMMA FinalNames ==
  /\ {BASELINE, CMETA, COUNT, METADATA, PK, VK} \subseteq Names
  /\ \A i \in 1..MaxCount : Att(i) \in Names /\ Tmp(Att(i)) \in Names
  /\ {Tmp(COUNT), Tmp(PK), Tmp(VK)} \subseteq Names
  BY DEF Names

(* A directory without metadata.json and without anything recorded keeps   *)
(* every promise as long as its keys are not degenerate.                   *)
LEMMA NothingPromised ==
  ASSUME recorded' = {}, ~ Exists(METADATA)', ZeroFree'
  PROVE  Kept'
  BY DEF Kept, RecordedKept, MetadataDescribesKeys, Exists, Readable

(* `xark ceremony init` keeps the promises, or ends them in order.         *)
LEMMA InitStepSolo ==
  ASSUME Alone, Inv, Solo, NEW p \in Procs, InitStep(p)
  PROVE  Solo' /\ Frozen
<1>t. /\ loc[p] \in Locals /\ LocOK(pc[p], loc[p]) /\ DirTypeOK
      /\ LocRest(p) = RestOf(loc[p]) /\ Current(pc[p], loc[p]) /\ Kept
  BY DEF Inv, TypeOK, LocRest, RestOf, Solo
<1>d. DOMAIN dir = Names
  BY <1>t DEF DirTypeOK
<1>1. ASSUME NEW force \in BOOLEAN, NEW rest \in Rest, StartInit(p, force, rest)
      PROVE  Solo' /\ Frozen
  <2> DEFINE l == [NoLoc EXCEPT !.op = "init", !.circuit = rest.circuit,
            !.ptau = rest.ptau, !.seed = rest.seed, !.todo = ExistingFiles]
  <2>1. l.todo = ExistingFiles
    BY DEF NoLoc
  <2>2. Goto(p, "init_clear", l) /\ UNCHANGED <<dir, recorded>>
    BY <1>1 DEF StartInit
  <2> HIDE DEF l
  <2>3. Current("init_clear", l)
    BY <2>1 DEF Current, Contributing, Finalizing
  <2> QED
    BY <2>2, <2>3, ReadingMoves
<1>2. ASSUME InitClear(p) PROVE Solo' /\ Frozen
  <2>1. PICK f \in FirstOf(loc[p].todo) :
          /\ dir' = [dir EXCEPT ![f] = Absent]
          /\ Goto(p, "init_clear", [loc[p] EXCEPT !.todo = @ \ {f}])
    BY <1>2 DEF InitClear
  <2>2. recorded' = {} /\ loc[p].todo = ExistingFiles
    BY <1>2, <1>t DEF InitClear, Current
  <2>3. /\ f \in ExistingFiles
        /\ BASELINE \in ExistingFiles => f = BASELINE
        /\ METADATA \in ExistingFiles => f \notin {PK, VK}
    BY <2>1, <2>2, ClearOrder DEF ExistingFiles
  <2>4. /\ f \in Names /\ dir'[f] = Absent
        /\ \A g \in Names : g # f => dir'[g] = dir[g]
    BY <1>d, <2>1, <2>3 DEF ExistingFiles
  <2>5. ZeroFree'
    BY <1>t, <2>4, FinalNames DEF Kept, ZeroFree, Readable
  <2>6. ASSUME Exists(METADATA)'
        PROVE  Exists(METADATA) /\ dir'[METADATA] = dir[METADATA]
               /\ dir'[PK] = dir[PK] /\ dir'[VK] = dir[VK] /\ ~ Exists(BASELINE)'
    BY <2>3, <2>4, <2>6, FinalNames DEF Exists, ExistingFiles
  <2>7. MetadataDescribesKeys'
    <3> SUFFICES ASSUME Readable(METADATA)' PROVE MetadataDescribesKeys'
      BY DEF MetadataDescribesKeys
    <3>1. Exists(METADATA)'
      BY DEF Readable, Exists
    <3>2. Readable(METADATA)
      BY <2>6, <3>1 DEF Readable
    <3> QED
      BY <1>t, <2>2, <2>6, <3>1, <3>2 DEF Kept, MetadataDescribesKeys, Readable
  <2>8. Kept'
    BY <2>2, <2>5, <2>7 DEF Kept, RecordedKept
  <2>9. PICK l : l = [loc[p] EXCEPT !.todo = @ \ {f}]
    OBVIOUS
  <2>10. l.todo = ExistingFiles \ {f}
    BY <1>t, <2>2, <2>9 DEF Locals
  <2>11. ExistingFiles' = ExistingFiles \ {f}
    BY <2>4 DEF ExistingFiles, Exists
  <2>12. Current("init_clear", l)'
    BY <2>10, <2>11 DEF Current, Contributing, Finalizing
  <2>13. Frozen
    BY <2>6 DEF Frozen
  <2> QED
    BY <2>1, <2>8, <2>9, <2>12, <2>13, AloneMoves
<1>3. ASSUME InitCleared(p) PROVE Solo' /\ Frozen
  <2> DEFINE l == [loc[p] EXCEPT !.k = 1]
  <2>1. ExistingFiles = {}
    BY <1>3, <1>t DEF InitCleared, Current
  <2>2. recorded = {} /\ ~ Exists(METADATA)
    BY <1>t, <2>1, FinalNames DEF Kept, RecordedKept, ExistingFiles, Readable, Exists
  <2>3. Goto(p, "init_write", l) /\ UNCHANGED <<dir, recorded>>
    BY <1>3 DEF InitCleared
  <2> HIDE DEF l
  <2>4. Current("init_write", l)
    BY <2>2 DEF Current, Finalizing
  <2> QED
    BY <2>3, <2>4, ReadingMoves
<1>4. ASSUME InitWrite(p) PROVE Solo' /\ Frozen
  <2> DEFINE w == InitWrites(LocRest(p))[loc[p].k]
  <2>1. pc[p] = "init_write" /\ dir' = [dir EXCEPT ![w[1]] = w[2]] /\ recorded' = recorded
    BY <1>4 DEF InitWrite
  <2>2. LocRest(p) \in Rest /\ loc[p].k \in 1..5
    BY <1>t, <2>1 DEF LocOK
  <2>3. w[1] \in Names
    BY <2>2, InitWritesTypes
  <2>4. recorded' = {} /\ ~ Exists(METADATA)
    BY <1>t, <2>1 DEF Current
  <2>5. w[1] # METADATA /\ (w[1] = PK => Zero \notin w[2].g1)
        /\ (w[1] = VK => Zero \notin w[2].g2)
    <3>1. LocRest(p).seed # Zero
      BY <2>2, CeremonyAssumption DEF Rest
    <3>2. Zero \notin InitialPk(LocRest(p)).g1 /\ Zero \notin InitialVk(LocRest(p)).g2
      BY <3>1 DEF InitialPk, InitialVk
    <3>3. \/ w = <<BASELINE, {LocRest(p).seed}>> \/ w = <<PK, InitialPk(LocRest(p))>>
          \/ w = <<VK, InitialVk(LocRest(p))>> \/ w = <<COUNT, 0>>
          \/ w = <<CMETA, [circuit |-> LocRest(p).circuit, seed |-> LocRest(p).seed]>>
      BY <2>2 DEF InitWrites
    <3> HIDE DEF w
    <3> QED
      BY <3>2, <3>3, NamesDistinct
  <2> HIDE DEF w
  <2>6. dir'[w[1]] = w[2] /\ \A g \in Names : g # w[1] => dir'[g] = dir[g]
    BY <1>d, <2>1, <2>3
  <2>7. ~ Exists(METADATA)'
    BY <2>4, <2>5, <2>6, FinalNames DEF Exists
  <2>8. ZeroFree'
    BY <1>t, <2>5, <2>6, FinalNames DEF Kept, ZeroFree, Readable
  <2>9. Kept' /\ Frozen
    BY <2>4, <2>7, <2>8, NothingPromised DEF Frozen
  <2>10. CASE loc[p].k = 5
    <3>1. Goto(p, "idle", NoLoc)
      BY <1>4, <2>10 DEF InitWrite
    <3> QED
      BY <2>9, <3>1, IdleIsCurrent, AloneMoves
  <2>11. CASE loc[p].k # 5
    <3>1. PICK l : l = [loc[p] EXCEPT !.k = @ + 1]
      OBVIOUS
    <3>2. Goto(p, "init_write", l)
      BY <1>4, <2>11, <3>1 DEF InitWrite
    <3>3. Current("init_write", l)'
      BY <2>4, <2>7 DEF Current, Finalizing
    <3> QED
      BY <2>9, <3>2, <3>3, AloneMoves
  <2> QED
    BY <2>10, <2>11
<1> QED
  BY <1>1, <1>2, <1>3, <1>4 DEF InitStep

(* A step that leaves the counted part and the metadata alone keeps every  *)
(* promise.                                                                *)
LEMMA Untouched ==
  ASSUME DirTypeOK, Kept, SameCounted, dir'[METADATA] = dir[METADATA], recorded' = recorded
  PROVE  Kept' /\ Frozen
<1>1. Kept'
  BY CountedStays, MetadataStays DEF Kept
<1>2. Frozen
  BY DEF Frozen, SameCounted
<1> QED
  BY <1>1, <1>2

(* What contribute writes before it renames anything: four different       *)
(* temporary files.                                                        *)
LEMMA TemporaryNames ==
  ASSUME NEW l, NEW k \in 1..4
  PROVE  /\ ContributeWrites(l)[k][1] \notin {BASELINE, COUNT, METADATA, PK, VK}
         /\ \A i \in Nat : ContributeWrites(l)[k][1] # Att(i)
         /\ \A j \in 1..4 : j # k => ContributeWrites(l)[j][1] # ContributeWrites(l)[k][1]
<1>1. /\ ContributeWrites(l)[1][1] = Tmp(PK) /\ ContributeWrites(l)[2][1] = Tmp(VK)
      /\ ContributeWrites(l)[3][1] = Tmp(Att(NewIndex(l.count)))
      /\ ContributeWrites(l)[4][1] = Tmp(COUNT)
  BY DEF ContributeWrites
<1>2. \A f \in {ContributeWrites(l)[1][1], ContributeWrites(l)[2][1],
                ContributeWrites(l)[3][1], ContributeWrites(l)[4][1]} : f[3] = "tmp"
  BY <1>1 DEF Tmp
<1>3. k = 1 \/ k = 2 \/ k = 3 \/ k = 4
  OBVIOUS
<1>4. ContributeWrites(l)[k][1][3] = "tmp"
  BY <1>2, <1>3
<1>5. /\ ContributeWrites(l)[k][1] \notin {BASELINE, COUNT, METADATA, PK, VK}
      /\ \A i \in Nat : ContributeWrites(l)[k][1] # Att(i)
  BY <1>4 DEF File, Att, BASELINE, COUNT, METADATA, PK, VK
<1>6. /\ ContributeWrites(l)[1][1][1] = "proving_key.bin"
      /\ ContributeWrites(l)[2][1][1] = "verifying_key.bin"
      /\ ContributeWrites(l)[3][1][1] = "contribution.json"
      /\ ContributeWrites(l)[4][1][1] = "contribution_count"
  BY <1>1 DEF Tmp, Att, File, PK, VK, COUNT
<1>7. \A j \in 1..4 : j # k => ContributeWrites(l)[j][1] # ContributeWrites(l)[k][1]
  BY <1>3, <1>6
<1> QED
  BY <1>5, <1>7

(* Writing one of them changes nothing that is promised.                   *)
LEMMA TemporaryWrite ==
  ASSUME DirTypeOK, Kept, NEW f \in Names, NEW content,
         f \notin {BASELINE, COUNT, METADATA, PK, VK}, \A i \in Nat : f # Att(i),
         dir' = [dir EXCEPT ![f] = content], recorded' = recorded
  PROVE  Kept' /\ Frozen
<1>1. DOMAIN dir = Names /\ \A g \in Names : g # f => dir'[g] = dir[g]
  BY DEF DirTypeOK
<1>2. SameCounted
  <2>1. Readable(COUNT) => dir[COUNT] \in 0..MaxCount
    BY ReadTypes
  <2>2. Readable(COUNT) => \A i \in 1..dir[COUNT] : i \in Nat /\ Att(i) \in Names
    BY <2>1, FinalNames, CeremonyAssumption
  <2> QED
    BY <1>1, <2>2, FinalNames DEF SameCounted
<1>3. dir'[METADATA] = dir[METADATA]
  BY <1>1, FinalNames
<1> QED
  BY <1>2, <1>3, Untouched

(* Delta times a secret.                                                   *)
LEMMA TimesSecret ==
  ASSUME NEW d, NEW x \in Secrets
  PROVE  /\ Zero \notin d => Times(d, x) = d \cup {x} /\ Zero \notin Times(d, x)
         /\ Zero \notin Times(d, x) => Times(d, x) = d \cup {x}
  BY CeremonyAssumption DEF Times

(* Where a contribution puts it.                                           *)
LEMMA ContributedDeltas ==
  ASSUME NEW pk \in ProvingKey, NEW vk \in VerifyingKey, NEW x \in Secrets
  PROVE  /\ ContributedPk(pk, vk, x).g1 = Times(pk.g1, x)
         /\ ContributedVk(vk, x).g2 = Times(vk.g2, x)
         /\ Attestation(pk, x).d = x
         /\ ContributedPk(pk, vk, x) \notin {Absent, Torn}
         /\ ContributedVk(vk, x) \notin {Absent, Torn}
         /\ Attestation(pk, x) \notin {Absent, Torn}
<1>1. ContributedPk(pk, vk, x).g1 = Times(pk.g1, x)
  BY DEF ContributedPk, ProvingKey
<1>2. ContributedVk(vk, x).g2 = Times(vk.g2, x)
  BY DEF ContributedVk, VerifyingKey
<1>3. Attestation(pk, x).d = x
  BY DEF Attestation
<1> QED
  BY <1>1, <1>2, <1>3, ContributeTypes, ContentAssumption

(* The renames of a contribution, one by one.                              *)
LEMMA RenameSolo ==
  ASSUME Alone, Inv, Solo, NEW p \in Procs, ContributeRename(p)
  PROVE  Solo' /\ Frozen
<1>t. /\ loc[p] \in Locals /\ LocOK(pc[p], loc[p]) /\ DirTypeOK /\ Current(pc[p], loc[p])
      /\ RecordedKept /\ ZeroFree /\ DOMAIN dir = Names
  BY DEF Inv, TypeOK, Solo, Kept, DirTypeOK
<1> DEFINE n == NewIndex(loc[p].count)
           f == ContributeRenames(n)[loc[p].k]
<1>1. /\ pc[p] = "contribute_rename"
      /\ dir' = [dir EXCEPT ![f] = dir[Tmp(f)], ![Tmp(f)] = Absent]
  BY DEF ContributeRename
<1>2. PICK l : l = loc[p]
  OBVIOUS
<1>3. /\ l \in Locals /\ l.pk \in ProvingKey /\ l.vk \in VerifyingKey /\ l.x \in Secrets
      /\ l.count \in 0..(MaxCount - 1) /\ l.k \in 1..4 /\ Placed(l) /\ ~ Exists(METADATA)
  BY <1>t, <1>1, <1>2 DEF LocOK, Current, Contributing
<1>4. n \in 1..MaxCount /\ n = l.count + 1
  BY <1>2, <1>3, CeremonyAssumption DEF NewIndex
<1>5. /\ f \in {PK, VK, COUNT, Att(n)} /\ f \in Names /\ Tmp(f) \in Names /\ f # Tmp(f)
      /\ f # METADATA /\ Tmp(f) # METADATA
  <2>1. f = Att(n) \/ f = PK \/ f = VK \/ f = COUNT
    BY <1>2, <1>3 DEF ContributeRenames
  <2>2. {PK, VK, COUNT, Att(n), Tmp(PK), Tmp(VK), Tmp(COUNT), Tmp(Att(n))} \subseteq Names
    BY <1>4, FinalNames
  <2> HIDE DEF f
  <2>3. f # Tmp(f) /\ f # METADATA /\ Tmp(f) # METADATA
    BY <2>1 DEF Tmp, Att, File, PK, VK, COUNT, METADATA
  <2> QED
    BY <2>1, <2>2, <2>3
<1>6. /\ dir'[f] = dir[Tmp(f)] /\ dir'[Tmp(f)] = Absent
      /\ \A g \in Names : g \notin {f, Tmp(f)} => dir'[g] = dir[g]
  <2> HIDE DEF f
  <2> QED BY <1>t, <1>1, <1>5
<1>7. ~ Exists(METADATA)' /\ Frozen
  BY <1>3, <1>5, <1>6, FinalNames DEF Exists, Frozen
<1>8. /\ ContributedPk(l.pk, l.vk, l.x).g1 = Times(l.pk.g1, l.x)
      /\ ContributedVk(l.vk, l.x).g2 = Times(l.vk.g2, l.x)
      /\ Attestation(l.pk, l.x).d = l.x
      /\ ContributedPk(l.pk, l.vk, l.x) \notin {Absent, Torn}
      /\ ContributedVk(l.vk, l.x) \notin {Absent, Torn}
      /\ Attestation(l.pk, l.x) \notin {Absent, Torn}
  BY <1>3, ContributedDeltas
<1>9. \A i \in 1..l.count : Att(i) \in Names /\ Tmp(Att(i)) \in Names /\ Att(i) # Att(n)
                            /\ Att(i) # Tmp(Att(n)) /\ Att(i) \notin {Tmp(PK), Tmp(VK), Tmp(COUNT)}
  <2>1. \A i \in 1..l.count : i \in 1..MaxCount /\ i # n
    BY <1>3, <1>4, CeremonyAssumption
  <2> QED
    BY <2>1, FinalNames DEF Att, Tmp, File, PK, VK, COUNT
<1>10. dir[COUNT] = l.count /\ dir[Tmp(COUNT)] = n
  BY <1>2, <1>3 DEF Placed
<1>11. ASSUME ZeroFree', RecordedKept' PROVE Kept'
  BY <1>7, <1>11 DEF Kept, MetadataDescribesKeys, Readable, Exists
<1> HIDE DEF n
<1>f. \A k \in {1, 2, 3, 4} : l.k = k =>
        f = IF k = 1 THEN Att(n) ELSE IF k = 2 THEN PK ELSE IF k = 3 THEN VK ELSE COUNT
  BY <1>2 DEF ContributeRenames
<1> HIDE DEF f
<1>n. {PK, VK, COUNT, METADATA, BASELINE, Att(n), Tmp(PK), Tmp(VK), Tmp(COUNT), Tmp(Att(n))}
        \subseteq Names
  BY <1>4, FinalNames
<1>k. CASE l.k \in 1..3
  <2>1. PICK m : m = [l EXCEPT !.k = @ + 1]
    OBVIOUS
  <2>2. Goto(p, "contribute_rename", m) /\ recorded' = recorded
    BY <1>2, <1>k, <2>1 DEF ContributeRename
  <2>3. /\ m.k = l.k + 1 /\ m.pk = l.pk /\ m.vk = l.vk /\ m.x = l.x /\ m.count = l.count
    BY <1>3, <2>1 DEF Locals
  <2>4. NewIndex(m.count) = n
    BY <1>2, <2>3 DEF n
  <2>5. CASE l.k = 1
    <3>1. f = Att(n) /\ dir[Tmp(Att(n))] = Attestation(l.pk, l.x)
      BY <1>2, <1>3, <1>f, <2>5 DEF Placed, n
    <3>2. /\ dir'[COUNT] = dir[COUNT] /\ dir'[PK] = dir[PK] /\ dir'[VK] = dir[VK]
          /\ dir'[BASELINE] = dir[BASELINE] /\ dir'[Tmp(COUNT)] = dir[Tmp(COUNT)]
          /\ dir'[Tmp(PK)] = dir[Tmp(PK)] /\ dir'[Tmp(VK)] = dir[Tmp(VK)]
      BY <1>4, <1>6, <1>n, <3>1, NamesDistinct
    <3>3. \A i \in 1..dir[COUNT] : dir'[Att(i)] = dir[Att(i)]
      BY <1>6, <1>9, <1>10, <3>1
    <3>4. SameCounted
      BY <3>2, <3>3 DEF SameCounted
    <3>5. ZeroFree' /\ RecordedKept'
      BY <1>t, <2>2, <3>4, CountedStays
    <3>6. Placed(m)'
      BY <1>3, <1>6, <1>10, <2>3, <2>4, <2>5, <3>1, <3>2 DEF Placed
    <3>7. Current("contribute_rename", m)'
      BY <1>7, <3>6 DEF Current, Finalizing
    <3> QED
      BY <1>7, <1>11, <2>2, <3>5, <3>7, AloneMoves
  <2>6. CASE l.k = 2
    <3>1. /\ f = PK /\ dir[Tmp(PK)] = ContributedPk(l.pk, l.vk, l.x) /\ dir[PK] = l.pk
          /\ dir[Att(n)] = Attestation(l.pk, l.x) /\ dir[Tmp(VK)] = ContributedVk(l.vk, l.x)
          /\ dir[VK] = l.vk
      BY <1>2, <1>3, <1>f, <2>6 DEF Placed, n
    <3>2. /\ dir'[COUNT] = dir[COUNT] /\ dir'[VK] = dir[VK] /\ dir'[Att(n)] = dir[Att(n)]
          /\ dir'[Tmp(COUNT)] = dir[Tmp(COUNT)] /\ dir'[Tmp(VK)] = dir[Tmp(VK)]
      BY <1>4, <1>6, <1>n, <3>1, NamesDistinct
    <3>3. \A i \in 1..dir[COUNT] : dir'[Att(i)] = dir[Att(i)]
      <4>1. \A i \in 1..l.count : Att(i) # PK /\ Att(i) # Tmp(PK)
        BY DEF Att, Tmp, File, PK
      <4> QED
        BY <1>6, <1>9, <1>10, <3>1, <4>1
    <3>4. /\ dir'[PK] = ContributedPk(l.pk, l.vk, l.x) /\ Readable(PK)' /\ Readable(PK)
          /\ dir'[PK].g1 = dir[PK].g1 \cup {l.x} /\ Zero \notin dir'[PK].g1
      <4>1. Readable(PK)
        BY <1>3, <3>1, ContentAssumption DEF Readable
      <4>2. Zero \notin l.pk.g1
        BY <1>t, <3>1, <4>1 DEF ZeroFree
      <4> QED
        BY <1>3, <1>6, <1>8, <3>1, <4>1, <4>2, TimesSecret DEF Readable
    <3>5. ZeroFree'
      BY <1>t, <3>2, <3>4 DEF ZeroFree, Readable
    <3>6. RecordedKept'
      BY <1>t, <2>2, <3>2, <3>3, <3>4 DEF RecordedKept, Readable
    <3>7. Placed(m)'
      BY <1>3, <1>10, <2>3, <2>4, <2>6, <3>1, <3>2, <3>4 DEF Placed
    <3>8. Current("contribute_rename", m)'
      BY <1>7, <3>7 DEF Current, Finalizing
    <3> QED
      BY <1>7, <1>11, <2>2, <3>5, <3>6, <3>8, AloneMoves
  <2>7. CASE l.k = 3
    <3>1. /\ f = VK /\ dir[Tmp(VK)] = ContributedVk(l.vk, l.x) /\ dir[VK] = l.vk
          /\ dir[Att(n)] = Attestation(l.pk, l.x) /\ dir[PK] = ContributedPk(l.pk, l.vk, l.x)
      BY <1>2, <1>3, <1>f, <2>7 DEF Placed, n
    <3>2. /\ dir'[COUNT] = dir[COUNT] /\ dir'[PK] = dir[PK] /\ dir'[Att(n)] = dir[Att(n)]
          /\ dir'[Tmp(COUNT)] = dir[Tmp(COUNT)]
      BY <1>4, <1>6, <1>n, <3>1, NamesDistinct
    <3>3. \A i \in 1..dir[COUNT] : dir'[Att(i)] = dir[Att(i)]
      <4>1. \A i \in 1..l.count : Att(i) # VK /\ Att(i) # Tmp(VK)
        BY DEF Att, Tmp, File, VK
      <4> QED
        BY <1>6, <1>9, <1>10, <3>1, <4>1
    <3>4. /\ dir'[VK] = ContributedVk(l.vk, l.x) /\ Readable(VK)' /\ Readable(VK)
          /\ dir'[VK].g2 = dir[VK].g2 \cup {l.x} /\ Zero \notin dir'[VK].g2
      <4>1. Readable(VK)
        BY <1>3, <3>1, ContentAssumption DEF Readable
      <4>2. Zero \notin l.vk.g2
        BY <1>t, <3>1, <4>1 DEF ZeroFree
      <4> QED
        BY <1>3, <1>6, <1>8, <3>1, <4>1, <4>2, TimesSecret DEF Readable
    <3>5. ZeroFree'
      BY <1>t, <3>2, <3>4 DEF ZeroFree, Readable
    <3>6. RecordedKept'
      BY <1>t, <2>2, <3>2, <3>3, <3>4 DEF RecordedKept, Readable
    <3>7. Placed(m)'
      BY <1>3, <1>10, <2>3, <2>4, <2>7, <3>1, <3>2, <3>4 DEF Placed
    <3>8. Current("contribute_rename", m)'
      BY <1>7, <3>7 DEF Current, Finalizing
    <3> QED
      BY <1>7, <1>11, <2>2, <3>5, <3>6, <3>8, AloneMoves
  <2> QED
    BY <1>k, <2>5, <2>6, <2>7
<1>l. CASE l.k = 4
  <2>1. /\ f = COUNT /\ dir[VK] = ContributedVk(l.vk, l.x)
        /\ dir[Att(n)] = Attestation(l.pk, l.x) /\ dir[PK] = ContributedPk(l.pk, l.vk, l.x)
    BY <1>2, <1>3, <1>f, <1>l DEF Placed, n
  <2>2. dir'[PK] = dir[PK] /\ dir'[VK] = dir[VK] /\ dir'[Att(n)] = dir[Att(n)] /\ dir'[COUNT] = n
    BY <1>4, <1>6, <1>10, <1>n, <2>1, NamesDistinct
  <2>3. \A i \in 1..l.count : dir'[Att(i)] = dir[Att(i)]
    <3>1. \A i \in 1..l.count : Att(i) # COUNT /\ Att(i) # Tmp(COUNT)
      BY DEF Att, Tmp, File, COUNT
    <3> QED
      BY <1>6, <1>9, <2>1, <3>1
  <2>4. Goto(p, "idle", NoLoc) /\ recorded' = recorded \cup {l.x}
    BY <1>2, <1>l DEF ContributeRename
  <2>5. ZeroFree'
    BY <1>t, <2>2 DEF ZeroFree, Readable
  <2>6. Readable(PK)' /\ Readable(VK)' /\ Readable(COUNT)'
        /\ dir'[Att(n)] \notin {Absent, Torn}
    <3>1. n \notin {Absent, Torn}
      BY <1>4, CeremonyAssumption, ContentAssumption
    <3> QED
      BY <1>8, <2>1, <2>2, <3>1 DEF Readable
  <2>7. l.x \in dir[PK].g1 /\ l.x \in dir[VK].g2
    <3>1. Readable(PK) /\ Readable(VK)
      BY <2>2, <2>6 DEF Readable
    <3>2. Zero \notin Times(l.pk.g1, l.x) /\ Zero \notin Times(l.vk.g2, l.x)
      BY <1>t, <1>8, <2>1, <3>1 DEF ZeroFree
    <3> QED
      BY <1>3, <1>8, <2>1, <3>2, TimesSecret
  <2>8. RecordedKept'
    <3>1. \A x \in recorded : /\ x \in dir'[PK].g1 /\ x \in dir'[VK].g2
                              /\ \E i \in 1..l.count : Readable(Att(i)) /\ dir[Att(i)].d = x
      BY <1>t, <1>10, <2>2 DEF RecordedKept
    <3>2. \A i \in 1..l.count : i \in 1..n /\ (Readable(Att(i)) => Readable(Att(i))')
      BY <1>3, <1>4, <2>3 DEF Readable
    <3>3. \A x \in recorded : \E i \in 1..n : Readable(Att(i))' /\ dir'[Att(i)].d = x
      BY <2>3, <3>1, <3>2
    <3>4. \E i \in 1..n : Readable(Att(i))' /\ dir'[Att(i)].d = l.x
      BY <1>4, <1>8, <2>1, <2>2, <2>6 DEF Readable
    <3>5. \A x \in recorded' : /\ x \in dir'[PK].g1 /\ x \in dir'[VK].g2
                               /\ \E i \in 1..n : Readable(Att(i))' /\ dir'[Att(i)].d = x
      BY <2>2, <2>4, <2>7, <3>1, <3>3, <3>4
    <3> QED
      BY <2>2, <2>6, <3>5 DEF RecordedKept
  <2> QED
    BY <1>7, <1>11, <2>4, <2>5, <2>8, IdleIsCurrent, AloneMoves
<1> QED
  BY <1>3, <1>k, <1>l

(* `xark ceremony contribute`: what it read is what it replaces.           *)
LEMMA ContributeStepSolo ==
  ASSUME Alone, Inv, Solo, NEW p \in Procs, ContributeStep(p)
  PROVE  Solo' /\ Frozen
<1>t. /\ loc[p] \in Locals /\ LocOK(pc[p], loc[p]) /\ DirTypeOK /\ Current(pc[p], loc[p])
      /\ Kept
  BY DEF Inv, TypeOK, Solo
<1>1. ASSUME StartContribute(p) PROVE Solo' /\ Frozen
  <2> DEFINE l == [NoLoc EXCEPT !.op = "contribute"]
  <2>1. Goto(p, "contribute_check", l) /\ UNCHANGED <<dir, recorded>>
    BY <1>1 DEF StartContribute
  <2> HIDE DEF l
  <2>2. Current("contribute_check", l)
    BY DEF Current, Contributing, Finalizing
  <2> QED
    BY <2>1, <2>2, ReadingMoves
<1>2. ASSUME ContributeCheck(p) PROVE Solo' /\ Frozen
  <2>1. Goto(p, "contribute_pk", loc[p]) /\ UNCHANGED <<dir, recorded>> /\ ~ Exists(METADATA)
    BY <1>2 DEF ContributeCheck
  <2>2. Current("contribute_pk", loc[p])
    BY <2>1 DEF Current, Finalizing
  <2> QED
    BY <2>1, <2>2, ReadingMoves
<1>3. ASSUME ContributeReadPk(p) PROVE Solo' /\ Frozen
  <2> DEFINE l == [loc[p] EXCEPT !.pk = dir[PK]]
  <2>1. Goto(p, "contribute_vk", l) /\ UNCHANGED <<dir, recorded>> /\ Readable(PK)
        /\ pc[p] = "contribute_pk"
    BY <1>3 DEF ContributeReadPk
  <2>2. l.pk = dir[PK] /\ ~ Exists(METADATA)
    BY <1>t, <2>1 DEF Locals, Current, Contributing
  <2> HIDE DEF l
  <2>3. Current("contribute_vk", l)
    BY <2>1, <2>2 DEF Current, Finalizing
  <2> QED
    BY <2>1, <2>3, ReadingMoves
<1>4. ASSUME ContributeReadVk(p) PROVE Solo' /\ Frozen
  <2> DEFINE l == [loc[p] EXCEPT !.vk = dir[VK]]
  <2>1. Goto(p, "contribute_count", l) /\ UNCHANGED <<dir, recorded>> /\ Readable(VK)
        /\ pc[p] = "contribute_vk"
    BY <1>4 DEF ContributeReadVk
  <2>2. l.vk = dir[VK] /\ l.pk = loc[p].pk /\ ~ Exists(METADATA)
        /\ Readable(PK) /\ loc[p].pk = dir[PK]
    BY <1>t, <2>1 DEF Locals, Current, Contributing
  <2> HIDE DEF l
  <2>3. Current("contribute_count", l)
    BY <2>1, <2>2 DEF Current, Finalizing
  <2> QED
    BY <2>1, <2>3, ReadingMoves
<1>5. ASSUME ContributeReadCount(p) PROVE Solo' /\ Frozen
  <2>1. PICK x \in Secrets \ used : Goto(p, "contribute_write", Drawn(loc[p], x, dir[COUNT]))
    BY <1>5 DEF ContributeReadCount
  <2> DEFINE l == Drawn(loc[p], x, dir[COUNT])
  <2>2. UNCHANGED <<dir, recorded>> /\ Readable(COUNT) /\ pc[p] = "contribute_count"
    BY <1>5 DEF ContributeReadCount
  <2>3. dir[COUNT] \in 0..MaxCount
    BY <1>t, <2>2, ReadTypes
  <2>4. l.k = 1 /\ l.count = dir[COUNT] /\ l.pk = loc[p].pk /\ l.vk = loc[p].vk
    BY <1>t, <2>3, DrawnType
  <2>5. /\ ~ Exists(METADATA) /\ Readable(PK) /\ loc[p].pk = dir[PK]
        /\ Readable(VK) /\ loc[p].vk = dir[VK]
    BY <1>t, <2>2 DEF Current, Contributing
  <2>6. Goto(p, "contribute_write", l)
    BY <2>1
  <2> HIDE DEF l
  <2>7. Current("contribute_write", l)
    BY <2>4, <2>5 DEF Current, Finalizing
  <2> QED
    BY <2>2, <2>6, <2>7, ReadingMoves
<1>6. ASSUME ContributeWrite(p) PROVE Solo' /\ Frozen
  <2>1. PICK l : l = loc[p]
    OBVIOUS
  <2> DEFINE f == ContributeWrites(l)[l.k][1]
             content == ContributeWrites(l)[l.k][2]
  <2>2. /\ pc[p] = "contribute_write" /\ dir' = [dir EXCEPT ![f] = content]
        /\ recorded' = recorded
    BY <1>6, <2>1 DEF ContributeWrite
  <2>3. /\ l \in Locals /\ l.pk \in ProvingKey /\ l.vk \in VerifyingKey /\ l.x \in Secrets
        /\ l.count \in 0..(MaxCount - 1) /\ l.k \in 1..4
    BY <1>t, <2>1, <2>2 DEF LocOK
  <2>4. /\ ~ Exists(METADATA) /\ Readable(PK) /\ l.pk = dir[PK] /\ Readable(VK)
        /\ l.vk = dir[VK] /\ l.count = dir[COUNT]
        /\ \A j \in 1..(l.k - 1) : dir[ContributeWrites(l)[j][1]] = ContributeWrites(l)[j][2]
    BY <1>t, <2>1, <2>2 DEF Current, Contributing
  <2>5. /\ f \in Names /\ f \notin {BASELINE, COUNT, METADATA, PK, VK}
        /\ \A i \in Nat : f # Att(i)
    BY <2>3, ContributeWritesTypes, TemporaryNames
  <2>6. Kept' /\ Frozen
    <3> HIDE DEF f, content
    <3> QED BY <1>t, <2>2, <2>5, TemporaryWrite
  <2>7. dir'[f] = content /\ \A g \in Names : g # f => dir'[g] = dir[g]
    <3>1. DOMAIN dir = Names
      BY <1>t DEF DirTypeOK
    <3> HIDE DEF f, content
    <3> QED BY <2>2, <2>5, <3>1
  <2>8. /\ ~ Exists(METADATA)' /\ dir'[PK] = dir[PK] /\ dir'[VK] = dir[VK]
        /\ dir'[COUNT] = dir[COUNT]
    <3> HIDE DEF f
    <3> QED BY <2>4, <2>5, <2>7, FinalNames DEF Exists
  <2>9. \A j \in 1..l.k : dir'[ContributeWrites(l)[j][1]] = ContributeWrites(l)[j][2]
    <3> SUFFICES ASSUME NEW j \in 1..l.k
                 PROVE  dir'[ContributeWrites(l)[j][1]] = ContributeWrites(l)[j][2]
      OBVIOUS
    <3>1. CASE j = l.k
      BY <2>7, <3>1
    <3>2. CASE j # l.k
      <4>1. j \in 1..4 /\ j \in 1..(l.k - 1)
        BY <2>3, <3>2
      <4>2. ContributeWrites(l)[j][1] \in Names /\ ContributeWrites(l)[j][1] # f
        BY <2>3, <3>2, <4>1, ContributeWritesTypes, TemporaryNames
      <4> QED
        BY <2>4, <2>7, <4>1, <4>2
    <3> QED
      BY <3>1, <3>2
  <2> HIDE DEF f, content
  <2>10. CASE l.k = 4
    <3>1. PICK m : m = [l EXCEPT !.k = 1]
      OBVIOUS
    <3>2. Goto(p, "contribute_rename", m)
      BY <1>6, <2>1, <2>10, <3>1 DEF ContributeWrite
    <3>3. m.k = 1 /\ m.pk = l.pk /\ m.vk = l.vk /\ m.x = l.x /\ m.count = l.count
      BY <2>3, <3>1 DEF Locals
    <3>4. /\ dir'[Tmp(PK)] = ContributedPk(l.pk, l.vk, l.x)
          /\ dir'[Tmp(VK)] = ContributedVk(l.vk, l.x)
          /\ dir'[Tmp(Att(NewIndex(l.count)))] = Attestation(l.pk, l.x)
          /\ dir'[Tmp(COUNT)] = NewIndex(l.count)
      BY <2>9, <2>10 DEF ContributeWrites
    <3>5. Placed(m)'
      BY <2>4, <2>8, <3>3, <3>4 DEF Placed
    <3>6. Current("contribute_rename", m)'
      BY <2>8, <3>5 DEF Current, Finalizing
    <3> QED
      BY <2>6, <3>2, <3>6, AloneMoves
  <2>11. CASE l.k # 4
    <3>1. PICK m : m = [l EXCEPT !.k = @ + 1]
      OBVIOUS
    <3>2. Goto(p, "contribute_write", m)
      BY <1>6, <2>1, <2>11, <3>1 DEF ContributeWrite
    <3>3. m.k = l.k + 1 /\ m.pk = l.pk /\ m.vk = l.vk /\ m.x = l.x /\ m.count = l.count
      BY <2>3, <3>1 DEF Locals
    <3>4. ContributeWrites(m) = ContributeWrites(l) /\ m.k - 1 = l.k
      BY <2>3, <3>3 DEF ContributeWrites
    <3>5. \A j \in 1..(m.k - 1) :
            dir'[ContributeWrites(m)[j][1]] = ContributeWrites(m)[j][2]
      BY <2>9, <3>4
    <3>6. Current("contribute_write", m)'
      BY <2>4, <2>8, <3>3, <3>5 DEF Current, Finalizing, Readable
    <3> QED
      BY <2>6, <3>2, <3>6, AloneMoves
  <2> QED
    BY <2>10, <2>11
<1>7. ASSUME ContributeRename(p) PROVE Solo' /\ Frozen
  BY <1>7, RenameSolo
<1> QED
  BY <1>1, <1>2, <1>3, <1>4, <1>5, <1>6, <1>7 DEF ContributeStep

(* `xark ceremony verify`: what it has checked is still there when it      *)
(* accepts.                                                                *)
LEMMA VerifyStepSolo ==
  ASSUME Alone, Inv, Solo, NEW p \in Procs, VerifyStep(p)
  PROVE  Solo' /\ Frozen
<1>t. /\ loc[p] \in Locals /\ LocOK(pc[p], loc[p]) /\ DirTypeOK /\ Current(pc[p], loc[p])
      /\ LocRest(p) = RestOf(loc[p])
  BY DEF Inv, TypeOK, Solo, LocRest, RestOf
<1>1. ASSUME NEW op \in {"verify", "finalize"}, NEW c \in Circuits, NEW t \in Ptaus,
             StartVerify(p, op, c, t)
      PROVE  Solo' /\ Frozen
  <2> DEFINE l == [NoLoc EXCEPT !.op = op, !.circuit = c, !.ptau = t]
  <2>1. Goto(p, "verify_meta", l) /\ UNCHANGED <<dir, recorded>>
    BY <1>1 DEF StartVerify
  <2>2. l.chain = <<>>
    BY DEF NoLoc
  <2> HIDE DEF l
  <2>3. Current("verify_meta", l)
    BY <2>2 DEF Current, Contributing, Finalizing
  <2> QED
    BY <2>1, <2>3, ReadingMoves
<1>2. ASSUME VerifyMeta(p) PROVE Solo' /\ Frozen
  <2> DEFINE l == [loc[p] EXCEPT !.seed = dir[CMETA].seed]
  <2>1. Goto(p, "verify_baseline", l) /\ UNCHANGED <<dir, recorded>> /\ pc[p] = "verify_meta"
    BY <1>2 DEF VerifyMeta
  <2>2. l.chain = <<>>
    BY <1>t, <2>1 DEF Current, Locals
  <2> HIDE DEF l
  <2>3. Current("verify_baseline", l)
    BY <2>2 DEF Current, Contributing, Finalizing
  <2> QED
    BY <2>1, <2>3, ReadingMoves
<1>3. ASSUME VerifyBaseline(p) PROVE Solo' /\ Frozen
  <2>1. /\ Goto(p, "verify_count", loc[p]) /\ UNCHANGED <<dir, recorded>>
        /\ pc[p] = "verify_baseline" /\ dir[BASELINE] = {loc[p].seed}
    BY <1>3 DEF VerifyBaseline
  <2>2. Current("verify_count", loc[p])
    BY <1>t, <2>1 DEF Current, Contributing, Finalizing
  <2> QED
    BY <2>1, <2>2, ReadingMoves
<1>4. ASSUME VerifyCount(p) PROVE Solo' /\ Frozen
  <2> DEFINE l == [loc[p] EXCEPT !.count = dir[COUNT]]
  <2>1. /\ Goto(p, "verify_contributions", l) /\ UNCHANGED <<dir, recorded>>
        /\ pc[p] = "verify_count" /\ Readable(COUNT)
    BY <1>4 DEF VerifyCount
  <2>2. l.count = dir[COUNT] /\ l.chain = <<>> /\ dir[BASELINE] = {l.seed}
    BY <1>t, <2>1 DEF Current, Locals
  <2> HIDE DEF l
  <2>3. Current("verify_contributions", l)
    BY <2>1, <2>2 DEF Current, Contributing, Finalizing
  <2> QED
    BY <2>1, <2>3, ReadingMoves
<1>5. ASSUME VerifyReadContribution(p) PROVE Solo' /\ Frozen
  <2> DEFINE i == Len(loc[p].chain) + 1
             l == [loc[p] EXCEPT !.chain = Append(@, dir[Att(i)])]
  <2>1. /\ Goto(p, "verify_contributions", l) /\ UNCHANGED <<dir, recorded>>
        /\ pc[p] = "verify_contributions" /\ Readable(Att(i)) /\ i - 1 < loc[p].count
    BY <1>5 DEF VerifyReadContribution
  <2>2. /\ Readable(COUNT) /\ loc[p].count = dir[COUNT] /\ dir[BASELINE] = {loc[p].seed}
        /\ \A j \in 1..Len(loc[p].chain) : Readable(Att(j)) /\ loc[p].chain[j] = dir[Att(j)]
    BY <1>t, <2>1 DEF Current
  <2>3. loc[p].chain \in Seq(Contribution) /\ Len(loc[p].chain) \in Nat
        /\ loc[p].count \in 0..MaxCount
    BY <1>t DEF Locals
  <2>4. dir[Att(i)] \in Contribution
    <3>1. i \in 1..MaxCount
      BY <2>1, <2>3, CeremonyAssumption
    <3> QED
      BY <1>t, <2>1, <3>1, ReadTypes
  <2>5. l.chain = Append(loc[p].chain, dir[Att(i)]) /\ l.count = loc[p].count
        /\ l.seed = loc[p].seed
    BY <1>t DEF Locals
  <2>6. Len(l.chain) = i /\ l.chain[i] = dir[Att(i)]
        /\ \A j \in 1..Len(loc[p].chain) : l.chain[j] = loc[p].chain[j]
    BY <2>3, <2>4, <2>5
  <2>7. \A j \in 1..Len(l.chain) : Readable(Att(j)) /\ l.chain[j] = dir[Att(j)]
    <3>1. \A j \in 1..i : j \in 1..Len(loc[p].chain) \/ j = i
      BY <2>3
    <3> HIDE DEF l, i
    <3> QED
      BY <2>1, <2>2, <2>6, <3>1
  <2> HIDE DEF l, i
  <2>8. Current("verify_contributions", l)
    BY <2>2, <2>5, <2>7 DEF Current, Contributing, Finalizing
  <2> QED
    BY <2>1, <2>8, ReadingMoves
<1>6. ASSUME VerifyCheckChain(p) PROVE Solo' /\ Frozen
  <2>1. /\ Goto(p, "verify_pk", loc[p]) /\ UNCHANGED <<dir, recorded>>
        /\ pc[p] = "verify_contributions" /\ Len(loc[p].chain) = loc[p].count
    BY <1>6 DEF VerifyCheckChain
  <2>2. Current("verify_pk", loc[p])
    BY <1>t, <2>1 DEF Current, Contributing, Finalizing
  <2> QED
    BY <2>1, <2>2, ReadingMoves
<1>7. ASSUME VerifyReadPk(p) PROVE Solo' /\ Frozen
  <2> DEFINE l == [loc[p] EXCEPT !.pk = dir[PK]]
  <2>1. /\ Goto(p, "verify_vk", l) /\ UNCHANGED <<dir, recorded>>
        /\ pc[p] = "verify_pk" /\ Readable(PK)
    BY <1>7 DEF VerifyReadPk
  <2>2. l.pk = dir[PK] /\ l.chain = loc[p].chain /\ l.count = loc[p].count
        /\ l.seed = loc[p].seed
    BY <1>t DEF Locals
  <2> HIDE DEF l
  <2>3. Current("verify_vk", l)
    BY <1>t, <2>1, <2>2 DEF Current, Contributing, Finalizing
  <2> QED
    BY <2>1, <2>3, ReadingMoves
<1>8. ASSUME VerifyKeys(p) PROVE Solo' /\ Frozen
  <2> DEFINE l == [loc[p] EXCEPT !.vk = dir[VK]]
             step == IF loc[p].op = "finalize" THEN "finalize_meta" ELSE "verified"
  <2>1. /\ Goto(p, step, l) /\ UNCHANGED <<dir, recorded>>
        /\ pc[p] = "verify_vk" /\ Readable(VK)
        /\ KeysConsistentWithChain(loc[p].pk, dir[VK], {loc[p].seed}, loc[p].chain)
        /\ KeysMatchInitial(loc[p].pk, dir[VK], LocRest(p))
    BY <1>8 DEF VerifyKeys
  <2>2. /\ l \in Locals /\ l.pk = loc[p].pk /\ l.vk = dir[VK] /\ l.chain = loc[p].chain
        /\ l.count = loc[p].count /\ l.seed = loc[p].seed /\ RestOf(l) = RestOf(loc[p])
        /\ dir[VK] \in VerifyingKey
    <3>1. dir[VK] \in VerifyingKey
      BY <1>t, <2>1, ReadTypes
    <3> QED
      BY <1>t, <3>1 DEF Locals, RestOf
  <2> HIDE DEF l
  <2>3. /\ Readable(PK) /\ Readable(VK) /\ Readable(COUNT) /\ l.pk = dir[PK]
        /\ dir[COUNT] = l.count /\ Len(l.chain) = l.count /\ dir[BASELINE] = {l.seed}
        /\ \A i \in 1..Len(l.chain) : Readable(Att(i)) /\ l.chain[i] = dir[Att(i)]
    BY <1>t, <2>1, <2>2 DEF Current
  <2>4. l.chain \in Seq(Contribution) /\ l.seed \in Seeds /\ l.pk \in ProvingKey /\ Checked(l)
    BY <1>t, <2>1, <2>2 DEF LocOK, Locals, Checked, RestOf, Rest
  <2>5. DirChain = l.chain
    BY <2>3, <2>4 DEF DirChain
  <2>6. /\ l.pk.g1 = {l.seed} \cup ChainSecrets(l.chain) /\ l.pk.vk = l.vk
        /\ l.pk.hl = {l.seed} \cup ChainSecrets(l.chain)
        /\ l.vk.g2 = {l.seed} \cup ChainSecrets(l.chain)
    <3>1. LET delta == {l.seed} \cup ChainSecrets(l.chain)
          IN /\ l.pk = [rest |-> RestOf(l), vk |-> l.vk, g1 |-> delta, hl |-> delta]
             /\ l.vk = [rest |-> RestOf(l), g2 |-> delta]
             /\ Zero \notin delta
      BY <2>2, <2>4, ChecksAreSound
    <3> DEFINE delta == {l.seed} \cup ChainSecrets(l.chain)
    <3>2. l.pk = [rest |-> RestOf(l), vk |-> l.vk, g1 |-> delta, hl |-> delta]
          /\ l.vk = [rest |-> RestOf(l), g2 |-> delta]
      BY <3>1
    <3> HIDE DEF delta
    <3>3. l.pk.g1 = delta /\ l.pk.vk = l.vk /\ l.pk.hl = delta
      BY <3>2
    <3>4. l.vk.g2 = delta
      BY <3>2
    <3> QED
      BY <3>3, <3>4 DEF delta
  <2>7. Vouched
    <3>1. DirExplained
      BY <2>2, <2>3, <2>4, <2>5, <2>6 DEF DirExplained, Checked
    <3> QED
      BY <2>2, <2>3, <2>5, <2>6, <3>1 DEF Vouched
  <2>8. Current(step, l)
    BY <2>7 DEF Current, Contributing, Finalizing
  <2> HIDE DEF step
  <2> QED
    BY <2>1, <2>8, ReadingMoves
<1> QED
  BY <1>1, <1>2, <1>3, <1>4, <1>5, <1>6, <1>7, <1>8 DEF VerifyStep

(* `xark ceremony finalize`: the metadata describes what was verified.     *)
LEMMA FinalizeStepSolo ==
  ASSUME Alone, Inv, Solo, NEW p \in Procs, FinalizeStep(p)
  PROVE  Solo' /\ Frozen
<1>t. /\ loc[p] \in Locals /\ LocOK(pc[p], loc[p]) /\ DirTypeOK /\ Current(pc[p], loc[p])
      /\ Kept
  BY DEF Inv, TypeOK, Solo
<1>1. ASSUME FinalizeMeta(p) PROVE Solo' /\ Frozen
  <2> DEFINE l == [loc[p] EXCEPT !.circuit = dir[CMETA].circuit]
  <2>1. Goto(p, "finalize_keys", l) /\ UNCHANGED <<dir, recorded>> /\ pc[p] = "finalize_meta"
    BY <1>1 DEF FinalizeMeta
  <2> HIDE DEF l
  <2>2. Vouched
    BY <1>t, <2>1 DEF Current, Finalizing
  <2>3. Current("finalize_keys", l)
    BY <2>2 DEF Current, Contributing
  <2> QED
    BY <2>1, <2>3, ReadingMoves
<1>2. ASSUME FinalizeLoadKeys(p) PROVE Solo' /\ Frozen
  <2>1. Goto(p, "finalize_hash", loc[p]) /\ UNCHANGED <<dir, recorded>>
        /\ pc[p] = "finalize_keys"
    BY <1>2 DEF FinalizeLoadKeys
  <2>2. Vouched
    BY <1>t, <2>1 DEF Current, Finalizing
  <2>3. Current("finalize_hash", loc[p])
    BY <2>2 DEF Current, Contributing
  <2> QED
    BY <2>1, <2>3, ReadingMoves
<1>3. ASSUME FinalizeHashVk(p) PROVE Solo' /\ Frozen
  <2> DEFINE l == [loc[p] EXCEPT !.hashed = dir[VK]]
  <2>1. Goto(p, "finalize_count", l) /\ UNCHANGED <<dir, recorded>> /\ pc[p] = "finalize_hash"
    BY <1>3 DEF FinalizeHashVk
  <2>2. Vouched /\ l.hashed = dir[VK]
    BY <1>t, <2>1 DEF Current, Finalizing, Locals
  <2> HIDE DEF l
  <2>3. Current("finalize_count", l)
    BY <2>2 DEF Current, Contributing
  <2> QED
    BY <2>1, <2>3, ReadingMoves
<1>4. ASSUME FinalizeCount(p) PROVE Solo' /\ Frozen
  <2> DEFINE l == [loc[p] EXCEPT !.count = dir[COUNT]]
  <2>1. Goto(p, "finalize_write", l) /\ UNCHANGED <<dir, recorded>> /\ pc[p] = "finalize_count"
    BY <1>4 DEF FinalizeCount
  <2>2. Vouched /\ l.hashed = dir[VK] /\ l.count = dir[COUNT]
    BY <1>t, <2>1 DEF Current, Finalizing, Locals
  <2> HIDE DEF l
  <2>3. Current("finalize_write", l)
    BY <2>2 DEF Current, Contributing
  <2> QED
    BY <2>1, <2>3, ReadingMoves
<1>5. ASSUME FinalizeWrite(p) PROVE Solo' /\ Frozen
  <2> DEFINE m == [circuit |-> loc[p].circuit, vk |-> loc[p].hashed,
                   contributors |-> loc[p].count]
  <2>1. /\ pc[p] = "finalize_write" /\ dir' = [dir EXCEPT ![METADATA] = m]
        /\ Goto(p, "idle", NoLoc) /\ recorded' = recorded
    BY <1>5 DEF FinalizeWrite
  <2>2. Vouched /\ m.vk = dir[VK] /\ m.contributors = dir[COUNT]
    BY <1>t, <2>1 DEF Current, Finalizing
  <2> HIDE DEF m
  <2>3. dir'[METADATA] = m /\ \A g \in Names : g # METADATA => dir'[g] = dir[g]
    BY <1>t, <2>1, FinalNames DEF DirTypeOK
  <2>4. SameCounted
    <3>1. dir[COUNT] \in 0..MaxCount
      BY <1>t, <2>2, ReadTypes DEF Vouched
    <3>2. \A i \in 1..dir[COUNT] : Att(i) \in Names /\ Att(i) # METADATA
      BY <3>1, FinalNames, NamesDistinct, CeremonyAssumption
    <3> QED
      BY <2>3, <3>2, FinalNames, NamesDistinct DEF SameCounted
  <2>5. Vouched' /\ RecordedKept' /\ ZeroFree'
    BY <1>t, <2>1, <2>2, <2>4, CountedStays DEF Kept
  <2>6. /\ dir'[METADATA].vk = dir'[VK] /\ dir'[METADATA].contributors = dir'[COUNT]
        /\ \A x \in recorded' : x \in dir'[VK].g2
    BY <2>2, <2>3, <2>4, <2>5 DEF SameCounted, RecordedKept
  <2>7. MetadataDescribesKeys'
    BY <2>5, <2>6 DEF MetadataDescribesKeys, Vouched
  <2>8. Frozen
    BY <2>4 DEF Frozen, SameCounted
  <2> QED
    BY <2>1, <2>5, <2>7, <2>8, IdleIsCurrent, AloneMoves DEF Kept
<1> QED
  BY <1>1, <1>2, <1>3, <1>4, <1>5 DEF FinalizeStep

(* A command that stops leaves at most the file it was writing torn.       *)
LEMMA StopSolo ==
  ASSUME Alone, Inv, Solo, NEW p \in Procs, Stop(p)
  PROVE  Solo' /\ Frozen
<1>t. /\ loc[p] \in Locals /\ LocOK(pc[p], loc[p]) /\ DirTypeOK /\ Current(pc[p], loc[p])
      /\ Kept /\ LocRest(p) = RestOf(loc[p])
  BY DEF Inv, TypeOK, Solo, LocRest, RestOf
<1>1. Goto(p, "idle", NoLoc) /\ recorded' = recorded
  BY DEF Stop
<1>2. SUFFICES Kept' /\ Frozen
  BY <1>1, IdleIsCurrent, AloneMoves
<1>3. CASE UNCHANGED dir
  <2>1. Kept'
    BY <1>t, <1>1, <1>3 DEF Kept, RecordedKept, MetadataDescribesKeys, ZeroFree, Readable,
       Exists, DirExplained, DirChain
  <2> QED
    BY <1>3, <2>1 DEF Frozen
<1>4. ASSUME NEW f \in BeingWritten(p), dir' = [dir EXCEPT ![f] = Torn]
      PROVE  Kept' /\ Frozen
  <2>1. CASE pc[p] = "init_write"
    <3>1. LocRest(p) \in Rest /\ loc[p].k \in 1..5
      BY <1>t, <2>1 DEF LocOK
    <3>2. f = InitWrites(LocRest(p))[loc[p].k][1]
      BY <1>4, <2>1 DEF BeingWritten
    <3>3. f \in Names
      BY <3>1, <3>2, InitWritesTypes
    <3>4. f # METADATA
      <4>1. f \in {BASELINE, PK, VK, COUNT, CMETA}
        BY <3>1, <3>2 DEF InitWrites
      <4> QED
        BY <4>1, NamesDistinct
    <3>5. recorded' = {} /\ ~ Exists(METADATA)
      BY <1>t, <1>1, <2>1 DEF Current
    <3>6. dir'[f] = Torn /\ \A g \in Names : g # f => dir'[g] = dir[g]
      BY <1>t, <1>4, <3>3 DEF DirTypeOK
    <3>7. ZeroFree' /\ ~ Exists(METADATA)'
      BY <1>t, <3>4, <3>5, <3>6, FinalNames DEF Kept, ZeroFree, Readable, Exists
    <3> QED
      BY <3>5, <3>7, NothingPromised DEF Frozen
  <2>2. CASE pc[p] = "contribute_write"
    <3>1. f = ContributeWrites(loc[p])[loc[p].k][1] /\ loc[p].k \in 1..4
      BY <1>t, <1>4, <2>2 DEF BeingWritten, LocOK
    <3>2. /\ f \in Names /\ f \notin {BASELINE, COUNT, METADATA, PK, VK}
          /\ \A i \in Nat : f # Att(i)
      BY <1>t, <2>2, <3>1, ContributeWritesTypes, TemporaryNames DEF LocOK
    <3> QED
      BY <1>t, <1>1, <1>4, <3>2, TemporaryWrite
  <2>3. CASE pc[p] = "finalize_write"
    <3>1. f = METADATA /\ Vouched
      BY <1>t, <1>4, <2>3 DEF BeingWritten, Current, Finalizing
    <3>2. dir'[METADATA] = Torn /\ \A g \in Names : g # METADATA => dir'[g] = dir[g]
      BY <1>t, <1>4, <3>1, FinalNames DEF DirTypeOK
    <3>3. SameCounted
      <4>1. dir[COUNT] \in 0..MaxCount
        BY <1>t, <3>1, ReadTypes DEF Vouched
      <4>2. \A i \in 1..dir[COUNT] : Att(i) \in Names /\ Att(i) # METADATA
        BY <4>1, FinalNames, NamesDistinct, CeremonyAssumption
      <4> QED
        BY <3>2, <4>2, FinalNames, NamesDistinct DEF SameCounted
    <3>4. RecordedKept' /\ ZeroFree'
      BY <1>t, <1>1, <3>3, CountedStays DEF Kept
    <3>5. MetadataDescribesKeys'
      BY <3>2 DEF MetadataDescribesKeys, Readable
    <3> QED
      BY <3>3, <3>4, <3>5 DEF Kept, Frozen, SameCounted
  <2>4. CASE pc[p] \notin {"init_write", "contribute_write", "finalize_write"}
    BY <1>4, <2>4 DEF BeingWritten
  <2> QED
    BY <2>1, <2>2, <2>3, <2>4
<1> QED
  BY <1>3, <1>4 DEF Stop

(* The induction step.                                                     *)
LEMMA SoloKeeps ==
  ASSUME Alone, Inv, Solo, [Next]_vars
  PROVE  Solo' /\ Frozen
<1>1. CASE UNCHANGED vars
  <2>1. Kept'
    BY <1>1 DEF vars, Solo, Kept, RecordedKept, MetadataDescribesKeys, ZeroFree, Readable,
       Exists, DirExplained, DirChain
  <2>2. \A step, l : Current(step, l) => Current(step, l)'
    BY <1>1 DEF vars, Current, ExistingFiles, Exists, Readable, Placed, Vouched, DirExplained,
       DirChain
  <2>3. pc' = pc /\ loc' = loc
    BY <1>1 DEF vars
  <2> QED
    BY <1>1, <2>1, <2>2, <2>3 DEF Solo, Frozen, vars
<1>2. CASE Next
  BY <1>2, InitStepSolo, ContributeStepSolo, VerifyStepSolo, FinalizeStepSolo, StopSolo DEF Next
<1> QED
  BY <1>1, <1>2

(* Nothing is recorded, nothing finalized, and no key exists.              *)
LEMMA InitSolo == Init => Solo
<1> SUFFICES ASSUME Init PROVE Solo
  OBVIOUS
<1>1. ~ Exists(METADATA) /\ ~ Exists(PK) /\ ~ Exists(VK) /\ recorded = {}
  BY FinalNames DEF Init, Exists
<1>2. Kept
  BY <1>1 DEF Kept, RecordedKept, MetadataDescribesKeys, ZeroFree, Readable, Exists
<1>3. \A p \in Procs : \A step \in {pc[p]}, l \in {loc[p]} : Current(step, l)
  BY DEF Init, Current, Contributing, Finalizing
<1> QED
  BY <1>2, <1>3 DEF Solo

(* A contribution that was reported as recorded stays in both keys and     *)
(* keeps its attestation among the counted ones, wherever the commands     *)
(* that follow it are interrupted, until an init discards the ceremony     *)
(* (run_contribute's order of renames).                                    *)
THEOREM ContributionsKept ==
  ASSUME Alone
  PROVE  Spec => []RecordedKept
<1>1. Inv /\ Solo /\ [Next]_vars => Solo'
  BY SoloKeeps
<1>2. Solo => RecordedKept
  BY DEF Solo, Kept
<1> QED
  BY InitInv, StepKeeps, InitSolo, <1>1, <1>2, PTL DEF Spec

(* A complete metadata.json names exactly the verifying key beside it, the *)
(* proving key matches, and the counted attestations explain both          *)
(* (run_finalize after run_verify).                                        *)
THEOREM MetadataTruthful ==
  ASSUME Alone
  PROVE  Spec => []MetadataDescribesKeys
<1>1. Inv /\ Solo /\ [Next]_vars => Solo'
  BY SoloKeeps
<1>2. Solo => MetadataDescribesKeys
  BY DEF Solo, Kept
<1> QED
  BY InitInv, StepKeeps, InitSolo, <1>1, <1>2, PTL DEF Spec

(* Once finalized, the keys change only after metadata.json is gone        *)
(* (run_contribute's refusal, and init's order of removal).                *)
THEOREM KeysFrozen ==
  ASSUME Alone
  PROVE  Spec => FinalizedKeysFrozen
<1>1. Inv /\ Solo /\ [Next]_vars => Solo'
  BY SoloKeeps
<1>2. Inv /\ Solo /\ [Next]_vars =>
        [Exists(METADATA) /\ Exists(METADATA)' =>
           dir'[PK] = dir[PK] /\ dir'[VK] = dir[VK]]_vars
  BY SoloKeeps DEF Frozen
<1> QED
  BY InitInv, StepKeeps, InitSolo, <1>1, <1>2, PTL DEF Spec, FinalizedKeysFrozen
=============================================================================
