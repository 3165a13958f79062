---------------------------- MODULE EditedProofs ----------------------------
(***************************************************************************)
(* Proofs about MCCeremony, for any number of contributions and of edits,  *)
(* any secrets of the editor's own and any builds and transcripts: in a    *)
(* directory whose files were replaced after the contributions, what       *)
(* `xark ceremony verify` accepts is still sound, and every link of its    *)
(* chain was made by the contributor who knows the link's secret.          *)
(***************************************************************************)
EXTENDS MCCeremony, CeremonyProofs

-----------------------------------------------------------------------------
(* Edits keep the types.                                                   *)

(* The deltas an edit chooses from, and their products with a secret.      *)
LEMMA EditedDeltas ==
  /\ Deltas \subseteq Delta
  /\ \A d \in Delta, x \in Secrets \cup {Zero} : Times(d, x) \in Delta
  /\ Known \subseteq Secrets \cup {Zero}
  /\ EditedRest \subseteq Rest
<1>1. EditedRest \subseteq Rest /\ Known \subseteq Secrets \cup {Zero}
  BY EditedAssumption
<1>2. \A rest \in EditedRest : rest.seed \in Seeds
  BY <1>1 DEF Rest
<1>3. Deltas \subseteq Delta
  BY <1>2 DEF Deltas, Delta
<1>4. \A d \in Delta, x \in Secrets \cup {Zero} : Times(d, x) \in Delta
  BY DEF Times, Delta
<1> QED
  BY <1>1, <1>3, <1>4

LEMMA EditedPkType ==
  ASSUME NEW k \in ProvingKey
  PROVE  EditedPk(k) \subseteq ProvingKey
<1>1. ASSUME NEW d \in Delta
      PROVE  /\ [k EXCEPT !.g1 = d] \in ProvingKey /\ [k EXCEPT !.hl = d] \in ProvingKey
             /\ [k EXCEPT !.vk.g2 = d] \in ProvingKey
  BY DEF ProvingKey, VerifyingKey
<1>2. ASSUME NEW r \in Rest
      PROVE  [k EXCEPT !.rest = r] \in ProvingKey /\ [k EXCEPT !.vk.rest = r] \in ProvingKey
  BY DEF ProvingKey, VerifyingKey
<1> QED
  BY <1>1, <1>2, EditedDeltas DEF EditedPk

LEMMA EditedVkType ==
  ASSUME NEW k \in VerifyingKey
  PROVE  EditedVk(k) \subseteq VerifyingKey
<1>1. ASSUME NEW d \in Delta PROVE [k EXCEPT !.g2 = d] \in VerifyingKey
  BY DEF VerifyingKey
<1>2. ASSUME NEW r \in Rest PROVE [k EXCEPT !.rest = r] \in VerifyingKey
  BY DEF VerifyingKey
<1> QED
  BY <1>1, <1>2, EditedDeltas DEF EditedVk

(* The proof an attestation carries is of the editor's own secret, or was  *)
(* made by a contributor.                                                  *)
VouchedFor(c) == c.proof.d \in Known \/ c.proof \in genuine

(* An altered attestation keeps its proof unless it is the editor's own.   *)
LEMMA EditedAttestationType ==
  ASSUME NEW c \in Contribution, NEW a \in EditedAttestation(c)
  PROVE  a \in Contribution /\ (a.proof = c.proof \/ a.proof.d \in Known)
<1>1. ASSUME NEW d \in Deltas, NEW x \in Secrets \cup {Zero}
      PROVE  Restated(c, d, x) \in Contribution /\ Restated(c, d, x).proof = c.proof
  <2>1. d \in Delta /\ Times(d, x) \in Delta
    BY EditedDeltas
  <2> QED BY <2>1 DEF Contribution, Restated
<1>2. ASSUME NEW d \in Deltas, NEW x \in Known
      PROVE  OwnLink(d, x) \in Contribution /\ OwnLink(d, x).proof.d \in Known
  <2>1. d \in Delta /\ x \in Secrets \cup {Zero} /\ Times(d, x) \in Delta
    BY EditedDeltas
  <2> QED BY <2>1 DEF Contribution, Statement, OwnLink, Attestation
<1> DEFINE Fields == {[c EXCEPT !.prev = d] : d \in Deltas} \cup {[c EXCEPT !.new = d] : d \in Deltas}
                       \cup {[c EXCEPT !.d = x] : x \in Secrets \cup {Zero}}
           Links  == {Restated(c, d, x) : d \in Deltas, x \in Secrets \cup {Zero}}
           Owns   == {OwnLink(d, x) : d \in {e \in Deltas : e \cap Known = {}}, x \in Known}
<1>3. a \in Fields \/ a \in Links \/ a \in Owns
  BY DEF EditedAttestation
<1>4. ASSUME a \in Fields PROVE a \in Contribution /\ a.proof = c.proof
  <2>1. CASE \E d \in Deltas : a = [c EXCEPT !.prev = d] \/ a = [c EXCEPT !.new = d]
    <3>1. PICK d \in Deltas : a = [c EXCEPT !.prev = d] \/ a = [c EXCEPT !.new = d]
      BY <2>1
    <3> QED BY <3>1, EditedDeltas DEF Contribution
  <2>2. CASE \E x \in Secrets \cup {Zero} : a = [c EXCEPT !.d = x]
    BY <2>2 DEF Contribution
  <2> QED BY <1>4, <2>1, <2>2
<1>5. a \in Links => a \in Contribution /\ a.proof = c.proof
  BY <1>1
<1>6. a \in Owns => a \in Contribution /\ a.proof.d \in Known
  BY <1>2
<1> QED
  BY <1>3, <1>4, <1>5, <1>6

-----------------------------------------------------------------------------
(* The inductive invariant.                                                *)

(* The steps a command can be at in an edited directory: verify's own.     *)
VerifyPcs ==
  {"idle", "verify_meta", "verify_baseline", "verify_count", "verify_contributions", "verify_pk",
   "verify_vk", "verified", "finalize_meta"}

(* In a directory that was edited the keys are there, nothing but verify   *)
(* runs, and every attestation, in a file or already read, is vouched for. *)
Edited ==
  ~ live =>
    /\ dir[PK] \in ProvingKey /\ dir[VK] \in VerifyingKey
    /\ \A p \in Procs : pc[p] \in VerifyPcs
    /\ \A i \in 1..MaxCount : dir[Att(i)] # Absent => Readable(Att(i)) /\ VouchedFor(dir[Att(i)])
    /\ \A p \in Procs : \A i \in 1..Len(loc[p].chain) : VouchedFor(loc[p].chain[i])

EInv == Inv /\ Edited

(* No key, count or seed is taken for an attestation.                      *)
LEMMA AttNames ==
  /\ {PK, VK, COUNT, BASELINE, CMETA} \subseteq Names
  /\ \A i \in 1..MaxCount : /\ Att(i) \in Names /\ i \in Nat
                            /\ Att(i) \notin {PK, VK, COUNT, BASELINE, CMETA}
  /\ \A i, j \in 1..MaxCount : Att(i) = Att(j) => i = j
  /\ PK # VK
<1>1. \A i \in 1..MaxCount : i \in Nat
  OBVIOUS
<1> QED
  BY <1>1, NamesDistinct DEF Names, Att

(* Any one file replaced by another of its kind.                           *)
LEMMA EditFile ==
  ASSUME EInv, ~ live, UNCHANGED <<pc, loc, used, recorded, live, genuine>>,
         NEW f \in {PK, VK, COUNT, BASELINE, CMETA} \cup {Att(i) : i \in 1..MaxCount},
         Readable(f), NEW content \in EditedFile(f), dir' = [dir EXCEPT ![f] = content]
  PROVE  EInv'
<1>1. f \in Names /\ DOMAIN dir = Names /\ DirTypeOK
  BY AttNames DEF EInv, Inv, TypeOK, DirTypeOK
<1>2. CASE f \in {PK, VK, COUNT, BASELINE, CMETA}
  <2>1. /\ f = PK => content \in ProvingKey
        /\ f = VK => content \in VerifyingKey
        /\ Holds(f, content)
    <3>0. /\ f = PK => content \in EditedPk(dir[f])
          /\ f = VK => content \in EditedVk(dir[f])
          /\ f = COUNT => content \in 0..MaxCount
          /\ f = BASELINE => content \in Deltas
          /\ f = CMETA => content \in CircuitMeta
      <4>1. /\ f = PK => f \notin {VK, COUNT, BASELINE, CMETA}
            /\ f = VK => f \notin {PK, COUNT, BASELINE, CMETA}
            /\ f = COUNT => f \notin {PK, VK, BASELINE, CMETA}
            /\ f = BASELINE => f \notin {PK, VK, COUNT, CMETA}
            /\ f = CMETA => f \notin {PK, VK, COUNT, BASELINE}
        BY NamesDistinct
      <4> QED BY <4>1 DEF EditedFile
    <3>1. PK # VK /\ dir[PK] \in ProvingKey /\ dir[VK] \in VerifyingKey
      BY AttNames DEF EInv, Edited
    <3>2. /\ f = PK => content \in ProvingKey
          /\ f = VK => content \in VerifyingKey
          /\ f = BASELINE => content \in Delta
      BY <3>0, <3>1, EditedPkType, EditedVkType, EditedDeltas
    <3> QED BY <1>2, <3>0, <3>2, HoldsByName
  <2>2. DirTypeOK'
    BY <1>1, <2>1, WriteKeeps
  <2>3. /\ dir'[PK] \in ProvingKey /\ dir'[VK] \in VerifyingKey
        /\ \A i \in 1..MaxCount : dir'[Att(i)] = dir[Att(i)]
    BY <1>1, <1>2, <2>1, AttNames DEF EInv, Edited
  <2> QED BY <2>2, <2>3 DEF EInv, Inv, TypeOK, Edited, Readable, VouchedFor
<1>3. ASSUME NEW i \in 1..MaxCount, f = Att(i)
      PROVE  EInv'
  <2>1. f \notin {PK, VK, COUNT, BASELINE, CMETA} /\ dir[f] \in Contribution
    BY <1>1, <1>3, AttNames, ReadTypes
  <2>2. content \in Contribution /\ VouchedFor(content)
    <3>1. content \in EditedAttestation(dir[f]) \cup ({dir[Att(j)] : j \in 1..MaxCount} \ {Absent})
      BY <2>1 DEF EditedFile
    <3>2. CASE content \in EditedAttestation(dir[f])
      BY <1>3, <2>1, <3>2, EditedAttestationType DEF VouchedFor, EInv, Edited, Readable
    <3>3. CASE \E j \in 1..MaxCount : content = dir[Att(j)] /\ content # Absent
      <4>1. PICK j \in 1..MaxCount : content = dir[Att(j)] /\ content # Absent
        BY <3>3
      <4>2. Readable(Att(j))
        BY <4>1 DEF EInv, Edited
      <4> QED BY <4>1, <4>2, <1>1, ReadTypes DEF EInv, Edited
    <3> QED BY <3>1, <3>2, <3>3
  <2>3. DirTypeOK'
    BY <1>1, <1>3, <2>2, HoldsByName, WriteKeeps
  <2>4. /\ dir'[PK] = dir[PK] /\ dir'[VK] = dir[VK]
        /\ dir'[f] = content /\ \A j \in 1..MaxCount : Att(j) # f => dir'[Att(j)] = dir[Att(j)]
    BY <1>1, <2>1, AttNames
  <2>5. \A j \in 1..MaxCount : dir'[Att(j)] # Absent => Readable(Att(j))' /\ VouchedFor(dir'[Att(j)])
    <3>1. content \notin {Absent, Torn}
      BY <2>2, ContentAssumption
    <3> QED BY <2>2, <2>4, <3>1 DEF EInv, Edited, Readable
  <2> QED BY <2>3, <2>4, <2>5 DEF EInv, Inv, TypeOK, Edited, VouchedFor
<1> QED
  BY <1>2, <1>3

(* Both keys replaced.                                                     *)
LEMMA KeysReplaced ==
  ASSUME EInv, ~ live, UNCHANGED <<pc, loc, used, recorded, live, genuine>>,
         NEW vk \in VerifyingKey, NEW pk \in ProvingKey,
         DOMAIN dir' = Names, dir'[VK] = vk, dir'[PK] = pk,
         \A f \in Names \ {PK, VK} : dir'[f] = dir[f]
  PROVE  EInv'
<1>1. {PK, VK} \subseteq Names /\ PK # VK /\ DOMAIN dir = Names /\ DirTypeOK
  BY AttNames DEF EInv, Inv, TypeOK, DirTypeOK
<1>2. DirTypeOK'
  <2>1. \A f \in Names : Holds(f, dir'[f])
    BY <1>1, DirByName, HoldsByName
  <2>2. /\ {BASELINE, CMETA, COUNT, METADATA, PK, VK, Tmp(COUNT), Tmp(PK), Tmp(VK)}
             \subseteq Names
        /\ \A i \in 1..MaxCount : Att(i) \in Names /\ Tmp(Att(i)) \in Names
    BY DEF Names
  <2> QED BY <2>1, <2>2 DEF DirTypeOK, Holds
<1>3. /\ dir'[PK] \in ProvingKey /\ dir'[VK] \in VerifyingKey
      /\ \A i \in 1..MaxCount : dir'[Att(i)] = dir[Att(i)]
  BY AttNames
<1> QED
  BY <1>2, <1>3 DEF EInv, Inv, TypeOK, Edited, Readable, VouchedFor

(* As an edit gives both another delta.                                    *)
LEMMA EditKeys ==
  ASSUME EInv, ~ live, UNCHANGED <<pc, loc, used, recorded, live, genuine>>, NEW d \in Deltas,
         dir' = [dir EXCEPT ![VK].g2 = d, ![PK].vk.g2 = d, ![PK].g1 = d, ![PK].hl = d]
  PROVE  EInv'
<1>1. {PK, VK} \subseteq Names /\ PK # VK /\ DOMAIN dir = Names
  BY AttNames DEF EInv, Inv, TypeOK, DirTypeOK
<1>2. d \in Delta /\ dir[PK] \in ProvingKey /\ dir[VK] \in VerifyingKey
  BY EditedDeltas DEF EInv, Edited
<1>3. /\ [dir[VK] EXCEPT !.g2 = d] \in VerifyingKey
      /\ [dir[PK] EXCEPT !.vk.g2 = d, !.g1 = d, !.hl = d] \in ProvingKey
  BY <1>2 DEF VerifyingKey, ProvingKey
<1>4. /\ DOMAIN dir' = Names
      /\ dir'[VK] = [dir[VK] EXCEPT !.g2 = d]
      /\ dir'[PK] = [dir[PK] EXCEPT !.vk.g2 = d, !.g1 = d, !.hl = d]
      /\ \A f \in Names \ {PK, VK} : dir'[f] = dir[f]
  BY <1>1
<1> QED
  BY Zenon, <1>3, <1>4, KeysReplaced

-----------------------------------------------------------------------------
(* The commands, in an edited directory and in one of their own.           *)

(* verify writes nothing, wherever it is, and reads attestations in order. *)
LEMMA VerifyOnlyReads ==
  ASSUME EInv, ~ live, NEW p \in Procs, VerifyStep(p) \/ Stop(p), UNCHANGED <<live, edits, genuine>>
  PROVE  Edited'
<1>1. pc \in [Procs -> Steps] /\ loc \in [Procs -> Locals] /\ pc[p] \in VerifyPcs
      /\ loc[p].chain \in Seq(Contribution) /\ loc[p].count \in 0..MaxCount
  BY DEF EInv, Inv, TypeOK, Edited, Locals
<1>2. dir' = dir
  <2>1. CASE VerifyStep(p)
    BY <2>1 DEF VerifyStep, StartVerify, VerifyMeta, VerifyBaseline, VerifyCount,
                VerifyReadContribution, VerifyCheckChain, VerifyReadPk, VerifyKeys
  <2>2. CASE Stop(p)
    <3>1. BeingWritten(p) = {}
      BY <1>1 DEF BeingWritten, VerifyPcs
    <3> QED BY <2>2, <3>1 DEF Stop
  <2> QED BY <2>1, <2>2
<1>3. PICK step, l : Goto(p, step, l) /\ step \in VerifyPcs
                     /\ (l.chain = loc[p].chain \/ l.chain = <<>>
                         \/ \E i \in 1..MaxCount : /\ i = Len(loc[p].chain) + 1 /\ Readable(Att(i))
                                                   /\ l.chain = Append(loc[p].chain, dir[Att(i)]))
  <2>1. CASE Stop(p)
    BY <2>1 DEF Stop, NoLoc, VerifyPcs
  <2>2. CASE VerifyReadContribution(p)
    <3> DEFINE n == Len(loc[p].chain) + 1
               l == [loc[p] EXCEPT !.chain = Append(@, dir[Att(n)])]
    <3>1. n \in 1..MaxCount
      <4>1. Len(loc[p].chain) \in Nat /\ Len(loc[p].chain) < loc[p].count
        BY <1>1, <2>2 DEF VerifyReadContribution
      <4> QED BY <1>1, <4>1, CeremonyAssumption
    <3>2. Goto(p, "verify_contributions", l) /\ Readable(Att(n))
      BY <2>2 DEF VerifyReadContribution
    <3>3. l.chain = Append(loc[p].chain, dir[Att(n)])
      BY <1>1 DEF Locals
    <3> HIDE DEF n, l
    <3>4. n = Len(loc[p].chain) + 1
      BY DEF n
    <3> QED BY <3>1, <3>2, <3>3, <3>4 DEF VerifyPcs
  <2>3. CASE \E op \in {"verify", "finalize"}, c \in Circuits, t \in Ptaus : StartVerify(p, op, c, t)
    <3>1. PICK op, c, t : StartVerify(p, op, c, t)
      BY <2>3
    <3> DEFINE l == [NoLoc EXCEPT !.op = op, !.circuit = c, !.ptau = t]
    <3>2. Goto(p, "verify_meta", l)
      BY <3>1 DEF StartVerify
    <3>3. l.chain = <<>>
      BY DEF NoLoc
    <3> HIDE DEF l
    <3> QED BY <3>2, <3>3 DEF VerifyPcs
  <2>4. CASE VerifyMeta(p)
    BY <1>1, <2>4 DEF VerifyMeta, VerifyPcs, Locals
  <2>5. CASE VerifyBaseline(p) \/ VerifyCheckChain(p)
    BY <2>5 DEF VerifyBaseline, VerifyCheckChain, VerifyPcs
  <2>6. CASE VerifyCount(p)
    BY <1>1, <2>6 DEF VerifyCount, VerifyPcs, Locals
  <2>7. CASE VerifyReadPk(p)
    BY <1>1, <2>7 DEF VerifyReadPk, VerifyPcs, Locals
  <2>8. CASE VerifyKeys(p)
    BY <1>1, <2>8 DEF VerifyKeys, VerifyPcs, Locals
  <2> QED BY <2>1, <2>2, <2>3, <2>4, <2>5, <2>6, <2>7, <2>8 DEF VerifyStep
<1>4. \A i \in 1..Len(l.chain) : VouchedFor(l.chain[i])
  <2>1. CASE l.chain = loc[p].chain
    BY <2>1 DEF EInv, Edited
  <2>2. CASE l.chain = <<>>
    BY <2>2
  <2>3. ASSUME NEW i \in 1..MaxCount, i = Len(loc[p].chain) + 1, Readable(Att(i)),
               l.chain = Append(loc[p].chain, dir[Att(i)])
        PROVE  \A j \in 1..Len(l.chain) : VouchedFor(l.chain[j])
    <3>1. VouchedFor(dir[Att(i)])
      BY <2>3 DEF EInv, Edited, Readable
    <3>2. Len(l.chain) = i /\ l.chain[i] = dir[Att(i)]
          /\ \A j \in 1..Len(loc[p].chain) : l.chain[j] = loc[p].chain[j]
      BY <1>1, <2>3
    <3>3. \A j \in 1..Len(l.chain) : j = i \/ j \in 1..Len(loc[p].chain)
      BY <1>1, <2>3, <3>2
    <3>4. \A j \in 1..Len(loc[p].chain) : VouchedFor(loc[p].chain[j])
      BY DEF EInv, Edited
    <3> QED BY <3>1, <3>2, <3>3, <3>4
  <2> QED BY <1>3, <2>1, <2>2, <2>3
<1>5. /\ pc'[p] = step /\ loc'[p] = l
      /\ \A q \in Procs \ {p} : pc'[q] = pc[q] /\ loc'[q] = loc[q]
  BY <1>1, <1>3 DEF Goto
<1>6. \A q \in Procs : pc'[q] \in VerifyPcs
  BY <1>3, <1>5 DEF EInv, Edited
<1>7. \A q \in Procs : \A i \in 1..Len(loc'[q].chain) : VouchedFor(loc'[q].chain[i])
  BY <1>4, <1>5 DEF EInv, Edited
<1> QED
  BY <1>2, <1>6, <1>7 DEF EInv, Edited, Readable, VouchedFor

LEMMA ENext ==
  ASSUME EInv, [CeremonyNext]_evars
  PROVE  EInv'
<1>1. CASE Edit
  <2>1. ~ live /\ UNCHANGED <<pc, loc, used, recorded, live, genuine>>
    BY <1>1 DEF Edit
  <2> QED BY <1>1, <2>1, EditFile, EditKeys DEF Edit
<1>2. CASE live /\ Next /\ UNCHANGED <<live, edits, genuine>>
  BY <1>2, StepKeeps DEF EInv, Edited
<1>3. ASSUME ~ live, NEW p \in Procs, VerifyStep(p) \/ Stop(p), UNCHANGED <<live, edits, genuine>>
      PROVE  EInv'
  <2>1. Next
    BY <1>3 DEF Next
  <2> QED BY <1>3, <2>1, StepKeeps, VerifyOnlyReads DEF EInv
<1>4. CASE UNCHANGED evars
  <2>1. UNCHANGED vars /\ UNCHANGED <<live, genuine>>
    BY <1>4 DEF evars
  <2>2. Inv'
    BY <2>1, StepKeeps DEF EInv
  <2> QED BY <2>1, <2>2 DEF EInv, Edited, Readable, VouchedFor, vars
<1> QED
  BY <1>1, <1>2, <1>3, <1>4 DEF CeremonyNext

(* A directory with its contributions, before any edit.                    *)
LEMMA EditedFirst == EditedInit => EInv
<1> SUFFICES ASSUME EditedInit PROVE EInv
  OBVIOUS
<1>1. PICK rest \in EditedRest, n \in 0..EditedCount : \E xs \in [1..n -> Secrets \ Known] :
        /\ dir = HonestDir(rest, xs)
        /\ genuine = {Link(rest, xs, i) : i \in 1..n}
        /\ pc = [q \in Procs |-> "idle"] /\ loc = [q \in Procs |-> NoLoc]
        /\ used = Range(xs) /\ recorded = {} /\ live = FALSE
  BY Zenon DEF EditedInit
<1>2. PICK xs \in [1..n -> Secrets \ Known] :
        /\ dir = HonestDir(rest, xs)
        /\ genuine = {Link(rest, xs, i) : i \in 1..n}
        /\ pc = [q \in Procs |-> "idle"] /\ loc = [q \in Procs |-> NoLoc]
        /\ used = Range(xs) /\ recorded = {} /\ live = FALSE
  BY <1>1
<1>3. /\ rest \in Rest /\ rest.seed \in Seeds /\ n \in Nat /\ n <= MaxCount /\ Len(xs) = n
      /\ 1..n \subseteq 1..MaxCount /\ DOMAIN xs = 1..n
  <2>1. rest \in Rest /\ n \in Nat /\ n <= MaxCount
    BY EditedDeltas, EditedAssumption, CeremonyAssumption
  <2>2. rest.seed \in Seeds /\ 1..n \subseteq 1..MaxCount
    BY <2>1, CeremonyAssumption DEF Rest
  <2>3. xs \in Seq(Secrets) /\ DOMAIN xs = 1..n
    BY <2>1
  <2>4. Len(xs) = n
    BY <2>1, <2>3
  <2> QED BY <2>1, <2>2, <2>3, <2>4
<1>4. \A i \in 0..n : After(rest, xs, i) \in Delta
  BY <1>3 DEF After, Delta
<1>5. \A i \in 1..n : Link(rest, xs, i) \in Statement /\ xs[i] \in Secrets
  <2> TAKE i \in 1..n
  <2>1. i \in 0..n /\ i - 1 \in 0..n
    BY <1>3
  <2> QED BY <1>4, <2>1 DEF Link, Statement
<1> DEFINE delta == After(rest, xs, n)
           vk == [rest |-> rest, g2 |-> delta]
           pk == [rest |-> rest, vk |-> vk, g1 |-> delta, hl |-> delta]
           link(i) == [prev |-> Link(rest, xs, i).prev, new |-> Link(rest, xs, i).new,
                       d |-> xs[i], proof |-> Link(rest, xs, i)]
<1>6. vk \in VerifyingKey /\ pk \in ProvingKey /\ \A i \in 1..n : link(i) \in Contribution
  <2>1. delta \in Delta
    BY <1>3, <1>4
  <2>2. vk \in VerifyingKey
    BY <1>3, <2>1 DEF VerifyingKey
  <2>3. pk \in ProvingKey
    BY <1>3, <2>1, <2>2 DEF ProvingKey
  <2>4. \A i \in 1..n : link(i) \in Contribution
    BY <1>5 DEF Statement, Contribution
  <2> QED BY <2>2, <2>3, <2>4
<1>7. /\ DOMAIN dir = Names
      /\ dir[BASELINE] = {rest.seed}
      /\ dir[CMETA] = [circuit |-> rest.circuit, seed |-> rest.seed]
      /\ dir[COUNT] = n /\ dir[VK] = vk /\ dir[PK] = pk
      /\ \A i \in 1..n : dir[Att(i)] = link(i)
      /\ \A f \in Names \ ({BASELINE, CMETA, COUNT, VK, PK} \cup {Att(i) : i \in 1..n}) :
           dir[f] = Absent
  <2> DEFINE Content(f) ==
        CASE f = BASELINE -> {rest.seed}
          [] f = CMETA    -> [circuit |-> rest.circuit, seed |-> rest.seed]
          [] f = COUNT    -> n
          [] f = VK       -> vk
          [] f = PK       -> pk
          [] f \in {Att(i) : i \in 1..n} -> link(f[2])
          [] OTHER        -> Absent
  <2>1. dir = [f \in Names |-> Content(f)]
    BY <1>2, <1>3 DEF HonestDir
  <2>2. DOMAIN dir = Names /\ \A f \in Names : dir[f] = Content(f)
    BY <2>1
  <2> HIDE DEF vk, pk, link, delta
  <2>3. /\ Content(BASELINE) = {rest.seed}
        /\ Content(CMETA) = [circuit |-> rest.circuit, seed |-> rest.seed]
        /\ Content(COUNT) = n /\ Content(VK) = vk /\ Content(PK) = pk
    BY NamesDistinct, <1>3, AttNames
  <2>4. ASSUME NEW i \in 1..n PROVE Content(Att(i)) = link(i)
    <3>1. Att(i) \notin {PK, VK, COUNT, BASELINE, CMETA} /\ Att(i)[2] = i
      BY <1>3, AttNames DEF Att
    <3> QED BY <3>1
  <2>5. ASSUME NEW f \in Names \ ({BASELINE, CMETA, COUNT, VK, PK} \cup {Att(i) : i \in 1..n})
        PROVE  Content(f) = Absent
    OBVIOUS
  <2> HIDE DEF Content
  <2> QED BY <1>3, <2>2, <2>3, <2>4, <2>5, AttNames
<1>8. DirTypeOK
  <2>1. \A i \in 1..n : Holds(Att(i), link(i))
    BY <1>3, <1>6, HoldsByName
  <2>2. {rest.seed} \in Delta /\ n \in 0..MaxCount
        /\ [circuit |-> rest.circuit, seed |-> rest.seed] \in CircuitMeta
    BY <1>3 DEF Delta, CircuitMeta, Rest
  <2>3. /\ Holds(BASELINE, {rest.seed}) /\ Holds(COUNT, n) /\ Holds(VK, vk) /\ Holds(PK, pk)
        /\ Holds(CMETA, [circuit |-> rest.circuit, seed |-> rest.seed])
    BY <1>6, <2>2, HoldsByName
  <2> HIDE DEF vk, pk, link
  <2>4. ASSUME NEW f \in Names PROVE Holds(f, dir[f])
    <3>1. CASE f \in {BASELINE, CMETA, COUNT, VK, PK}
      BY <3>1, <1>7, <2>3
    <3>2. CASE f \in {Att(i) : i \in 1..n}
      BY <3>2, <1>7, <2>1
    <3>3. CASE f \notin {BASELINE, CMETA, COUNT, VK, PK} \cup {Att(i) : i \in 1..n}
      BY <3>3, <1>7, HoldsByName
    <3> QED BY <3>1, <3>2, <3>3
  <2> QED BY <1>7, <2>4, DirByName
<1>9. Inv
  <2>1. used \subseteq Secrets /\ recorded = {}
    BY <1>2, <1>5, <1>3 DEF Range
  <2>2. pc \in [Procs -> Steps] /\ loc \in [Procs -> Locals]
    BY <1>2, NoLocOK DEF Steps
  <2>3. \A p \in Procs : LocOK(pc[p], loc[p])
    BY <1>2, NoLocOK
  <2> QED BY <1>8, <2>1, <2>2, <2>3 DEF Inv, TypeOK
<1>10. ASSUME NEW i \in 1..MaxCount, dir[Att(i)] # Absent
       PROVE  Readable(Att(i)) /\ VouchedFor(dir[Att(i)])
  <2>1. i \in 1..n
    BY <1>7, <1>10, <1>3, AttNames
  <2>2. dir[Att(i)] = link(i) /\ link(i).proof \in genuine /\ link(i) \notin {Absent, Torn}
    BY <1>2, <1>6, <1>7, <2>1, ContentAssumption
  <2> QED BY <1>7, <2>2, AttNames DEF Readable, VouchedFor
<1>11. \A p \in Procs : pc[p] \in VerifyPcs /\ Len(loc[p].chain) = 0
  BY <1>2 DEF NoLoc, VerifyPcs
<1> QED
  BY <1>6, <1>7, <1>9, <1>10, <1>11 DEF EInv, Edited

LEMMA EFirst == LiveInit \/ EditedInit => EInv
<1>1. LiveInit => EInv
  BY InitInv DEF LiveInit, EInv, Edited
<1> QED
  BY <1>1, EditedFirst

-----------------------------------------------------------------------------

(* Whoever replaced which files, a verify that accepts has read keys that  *)
(* are the recomputed initial keys with delta multiplied by exactly the    *)
(* secrets of the chain it read (run_verify).                              *)
THEOREM EditedSound == CeremonySpec => []AcceptedSound
<1>1. EInv /\ [CeremonyNext]_evars => EInv'
  BY ENext
<1>2. EInv => AcceptedSound
  BY ReadSound DEF EInv
<1> QED
  BY EFirst, <1>1, <1>2, PTL DEF CeremonySpec

(* And every link of that chain is of a secret of the editor's own or the  *)
(* very statement a contributor proved: attestations cannot be altered,    *)
(* nor moved to another delta (verify_chain, Schnorr's proof).             *)
THEOREM LinksGenuine == CeremonySpec => []AcceptedLinksGenuine
<1>1. EInv /\ [CeremonyNext]_evars => EInv'
  BY ENext
<1>2. EInv => AcceptedLinksGenuine
  <2> SUFFICES ASSUME EInv, NEW p \in Procs, ~ live, pc[p] = "verified",
                      NEW i \in 1..Len(loc[p].chain)
               PROVE  LET c == loc[p].chain[i] IN
                      c.d \in Known \/ [prev |-> c.prev, new |-> c.new, d |-> c.d] \in genuine
    BY DEF AcceptedLinksGenuine
  <2> DEFINE c == loc[p].chain[i]
  <2>1. Checked(loc[p])
    BY DEF EInv, Inv, LocOK
  <2>2. SchnorrValid(c)
    BY <2>1 DEF Checked, VerifyChain, ValidLink
  <2>3. VouchedFor(c)
    BY DEF EInv, Edited
  <2> QED BY <2>2, <2>3 DEF SchnorrValid, VouchedFor
<1> QED
  BY EFirst, <1>1, <1>2, PTL DEF CeremonySpec

=============================================================================
