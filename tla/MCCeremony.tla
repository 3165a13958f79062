----------------------------- MODULE MCCeremony -----------------------------
(***************************************************************************)
(* `xark ceremony verify` over a directory that was edited after its       *)
(* contributions.  The directory passes from hand to hand, so any of its   *)
(* files may have been replaced: a field of a key or both keys, an         *)
(* attestation altered or moved, the count, the baseline or the recorded   *)
(* seed.  What nobody can do is prove knowledge of a secret that is not    *)
(* his: an altered attestation keeps the proof it had unless its secret is *)
(* one of Known.  Up to MaxEdits edits are combined.  Beside these         *)
(* directories, the specification has the behaviours of all four commands  *)
(* from an empty directory, which nothing else writes to (live).           *)
(***************************************************************************)
EXTENDS Ceremony, SequencesExt

CONSTANTS
  Known,      \* secrets of the editor's own (Zero among them)
  EditedRest, \* the initial keys of the directories that are edited
  EditedCount,\* bound on their contributions
  MaxEdits    \* bound on the edits of one behaviour

ASSUME EditedAssumption ==
  /\ Known \subseteq Secrets \cup {Zero}
  /\ EditedRest \subseteq Rest
  /\ EditedCount \in 0..MaxCount
  /\ MaxEdits \in Nat

VARIABLES
  live,       \* the commands start from an empty directory
  edits,      \* edits made so far
  genuine     \* the statements the contributors made their proofs for

evars == <<vars, live, edits, genuine>>

CONSTANTS s1
OneSeed == {rest \in Rest : rest.seed = s1}

(* Contributors who are not the editor are interchangeable.                *)
Contributors == Permutations(Secrets \ Known)

(* The directory after the contributions xs, in that order, on `rest`.     *)
After(rest, xs, i) == {rest.seed} \cup {xs[j] : j \in 1..i}

Link(rest, xs, i) ==
  [prev |-> After(rest, xs, i - 1), new |-> After(rest, xs, i), d |-> xs[i]]

HonestDir(rest, xs) ==
  LET delta == After(rest, xs, Len(xs))
      vk    == [rest |-> rest, g2 |-> delta]
  IN [f \in Names |->
        CASE f = BASELINE -> {rest.seed}
          [] f = CMETA    -> [circuit |-> rest.circuit, seed |-> rest.seed]
          [] f = COUNT    -> Len(xs)
          [] f = VK       -> vk
          [] f = PK       -> [rest |-> rest, vk |-> vk, g1 |-> delta, hl |-> delta]
          [] f \in {Att(i) : i \in 1..Len(xs)} ->
               [prev  |-> Link(rest, xs, f[2]).prev, new |-> Link(rest, xs, f[2]).new,
                d     |-> xs[f[2]], proof |-> Link(rest, xs, f[2])]
          [] OTHER        -> Absent]

EditedInit ==
  \E rest \in EditedRest, n \in 0..EditedCount : \E xs \in [1..n -> Secrets \ Known] :
    /\ IsInjective(xs)
    /\ dir = HonestDir(rest, xs)
    /\ genuine = {Link(rest, xs, i) : i \in 1..n}
    /\ pc = [p \in Procs |-> "idle"]
    /\ loc = [p \in Procs |-> NoLoc]
    /\ used = Range(xs)
    /\ recorded = {}
    /\ live = FALSE /\ edits = 0

LiveInit == Init /\ live = TRUE /\ edits = 0 /\ genuine = {}

(* The deltas an edit may put in place: zero absorbs every other factor.   *)
Deltas ==
  {{Zero}} \cup SUBSET (Secrets \cup {rest.seed : rest \in EditedRest})

EditedPk(k) ==
       {[k EXCEPT !.g1 = d] : d \in Deltas} \cup {[k EXCEPT !.hl = d] : d \in Deltas}
  \cup {[k EXCEPT !.vk.g2 = d] : d \in Deltas} \cup {[k EXCEPT !.rest = r] : r \in EditedRest}
  \cup {[k EXCEPT !.vk.rest = r] : r \in EditedRest}

EditedVk(k) == {[k EXCEPT !.g2 = d] : d \in Deltas} \cup {[k EXCEPT !.rest = r] : r \in EditedRest}

(* A field changed, or a whole link restated, under the old proof; or a    *)
(* link of the editor's own, with a proof for it.                          *)
Restated(c, d, x) == [c EXCEPT !.prev = d, !.new = Times(d, x), !.d = x]
OwnLink(d, x)     == Attestation([g1 |-> d], x)

EditedAttestation(c) ==
       {[c EXCEPT !.prev = d] : d \in Deltas} \cup {[c EXCEPT !.new = d] : d \in Deltas}
  \cup {[c EXCEPT !.d = x] : x \in Secrets \cup {Zero}}
  \cup {Restated(c, d, x) : d \in Deltas, x \in Secrets \cup {Zero}}
  \cup {OwnLink(d, x) : d \in {e \in Deltas : e \cap Known = {}}, x \in Known}

EditedFile(f) ==
  CASE f = PK       -> EditedPk(dir[f])
    [] f = VK       -> EditedVk(dir[f])
    [] f = COUNT    -> 0..MaxCount
    [] f = BASELINE -> Deltas
    [] f = CMETA    -> CircuitMeta
    [] OTHER        -> EditedAttestation(dir[f])
                         \cup ({dir[Att(i)] : i \in 1..MaxCount} \ {Absent})

Edit ==
  /\ ~ live /\ edits < MaxEdits
  /\ \A p \in Procs : pc[p] = "idle"
  /\ \/ \E f \in {PK, VK, COUNT, BASELINE, CMETA} \cup {Att(i) : i \in 1..MaxCount} :
          /\ Readable(f)
          /\ \E content \in EditedFile(f) : dir' = [dir EXCEPT ![f] = content]
     \/ \E d \in Deltas :
          dir' = [dir EXCEPT ![VK].g2 = d, ![PK].vk.g2 = d, ![PK].g1 = d, ![PK].hl = d]
  /\ edits' = edits + 1
  /\ UNCHANGED <<pc, loc, used, recorded, live, genuine>>

CeremonyNext ==
  \/ Edit
  \/ live /\ Next /\ UNCHANGED <<live, edits, genuine>>
  \/ ~ live /\ (\E p \in Procs : VerifyStep(p) \/ Stop(p)) /\ UNCHANGED <<live, edits, genuine>>

CeremonySpec == (LiveInit \/ EditedInit) /\ [][CeremonyNext]_evars

(* An accepted attestation (verify_chain) is either of the editor's own    *)
(* secret or a statement its contributor really made, for that place in    *)
(* the chain: proofs cannot be moved to another delta.                     *)
AcceptedLinksGenuine ==
  \A p \in Procs : ~ live /\ pc[p] = "verified" =>
    \A i \in 1..Len(loc[p].chain) :
      LET c == loc[p].chain[i] IN
      c.d \in Known \/ [prev |-> c.prev, new |-> c.new, d |-> c.d] \in genuine
=============================================================================
