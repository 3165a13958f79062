------------------------------ MODULE KeyStore ------------------------------
(***************************************************************************)
(* The key directory shared by `xark setup`, `xark prove` and `xark        *)
(* export` (crates/cli/src/commands/{setup,prove,export}.rs): pk.bin,      *)
(* vk.bin and the metadata.json that says what they may be used for, the   *)
(* r1cs.stream and pk.decoded.bin caches, the proof, and the exported      *)
(* verifier crate.  Commands run as processes that may stop between any    *)
(* two file operations; nothing locks the directory.                       *)
(*                                                                         *)
(* A key is the identity of the setup run that drew its trapdoor, with the *)
(* circuit and R1CS form it was generated for; points are not modelled.    *)
(* The prover's self-check accepts exactly when the rows it proves from    *)
(* are the rows the key was made for and the points it read are the key's. *)
(***************************************************************************)
EXTENDS Naturals, FiniteSets

CONSTANTS
  Procs,        \* running commands
  SetupProcs,   \* those that may run `xark setup` itself
  Builds,       \* circuit.xbc files: [digest, rustc]
  MaxKeys,      \* bound on the setups run
  BuildRaces,   \* whether `xark build` may run while another command does
  Absent,       \* no such file
  Torn          \* a file whose write was interrupted

ASSUME KeyStoreAssumption ==
  /\ SetupProcs \subseteq Procs
  /\ MaxKeys \in Nat
  /\ BuildRaces \in BOOLEAN
  /\ Absent # Torn

VARIABLES
  xbc,          \* the circuit.xbc in the build directory
  dir,          \* the key directory: name -> content
  crate,        \* the exported verifier crate: vk, sample proof, self-test
  pc, loc,      \* each command's step and memory
  keys,         \* setups that drew a trapdoor so far
  exported      \* verifying keys exported without --allow-insecure

vars == <<xbc, dir, crate, pc, loc, keys, exported>>

-----------------------------------------------------------------------------
Names == {"pk", "vk", "meta", "pk.tmp", "vk.tmp", "meta.tmp",
          "rows", "decoded", "decoded.tmp", "proof", "public"}

Forms == {"reduced", "minimized"}
Digests == {b.digest : b \in Builds}

(* A key, and whether pk.bin holds its points compressed.                 *)
Key == [id : 1..MaxKeys, digest : Digests, form : Forms, safe : BOOLEAN,
        compressed : BOOLEAN]

Exists(f)   == dir[f] # Absent
Readable(f) == dir[f] \notin {Absent, Torn}

NoLoc == [op |-> "none", build |-> Absent, key |-> Absent, digest |-> Absent, k |-> 0,
          auto |-> FALSE, cache |-> FALSE, allow |-> FALSE, hashed |-> Absent,
          kind |-> "none", described |-> FALSE, rows |-> "none", pk |-> Absent,
          full |-> TRUE, teed |-> FALSE, vk |-> Absent, sample |-> Absent]

Goto(p, step, l) ==
  /\ pc'  = [pc EXCEPT ![p] = step]
  /\ loc' = [loc EXCEPT ![p] = l]

Put(f, content) == dir' = [dir EXCEPT ![f] = content]

(* key_fit: what metadata.json says of the key, against a circuit.xbc.     *)
KeyFit(build) ==
  IF ~ Readable("meta") THEN "Same"
  ELSE IF dir["meta"].hash = build THEN "Same"
  ELSE IF dir["meta"].digest = build.digest THEN "SameCircuit"
  ELSE "Different"

ProductionSafe == Readable("meta") /\ dir["meta"].safe

-----------------------------------------------------------------------------
(* `xark build`, seen from here: another circuit.xbc, or none (it failed). *)
Rebuild ==
  /\ BuildRaces \/ \A p \in Procs : pc[p] = "idle"
  /\ \E b \in Builds \cup {Absent} : b # xbc /\ xbc' = b
  /\ UNCHANGED <<dir, crate, pc, loc, keys, exported>>

-----------------------------------------------------------------------------
(* `xark setup`.  The plan fixes the circuit and draws the trapdoor; the   *)
(* digest is computed from circuit.xbc read again.                         *)
PlanSetup(p, mode, form, compressed, auto, cache) ==
  /\ xbc # Absent
  /\ keys < MaxKeys
  /\ keys' = keys + 1
  /\ Goto(p, "setup_rows",
          [NoLoc EXCEPT !.op = "setup", !.build = xbc, !.auto = auto, !.cache = cache,
             !.key = [id |-> keys + 1, digest |-> xbc.digest, form |-> form,
                      safe |-> mode = "ptau", compressed |-> compressed]])
  /\ UNCHANGED <<xbc, dir, crate, exported>>

StartSetup(p, mode, form, compressed) ==
  /\ pc[p] = "idle" /\ p \in SetupProcs
  /\ PlanSetup(p, mode, form, compressed, FALSE, FALSE)

(* The mark a row file gets: the digest, or the build's own hash if        *)
(* circuit.xbc can no longer be read.                                      *)
RowMark(p) == IF xbc = Absent THEN loc[p].build ELSE xbc.digest

(* r1cs.stream: written in place, best effort, for a minimized key only.   *)
SetupRows(p) ==
  /\ pc[p] = "setup_rows"
  /\ IF loc[p].key.form = "minimized"
       THEN \/ Put("rows", [mark |-> RowMark(p), digest |-> loc[p].build.digest])
            \/ Put("rows", Torn)                   \* reported, not an error
       ELSE UNCHANGED dir
  /\ Goto(p, "setup_digest", loc[p])
  /\ UNCHANGED <<xbc, crate, keys, exported>>

SetupDigest(p) ==
  /\ pc[p] = "setup_digest"
  /\ Goto(p, "setup_pk",
          [loc[p] EXCEPT !.digest = IF xbc = Absent THEN Absent ELSE xbc.digest])
  /\ UNCHANGED <<xbc, dir, crate, keys, exported>>

SetupPk(p) ==
  /\ pc[p] = "setup_pk"
  /\ Put("pk.tmp", loc[p].key)
  /\ Goto(p, "setup_vk", loc[p])
  /\ UNCHANGED <<xbc, crate, keys, exported>>

SetupVk(p) ==
  /\ pc[p] = "setup_vk"
  /\ Put("vk.tmp", loc[p].key)
  /\ Goto(p, "setup_hash", loc[p])
  /\ UNCHANGED <<xbc, crate, keys, exported>>

SetupHash(p) ==
  /\ pc[p] = "setup_hash"
  /\ Exists("vk.tmp")
  /\ Goto(p, "setup_meta", [loc[p] EXCEPT !.hashed = dir["vk.tmp"]])
  /\ UNCHANGED <<xbc, dir, crate, keys, exported>>

SetupMeta(p) ==
  /\ pc[p] = "setup_meta"
  /\ Put("meta.tmp", [hash |-> loc[p].build, digest |-> loc[p].digest,
                      form |-> loc[p].key.form, safe |-> loc[p].key.safe,
                      vk |-> loc[p].hashed])
  /\ Goto(p, "setup_unmark", loc[p])
  /\ UNCHANGED <<xbc, crate, keys, exported>>

SetupUnmark_Skipped(p) ==
  /\ pc[p] = "setup_unmark"
  /\ Goto(p, "setup_rename", [loc[p] EXCEPT !.k = 1])
  /\ UNCHANGED <<xbc, dir, crate, keys, exported>>

(* The old metadata goes first, so that no new key is ever beside it.      *)
SetupUnmark(p) ==
  /\ pc[p] = "setup_unmark"
  /\ Put("meta", Absent)
  /\ Goto(p, "setup_rename", [loc[p] EXCEPT !.k = 1])
  /\ UNCHANGED <<xbc, crate, keys, exported>>

SetupOrder == << <<"pk.tmp", "pk">>, <<"vk.tmp", "vk">>, <<"meta.tmp", "meta">> >>

(* An automatic setup (autobuild_and_setup) goes on with the proof.        *)
SetupRename(p) ==
  LET from == SetupOrder[loc[p].k][1]
      to   == SetupOrder[loc[p].k][2]
  IN /\ pc[p] = "setup_rename"
     /\ Exists(from)
     /\ dir' = [dir EXCEPT ![to] = dir[from], ![from] = Absent]
     /\ IF loc[p].k < 3 THEN Goto(p, "setup_rename", [loc[p] EXCEPT !.k = @ + 1])
        ELSE IF loc[p].auto
               THEN Goto(p, "prove_form", [NoLoc EXCEPT !.op = "prove", !.cache = loc[p].cache])
               ELSE Goto(p, "idle", NoLoc)
     /\ UNCHANGED <<xbc, crate, keys, exported>>

-----------------------------------------------------------------------------
(* `xark prove`.  Without a key it makes a dev one first.                  *)
StartProve(p, cache) ==
  /\ pc[p] = "idle"
  /\ xbc # Absent
  /\ IF Exists("pk")
       THEN /\ Goto(p, "prove_form", [NoLoc EXCEPT !.op = "prove", !.cache = cache])
            /\ UNCHANGED <<xbc, dir, crate, keys, exported>>
       ELSE \E form \in Forms : PlanSetup(p, "dev", form, TRUE, TRUE, cache)

(* Where the rows come from: the metadata says; else an r1cs.stream if     *)
(* there is one; else the key's size, which tells nothing of another       *)
(* circuit's key.                                                          *)
ProveForm(p) ==
  /\ pc[p] = "prove_form"
  /\ \/ /\ Readable("meta")
        /\ Goto(p, "prove_fit", [loc[p] EXCEPT !.kind = dir["meta"].form])
     \/ /\ ~ Readable("meta") /\ Exists("rows")
        /\ Goto(p, "prove_fit", [loc[p] EXCEPT !.kind = "minimized"])
     \/ /\ ~ Readable("meta") /\ ~ Exists("rows") /\ xbc # Absent /\ Readable("pk")
        /\ \E form \in Forms :
             /\ dir["pk"].digest = xbc.digest => form = dir["pk"].form
             /\ Goto(p, "prove_fit", [loc[p] EXCEPT !.kind = form])
  /\ UNCHANGED <<xbc, dir, crate, keys, exported>>

ProveFit(p) ==
  /\ pc[p] = "prove_fit"
  /\ xbc # Absent
  /\ KeyFit(xbc) # "Different"
  /\ Goto(p, "prove_rows", [loc[p] EXCEPT !.build = xbc, !.described = Readable("meta")])
  /\ UNCHANGED <<xbc, dir, crate, keys, exported>>

RowFileFits_Unchecked(build) == Readable("rows")

(* row_file_fits: marked with this circuit.xbc's hash or its digest.       *)
RowFileFits(build) == Readable("rows") /\ dir["rows"].mark \in {build, build.digest}

(* row_source: an r1cs.stream is used only if it parses and is marked for  *)
(* this circuit; else the rows are rebuilt (and with --cache rewritten).   *)
ProveRows(p) ==
  LET l == loc[p]
      use(d) == Goto(p, "prove_open", [l EXCEPT !.rows = d])
  IN /\ pc[p] = "prove_rows"
     /\ \/ /\ l.kind = "reduced" \/ RowFileFits(l.build)
           /\ use(IF l.kind = "reduced" THEN l.build.digest ELSE dir["rows"].digest)
           /\ UNCHANGED dir
        \/ /\ l.kind = "minimized" /\ ~ RowFileFits(l.build)
           /\ use(l.build.digest)
           /\ IF l.cache
                THEN Put("rows", [mark |-> l.build.digest, digest |-> l.build.digest])
                ELSE UNCHANGED dir
     /\ UNCHANGED <<xbc, crate, keys, exported>>

(* The decoded copy replaces a compressed pk.bin only if its header is the *)
(* same key's.                                                             *)
UsableDecoded(key) == key.compressed /\ Readable("decoded") /\ dir["decoded"].key = key

(* With --cache a decoded copy is written on the side while the key is     *)
(* read.  A copy still being written may not show its header yet.          *)
ProveOpen(p) ==
  LET key == dir["pk"] IN
  /\ pc[p] = "prove_open"
  /\ Readable("pk")
  /\ \/ /\ UsableDecoded(key)
        /\ Goto(p, "prove_run", [loc[p] EXCEPT !.pk = dir["decoded"].key,
                                              !.full = dir["decoded"].full])
        /\ UNCHANGED dir
     \/ /\ UsableDecoded(key) => ~ dir["decoded"].full
        /\ LET tee == loc[p].cache /\ key.compressed IN
           /\ Goto(p, "prove_run", [loc[p] EXCEPT !.pk = key, !.teed = tee])
           /\ IF tee THEN Put("decoded.tmp", [key |-> key, by |-> p, full |-> FALSE])
                     ELSE UNCHANGED dir
  /\ UNCHANGED <<xbc, crate, keys, exported>>

(* The proof verifies under the key's own vk.                              *)
SelfCheck(l) ==
  /\ l.full
  /\ l.pk.form = l.kind /\ l.pk.digest = l.rows /\ l.rows = l.build.digest

(* The copy p writes is complete once every vector was read, under         *)
(* whatever name it is by now.                                             *)
Finished(f, p) == IF Readable(f) /\ dir[f].by = p THEN [dir[f] EXCEPT !.full = TRUE]
                                                   ELSE dir[f]

ProveRun(p) ==
  /\ pc[p] = "prove_run"
  /\ SelfCheck(loc[p])
  /\ IF loc[p].teed
       THEN /\ dir' = [dir EXCEPT !["decoded.tmp"] = Finished("decoded.tmp", p),
                                  !["decoded"] = Finished("decoded", p)]
            /\ Goto(p, "prove_cache", loc[p])
       ELSE /\ UNCHANGED dir
            /\ Goto(p, "prove_proof", loc[p])
  /\ UNCHANGED <<xbc, crate, keys, exported>>

(* finish_tee: a copy whose writing failed is removed, and the proof still *)
(* stands.                                                                 *)
ProveCache(p) ==
  /\ pc[p] = "prove_cache"
  /\ \/ /\ Exists("decoded.tmp")
        /\ dir' = [dir EXCEPT !["decoded"] = dir["decoded.tmp"], !["decoded.tmp"] = Absent]
     \/ Put("decoded.tmp", Absent)
  /\ Goto(p, "prove_proof", loc[p])
  /\ UNCHANGED <<xbc, crate, keys, exported>>

Proof(l) == [key |-> l.pk, digest |-> l.build.digest]

(* The public inputs are those of the proof: both name the circuit proved. *)
ProveProof(p) ==
  /\ pc[p] = "prove_proof"
  /\ Put("proof", Proof(loc[p]))
  /\ Goto(p, "prove_public", loc[p])
  /\ UNCHANGED <<xbc, crate, keys, exported>>

ProvePublic(p) ==
  /\ pc[p] = "prove_public"
  /\ Put("public", loc[p].build.digest)
  /\ Goto(p, "idle", NoLoc)
  /\ UNCHANGED <<xbc, crate, keys, exported>>

-----------------------------------------------------------------------------
(* `xark export`.                                                          *)
StartExport(p, allow) ==
  /\ pc[p] = "idle"
  /\ Readable("vk")
  /\ Goto(p, "export_safe", [NoLoc EXCEPT !.op = "export", !.allow = allow, !.vk = dir["vk"]])
  /\ UNCHANGED <<xbc, dir, crate, keys, exported>>

ExportSafe_Skipped(p) ==
  /\ pc[p] = "export_safe"
  /\ Goto(p, "export_fit", loc[p])
  /\ UNCHANGED <<xbc, dir, crate, keys, exported>>

(* check_key_safe_for_export *)
ExportSafe(p) ==
  /\ pc[p] = "export_safe"
  /\ loc[p].allow \/ ProductionSafe
  /\ Goto(p, "export_fit", loc[p])
  /\ UNCHANGED <<xbc, dir, crate, keys, exported>>

ExportFit(p) ==
  /\ pc[p] = "export_fit"
  /\ xbc # Absent => KeyFit(xbc) # "Different"
  /\ Goto(p, "export_sample", loc[p])
  /\ UNCHANGED <<xbc, dir, crate, keys, exported>>

Verifies(vk, proof, public) == proof.key = vk /\ proof.digest = public

(* A proof of another key is left out; an unreadable one is an error.      *)
ExportSample(p) ==
  /\ pc[p] = "export_sample"
  /\ Exists("proof") => Readable("proof") /\ Readable("public")
  /\ Goto(p, "export_vk",
          [loc[p] EXCEPT !.sample =
             IF Exists("proof") /\ Verifies(loc[p].vk, dir["proof"], dir["public"])
               THEN dir["proof"] ELSE Absent])
  /\ UNCHANGED <<xbc, dir, crate, keys, exported>>

ExportVk(p) ==
  /\ pc[p] = "export_vk"
  /\ crate' = [crate EXCEPT !.vk = loc[p].vk]
  /\ exported' = IF loc[p].allow THEN exported ELSE exported \cup {loc[p].vk}
  /\ Goto(p, "export_write_sample", loc[p])
  /\ UNCHANGED <<xbc, dir, keys>>

(* Without a sample, an earlier export's is removed.                      *)
ExportWriteSample(p) ==
  /\ pc[p] = "export_write_sample"
  /\ crate' = [crate EXCEPT !.sample = loc[p].sample]
  /\ Goto(p, "export_lib", loc[p])
  /\ UNCHANGED <<xbc, dir, keys, exported>>

ExportLib(p) ==
  /\ pc[p] = "export_lib"
  /\ crate' = [crate EXCEPT !.test = loc[p].sample # Absent]
  /\ Goto(p, "idle", NoLoc)
  /\ UNCHANGED <<xbc, dir, keys, exported>>

-----------------------------------------------------------------------------
(* A command stops: interrupted, or a check or a file operation failed.    *)
(* The file it is writing in place is then torn.                           *)

BeingWritten(p) ==
  CASE pc[p] = "setup_rows" -> IF loc[p].key.form = "minimized" THEN {"rows"} ELSE {}
    [] pc[p] = "setup_pk"   -> {"pk.tmp"}
    [] pc[p] = "setup_vk"   -> {"vk.tmp"}
    [] pc[p] = "setup_meta" -> {"meta.tmp"}
    [] pc[p] = "prove_rows" -> IF loc[p].cache /\ loc[p].kind = "minimized"
                                  /\ ~ RowFileFits(loc[p].build) THEN {"rows"} ELSE {}
    [] pc[p] = "prove_proof"  -> {"proof"}
    [] pc[p] = "prove_public" -> {"public"}
    [] OTHER -> {}

Stop(p) ==
  /\ pc[p] # "idle"
  /\ Goto(p, "idle", NoLoc)
  /\ \/ UNCHANGED dir
     \/ \E f \in BeingWritten(p) : Put(f, Torn)
  /\ UNCHANGED <<xbc, crate, keys, exported>>

-----------------------------------------------------------------------------
Init ==
  /\ xbc \in Builds
  /\ dir = [f \in Names |-> Absent]
  /\ crate = [vk |-> Absent, sample |-> Absent, test |-> FALSE]
  /\ pc  = [p \in Procs |-> "idle"]
  /\ loc = [p \in Procs |-> NoLoc]
  /\ keys = 0
  /\ exported = {}

SetupGo(p) ==
  \/ SetupRows(p) \/ SetupDigest(p) \/ SetupPk(p) \/ SetupVk(p) \/ SetupHash(p)
  \/ SetupMeta(p) \/ SetupUnmark(p) \/ SetupRename(p)

SetupStep(p) ==
  \/ \E mode \in {"dev", "ptau"}, form \in Forms, compressed \in BOOLEAN :
       StartSetup(p, mode, form, compressed)
  \/ SetupGo(p)

ProveGo(p) ==
  \/ ProveForm(p) \/ ProveFit(p) \/ ProveRows(p) \/ ProveOpen(p) \/ ProveRun(p)
  \/ ProveCache(p) \/ ProveProof(p) \/ ProvePublic(p)

ProveStep(p) ==
  \/ \E cache \in BOOLEAN : StartProve(p, cache)
  \/ ProveGo(p)

ExportStep(p) ==
  \/ \E allow \in BOOLEAN : StartExport(p, allow)
  \/ ExportSafe(p) \/ ExportFit(p) \/ ExportSample(p)
  \/ ExportVk(p) \/ ExportWriteSample(p) \/ ExportLib(p)

Next ==
  \/ Rebuild
  \/ \E p \in Procs : SetupStep(p) \/ ProveStep(p) \/ ExportStep(p) \/ Stop(p)

Spec == Init /\ [][Next]_vars

-----------------------------------------------------------------------------
(* Properties.                                                             *)

Metadata == [hash : Builds, digest : Digests \cup {Absent}, form : Forms,
             safe : BOOLEAN, vk : Key \cup {Torn}]
Decoded  == [key : Key, by : Procs, full : BOOLEAN]
Rows     == [mark : Digests \cup Builds, digest : Digests]
Proven   == [key : Key, digest : Digests]
Missing  == {Absent, Torn}

(* A file that is absent or torn holds none of these, and no digest is a   *)
(* circuit.xbc.                                                            *)
ASSUME ContentAssumption ==
  /\ Digests \cap Builds = {}
  /\ \A x \in Missing : /\ x \notin Builds /\ x \notin Digests /\ x \notin Key /\ x \notin Metadata
                        /\ x \notin Decoded /\ x \notin Rows /\ x \notin Proven

(* Each file of the directory holds what its name says; only files that    *)
(* are written in place can be torn.                                       *)
TypeOK ==
  /\ xbc \in Builds \cup {Absent}
  /\ DOMAIN dir = Names
  /\ \A f \in {"pk", "vk"} : dir[f] \in Key \cup {Absent}
  /\ \A f \in {"pk.tmp", "vk.tmp"} : dir[f] \in Key \cup Missing
  /\ dir["meta"] \in Metadata \cup {Absent}
  /\ dir["meta.tmp"] \in Metadata \cup Missing
  /\ dir["rows"] \in Rows \cup Missing
  /\ \A f \in {"decoded", "decoded.tmp"} : dir[f] \in Decoded \cup {Absent}
  /\ dir["proof"] \in Proven \cup Missing
  /\ dir["public"] \in Digests \cup Missing
  /\ crate \in [vk : Key \cup {Absent}, test : BOOLEAN, sample : Proven \cup {Absent}]
  /\ keys \in 0..MaxKeys
  /\ exported \subseteq Key

(* What setup's comment promises: no interruption ever leaves a key beside *)
(* metadata that is not its own; a metadata.json, while it exists, names   *)
(* exactly the pk.bin and vk.bin beside it.                                *)
MetadataMatchesKeys ==
  Readable("meta") =>
    /\ Readable("pk") /\ Readable("vk")
    /\ dir["pk"] = dir["vk"] /\ dir["vk"] = dir["meta"].vk
    /\ dir["meta"].safe = dir["pk"].safe /\ dir["meta"].form = dir["pk"].form
    /\ dir["meta"].hash.digest = dir["pk"].digest

(* export refuses a dev-mode key unless told otherwise: no verifying key   *)
(* of a dev setup is ever written to a crate without --allow-insecure.     *)
ExportsOnlyProductionKeys == \A vk \in exported : vk.safe

(* A key whose metadata fits the build can always be proved with: no left- *)
(* over r1cs.stream, decoded copy or temporary file of an interrupted or   *)
(* earlier command gets in the way (row_source, the decoded key cache), so *)
(* a described key never fails prove's self-check.                         *)
DescribedKeyProves ==
  \A p \in Procs : pc[p] = "prove_run" /\ loc[p].described => SelfCheck(loc[p])

(* A finished export bundles a self-test exactly when it bundles a sample, *)
(* and that sample is a proof of the verifying key embedded beside it.     *)
FinishedExport(p) ==
  ExportLib(p) =>
    /\ crate'.test = (crate'.sample # Absent)
    /\ crate'.test => crate'.sample.key = crate'.vk

(* Both, of every crate an export writes (export.rs): whenever one is      *)
(* finished, its verifying key is a production key, and so were all those  *)
(* exported before it.                                                     *)
ExportsSound == [][ExportsOnlyProductionKeys' /\ \A p \in Procs : FinishedExport(p)]_vars

(* The key directory explains itself in every state: each file is what its *)
(* name says and the metadata is of the keys beside it.                    *)
DirectoryDescribed == TypeOK /\ MetadataMatchesKeys
=============================================================================
