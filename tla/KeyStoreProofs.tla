--------------------------- MODULE KeyStoreProofs ---------------------------
(***************************************************************************)
(* Proofs about KeyStore, for any processes, circuits, compilers and keys. *)
(* The commands share the key directory without a lock, and each writes    *)
(* beside and renames: the results need that certain commands do not       *)
(* overlap, as they may if nobody cares.                                   *)
(*   Described        metadata describes the keys: one setup at a time     *)
(*   ExportsCorrect   exports are sound: an export overlaps no other       *)
(*                    export and no setup                                  *)
(*   DescribedProves  a described key proves: one command at a time, and   *)
(*                    no rebuild of the circuit during it                  *)
(*   DescribedAlone   the same of the commands as MCKeyStore runs them     *)
(* Each inductive invariant contains the one before it: Typed, Setups      *)
(* (what a setup knows of the files it replaces), Exports and Matched      *)
(* (what an export, a proof knows of the key it opened).                   *)
(***************************************************************************)
EXTENDS MCKeyStore, TLAPS

SetupPcs  == {"setup_rows", "setup_digest", "setup_pk", "setup_vk", "setup_hash", "setup_meta",
              "setup_unmark", "setup_rename"}
ProveRead == {"prove_run", "prove_cache", "prove_proof", "prove_public"}
ProveFed  == {"prove_open"} \cup ProveRead
ProveOn   == {"prove_rows"} \cup ProveFed
ProveKind == {"prove_fit"} \cup ProveOn
ProvePcs  == {"prove_form"} \cup ProveKind
ExportPcs == {"export_safe", "export_fit", "export_sample", "export_vk", "export_write_sample", "export_lib"}
Pcs       == {"idle"} \cup SetupPcs \cup ProvePcs \cup ExportPcs

Memory == [op : {"none", "setup", "prove", "export"}, build : Builds \cup {Absent},
           key : Key \cup {Absent}, digest : Digests \cup {Absent}, k : 0..3,
           auto : BOOLEAN, cache : BOOLEAN, allow : BOOLEAN, hashed : Key \cup Missing,
           kind : Forms \cup {"none"}, described : BOOLEAN, rows : Digests \cup {"none"},
           pk : Key \cup {Absent}, full : BOOLEAN, teed : BOOLEAN, vk : Key \cup {Absent},
           sample : Proven \cup {Absent}]

(* What a command has in memory at each of its steps.                      *)
Ready(step, l) ==
  /\ step \in SetupPcs => l.build \in Builds /\ l.key \in Key /\ l.key.digest = l.build.digest
  /\ step = "setup_meta" => l.hashed \in Key \cup {Torn}
  /\ step = "setup_rename" => l.k \in 1..3
  /\ step \in ProveKind => l.kind \in Forms
  /\ step \in ProveOn => l.build \in Builds
  /\ step \in ProveFed => l.rows \in Digests
  /\ step \in ProveRead => l.pk \in Key
  /\ step \in ExportPcs => l.vk \in Key

KeyFiles == {"pk", "vk", "pk.tmp", "vk.tmp"}
MetaFiles == {"meta", "meta.tmp"}
CopyFiles == {"decoded", "decoded.tmp"}

FilesTyped(d) ==
  /\ DOMAIN d = Names
  /\ \A f \in KeyFiles : d[f] \in Key \cup Missing
  /\ \A f \in MetaFiles : d[f] \in Metadata \cup Missing
  /\ \A f \in CopyFiles : d[f] \in Decoded \cup {Absent}
  /\ d["rows"] \in Rows \cup Missing
  /\ d["proof"] \in Proven \cup Missing
  /\ d["public"] \in Digests \cup Missing

Fits(f, c) ==
  /\ f \in KeyFiles => c \in Key \cup Missing
  /\ f \in MetaFiles => c \in Metadata \cup Missing
  /\ f \in CopyFiles => c \in Decoded \cup {Absent}
  /\ f = "rows" => c \in Rows \cup Missing
  /\ f = "proof" => c \in Proven \cup Missing
  /\ f = "public" => c \in Digests \cup Missing

Shared ==
  /\ xbc \in Builds \cup {Absent}
  /\ crate \in [vk : Key \cup {Absent}, test : BOOLEAN, sample : Proven \cup {Absent}]
  /\ keys \in 0..MaxKeys
  /\ exported \subseteq Key

Commands ==
  /\ pc \in [Procs -> Pcs]
  /\ loc \in [Procs -> Memory]
  /\ \A p \in Procs : Ready(pc[p], loc[p])

Typed == FilesTyped(dir) /\ Shared /\ Commands

-----------------------------------------------------------------------------
LEMMA NoLocIs == NoLoc \in Memory /\ Ready("idle", NoLoc) /\ "idle" \in Pcs
<1>1. NoLoc \in Memory
  BY DEF NoLoc, Memory, Missing
<1>2. "idle" \notin SetupPcs /\ "idle" \notin ProveKind /\ "idle" \notin ProveOn /\ "idle" \notin ProveFed
      /\ "idle" \notin ProveRead /\ "idle" \notin ExportPcs
  BY DEF SetupPcs, ProveKind, ProveOn, ProveFed, ProveRead, ExportPcs
<1> QED
  BY <1>1, <1>2 DEF Ready, Pcs

LEMMA GotoTyped ==
  ASSUME NEW p \in Procs, NEW step \in Pcs, NEW l \in Memory, Ready(step, l), Commands, Goto(p, step, l)
  PROVE  /\ Commands'
         /\ pc'[p] = step /\ loc'[p] = l
         /\ \A q \in Procs : q # p => pc'[q] = pc[q] /\ loc'[q] = loc[q]
<1>1. pc' \in [Procs -> Pcs] /\ loc' \in [Procs -> Memory]
  BY DEF Commands, Goto
<1>2. pc'[p] = step /\ loc'[p] = l
  BY DEF Commands, Goto
<1>3. \A q \in Procs : q # p => pc'[q] = pc[q] /\ loc'[q] = loc[q]
  BY DEF Commands, Goto
<1>4. \A q \in Procs : Ready(pc'[q], loc'[q])
  BY <1>2, <1>3 DEF Commands
<1> QED
  BY <1>1, <1>2, <1>3, <1>4 DEF Commands

LEMMA PutTyped ==
  ASSUME NEW f \in Names, NEW c, Fits(f, c), FilesTyped(dir), Put(f, c)
  PROVE  FilesTyped(dir') /\ dir'[f] = c /\ \A g \in Names : g # f => dir'[g] = dir[g]
<1>1. DOMAIN dir' = Names /\ \A g \in Names : dir'[g] = IF g = f THEN c ELSE dir[g]
  BY DEF FilesTyped, Put
<1>2. {"pk", "vk", "pk.tmp", "vk.tmp", "meta", "meta.tmp", "decoded", "decoded.tmp", "rows", "proof", "public"} \subseteq Names
  BY DEF Names
<1>3. \A g \in KeyFiles : dir'[g] \in Key \cup Missing
  BY <1>1, <1>2 DEF FilesTyped, Fits, KeyFiles
<1>4. \A g \in MetaFiles : dir'[g] \in Metadata \cup Missing
  BY <1>1, <1>2 DEF FilesTyped, Fits, MetaFiles
<1>5. \A g \in CopyFiles : dir'[g] \in Decoded \cup {Absent}
  BY <1>1, <1>2 DEF FilesTyped, Fits, CopyFiles
<1>6. /\ dir'["rows"] \in Rows \cup Missing
      /\ dir'["proof"] \in Proven \cup Missing
      /\ dir'["public"] \in Digests \cup Missing
  BY <1>1, <1>2 DEF FilesTyped, Fits
<1> QED
  BY <1>1, <1>3, <1>4, <1>5, <1>6 DEF FilesTyped

LEMMA NamesAre ==
  /\ \A f \in KeyFiles : f \in Names /\ f \notin MetaFiles /\ f \notin CopyFiles /\ f \notin {"rows", "proof", "public"}
  /\ \A f \in MetaFiles : f \in Names /\ f \notin KeyFiles /\ f \notin CopyFiles /\ f \notin {"rows", "proof", "public"}
  /\ \A f \in CopyFiles : f \in Names /\ f \notin KeyFiles /\ f \notin MetaFiles /\ f \notin {"rows", "proof", "public"}
  /\ \A f \in {"rows", "proof", "public"} : f \in Names /\ f \notin KeyFiles /\ f \notin MetaFiles /\ f \notin CopyFiles
  BY DEF KeyFiles, MetaFiles, CopyFiles, Names

(* A step of a setup that only goes on.                                    *)
LEMMA SetupReady ==
  ASSUME NEW step \in SetupPcs, NEW l \in Memory, l.build \in Builds, l.key \in Key, l.key.digest = l.build.digest,
         step = "setup_meta" => l.hashed \in Key \cup {Torn}, step = "setup_rename" => l.k \in 1..3
  PROVE  Ready(step, l) /\ step \in Pcs
<1>1. step \notin ProveKind /\ step \notin ProveOn /\ step \notin ProveFed
      /\ step \notin ProveRead /\ step \notin ExportPcs
  BY DEF SetupPcs, ProveKind, ProveOn, ProveFed, ProveRead, ExportPcs
<1> QED
  BY <1>1 DEF Ready, Pcs

LEMMA Missings ==
  /\ Absent # Torn
  /\ \A f \in Names : Readable(f) <=> dir[f] # Absent /\ dir[f] # Torn
  BY KeyStoreAssumption DEF Readable

(* The same of a proof's steps and of an export's.                         *)
LEMMA ProveReady ==
  ASSUME NEW step \in ProvePcs, NEW l \in Memory,
         step \in ProveKind => l.kind \in Forms,
         step \in ProveOn => l.build \in Builds,
         step \in ProveFed => l.rows \in Digests,
         step \in ProveRead => l.pk \in Key
  PROVE  Ready(step, l) /\ step \in Pcs
<1>1. step \notin SetupPcs /\ step \notin ExportPcs
  BY DEF SetupPcs, ProvePcs, ProveKind, ProveOn, ProveFed, ProveRead, ExportPcs
<1>2. step # "setup_meta" /\ step # "setup_rename"
  BY <1>1 DEF SetupPcs
<1> QED
  BY <1>1, <1>2 DEF Ready, Pcs

LEMMA ExportReady ==
  ASSUME NEW step \in ExportPcs, NEW l \in Memory, l.vk \in Key
  PROVE  Ready(step, l) /\ step \in Pcs
<1>1. step \notin SetupPcs /\ step \notin ProvePcs /\ step \notin ProveKind /\ step \notin ProveOn
      /\ step \notin ProveFed /\ step \notin ProveRead
  BY DEF SetupPcs, ProvePcs, ProveKind, ProveOn, ProveFed, ProveRead, ExportPcs
<1>2. step # "setup_meta" /\ step # "setup_rename"
  BY DEF ExportPcs
<1> QED
  BY <1>1, <1>2 DEF Ready, Pcs

(* A step of a command that leaves what the commands share alone, but for  *)
(* the directory.                                                          *)
LEMMA MoveTyped ==
  ASSUME NEW p \in Procs, NEW step \in Pcs, NEW l \in Memory, Ready(step, l), Typed, Goto(p, step, l),
         FilesTyped(dir'), UNCHANGED <<xbc, crate, keys, exported>>
  PROVE  Typed'
<1>1. Commands'
  BY GotoTyped DEF Typed
<1>2. Shared'
  BY DEF Typed, Shared
<1> QED
  BY <1>1, <1>2 DEF Typed

LEMMA Mine ==
  ASSUME NEW p \in Procs, Typed
  PROVE  pc[p] \in Pcs /\ loc[p] \in Memory /\ Ready(pc[p], loc[p]) /\ FilesTyped(dir)
  BY DEF Typed, Commands

LEMMA StopTyped ==
  ASSUME NEW p \in Procs, Typed, Stop(p) PROVE Typed'
<1>1. FilesTyped(dir')
  <2>1. CASE UNCHANGED dir
    BY <2>1 DEF Typed
  <2>2. CASE \E f \in BeingWritten(p) : Put(f, Torn)
    <3>1. PICK f \in BeingWritten(p) : Put(f, Torn)
      BY <2>2
    <3>2. f \in {"rows", "pk.tmp", "vk.tmp", "meta.tmp", "proof", "public"}
      BY DEF BeingWritten
    <3>3. f \in Names /\ Fits(f, Torn)
      BY <3>2, NamesAre DEF Fits, Missing, Names, CopyFiles
    <3> QED
      BY <3>1, <3>3, PutTyped DEF Typed
  <2> QED
    BY <2>1, <2>2 DEF Stop
<1> QED
  BY <1>1, NoLocIs, MoveTyped DEF Stop

LEMMA KeyDigest == \A key \in Key : key.digest \in Digests /\ key.form \in Forms /\ key.safe \in BOOLEAN
                                    /\ key.compressed \in BOOLEAN
  BY DEF Key

LEMMA BuildDigest == \A b \in Builds : b.digest \in Digests
  BY DEF Digests

LEMMA PlanTyped ==
  ASSUME NEW p \in Procs, NEW mode \in {"dev", "ptau"}, NEW form \in Forms, NEW compressed \in BOOLEAN,
         NEW auto \in BOOLEAN, NEW cache \in BOOLEAN, Typed, PlanSetup(p, mode, form, compressed, auto, cache)
  PROVE  Typed'
<1> DEFINE key == [id |-> keys + 1, digest |-> xbc.digest, form |-> form,
                   safe |-> mode = "ptau", compressed |-> compressed]
           l == [NoLoc EXCEPT !.op = "setup", !.build = xbc, !.auto = auto, !.cache = cache, !.key = key]
<1>1. xbc \in Builds /\ keys + 1 \in 1..MaxKeys /\ keys + 1 \in 0..MaxKeys
  BY KeyStoreAssumption DEF PlanSetup, Typed, Shared
<1>2. key \in Key /\ key.digest = xbc.digest
  BY <1>1, BuildDigest DEF Key
<1> HIDE DEF key
<1>3. NoLoc \in Memory /\ xbc \in Builds /\ key \in Key
  BY <1>1, <1>2, NoLocIs
<1>4. l = [NoLoc EXCEPT !.op = "setup", !.build = xbc, !.auto = auto, !.cache = cache, !.key = key]
  OBVIOUS
<1>5. l \in Memory /\ l.build = xbc /\ l.key = key
  <2>1. l \in Memory
    BY <1>3, ZenonT(30) DEF Memory
  <2>2. l.build = xbc
    BY <1>3 DEF Memory
  <2>3. l.key = key
    BY <1>3 DEF Memory
  <2> QED
    BY <2>1, <2>2, <2>3
<1> HIDE DEF l
<1>6. "setup_rows" \in SetupPcs
  BY DEF SetupPcs
<1>7. Ready("setup_rows", l) /\ "setup_rows" \in Pcs
  BY <1>1, <1>2, <1>5, <1>6, SetupReady
<1>8. Goto(p, "setup_rows", l)
  BY DEF PlanSetup, l, key
<1>9. Commands'
  BY <1>5, <1>7, <1>8, GotoTyped DEF Typed
<1>10. FilesTyped(dir') /\ Shared'
  BY <1>1 DEF PlanSetup, Typed, Shared
<1> QED
  BY <1>9, <1>10 DEF Typed

LEMMA SetupIs ==
  ASSUME NEW p \in Procs, Typed, pc[p] \in SetupPcs
  PROVE  /\ loc[p] \in Memory /\ loc[p].build \in Builds /\ loc[p].key \in Key
         /\ loc[p].key.digest = loc[p].build.digest
         /\ \A step \in SetupPcs \ {"setup_meta", "setup_rename"} : Ready(step, loc[p]) /\ step \in Pcs
<1>1. loc[p] \in Memory /\ Ready(pc[p], loc[p])
  BY Mine
<1>2. loc[p].build \in Builds /\ loc[p].key \in Key /\ loc[p].key.digest = loc[p].build.digest
  BY <1>1 DEF Ready
<1> QED
  BY <1>1, <1>2, SetupReady

LEMMA SetupRowsTyped ==
  ASSUME NEW p \in Procs, Typed, SetupRows(p) PROVE Typed'
<1>1. pc[p] \in SetupPcs /\ "setup_digest" \in SetupPcs \ {"setup_meta", "setup_rename"}
  BY DEF SetupRows, SetupPcs
<1>2. loc[p] \in Memory /\ Ready("setup_digest", loc[p]) /\ "setup_digest" \in Pcs
  BY <1>1, SetupIs
<1>3. FilesTyped(dir')
  <2> DEFINE r == [mark |-> RowMark(p), digest |-> loc[p].build.digest]
  <2>1. loc[p].build \in Builds /\ loc[p].build.digest \in Digests
    BY <1>1, SetupIs, BuildDigest
  <2>2. RowMark(p) \in Digests \cup Builds
    BY <2>1, BuildDigest DEF RowMark, Typed, Shared
  <2>3. r \in Rows
    BY <2>1, <2>2 DEF Rows
  <2> HIDE DEF r
  <2>4. Fits("rows", r) /\ Fits("rows", Torn) /\ "rows" \in Names
    BY <2>3, NamesAre DEF Fits, Missing
  <2>5. UNCHANGED dir \/ Put("rows", r) \/ Put("rows", Torn)
    BY DEF SetupRows, r
  <2> QED
    BY <2>4, <2>5, PutTyped DEF Typed
<1>4. Goto(p, "setup_digest", loc[p]) /\ UNCHANGED <<xbc, crate, keys, exported>>
  BY DEF SetupRows
<1> QED
  BY <1>2, <1>3, <1>4, MoveTyped

LEMMA SetupDigestTyped ==
  ASSUME NEW p \in Procs, Typed, SetupDigest(p) PROVE Typed'
<1> DEFINE d == IF xbc = Absent THEN Absent ELSE xbc.digest
           l == [loc[p] EXCEPT !.digest = d]
<1>1. pc[p] \in SetupPcs /\ "setup_pk" \in SetupPcs
  BY DEF SetupDigest, SetupPcs
<1>2. loc[p] \in Memory /\ loc[p].build \in Builds /\ loc[p].key \in Key /\ loc[p].key.digest = loc[p].build.digest
  BY <1>1, SetupIs
<1>3. d \in Digests \cup {Absent}
  BY BuildDigest DEF Typed, Shared
<1> HIDE DEF d
<1>4. l \in Memory
  BY <1>2, <1>3 DEF Memory
<1>5. l.build = loc[p].build /\ l.key = loc[p].key
  BY <1>2 DEF Memory
<1>6. Goto(p, "setup_pk", l) /\ UNCHANGED <<xbc, crate, keys, exported>> /\ UNCHANGED dir
  BY DEF SetupDigest, d
<1> HIDE DEF l
<1>7. Ready("setup_pk", l) /\ "setup_pk" \in Pcs
  BY <1>1, <1>2, <1>4, <1>5, SetupReady
<1>8. FilesTyped(dir')
  BY <1>6 DEF Typed
<1> QED
  BY <1>4, <1>6, <1>7, <1>8, MoveTyped

LEMMA SetupPkTyped ==
  ASSUME NEW p \in Procs, Typed, SetupPk(p) PROVE Typed'
<1>1. pc[p] \in SetupPcs /\ "setup_vk" \in SetupPcs \ {"setup_meta", "setup_rename"}
  BY DEF SetupPk, SetupPcs
<1>2. loc[p] \in Memory /\ Ready("setup_vk", loc[p]) /\ "setup_vk" \in Pcs
  BY <1>1, SetupIs
<1>3. Fits("pk.tmp", loc[p].key) /\ "pk.tmp" \in Names
  BY <1>1, SetupIs DEF Fits, Names, KeyFiles, MetaFiles, CopyFiles
<1>4. FilesTyped(dir')
  BY <1>3, PutTyped DEF Typed, SetupPk
<1> QED
  BY <1>2, <1>4, MoveTyped DEF SetupPk

LEMMA SetupVkTyped ==
  ASSUME NEW p \in Procs, Typed, SetupVk(p) PROVE Typed'
<1>1. pc[p] \in SetupPcs /\ "setup_hash" \in SetupPcs \ {"setup_meta", "setup_rename"}
  BY DEF SetupVk, SetupPcs
<1>2. loc[p] \in Memory /\ Ready("setup_hash", loc[p]) /\ "setup_hash" \in Pcs
  BY <1>1, SetupIs
<1>3. Fits("vk.tmp", loc[p].key) /\ "vk.tmp" \in Names
  BY <1>1, SetupIs DEF Fits, Names, KeyFiles, MetaFiles, CopyFiles
<1>4. FilesTyped(dir')
  BY <1>3, PutTyped DEF Typed, SetupVk
<1> QED
  BY <1>2, <1>4, MoveTyped DEF SetupVk

LEMMA SetupHashTyped ==
  ASSUME NEW p \in Procs, Typed, SetupHash(p) PROVE Typed'
<1> DEFINE h == dir["vk.tmp"]
           l == [loc[p] EXCEPT !.hashed = h]
<1>1. pc[p] \in SetupPcs /\ "setup_meta" \in SetupPcs
  BY DEF SetupHash, SetupPcs
<1>2. loc[p] \in Memory /\ loc[p].build \in Builds /\ loc[p].key \in Key /\ loc[p].key.digest = loc[p].build.digest
  BY <1>1, SetupIs
<1>3. h \in Key \cup {Torn}
  BY DEF Typed, FilesTyped, KeyFiles, Missing, SetupHash, Exists
<1>4. h \in Key \cup Missing
  BY <1>3 DEF Missing
<1>5. Goto(p, "setup_meta", l) /\ UNCHANGED <<xbc, crate, keys, exported>> /\ UNCHANGED dir
  BY DEF SetupHash
<1> HIDE DEF h
<1>6. l \in Memory
  BY <1>2, <1>4 DEF Memory
<1>7. l.build = loc[p].build /\ l.key = loc[p].key /\ l.hashed = h
  BY <1>2 DEF Memory
<1> HIDE DEF l
<1>8. Ready("setup_meta", l) /\ "setup_meta" \in Pcs
  BY <1>1, <1>2, <1>3, <1>6, <1>7, SetupReady
<1>9. FilesTyped(dir')
  BY <1>5 DEF Typed
<1> QED
  BY <1>5, <1>6, <1>8, <1>9, MoveTyped

(* What a setup says of its keys has the form of metadata.                 *)
LEMMA MetaMade ==
  ASSUME NEW p \in Procs, Typed, pc[p] = "setup_meta"
  PROVE  [hash |-> loc[p].build, digest |-> loc[p].digest,
          form |-> loc[p].key.form, safe |-> loc[p].key.safe, vk |-> loc[p].hashed] \in Metadata
<1>1. loc[p] \in Memory /\ pc[p] \in SetupPcs
  BY Mine DEF SetupPcs
<1>2. loc[p].build \in Builds /\ loc[p].key.form \in Forms /\ loc[p].key.safe \in BOOLEAN
  BY <1>1, SetupIs, KeyDigest
<1>3. loc[p].digest \in Digests \cup {Absent}
  BY <1>1 DEF Memory
<1>4. loc[p].hashed \in Key \cup {Torn}
  BY Mine DEF Ready
<1> QED
  BY <1>2, <1>3, <1>4 DEF Metadata

LEMMA SetupMetaTyped ==
  ASSUME NEW p \in Procs, Typed, SetupMeta(p) PROVE Typed'
<1> DEFINE m == [hash |-> loc[p].build, digest |-> loc[p].digest,
                 form |-> loc[p].key.form, safe |-> loc[p].key.safe, vk |-> loc[p].hashed]
<1>1. pc[p] \in SetupPcs /\ pc[p] = "setup_meta" /\ "setup_unmark" \in SetupPcs \ {"setup_meta", "setup_rename"}
  BY DEF SetupMeta, SetupPcs
<1>2. loc[p] \in Memory /\ Ready("setup_unmark", loc[p]) /\ "setup_unmark" \in Pcs
  BY <1>1, SetupIs
<1>3. m \in Metadata
  BY <1>1, MetaMade
<1>4. Put("meta.tmp", m)
  BY DEF SetupMeta
<1> HIDE DEF m
<1>5. Fits("meta.tmp", m) /\ "meta.tmp" \in Names
  BY <1>3 DEF Fits, Names, KeyFiles, MetaFiles, CopyFiles
<1>6. FilesTyped(dir')
  BY <1>4, <1>5, PutTyped DEF Typed
<1> QED
  BY <1>2, <1>6, MoveTyped DEF SetupMeta

(* What a setup has in memory when it starts renaming.                     *)
LEMMA NextRename ==
  ASSUME NEW l \in Memory, NEW k \in 1..3, l.build \in Builds, l.key \in Key, l.key.digest = l.build.digest,
         NEW r, r = [l EXCEPT !.k = k]
  PROVE  /\ r \in Memory /\ r.build = l.build /\ r.key = l.key /\ r.k = k
         /\ Ready("setup_rename", r)
         /\ "setup_rename" \in Pcs
<1>1. k \in 0..3
  OBVIOUS
<1>2. r \in Memory
  BY <1>1 DEF Memory
<1>3. r.build = l.build /\ r.key = l.key /\ r.k = k
  BY DEF Memory
<1>4. "setup_rename" \in SetupPcs
  BY DEF SetupPcs
<1> QED
  BY <1>2, <1>3, <1>4, SetupReady

LEMMA SetupUnmarkTyped ==
  ASSUME NEW p \in Procs, Typed, SetupUnmark(p) PROVE Typed'
<1>1. pc[p] \in SetupPcs
  BY DEF SetupUnmark, SetupPcs
<1> DEFINE l == [loc[p] EXCEPT !.k = 1]
<1>2. l = [loc[p] EXCEPT !.k = 1]
  OBVIOUS
<1>3. Goto(p, "setup_rename", l) /\ UNCHANGED <<xbc, crate, keys, exported>>
  BY DEF SetupUnmark
<1> HIDE DEF l
<1>4. l \in Memory /\ Ready("setup_rename", l) /\ "setup_rename" \in Pcs
  <2>1. 1 \in 1..3
    OBVIOUS
  <2> QED
    BY <1>1, <1>2, <2>1, SetupIs, NextRename
<1>5. Fits("meta", Absent) /\ "meta" \in Names
  BY DEF Fits, Names, KeyFiles, MetaFiles, CopyFiles, Missing
<1>6. FilesTyped(dir')
  BY <1>5, PutTyped DEF Typed, SetupUnmark
<1> QED
  BY <1>3, <1>4, <1>6, MoveTyped

(* A command that starts proving.                                          *)
LEMMA ToProve ==
  ASSUME NEW cache \in BOOLEAN
  PROVE  LET l == [NoLoc EXCEPT !.op = "prove", !.cache = cache]
         IN l \in Memory /\ Ready("prove_form", l) /\ "prove_form" \in Pcs
<1> DEFINE l == [NoLoc EXCEPT !.op = "prove", !.cache = cache]
<1>1. NoLoc \in Memory
  BY NoLocIs
<1>2. l \in Memory
  BY <1>1, ZenonT(30) DEF Memory
<1> HIDE DEF l
<1>3. "prove_form" \in ProvePcs /\ "prove_form" \notin ProveKind /\ "prove_form" \notin ProveOn
      /\ "prove_form" \notin ProveFed /\ "prove_form" \notin ProveRead
  BY DEF ProvePcs, ProveKind, ProveOn, ProveFed, ProveRead
<1>4. Ready("prove_form", l) /\ "prove_form" \in Pcs
  BY <1>2, <1>3, ProveReady
<1> QED
  BY <1>2, <1>4 DEF l

(* A rename moves a file to the name it is kept under.                     *)
LEMMA RenameFiles ==
  ASSUME NEW from \in Names, NEW to \in Names, Typed, Fits(to, dir[from]), Fits(from, Absent),
         dir' = [dir EXCEPT ![to] = dir[from], ![from] = Absent]
  PROVE  FilesTyped(dir')
<1>1. DOMAIN dir' = Names
      /\ \A g \in Names : dir'[g] = IF g = from THEN Absent ELSE IF g = to THEN dir[from] ELSE dir[g]
  BY DEF Typed, FilesTyped
<1>2. \A g \in KeyFiles : dir'[g] \in Key \cup Missing
  BY <1>1, NamesAre DEF Typed, FilesTyped, Fits
<1>3. \A g \in MetaFiles : dir'[g] \in Metadata \cup Missing
  BY <1>1, NamesAre DEF Typed, FilesTyped, Fits
<1>4. \A g \in CopyFiles : dir'[g] \in Decoded \cup {Absent}
  BY <1>1, NamesAre DEF Typed, FilesTyped, Fits
<1>5. /\ dir'["rows"] \in Rows \cup Missing
      /\ dir'["proof"] \in Proven \cup Missing
      /\ dir'["public"] \in Digests \cup Missing
  BY <1>1, NamesAre DEF Typed, FilesTyped, Fits
<1> QED
  BY <1>1, <1>2, <1>3, <1>4, <1>5 DEF FilesTyped

LEMMA OrderIs ==
  /\ SetupOrder[1] = <<"pk.tmp", "pk">>
  /\ SetupOrder[2] = <<"vk.tmp", "vk">>
  /\ SetupOrder[3] = <<"meta.tmp", "meta">>
  BY DEF SetupOrder

LEMMA SetupRenameTyped ==
  ASSUME NEW p \in Procs, Typed, SetupRename(p) PROVE Typed'
<1> DEFINE k == loc[p].k
           from == SetupOrder[k][1]
           to   == SetupOrder[k][2]
<1>1. pc[p] \in SetupPcs /\ pc[p] = "setup_rename"
  BY DEF SetupRename, SetupPcs
<1>2. loc[p] \in Memory /\ loc[p].build \in Builds /\ loc[p].key \in Key /\ loc[p].key.digest = loc[p].build.digest
  BY <1>1, SetupIs
<1>3. k \in 1..3 /\ loc[p].auto \in BOOLEAN /\ loc[p].cache \in BOOLEAN
  BY <1>1, Mine DEF Ready, Memory
<1>4. dir' = [dir EXCEPT ![to] = dir[from], ![from] = Absent] /\ UNCHANGED <<xbc, crate, keys, exported>>
  BY DEF SetupRename
<1>5. \/ k < 3 /\ Goto(p, "setup_rename", [loc[p] EXCEPT !.k = k + 1])
      \/ Goto(p, "prove_form", [NoLoc EXCEPT !.op = "prove", !.cache = loc[p].cache])
      \/ Goto(p, "idle", NoLoc)
  BY DEF SetupRename
<1> HIDE DEF k
<1>6. FilesTyped(dir')
  <2>1. \/ from = "pk.tmp" /\ to = "pk"
        \/ from = "vk.tmp" /\ to = "vk"
        \/ from = "meta.tmp" /\ to = "meta"
    BY <1>3, OrderIs
  <2> HIDE DEF from, to
  <2>2. from \in Names /\ to \in Names /\ Fits(from, Absent) /\ Fits(to, dir[from])
    BY <2>1, NamesAre DEF Fits, Typed, FilesTyped, KeyFiles, MetaFiles, CopyFiles, Missing
  <2> QED
    BY <1>4, <2>2, RenameFiles
<1>7. CASE k < 3 /\ Goto(p, "setup_rename", [loc[p] EXCEPT !.k = k + 1])
  <2> DEFINE l == [loc[p] EXCEPT !.k = k + 1]
  <2>1. l = [loc[p] EXCEPT !.k = k + 1] /\ k + 1 \in 1..3
    BY <1>3, <1>7
  <2>2. Goto(p, "setup_rename", l)
    BY <1>7
  <2> HIDE DEF l
  <2>3. l \in Memory /\ Ready("setup_rename", l) /\ "setup_rename" \in Pcs
    BY <1>2, <2>1, NextRename
  <2> QED
    BY <1>4, <1>6, <2>2, <2>3, MoveTyped
<1>8. CASE Goto(p, "prove_form", [NoLoc EXCEPT !.op = "prove", !.cache = loc[p].cache])
  <2> DEFINE l == [NoLoc EXCEPT !.op = "prove", !.cache = loc[p].cache]
  <2>1. l \in Memory /\ Ready("prove_form", l) /\ "prove_form" \in Pcs
    BY <1>3, ToProve
  <2>2. Goto(p, "prove_form", l)
    BY <1>8
  <2> HIDE DEF l
  <2> QED
    BY <1>4, <1>6, <2>1, <2>2, MoveTyped
<1>9. CASE Goto(p, "idle", NoLoc)
  BY <1>4, <1>6, <1>9, NoLocIs, MoveTyped
<1> QED
  BY <1>5, <1>7, <1>8, <1>9

-----------------------------------------------------------------------------
(* A proof's steps.                                                        *)

(* What each step of a proof has in memory.                                *)
LEMMA ProveIs ==
  ASSUME NEW p \in Procs, Typed, pc[p] \in ProvePcs
  PROVE  /\ loc[p] \in Memory
         /\ pc[p] \in ProveKind => loc[p].kind \in Forms
         /\ pc[p] \in ProveOn => loc[p].build \in Builds
         /\ pc[p] \in ProveFed => loc[p].rows \in Digests
         /\ pc[p] \in ProveRead => loc[p].pk \in Key
  BY Mine DEF Ready

LEMMA StartProveTyped ==
  ASSUME NEW p \in Procs, NEW cache \in BOOLEAN, Typed, StartProve(p, cache) PROVE Typed'
<1> DEFINE l == [NoLoc EXCEPT !.op = "prove", !.cache = cache]
<1>1. CASE Goto(p, "prove_form", l) /\ UNCHANGED <<xbc, dir, crate, keys, exported>>
  <2>1. l \in Memory /\ Ready("prove_form", l) /\ "prove_form" \in Pcs
    BY ToProve
  <2> HIDE DEF l
  <2>2. FilesTyped(dir')
    BY <1>1 DEF Typed
  <2> QED
    BY <1>1, <2>1, <2>2, MoveTyped
<1>2. CASE \E form \in Forms : PlanSetup(p, "dev", form, TRUE, TRUE, cache)
  BY <1>2, PlanTyped
<1> QED
  BY <1>1, <1>2 DEF StartProve

LEMMA FormKind ==
  ASSUME NEW l \in Memory, NEW kind \in Forms, NEW r, r = [l EXCEPT !.kind = kind]
  PROVE  r \in Memory /\ Ready("prove_fit", r) /\ "prove_fit" \in Pcs
<1>1. r \in Memory
  BY DEF Memory
<1>2. r.kind = kind
  BY DEF Memory
<1>3. "prove_fit" \in ProvePcs /\ "prove_fit" \notin ProveOn /\ "prove_fit" \notin ProveFed
      /\ "prove_fit" \notin ProveRead
  BY DEF ProvePcs, ProveKind, ProveOn, ProveFed, ProveRead
<1> QED
  BY <1>1, <1>2, <1>3, ProveReady

LEMMA ProveFormTyped ==
  ASSUME NEW p \in Procs, Typed, ProveForm(p) PROVE Typed'
<1>1. PICK kind \in Forms : Goto(p, "prove_fit", [loc[p] EXCEPT !.kind = kind])
  <2>1. CASE Readable("meta") /\ Goto(p, "prove_fit", [loc[p] EXCEPT !.kind = dir["meta"].form])
    <3>1. dir["meta"] \in Metadata
      BY <2>1 DEF Typed, FilesTyped, MetaFiles, Readable, Missing
    <3>2. dir["meta"].form \in Forms
      BY <3>1 DEF Metadata
    <3> QED
      BY <2>1, <3>2
  <2>2. CASE Goto(p, "prove_fit", [loc[p] EXCEPT !.kind = "minimized"])
    BY <2>2 DEF Forms
  <2>3. CASE \E form \in Forms : Goto(p, "prove_fit", [loc[p] EXCEPT !.kind = form])
    BY <2>3
  <2> QED
    BY <2>1, <2>2, <2>3 DEF ProveForm
<1> DEFINE l == [loc[p] EXCEPT !.kind = kind]
<1>2. l = [loc[p] EXCEPT !.kind = kind] /\ Goto(p, "prove_fit", l)
  BY <1>1
<1> HIDE DEF l
<1>3. loc[p] \in Memory /\ FilesTyped(dir') /\ UNCHANGED <<xbc, crate, keys, exported>>
  BY Mine DEF ProveForm
<1>4. l \in Memory /\ Ready("prove_fit", l) /\ "prove_fit" \in Pcs
  BY <1>2, <1>3, FormKind
<1> QED
  BY <1>2, <1>3, <1>4, MoveTyped

LEMMA ProveFitTyped ==
  ASSUME NEW p \in Procs, Typed, ProveFit(p) PROVE Typed'
<1> DEFINE d == Readable("meta")
           l == [loc[p] EXCEPT !.build = xbc, !.described = d]
<1>1. pc[p] \in ProvePcs /\ pc[p] \in ProveKind
  BY DEF ProveFit, ProvePcs, ProveKind
<1>2. loc[p] \in Memory /\ loc[p].kind \in Forms
  BY <1>1, ProveIs
<1>3. xbc \in Builds /\ d \in BOOLEAN
  BY DEF Typed, Shared, ProveFit, Readable
<1>4. Goto(p, "prove_rows", l) /\ UNCHANGED <<xbc, dir, crate, keys, exported>>
  BY DEF ProveFit
<1> HIDE DEF d
<1>5. l \in Memory
  BY <1>2, <1>3 DEF Memory
<1>6. l.kind = loc[p].kind
  BY <1>2 DEF Memory
<1>7. l.build = xbc
  BY <1>2 DEF Memory
<1> HIDE DEF l
<1>8. "prove_rows" \in ProvePcs /\ "prove_rows" \notin ProveFed /\ "prove_rows" \notin ProveRead
  BY DEF ProvePcs, ProveKind, ProveOn, ProveFed, ProveRead
<1>9. Ready("prove_rows", l) /\ "prove_rows" \in Pcs
  BY <1>2, <1>3, <1>5, <1>6, <1>7, <1>8, ProveReady
<1>10. FilesTyped(dir')
  BY <1>4 DEF Typed
<1> QED
  BY <1>4, <1>5, <1>9, <1>10, MoveTyped

LEMMA RowFileIs ==
  ASSUME Typed, Readable("rows") PROVE dir["rows"] \in Rows /\ dir["rows"].digest \in Digests
<1>1. dir["rows"] \in Rows
  BY DEF Typed, FilesTyped, Readable, Missing
<1> QED
  BY <1>1 DEF Rows

LEMMA ProveRowsTyped ==
  ASSUME NEW p \in Procs, Typed, ProveRows(p) PROVE Typed'
<1>1. pc[p] \in ProvePcs /\ pc[p] \in ProveKind /\ pc[p] \in ProveOn
  BY DEF ProveRows, ProvePcs, ProveKind, ProveOn
<1>2. loc[p] \in Memory /\ loc[p].kind \in Forms /\ loc[p].build \in Builds /\ loc[p].build.digest \in Digests
  BY <1>1, ProveIs, BuildDigest
<1>3. PICK d \in Digests : Goto(p, "prove_open", [loc[p] EXCEPT !.rows = d])
  <2>1. CASE /\ loc[p].kind = "reduced" \/ RowFileFits(loc[p].build)
             /\ Goto(p, "prove_open", [loc[p] EXCEPT !.rows =
                       IF loc[p].kind = "reduced" THEN loc[p].build.digest ELSE dir["rows"].digest])
    BY <1>2, <2>1, RowFileIs DEF RowFileFits
  <2>2. CASE Goto(p, "prove_open", [loc[p] EXCEPT !.rows = loc[p].build.digest])
    BY <1>2, <2>2
  <2> QED
    BY <2>1, <2>2 DEF ProveRows
<1> DEFINE l == [loc[p] EXCEPT !.rows = d]
<1>4. l \in Memory
  BY <1>2 DEF Memory
<1>5. l.kind = loc[p].kind /\ l.build = loc[p].build /\ l.rows = d
  BY <1>2 DEF Memory
<1>6. Goto(p, "prove_open", l)
  BY <1>3
<1> HIDE DEF l
<1>7. "prove_open" \in ProvePcs /\ "prove_open" \notin ProveRead
  BY DEF ProvePcs, ProveKind, ProveOn, ProveFed, ProveRead
<1>8. Ready("prove_open", l) /\ "prove_open" \in Pcs
  BY <1>2, <1>4, <1>5, <1>7, ProveReady
<1>9. FilesTyped(dir')
  <2> DEFINE r == [mark |-> loc[p].build.digest, digest |-> loc[p].build.digest]
  <2>1. r \in Rows
    BY <1>2 DEF Rows
  <2>2. UNCHANGED dir \/ Put("rows", r)
    BY DEF ProveRows
  <2> HIDE DEF r
  <2>3. Fits("rows", r) /\ "rows" \in Names
    BY <2>1, NamesAre DEF Fits
  <2> QED
    BY <2>2, <2>3, PutTyped DEF Typed
<1>10. UNCHANGED <<xbc, crate, keys, exported>>
  BY DEF ProveRows
<1> QED
  BY <1>4, <1>6, <1>8, <1>9, <1>10, MoveTyped

LEMMA CopyIs ==
  ASSUME Typed, NEW f \in CopyFiles, Exists(f) PROVE dir[f] \in Decoded /\ dir[f].key \in Key /\ dir[f].full \in BOOLEAN
<1>1. dir[f] \in Decoded
  BY DEF Typed, FilesTyped, Exists
<1> QED
  BY <1>1 DEF Decoded

LEMMA ProveOpenTyped ==
  ASSUME NEW p \in Procs, Typed, ProveOpen(p) PROVE Typed'
<1> DEFINE key == dir["pk"]
<1>1. pc[p] \in ProvePcs /\ pc[p] \in ProveKind /\ pc[p] \in ProveOn /\ pc[p] \in ProveFed
  BY DEF ProveOpen, ProvePcs, ProveKind, ProveOn, ProveFed
<1>2. loc[p] \in Memory /\ loc[p].kind \in Forms /\ loc[p].build \in Builds /\ loc[p].rows \in Digests
  BY <1>1, ProveIs
<1>3. key \in Key /\ key.compressed \in BOOLEAN
  BY KeyDigest DEF ProveOpen, Typed, FilesTyped, KeyFiles, Readable, Missing
<1>4. "prove_run" \in ProvePcs
  BY DEF ProvePcs, ProveKind, ProveOn, ProveFed, ProveRead
<1>5. UNCHANGED <<xbc, crate, keys, exported>>
  BY DEF ProveOpen
<1>6. CASE /\ UsableDecoded(key) /\ UNCHANGED dir
           /\ Goto(p, "prove_run", [loc[p] EXCEPT !.pk = dir["decoded"].key, !.full = dir["decoded"].full])
  <2> DEFINE b == dir["decoded"].key
             c == dir["decoded"].full
             l == [loc[p] EXCEPT !.pk = b, !.full = c]
  <2>1. Exists("decoded") /\ "decoded" \in CopyFiles
    BY <1>6 DEF UsableDecoded, Readable, Exists, CopyFiles
  <2>2. b \in Key /\ c \in BOOLEAN
    BY <2>1, CopyIs
  <2>3. Goto(p, "prove_run", l)
    BY <1>6
  <2> HIDE DEF b, c
  <2>4. l \in Memory
    BY <1>2, <2>2 DEF Memory
  <2>5. l.kind = loc[p].kind /\ l.build = loc[p].build /\ l.rows = loc[p].rows
    BY <1>2 DEF Memory
  <2>6. l.pk = b
    BY <1>2 DEF Memory
  <2> HIDE DEF l
  <2>7. Ready("prove_run", l) /\ "prove_run" \in Pcs
    BY <1>2, <1>4, <2>2, <2>4, <2>5, <2>6, ProveReady
  <2>8. FilesTyped(dir')
    BY <1>6 DEF Typed
  <2> QED
    BY <1>5, <2>3, <2>4, <2>7, <2>8, MoveTyped
<1>7. CASE /\ Goto(p, "prove_run", [loc[p] EXCEPT !.pk = key, !.teed = loc[p].cache /\ key.compressed])
           /\ IF loc[p].cache /\ key.compressed
                THEN Put("decoded.tmp", [key |-> key, by |-> p, full |-> FALSE]) ELSE UNCHANGED dir
  <2> DEFINE t == loc[p].cache /\ key.compressed
             l == [loc[p] EXCEPT !.pk = key, !.teed = t]
             copy == [key |-> key, by |-> p, full |-> FALSE]
  <2>1. t \in BOOLEAN
    OBVIOUS
  <2>2. Goto(p, "prove_run", l)
    BY <1>7
  <2>3. UNCHANGED dir \/ Put("decoded.tmp", copy)
    BY <1>7
  <2>4. copy \in Decoded
    BY <1>3 DEF Decoded
  <2> HIDE DEF key, t, copy
  <2>5. l \in Memory
    BY <1>2, <1>3, <2>1 DEF Memory
  <2>6. l.kind = loc[p].kind /\ l.build = loc[p].build /\ l.rows = loc[p].rows
    BY <1>2 DEF Memory
  <2>7. l.pk = key
    BY <1>2 DEF Memory
  <2> HIDE DEF l
  <2>8. Ready("prove_run", l) /\ "prove_run" \in Pcs
    BY <1>2, <1>3, <1>4, <2>5, <2>6, <2>7, ProveReady
  <2>9. Fits("decoded.tmp", copy) /\ "decoded.tmp" \in Names
    BY <2>4 DEF Fits, Names, KeyFiles, MetaFiles, CopyFiles
  <2>10. FilesTyped(dir')
    BY <2>3, <2>9, PutTyped DEF Typed
  <2> QED
    BY <1>5, <2>2, <2>5, <2>8, <2>10, MoveTyped
<1> QED
  BY <1>6, <1>7 DEF ProveOpen

LEMMA FinishedIs ==
  ASSUME Typed, NEW f \in CopyFiles, NEW p \in Procs
  PROVE  /\ Finished(f, p) \in Decoded \cup {Absent}
         /\ Finished(f, p) = dir[f] \/ (dir[f] \in Decoded /\ Finished(f, p).key = dir[f].key)
<1>1. dir[f] \in Decoded \cup {Absent}
  BY DEF Typed, FilesTyped
<1>2. \A c \in Decoded : [c EXCEPT !.full = TRUE] \in Decoded /\ [c EXCEPT !.full = TRUE].key = c.key
  BY DEF Decoded
<1>3. CASE Readable(f) /\ dir[f].by = p
  <2>1. dir[f] \in Decoded
    BY <1>1, <1>3 DEF Readable
  <2> QED
    BY <1>2, <1>3, <2>1 DEF Finished
<1>4. CASE ~ (Readable(f) /\ dir[f].by = p)
  BY <1>1, <1>4 DEF Finished
<1> QED
  BY <1>3, <1>4

(* The two decoded copies change together or not at all.                   *)
LEMMA CopiesTyped ==
  ASSUME Typed, NEW a \in Decoded \cup {Absent}, NEW b \in Decoded \cup {Absent},
         dir' = [dir EXCEPT !["decoded.tmp"] = a, !["decoded"] = b]
  PROVE  FilesTyped(dir')
<1>1. DOMAIN dir' = Names
      /\ \A g \in Names : dir'[g] = IF g = "decoded" THEN b ELSE IF g = "decoded.tmp" THEN a ELSE dir[g]
  BY DEF Typed, FilesTyped
<1>2. "decoded" \notin KeyFiles /\ "decoded.tmp" \notin KeyFiles /\ "decoded" \notin MetaFiles /\ "decoded.tmp" \notin MetaFiles
  BY DEF KeyFiles, MetaFiles
<1>3. \A g \in KeyFiles : dir'[g] \in Key \cup Missing
  BY <1>1, <1>2, NamesAre DEF Typed, FilesTyped
<1>4. \A g \in MetaFiles : dir'[g] \in Metadata \cup Missing
  BY <1>1, <1>2, NamesAre DEF Typed, FilesTyped
<1>5. \A g \in CopyFiles : dir'[g] \in Decoded \cup {Absent}
  BY <1>1, NamesAre DEF CopyFiles
<1>6. /\ dir'["rows"] \in Rows \cup Missing
      /\ dir'["proof"] \in Proven \cup Missing
      /\ dir'["public"] \in Digests \cup Missing
  BY <1>1, NamesAre DEF Typed, FilesTyped
<1> QED
  BY <1>1, <1>3, <1>4, <1>5, <1>6 DEF FilesTyped

(* The self-check: a proof is made of a key of the circuit proved.         *)
LEMMA ReadReady ==
  ASSUME NEW p \in Procs, Typed, pc[p] = "prove_run", NEW step \in {"prove_cache", "prove_proof"}
  PROVE  Ready(step, loc[p]) /\ step \in Pcs
<1>1. pc[p] \in ProvePcs /\ pc[p] \in ProveKind /\ pc[p] \in ProveOn /\ pc[p] \in ProveFed /\ pc[p] \in ProveRead
  BY DEF ProvePcs, ProveKind, ProveOn, ProveFed, ProveRead
<1>2. step \in ProvePcs
  BY DEF ProvePcs, ProveKind, ProveOn, ProveFed, ProveRead
<1> QED
  BY <1>1, <1>2, ProveIs, ProveReady

LEMMA ProveRunTyped ==
  ASSUME NEW p \in Procs, Typed, ProveRun(p) PROVE Typed'
<1>1. loc[p] \in Memory /\ UNCHANGED <<xbc, crate, keys, exported>> /\ pc[p] = "prove_run"
  BY Mine DEF ProveRun
<1>2. CASE /\ dir' = [dir EXCEPT !["decoded.tmp"] = Finished("decoded.tmp", p), !["decoded"] = Finished("decoded", p)]
           /\ Goto(p, "prove_cache", loc[p])
  <2>1. FilesTyped(dir')
    BY <1>2, FinishedIs, CopiesTyped DEF CopyFiles
  <2> QED
    BY <1>1, <1>2, <2>1, ReadReady, MoveTyped
<1>3. CASE UNCHANGED dir /\ Goto(p, "prove_proof", loc[p])
  <2>1. FilesTyped(dir')
    BY <1>3 DEF Typed
  <2> QED
    BY <1>1, <1>3, <2>1, ReadReady, MoveTyped
<1> QED
  BY <1>2, <1>3 DEF ProveRun

LEMMA ProveCacheTyped ==
  ASSUME NEW p \in Procs, Typed, ProveCache(p) PROVE Typed'
<1>1. pc[p] = "prove_cache" /\ UNCHANGED <<xbc, crate, keys, exported>> /\ Goto(p, "prove_proof", loc[p])
  BY DEF ProveCache
<1>2. loc[p] \in Memory /\ Ready("prove_proof", loc[p]) /\ "prove_proof" \in Pcs
  <2>1. pc[p] \in ProvePcs /\ pc[p] \in ProveKind /\ pc[p] \in ProveOn /\ pc[p] \in ProveFed /\ pc[p] \in ProveRead
    BY <1>1 DEF ProvePcs, ProveKind, ProveOn, ProveFed, ProveRead
  <2>2. "prove_proof" \in ProvePcs
    BY DEF ProvePcs, ProveKind, ProveOn, ProveFed, ProveRead
  <2> QED
    BY <1>1, <2>1, <2>2, ProveIs, ProveReady
<1>3. CASE dir' = [dir EXCEPT !["decoded"] = dir["decoded.tmp"], !["decoded.tmp"] = Absent]
  <2>1. "decoded" \in Names /\ "decoded.tmp" \in Names
        /\ Fits("decoded.tmp", Absent) /\ Fits("decoded", dir["decoded.tmp"])
    BY DEF Names, Fits, Typed, FilesTyped, KeyFiles, MetaFiles, CopyFiles
  <2>2. FilesTyped(dir')
    BY <1>3, <2>1, RenameFiles
  <2> QED
    BY <1>1, <1>2, <2>2, MoveTyped
<1>4. CASE Put("decoded.tmp", Absent)
  <2>1. "decoded.tmp" \in Names /\ Fits("decoded.tmp", Absent)
    BY DEF Names, Fits, KeyFiles, MetaFiles, CopyFiles
  <2>2. FilesTyped(dir')
    BY <1>4, <2>1, PutTyped DEF Typed
  <2> QED
    BY <1>1, <1>2, <2>2, MoveTyped
<1> QED
  BY <1>3, <1>4 DEF ProveCache

LEMMA ProveProofTyped ==
  ASSUME NEW p \in Procs, Typed, ProveProof(p) PROVE Typed'
<1> DEFINE r == [key |-> loc[p].pk, digest |-> loc[p].build.digest]
<1>1. pc[p] = "prove_proof" /\ UNCHANGED <<xbc, crate, keys, exported>> /\ Goto(p, "prove_public", loc[p])
      /\ Put("proof", r)
  BY DEF ProveProof, Proof
<1>2. pc[p] \in ProvePcs /\ pc[p] \in ProveKind /\ pc[p] \in ProveOn /\ pc[p] \in ProveFed /\ pc[p] \in ProveRead
  BY <1>1 DEF ProvePcs, ProveKind, ProveOn, ProveFed, ProveRead
<1>3. "prove_public" \in ProvePcs
  BY DEF ProvePcs, ProveKind, ProveOn, ProveFed, ProveRead
<1>4. loc[p] \in Memory /\ Ready("prove_public", loc[p]) /\ "prove_public" \in Pcs
  BY <1>2, <1>3, ProveIs, ProveReady
<1>5. loc[p].pk \in Key /\ loc[p].build.digest \in Digests
  BY <1>1, <1>2, ProveIs, BuildDigest
<1>6. r \in Proven
  BY <1>5 DEF Proven
<1> HIDE DEF r
<1>7. Fits("proof", r) /\ "proof" \in Names
  BY <1>6, NamesAre DEF Fits
<1>8. FilesTyped(dir')
  BY <1>1, <1>7, PutTyped DEF Typed
<1> QED
  BY <1>1, <1>4, <1>8, MoveTyped

LEMMA ProvePublicTyped ==
  ASSUME NEW p \in Procs, Typed, ProvePublic(p) PROVE Typed'
<1>1. pc[p] = "prove_public" /\ UNCHANGED <<xbc, crate, keys, exported>> /\ Goto(p, "idle", NoLoc)
      /\ Put("public", loc[p].build.digest)
  BY DEF ProvePublic
<1>2. pc[p] \in ProvePcs /\ pc[p] \in ProveOn
  BY <1>1 DEF ProvePcs, ProveKind, ProveOn, ProveFed, ProveRead
<1>3. loc[p].build.digest \in Digests
  BY <1>2, ProveIs, BuildDigest
<1>4. Fits("public", loc[p].build.digest) /\ "public" \in Names
  BY <1>3, NamesAre DEF Fits
<1>5. FilesTyped(dir')
  BY <1>1, <1>4, PutTyped DEF Typed
<1> QED
  BY <1>1, <1>5, NoLocIs, MoveTyped

-----------------------------------------------------------------------------
(* An export's steps.                                                      *)

LEMMA ExportIs ==
  ASSUME NEW p \in Procs, Typed, pc[p] \in ExportPcs
  PROVE  loc[p] \in Memory /\ loc[p].vk \in Key
  BY Mine DEF Ready

LEMMA StartExportTyped ==
  ASSUME NEW p \in Procs, NEW allow \in BOOLEAN, Typed, StartExport(p, allow) PROVE Typed'
<1> DEFINE vk == dir["vk"]
           l == [NoLoc EXCEPT !.op = "export", !.allow = allow, !.vk = vk]
<1>1. vk \in Key
  BY DEF StartExport, Typed, FilesTyped, KeyFiles, Readable, Missing
<1>2. Goto(p, "export_safe", l) /\ UNCHANGED <<xbc, dir, crate, keys, exported>>
  BY DEF StartExport
<1> HIDE DEF vk
<1>3. NoLoc \in Memory
  BY NoLocIs
<1>4. l \in Memory
  BY <1>1, <1>3, ZenonT(30) DEF Memory
<1>5. l.vk = vk
  BY <1>3 DEF Memory
<1> HIDE DEF l
<1>6. Ready("export_safe", l) /\ "export_safe" \in Pcs
  BY <1>1, <1>4, <1>5, ExportReady DEF ExportPcs
<1>7. FilesTyped(dir')
  BY <1>2 DEF Typed
<1> QED
  BY <1>2, <1>4, <1>6, <1>7, MoveTyped

LEMMA ExportSafeTyped ==
  ASSUME NEW p \in Procs, Typed, ExportSafe(p) PROVE Typed'
<1>1. loc[p] \in Memory /\ loc[p].vk \in Key
  BY ExportIs DEF ExportPcs, ExportSafe
<1>2. Ready("export_fit", loc[p]) /\ "export_fit" \in Pcs
  BY <1>1, ExportReady DEF ExportPcs
<1>3. FilesTyped(dir')
  BY DEF Typed, ExportSafe
<1> QED
  BY <1>1, <1>2, <1>3, MoveTyped DEF ExportSafe

LEMMA ExportFitTyped ==
  ASSUME NEW p \in Procs, Typed, ExportFit(p) PROVE Typed'
<1>1. loc[p] \in Memory /\ loc[p].vk \in Key
  BY ExportIs DEF ExportPcs, ExportFit
<1>2. Ready("export_sample", loc[p]) /\ "export_sample" \in Pcs
  BY <1>1, ExportReady DEF ExportPcs
<1>3. FilesTyped(dir')
  BY DEF Typed, ExportFit
<1> QED
  BY <1>1, <1>2, <1>3, MoveTyped DEF ExportFit

LEMMA ProofIs ==
  ASSUME Typed, Readable("proof") PROVE dir["proof"] \in Proven
  BY DEF Typed, FilesTyped, Readable, Missing

LEMMA ExportSampleTyped ==
  ASSUME NEW p \in Procs, Typed, ExportSample(p) PROVE Typed'
<1> DEFINE s == IF Exists("proof") /\ Verifies(loc[p].vk, dir["proof"], dir["public"]) THEN dir["proof"] ELSE Absent
           l == [loc[p] EXCEPT !.sample = s]
<1>1. loc[p] \in Memory /\ loc[p].vk \in Key
  BY ExportIs DEF ExportPcs, ExportSample
<1>2. s \in Proven \cup {Absent}
  BY ProofIs DEF ExportSample
<1>3. Goto(p, "export_vk", l) /\ UNCHANGED <<xbc, dir, crate, keys, exported>>
  BY DEF ExportSample
<1> HIDE DEF s
<1>4. l \in Memory
  BY <1>1, <1>2 DEF Memory
<1>5. l.vk = loc[p].vk
  BY <1>1 DEF Memory
<1> HIDE DEF l
<1>6. Ready("export_vk", l) /\ "export_vk" \in Pcs
  BY <1>1, <1>4, <1>5, ExportReady DEF ExportPcs
<1>7. FilesTyped(dir')
  BY <1>3 DEF Typed
<1> QED
  BY <1>3, <1>4, <1>6, <1>7, MoveTyped

Crates == [vk : Key \cup {Absent}, test : BOOLEAN, sample : Proven \cup {Absent}]

(* A step that writes to the crate.                                        *)
LEMMA CrateTyped ==
  ASSUME NEW p \in Procs, NEW step \in Pcs, NEW l \in Memory, Ready(step, l), Typed, Goto(p, step, l),
         crate' \in Crates, exported' \subseteq Key, UNCHANGED <<xbc, dir, keys>>
  PROVE  Typed'
<1>1. Commands'
  BY GotoTyped DEF Typed
<1>2. Shared' /\ FilesTyped(dir')
  BY DEF Typed, Shared, Crates
<1> QED
  BY <1>1, <1>2 DEF Typed

LEMMA ExportVkTyped ==
  ASSUME NEW p \in Procs, Typed, ExportVk(p) PROVE Typed'
<1> DEFINE vk == loc[p].vk
<1>1. loc[p] \in Memory /\ vk \in Key
  BY ExportIs DEF ExportPcs, ExportVk
<1>2. Ready("export_write_sample", loc[p]) /\ "export_write_sample" \in Pcs
  BY <1>1, ExportReady DEF ExportPcs
<1>3. crate' = [crate EXCEPT !.vk = vk] /\ exported' \subseteq exported \cup {vk}
  BY DEF ExportVk
<1>4. crate \in Crates /\ exported \subseteq Key
  BY DEF Typed, Shared, Crates
<1> HIDE DEF vk
<1>5. crate' \in Crates /\ exported' \subseteq Key
  BY <1>1, <1>3, <1>4 DEF Crates
<1> QED
  BY <1>1, <1>2, <1>5, CrateTyped DEF ExportVk

LEMMA ExportWriteSampleTyped ==
  ASSUME NEW p \in Procs, Typed, ExportWriteSample(p) PROVE Typed'
<1> DEFINE s == loc[p].sample
<1>1. loc[p] \in Memory /\ loc[p].vk \in Key
  BY ExportIs DEF ExportPcs, ExportWriteSample
<1>2. s \in Proven \cup {Absent}
  BY <1>1 DEF Memory
<1>3. Ready("export_lib", loc[p]) /\ "export_lib" \in Pcs
  BY <1>1, ExportReady DEF ExportPcs
<1>4. crate' = [crate EXCEPT !.sample = s] /\ exported' = exported
  BY DEF ExportWriteSample
<1>5. crate \in Crates /\ exported \subseteq Key
  BY DEF Typed, Shared, Crates
<1> HIDE DEF s
<1>6. crate' \in Crates /\ exported' \subseteq Key
  BY <1>2, <1>4, <1>5 DEF Crates
<1> QED
  BY <1>1, <1>3, <1>6, CrateTyped DEF ExportWriteSample

LEMMA ExportLibTyped ==
  ASSUME NEW p \in Procs, Typed, ExportLib(p) PROVE Typed'
<1> DEFINE t == loc[p].sample # Absent
<1>1. t \in BOOLEAN
  OBVIOUS
<1>2. crate' = [crate EXCEPT !.test = t] /\ exported' = exported
  BY DEF ExportLib
<1>3. crate \in Crates /\ exported \subseteq Key
  BY DEF Typed, Shared, Crates
<1> HIDE DEF t
<1>4. crate' \in Crates /\ exported' \subseteq Key
  BY <1>1, <1>2, <1>3 DEF Crates
<1> QED
  BY <1>4, NoLocIs, CrateTyped DEF ExportLib

-----------------------------------------------------------------------------
LEMMA RebuildTyped == ASSUME Typed, Rebuild PROVE Typed'
  BY DEF Typed, Shared, Commands, Rebuild

LEMMA InitTyped == Init => Typed
<1> SUFFICES ASSUME Init PROVE Typed
  OBVIOUS
<1>1. FilesTyped(dir)
  <2>1. DOMAIN dir = Names /\ \A f \in Names : dir[f] = Absent
    BY DEF Init
  <2> QED
    BY <2>1, NamesAre DEF FilesTyped, Missing
<1>2. Shared
  BY KeyStoreAssumption DEF Init, Shared
<1>3. Commands
  BY NoLocIs DEF Init, Commands
<1> QED
  BY <1>1, <1>2, <1>3 DEF Typed

LEMMA SetupStepTyped ==
  ASSUME NEW p \in Procs, Typed, SetupStep(p) PROVE Typed'
<1>1. CASE \E mode \in {"dev", "ptau"}, form \in Forms, compressed \in BOOLEAN : StartSetup(p, mode, form, compressed)
  BY <1>1, PlanTyped DEF StartSetup
<1>2. CASE SetupGo(p)
  BY <1>2, SetupRowsTyped, SetupDigestTyped, SetupPkTyped, SetupVkTyped, SetupHashTyped, SetupMetaTyped,
     SetupUnmarkTyped, SetupRenameTyped DEF SetupGo
<1> QED
  BY <1>1, <1>2 DEF SetupStep

LEMMA ProveStepTyped ==
  ASSUME NEW p \in Procs, Typed, ProveStep(p) PROVE Typed'
  BY StartProveTyped, ProveFormTyped, ProveFitTyped, ProveRowsTyped, ProveOpenTyped, ProveRunTyped,
     ProveCacheTyped, ProveProofTyped, ProvePublicTyped DEF ProveStep, ProveGo

LEMMA ExportStepTyped ==
  ASSUME NEW p \in Procs, Typed, ExportStep(p) PROVE Typed'
  BY StartExportTyped, ExportSafeTyped, ExportFitTyped, ExportSampleTyped, ExportVkTyped,
     ExportWriteSampleTyped, ExportLibTyped DEF ExportStep

LEMMA NextTyped == Typed /\ [Next]_vars => Typed'
<1> SUFFICES ASSUME Typed, [Next]_vars PROVE Typed'
  OBVIOUS
<1>1. CASE UNCHANGED vars
  BY <1>1 DEF vars, Typed, Shared, Commands
<1>2. CASE Next
  BY <1>2, RebuildTyped, SetupStepTyped, ProveStepTyped, ExportStepTyped, StopTyped DEF Next
<1> QED
  BY <1>1, <1>2

-----------------------------------------------------------------------------
(* The directory describes itself while one setup runs at a time.          *)

(* No two setups at once: they would write under the same temporary names. *)
OneSetup == \A p, q \in Procs : pc[p] \in SetupPcs /\ pc[q] \in SetupPcs => p = q

(* The steps of a setup that has written the proving key.                  *)
Late == {"setup_vk", "setup_hash", "setup_meta", "setup_unmark", "setup_rename"}

(* meta describes the key a setup made.                                    *)
Describes(m, l) ==
  /\ m \in Metadata
  /\ m.hash = l.build /\ m.form = l.key.form /\ m.safe = l.key.safe /\ m.vk = l.key

(* What a setup has written so far.                                        *)
Setting(step, l, d) ==
  /\ step \in Late \ {"setup_rename"} \/ (step = "setup_rename" /\ l.k = 1) => d["pk.tmp"] = l.key
  /\ step \in Late \ {"setup_vk", "setup_rename"} \/ (step = "setup_rename" /\ l.k \in {1, 2}) => d["vk.tmp"] = l.key
  /\ step = "setup_meta" => l.hashed = l.key
  /\ step \in {"setup_unmark", "setup_rename"} => Describes(d["meta.tmp"], l)
  /\ step = "setup_rename" => d["meta"] = Absent
  /\ step = "setup_rename" /\ l.k \in {2, 3} => d["pk"] = l.key
  /\ step = "setup_rename" /\ l.k = 3 => d["vk"] = l.key

(* The names keys are kept under never hold half a file.                   *)
Kept(d) ==
  /\ d["pk"] \in Key \cup {Absent} /\ d["vk"] \in Key \cup {Absent}
  /\ d["meta"] \in Metadata \cup {Absent}

(* Metadata is of the keys beside it.                                      *)
Matching(d) ==
  d["meta"] # Absent =>
    /\ d["pk"] \in Key /\ d["pk"] = d["vk"] /\ d["vk"] = d["meta"].vk
    /\ d["meta"].safe = d["pk"].safe /\ d["meta"].form = d["pk"].form
    /\ d["meta"].hash.digest = d["pk"].digest

Setups ==
  /\ Typed
  /\ Kept(dir) /\ Matching(dir)
  /\ \A p \in Procs : Setting(pc[p], loc[p], dir)

LEMMA LateIs == Late \subseteq SetupPcs /\ "idle" \notin Late /\ \A x \in ProvePcs \cup ExportPcs : x \notin SetupPcs /\ x \notin Late
  BY DEF Late, SetupPcs, ProvePcs, ProveKind, ProveOn, ProveFed, ProveRead, ExportPcs

LEMMA NotLate == ASSUME NEW step, step \notin Late, NEW l, NEW d PROVE Setting(step, l, d)
<1>1. step # "setup_meta" /\ step \notin {"setup_unmark", "setup_rename"}
  BY DEF Late
<1> QED
  BY <1>1 DEF Setting

LEMMA SameKeys ==
  ASSUME NEW d, NEW e, Kept(d), Matching(d), \A f \in {"pk", "vk", "meta"} : e[f] = d[f]
  PROVE  Kept(e) /\ Matching(e)
  BY DEF Kept, Matching

(* A step of a setup, the only one there is.                               *)
LEMMA SetupKeeps ==
  ASSUME Setups, OneSetup, NEW p \in Procs, pc[p] \in SetupPcs, NEW step \in Pcs, NEW l \in Memory, Goto(p, step, l),
         Typed', Kept(dir'), Matching(dir'), Setting(step, l, dir')
  PROVE  Setups'
<1>1. pc'[p] = step /\ loc'[p] = l /\ \A q \in Procs : q # p => pc'[q] = pc[q] /\ loc'[q] = loc[q]
  BY DEF Setups, Typed, Commands, Goto
<1>2. ASSUME NEW q \in Procs PROVE Setting(pc'[q], loc'[q], dir')
  <2>1. CASE q = p
    BY <1>1, <2>1
  <2>2. CASE q # p
    <3>1. pc[q] \notin Late
      BY <2>2, LateIs DEF OneSetup
    <3> QED
      BY <1>1, <2>2, <3>1, NotLate
  <2> QED
    BY <2>1, <2>2
<1> QED
  BY <1>2 DEF Setups

(* A step that leaves the keys and the metadata alone.                     *)
LEMMA QuietKeeps ==
  ASSUME Setups, NEW p \in Procs, NEW step \in Pcs, step \notin Late, NEW l \in Memory, Goto(p, step, l), Typed',
         \A f \in KeyFiles \cup MetaFiles : dir'[f] = dir[f]
  PROVE  Setups'
<1>1. pc'[p] = step /\ loc'[p] = l /\ \A q \in Procs : q # p => pc'[q] = pc[q] /\ loc'[q] = loc[q]
  BY DEF Setups, Typed, Commands, Goto
<1>2. \A f \in {"pk", "vk", "meta", "pk.tmp", "vk.tmp", "meta.tmp"} : dir'[f] = dir[f]
  BY DEF KeyFiles, MetaFiles
<1>3. Kept(dir') /\ Matching(dir')
  BY <1>2, SameKeys DEF Setups
<1>4. ASSUME NEW q \in Procs PROVE Setting(pc'[q], loc'[q], dir')
  <2>1. CASE q = p
    BY <1>1, <2>1, NotLate
  <2>2. CASE q # p
    <3>1. Setting(pc'[q], loc'[q], dir)
      BY <1>1, <2>2 DEF Setups
    <3> QED
      BY <1>2, <3>1 DEF Setting
  <2> QED
    BY <2>1, <2>2
<1> QED
  BY <1>3, <1>4 DEF Setups

LEMMA PutIs ==
  ASSUME Typed, NEW f \in Names, NEW c, Put(f, c)
  PROVE  dir'[f] = c /\ \A g \in Names : g # f => dir'[g] = dir[g]
  BY DEF Put, Typed, FilesTyped

LEMMA SixFiles == KeyFiles \cup MetaFiles = {"pk", "vk", "meta", "pk.tmp", "vk.tmp", "meta.tmp"}
                  /\ KeyFiles \cup MetaFiles \subseteq Names
  BY DEF KeyFiles, MetaFiles, Names

LEMMA StopKeeps ==
  ASSUME Setups, OneSetup, NEW p \in Procs, Stop(p) PROVE Setups'
<1>1. Typed'
  BY StopTyped DEF Setups
<1>2. NoLoc \in Memory /\ "idle" \in Pcs /\ "idle" \notin Late /\ Goto(p, "idle", NoLoc)
  BY NoLocIs, LateIs DEF Stop
<1>3. CASE UNCHANGED dir
  BY <1>1, <1>2, <1>3, QuietKeeps
<1>4. CASE \E f \in BeingWritten(p) : Put(f, Torn)
  <2>1. PICK f \in BeingWritten(p) : Put(f, Torn)
    BY <1>4
  <2>2. f \in {"rows", "pk.tmp", "vk.tmp", "meta.tmp", "proof", "public"}
    BY DEF BeingWritten
  <2>3. f \in Names /\ \A g \in {"pk", "vk", "meta"} : g \in Names /\ g # f
    BY <2>2 DEF Names
  <2>4. \A g \in Names : g # f => dir'[g] = dir[g]
    BY <2>1, <2>3, PutIs DEF Setups
  <2>5. CASE f \in {"rows", "proof", "public"}
    <3>1. \A g \in KeyFiles \cup MetaFiles : dir'[g] = dir[g]
      BY <2>4, <2>5, SixFiles
    <3> QED
      BY <1>1, <1>2, <3>1, QuietKeeps
  <2>6. CASE f \in {"pk.tmp", "vk.tmp", "meta.tmp"}
    <3>1. pc[p] \in SetupPcs
      BY <2>6 DEF BeingWritten, SetupPcs
    <3>2. Kept(dir') /\ Matching(dir')
      BY <2>3, <2>4, SameKeys DEF Setups
    <3> QED
      BY <1>1, <1>2, <3>1, <3>2, NotLate, SetupKeeps
  <2> QED
    BY <2>2, <2>5, <2>6
<1> QED
  BY <1>3, <1>4 DEF Stop

(* A setup's steps until it has written the metadata under its own name.   *)
LEMMA SetupRowsKeeps ==
  ASSUME Setups, OneSetup, NEW p \in Procs, SetupRows(p) PROVE Setups'
<1>1. Typed' /\ loc[p] \in Memory /\ "setup_digest" \in Pcs /\ "setup_digest" \notin Late /\ Goto(p, "setup_digest", loc[p])
  BY SetupRowsTyped, Mine DEF Setups, SetupRows, Pcs, SetupPcs, Late
<1>2. UNCHANGED dir \/ \E c : Put("rows", c)
  BY DEF SetupRows
<1>3. \A g \in KeyFiles \cup MetaFiles : dir'[g] = dir[g]
  <2>1. CASE UNCHANGED dir
    BY <2>1
  <2>2. CASE \E c : Put("rows", c)
    BY <2>2, PutIs, NamesAre DEF Setups
  <2> QED
    BY <1>2, <2>1, <2>2
<1> QED
  BY <1>1, <1>3, QuietKeeps

LEMMA SetupDigestKeeps ==
  ASSUME Setups, OneSetup, NEW p \in Procs, SetupDigest(p) PROVE Setups'
<1>1. PICK l : Goto(p, "setup_pk", l)
  BY DEF SetupDigest
<1>2. Typed'
  BY SetupDigestTyped DEF Setups
<1>3. l \in Memory
  <2>1. loc'[p] = l
    BY <1>1 DEF Setups, Typed, Commands, Goto
  <2> QED
    BY <1>2, <2>1 DEF Typed, Commands
<1>4. "setup_pk" \in Pcs /\ "setup_pk" \notin Late
  BY DEF Pcs, SetupPcs, Late
<1>5. \A g \in KeyFiles \cup MetaFiles : dir'[g] = dir[g]
  BY DEF SetupDigest
<1> QED
  BY <1>1, <1>2, <1>3, <1>4, <1>5, QuietKeeps

(* A step of a setup that writes one of the files it will rename.          *)
LEMMA WriteKeeps ==
  ASSUME Setups, OneSetup, NEW p \in Procs, pc[p] \in SetupPcs, NEW step \in Pcs, Goto(p, step, loc[p]), Typed',
         NEW f \in {"pk.tmp", "vk.tmp", "meta.tmp"}, NEW c, Put(f, c),
         Setting(step, loc[p], dir')
  PROVE  Setups'
<1>1. f \in Names /\ \A g \in {"pk", "vk", "meta"} : g \in Names /\ g # f
  BY DEF Names
<1>2. \A g \in {"pk", "vk", "meta"} : dir'[g] = dir[g]
  BY <1>1, PutIs DEF Setups
<1>3. Kept(dir') /\ Matching(dir')
  BY <1>2, SameKeys DEF Setups
<1>4. loc[p] \in Memory
  BY Mine DEF Setups
<1> QED
  BY <1>3, <1>4, SetupKeeps

LEMMA SetupPkKeeps ==
  ASSUME Setups, OneSetup, NEW p \in Procs, SetupPk(p) PROVE Setups'
<1>1. pc[p] \in SetupPcs /\ "setup_vk" \in Pcs /\ Goto(p, "setup_vk", loc[p]) /\ Put("pk.tmp", loc[p].key)
  BY DEF SetupPk, SetupPcs, Pcs
<1>2. dir'["pk.tmp"] = loc[p].key
  BY <1>1, PutIs, NamesAre DEF Setups, KeyFiles
<1>3. Setting("setup_vk", loc[p], dir')
  BY <1>2 DEF Setting
<1> QED
  BY <1>1, <1>3, SetupPkTyped, WriteKeeps DEF Setups

LEMMA SetupVkKeeps ==
  ASSUME Setups, OneSetup, NEW p \in Procs, SetupVk(p) PROVE Setups'
<1>1. pc[p] \in SetupPcs /\ pc[p] = "setup_vk" /\ "setup_hash" \in Pcs /\ Goto(p, "setup_hash", loc[p])
      /\ Put("vk.tmp", loc[p].key)
  BY DEF SetupVk, SetupPcs, Pcs
<1>2. dir'["vk.tmp"] = loc[p].key /\ dir'["pk.tmp"] = dir["pk.tmp"]
  BY <1>1, PutIs, NamesAre DEF Setups, KeyFiles
<1>3. dir["pk.tmp"] = loc[p].key
  BY <1>1 DEF Setups, Setting, Late
<1>4. Setting("setup_hash", loc[p], dir')
  BY <1>2, <1>3 DEF Setting
<1> QED
  BY <1>1, <1>4, SetupVkTyped, WriteKeeps DEF Setups

LEMMA SetupHashKeeps ==
  ASSUME Setups, OneSetup, NEW p \in Procs, SetupHash(p) PROVE Setups'
<1> DEFINE h == dir["vk.tmp"]
           l == [loc[p] EXCEPT !.hashed = h]
<1>1. pc[p] \in SetupPcs /\ pc[p] = "setup_hash" /\ "setup_meta" \in Pcs /\ Goto(p, "setup_meta", l) /\ UNCHANGED dir
  BY DEF SetupHash, SetupPcs, Pcs
<1>2. loc[p] \in Memory /\ Typed'
  BY Mine, SetupHashTyped DEF Setups
<1>3. h = loc[p].key /\ dir["pk.tmp"] = loc[p].key
  BY <1>1 DEF Setups, Setting, Late
<1>4. h \in Key \cup Missing
  BY DEF Setups, Typed, FilesTyped, KeyFiles
<1> HIDE DEF h
<1>5. l \in Memory
  BY <1>2, <1>4 DEF Memory
<1>6. l.key = loc[p].key /\ l.hashed = h
  BY <1>2 DEF Memory
<1> HIDE DEF l
<1>7. dir["vk.tmp"] = loc[p].key
  BY <1>3 DEF h
<1>8. Setting("setup_meta", l, dir')
  BY <1>1, <1>3, <1>6, <1>7 DEF Setting
<1>9. Kept(dir') /\ Matching(dir')
  BY <1>1 DEF Setups
<1> QED
  BY <1>1, <1>2, <1>5, <1>8, <1>9, SetupKeeps

LEMMA SetupMetaKeeps ==
  ASSUME Setups, OneSetup, NEW p \in Procs, SetupMeta(p) PROVE Setups'
<1> DEFINE m == [hash |-> loc[p].build, digest |-> loc[p].digest,
                 form |-> loc[p].key.form, safe |-> loc[p].key.safe, vk |-> loc[p].hashed]
<1>1. pc[p] \in SetupPcs /\ pc[p] = "setup_meta" /\ "setup_unmark" \in Pcs /\ Goto(p, "setup_unmark", loc[p])
      /\ Put("meta.tmp", m)
  BY DEF SetupMeta, SetupPcs, Pcs
<1>2. Typed'
  BY SetupMetaTyped DEF Setups
<1>3. m.hash = loc[p].build /\ m.form = loc[p].key.form /\ m.safe = loc[p].key.safe /\ m.vk = loc[p].hashed
  OBVIOUS
<1> HIDE DEF m
<1>4. dir'["meta.tmp"] = m /\ dir'["pk.tmp"] = dir["pk.tmp"] /\ dir'["vk.tmp"] = dir["vk.tmp"]
  BY <1>1, PutIs, NamesAre DEF Setups, KeyFiles, MetaFiles
<1>5. dir["pk.tmp"] = loc[p].key /\ dir["vk.tmp"] = loc[p].key /\ loc[p].hashed = loc[p].key
  BY <1>1 DEF Setups, Setting, Late
<1>6. m \in Metadata
  BY <1>1, MetaMade DEF Setups, m
<1>7. Describes(m, loc[p])
  BY <1>3, <1>5, <1>6 DEF Describes
<1>8. Setting("setup_unmark", loc[p], dir')
  BY <1>4, <1>5, <1>7 DEF Setting
<1> QED
  BY <1>1, <1>2, <1>8, WriteKeeps

LEMMA SetupUnmarkKeeps ==
  ASSUME Setups, OneSetup, NEW p \in Procs, SetupUnmark(p) PROVE Setups'
<1> DEFINE l == [loc[p] EXCEPT !.k = 1]
<1>1. pc[p] \in SetupPcs /\ pc[p] = "setup_unmark" /\ Goto(p, "setup_rename", l) /\ Put("meta", Absent)
  BY DEF SetupUnmark, SetupPcs
<1>2. l = [loc[p] EXCEPT !.k = 1] /\ 1 \in 1..3
  OBVIOUS
<1> HIDE DEF l
<1>3. /\ l \in Memory /\ "setup_rename" \in Pcs
      /\ l.build = loc[p].build /\ l.key = loc[p].key /\ l.k = 1
  BY <1>1, <1>2, SetupIs, NextRename DEF Setups
<1>4. Typed'
  BY SetupUnmarkTyped DEF Setups
<1>5. dir'["meta"] = Absent /\ \A g \in {"pk", "vk", "pk.tmp", "vk.tmp", "meta.tmp"} : dir'[g] = dir[g]
  <2>1. \A g \in {"pk", "vk", "pk.tmp", "vk.tmp", "meta.tmp"} : g \in Names /\ g # "meta"
    BY DEF Names
  <2> QED
    BY <1>1, <2>1, PutIs, NamesAre DEF Setups, MetaFiles
<1>6. dir["pk.tmp"] = loc[p].key /\ dir["vk.tmp"] = loc[p].key /\ Describes(dir["meta.tmp"], loc[p])
  BY <1>1 DEF Setups, Setting, Late
<1>7. Setting("setup_rename", l, dir')
  BY <1>3, <1>5, <1>6 DEF Setting, Describes
<1>8. Kept(dir') /\ Matching(dir')
  BY <1>5 DEF Setups, Kept, Matching
<1> QED
  BY <1>1, <1>3, <1>4, <1>7, <1>8, SetupKeeps

LEMMA SetupRenameKeeps ==
  ASSUME Setups, OneSetup, NEW p \in Procs, SetupRename(p) PROVE Setups'
<1> DEFINE k == loc[p].k
           from == SetupOrder[k][1]
           to   == SetupOrder[k][2]
           key  == loc[p].key
<1>1. pc[p] \in SetupPcs /\ pc[p] = "setup_rename" /\ dir' = [dir EXCEPT ![to] = dir[from], ![from] = Absent]
  BY DEF SetupRename, SetupPcs
<1>2. Typed' /\ Typed
  BY SetupRenameTyped DEF Setups
<1>3. k \in 1..3
  BY <1>1, <1>2, Mine DEF Ready, Memory
<1>4. loc[p] \in Memory /\ loc[p].build \in Builds /\ key \in Key /\ key.digest = loc[p].build.digest
  BY <1>1, <1>2, SetupIs
<1>5. /\ dir["meta"] = Absent /\ Describes(dir["meta.tmp"], loc[p])
      /\ k = 1 => dir["pk.tmp"] = key /\ dir["vk.tmp"] = key
      /\ k = 2 => dir["vk.tmp"] = key /\ dir["pk"] = key
      /\ k = 3 => dir["pk"] = key /\ dir["vk"] = key
  <2>1. Setting("setup_rename", loc[p], dir)
    BY <1>1 DEF Setups
  <2> QED
    BY <2>1 DEF Setting
<1>6. Kept(dir)
  BY DEF Setups
<1>7. \/ k < 3 /\ Goto(p, "setup_rename", [loc[p] EXCEPT !.k = k + 1])
      \/ k = 3 /\ Goto(p, "prove_form", [NoLoc EXCEPT !.op = "prove", !.cache = loc[p].cache])
      \/ k = 3 /\ Goto(p, "idle", NoLoc)
  BY <1>3 DEF SetupRename
<1>8. DOMAIN dir = Names /\ \A g \in {"pk", "vk", "meta", "pk.tmp", "vk.tmp", "meta.tmp"} : g \in Names
  BY <1>2 DEF Typed, FilesTyped, Names
<1> HIDE DEF k, key
<1>9. CASE k = 1
  <2> DEFINE l == [loc[p] EXCEPT !.k = k + 1]
  <2>1. l = [loc[p] EXCEPT !.k = k + 1] /\ k + 1 \in 1..3 /\ k + 1 = 2 /\ Goto(p, "setup_rename", l)
    BY <1>7, <1>9
  <2> HIDE DEF l
  <2>2. /\ l \in Memory /\ "setup_rename" \in Pcs
        /\ l.build = loc[p].build /\ l.key = loc[p].key /\ l.k = 2
    BY <1>4, <2>1, NextRename DEF key
  <2>3. from = "pk.tmp" /\ to = "pk"
    BY <1>9, OrderIs
  <2>4. dir'["pk"] = dir["pk.tmp"] /\ \A g \in {"vk", "meta", "vk.tmp", "meta.tmp"} : dir'[g] = dir[g]
    BY <1>1, <1>8, <2>3
  <2>5. Setting("setup_rename", l, dir')
    BY <1>5, <1>9, <2>2, <2>4 DEF Setting, Describes, key
  <2>6. Kept(dir') /\ Matching(dir')
    BY <1>4, <1>5, <1>6, <1>9, <2>4 DEF Kept, Matching
  <2> QED
    BY <1>1, <1>2, <2>1, <2>2, <2>5, <2>6, SetupKeeps
<1>10. CASE k = 2
  <2> DEFINE l == [loc[p] EXCEPT !.k = k + 1]
  <2>1. l = [loc[p] EXCEPT !.k = k + 1] /\ k + 1 \in 1..3 /\ k + 1 = 3 /\ Goto(p, "setup_rename", l)
    BY <1>7, <1>10
  <2> HIDE DEF l
  <2>2. /\ l \in Memory /\ "setup_rename" \in Pcs
        /\ l.build = loc[p].build /\ l.key = loc[p].key /\ l.k = 3
    BY <1>4, <2>1, NextRename DEF key
  <2>3. from = "vk.tmp" /\ to = "vk"
    BY <1>10, OrderIs
  <2>4. dir'["vk"] = dir["vk.tmp"] /\ \A g \in {"pk", "meta", "meta.tmp"} : dir'[g] = dir[g]
    BY <1>1, <1>8, <2>3
  <2>5. Setting("setup_rename", l, dir')
    BY <1>5, <1>10, <2>2, <2>4 DEF Setting, Describes, key
  <2>6. Kept(dir') /\ Matching(dir')
    BY <1>4, <1>5, <1>6, <1>10, <2>4 DEF Kept, Matching
  <2> QED
    BY <1>1, <1>2, <2>1, <2>2, <2>5, <2>6, SetupKeeps
<1>11. CASE k = 3
  <2>1. from = "meta.tmp" /\ to = "meta"
    BY <1>11, OrderIs
  <2>2. dir'["meta"] = dir["meta.tmp"] /\ dir'["pk"] = key /\ dir'["vk"] = key
    BY <1>1, <1>5, <1>8, <1>11, <2>1
  <2>3. Kept(dir') /\ Matching(dir')
    BY <1>4, <1>5, <2>2 DEF Kept, Matching, Describes, key
  <2>4. \E step \in {"idle", "prove_form"} : \E l : Goto(p, step, l)
    BY <1>7, <1>11
  <2>5. PICK step, l : step \in {"idle", "prove_form"} /\ Goto(p, step, l)
    BY <2>4
  <2>6. step \in Pcs /\ l \in Memory
    <3>1. pc'[p] = step /\ loc'[p] = l
      BY <1>2, <2>5 DEF Typed, Commands, Goto
    <3> QED
      BY <1>2, <3>1 DEF Typed, Commands
  <2>7. step \notin Late
    BY <2>5 DEF Late
  <2> QED
    BY <1>1, <1>2, <2>3, <2>5, <2>6, <2>7, NotLate, SetupKeeps
<1> QED
  BY <1>3, <1>9, <1>10, <1>11

(* Planning and proving leave the keys, the metadata and the crate alone.  *)
Quiet(p) ==
  /\ \E step \in {"idle", "setup_rows"} \cup ProvePcs : \E l : Goto(p, step, l)
  /\ \A g \in KeyFiles \cup MetaFiles : dir'[g] = dir[g]
  /\ UNCHANGED <<crate, exported>>

LEMMA QuietFiles ==
  ASSUME Typed,
         \/ UNCHANGED dir
         \/ \E f \in {"rows", "proof", "public", "decoded.tmp"} : \E c : Put(f, c)
         \/ \E a, b : dir' = [dir EXCEPT !["decoded.tmp"] = a, !["decoded"] = b]
         \/ \E a, b : dir' = [dir EXCEPT !["decoded"] = a, !["decoded.tmp"] = b]
  PROVE  \A g \in KeyFiles \cup MetaFiles : dir'[g] = dir[g]
<1>1. \A g \in KeyFiles \cup MetaFiles : g \in Names /\ g \notin {"rows", "proof", "public", "decoded.tmp", "decoded"}
  BY DEF KeyFiles, MetaFiles, Names
<1>2. CASE UNCHANGED dir
  BY <1>2
<1>3. CASE \E f \in {"rows", "proof", "public", "decoded.tmp"} : \E c : Put(f, c)
  <2>1. {"rows", "proof", "public", "decoded.tmp"} \subseteq Names
    BY DEF Names
  <2> QED
    BY <1>1, <1>3, <2>1, PutIs
<1>4. CASE \E a, b : dir' = [dir EXCEPT !["decoded.tmp"] = a, !["decoded"] = b]
  BY <1>1, <1>4 DEF Typed, FilesTyped
<1>5. CASE \E a, b : dir' = [dir EXCEPT !["decoded"] = a, !["decoded.tmp"] = b]
  BY <1>1, <1>5 DEF Typed, FilesTyped
<1> QED
  BY <1>2, <1>3, <1>4, <1>5

LEMMA QuietStep == ASSUME Setups, NEW p \in Procs, Typed', Quiet(p) PROVE Setups'
<1>1. PICK step, l : step \in {"idle", "setup_rows"} \cup ProvePcs /\ Goto(p, step, l)
  BY DEF Quiet
<1>2. l \in Memory
  <2>1. loc'[p] = l
    BY <1>1 DEF Setups, Typed, Commands, Goto
  <2> QED
    BY <2>1 DEF Typed, Commands
<1>3. step \in Pcs /\ step \notin Late
  BY <1>1, LateIs DEF Pcs, Late, SetupPcs
<1> QED
  BY <1>1, <1>2, <1>3, QuietKeeps DEF Quiet

LEMMA PlanQuiet ==
  ASSUME NEW p \in Procs, NEW mode, NEW form, NEW compressed, NEW auto, NEW cache,
         PlanSetup(p, mode, form, compressed, auto, cache)
  PROVE  Quiet(p)
  BY DEF PlanSetup, Quiet

LEMMA ProveSteps ==
  {"prove_form", "prove_fit", "prove_rows", "prove_open", "prove_run", "prove_cache", "prove_proof", "prove_public"}
    \subseteq ProvePcs
  BY DEF ProvePcs, ProveKind, ProveOn, ProveFed, ProveRead

LEMMA ProveQuiet == ASSUME Typed, NEW p \in Procs, ProveStep(p) PROVE Quiet(p)
<1>1. UNCHANGED <<crate, exported>>
  BY DEF ProveStep, ProveGo, StartProve, PlanSetup, ProveForm, ProveFit, ProveRows, ProveOpen, ProveRun, ProveCache,
     ProveProof, ProvePublic
<1>2. CASE \E form \in Forms, cache \in BOOLEAN : PlanSetup(p, "dev", form, TRUE, TRUE, cache)
  BY <1>2, PlanQuiet
<1>3. CASE \E cache \in BOOLEAN : UNCHANGED dir /\ \E l : Goto(p, "prove_form", l)
  BY <1>1, <1>3, ProveSteps DEF Quiet
<1>4. CASE ProveForm(p)
  <2>1. UNCHANGED dir /\ \E l : Goto(p, "prove_fit", l)
    BY <1>4 DEF ProveForm
  <2> QED
    BY <1>1, <2>1, ProveSteps, QuietFiles DEF Quiet
<1>5. CASE ProveFit(p)
  <2>1. UNCHANGED dir /\ \E l : Goto(p, "prove_rows", l)
    BY <1>5 DEF ProveFit
  <2> QED
    BY <1>1, <2>1, ProveSteps, QuietFiles DEF Quiet
<1>6. CASE ProveRows(p)
  <2>1. (UNCHANGED dir \/ \E c : Put("rows", c)) /\ \E l : Goto(p, "prove_open", l)
    BY <1>6 DEF ProveRows
  <2> QED
    BY <1>1, <2>1, ProveSteps, QuietFiles DEF Quiet
<1>7. CASE ProveOpen(p)
  <2>1. (UNCHANGED dir \/ \E c : Put("decoded.tmp", c)) /\ \E l : Goto(p, "prove_run", l)
    BY <1>7 DEF ProveOpen
  <2> QED
    BY <1>1, <2>1, ProveSteps, QuietFiles DEF Quiet
<1>8. CASE ProveRun(p)
  <2>1. /\ UNCHANGED dir \/ \E a, b : dir' = [dir EXCEPT !["decoded.tmp"] = a, !["decoded"] = b]
        /\ \E step \in {"prove_cache", "prove_proof"} : \E l : Goto(p, step, l)
    BY <1>8 DEF ProveRun
  <2> QED
    BY <1>1, <2>1, ProveSteps, QuietFiles DEF Quiet
<1>9. CASE ProveCache(p)
  <2>1. /\ (\E a, b : dir' = [dir EXCEPT !["decoded"] = a, !["decoded.tmp"] = b]) \/ Put("decoded.tmp", Absent)
        /\ \E l : Goto(p, "prove_proof", l)
    BY <1>9 DEF ProveCache
  <2> QED
    BY <1>1, <2>1, ProveSteps, QuietFiles DEF Quiet
<1>10. CASE ProveProof(p)
  <2>1. (\E c : Put("proof", c)) /\ \E l : Goto(p, "prove_public", l)
    BY <1>10 DEF ProveProof
  <2> QED
    BY <1>1, <2>1, ProveSteps, QuietFiles DEF Quiet
<1>11. CASE ProvePublic(p)
  <2>1. (\E c : Put("public", c)) /\ \E l : Goto(p, "idle", l)
    BY <1>11 DEF ProvePublic
  <2> QED
    BY <1>1, <2>1, ProveSteps, QuietFiles DEF Quiet
<1> QED
  BY <1>2, <1>3, <1>4, <1>5, <1>6, <1>7, <1>8, <1>9, <1>10, <1>11 DEF ProveStep, ProveGo, StartProve

LEMMA PlanKeeps ==
  ASSUME Setups, NEW p \in Procs, NEW mode \in {"dev", "ptau"}, NEW form \in Forms, NEW compressed \in BOOLEAN,
         NEW auto \in BOOLEAN, NEW cache \in BOOLEAN, PlanSetup(p, mode, form, compressed, auto, cache)
  PROVE  Setups'
  BY PlanTyped, PlanQuiet, QuietStep DEF Setups

LEMMA ProveKeeps == ASSUME Setups, NEW p \in Procs, ProveStep(p) PROVE Setups'
  BY ProveStepTyped, ProveQuiet, QuietStep DEF Setups

LEMMA ExportKeeps == ASSUME Setups, NEW p \in Procs, ExportStep(p) PROVE Setups'
<1>1. Typed'
  BY ExportStepTyped DEF Setups
<1>2. UNCHANGED dir
  BY DEF ExportStep, StartExport, ExportSafe, ExportFit, ExportSample, ExportVk, ExportWriteSample, ExportLib
<1>3. PICK step, l : step \in {"idle"} \cup ExportPcs /\ Goto(p, step, l)
  BY DEF ExportStep, StartExport, ExportSafe, ExportFit, ExportSample, ExportVk, ExportWriteSample, ExportLib, ExportPcs
<1>4. l \in Memory
  <2>1. loc'[p] = l
    BY <1>3 DEF Setups, Typed, Commands, Goto
  <2> QED
    BY <1>1, <2>1 DEF Typed, Commands
<1>5. step \in Pcs /\ step \notin Late
  BY <1>3, LateIs DEF Pcs
<1> QED
  BY <1>1, <1>2, <1>3, <1>4, <1>5, QuietKeeps

LEMMA RebuildKeeps == ASSUME Setups, Rebuild PROVE Setups'
<1>1. Typed'
  BY RebuildTyped DEF Setups
<1> QED
  BY <1>1 DEF Setups, Rebuild

LEMMA SetupStepKeeps ==
  ASSUME Setups, OneSetup, NEW p \in Procs, SetupStep(p) PROVE Setups'
<1>1. CASE \E mode \in {"dev", "ptau"}, form \in Forms, compressed \in BOOLEAN : StartSetup(p, mode, form, compressed)
  BY <1>1, PlanKeeps DEF StartSetup
<1>2. CASE SetupGo(p)
  BY <1>2, SetupRowsKeeps, SetupDigestKeeps, SetupPkKeeps, SetupVkKeeps, SetupHashKeeps, SetupMetaKeeps,
     SetupUnmarkKeeps, SetupRenameKeeps DEF SetupGo
<1> QED
  BY <1>1, <1>2 DEF SetupStep

LEMMA NextSetups == Setups /\ OneSetup /\ [Next]_vars => Setups'
<1> SUFFICES ASSUME Setups, OneSetup, [Next]_vars PROVE Setups'
  OBVIOUS
<1>1. CASE UNCHANGED vars
  <2>1. Typed'
    BY <1>1, NextTyped DEF Setups
  <2> QED
    BY <1>1, <2>1 DEF vars, Setups
<1>2. CASE Next
  BY <1>2, RebuildKeeps, SetupStepKeeps, ProveKeeps, ExportKeeps, StopKeeps DEF Next
<1> QED
  BY <1>1, <1>2

LEMMA InitSetups == Init => Setups
<1> SUFFICES ASSUME Init PROVE Setups
  OBVIOUS
<1>1. Typed
  BY InitTyped
<1>2. dir["pk"] = Absent /\ dir["vk"] = Absent /\ dir["meta"] = Absent
  BY DEF Init, Names
<1>3. \A p \in Procs : Setting(pc[p], loc[p], dir)
  BY NotLate, LateIs DEF Init
<1> QED
  BY <1>1, <1>2, <1>3 DEF Setups, Kept, Matching

LEMMA SetupsDescribe == Setups => DirectoryDescribed
<1> SUFFICES ASSUME Setups PROVE DirectoryDescribed
  OBVIOUS
<1>1. TypeOK
  <2>1. dir["proof"] \in Proven \cup Missing
    BY DEF Setups, Typed, FilesTyped
  <2> QED
    BY <2>1 DEF Setups, Typed, Shared, FilesTyped, Kept, TypeOK, KeyFiles, MetaFiles, CopyFiles
<1>2. MetadataMatchesKeys
  <2>1. \A key \in Key : key \notin {Absent, Torn}
    BY ContentAssumption DEF Missing
  <2> QED
    BY <2>1 DEF Setups, Matching, MetadataMatchesKeys, Readable
<1> QED
  BY <1>1, <1>2 DEF DirectoryDescribed

(* Wherever setups, proofs and exports are interrupted, metadata.json is   *)
(* whole, and the keys beside it are the pair it names, of its kind, mode  *)
(* and circuit: setup.rs removes the old metadata before the first rename  *)
(* and renames the new one last.  Two setups at once are excluded.         *)
THEOREM Described == Spec /\ []OneSetup => []DirectoryDescribed
  BY InitSetups, NextSetups, SetupsDescribe, PTL DEF Spec

-----------------------------------------------------------------------------
(* What an export bundles.                                                 *)

(* While a command exports, no other exports and none sets up a key.       *)
ExportAlone == \A p, q \in Procs : pc[p] \in ExportPcs /\ pc[q] \in ExportPcs \cup SetupPcs => p = q

(* What an export has read and written so far.                             *)
Exporting(step, l, d, c) ==
  /\ step = "export_safe" => l.vk = d["vk"]
  /\ step \in ExportPcs \ {"export_safe"} => l.allow \/ l.vk.safe
  /\ step \in {"export_vk", "export_write_sample", "export_lib"} /\ l.sample # Absent => l.sample.key = l.vk
  /\ step \in {"export_write_sample", "export_lib"} => c.vk = l.vk
  /\ step = "export_lib" => c.sample = l.sample

Exports ==
  /\ Setups
  /\ ExportsOnlyProductionKeys
  /\ \A p \in Procs : Exporting(pc[p], loc[p], dir, crate)

LEMMA NotExporting ==
  ASSUME NEW step, step \notin ExportPcs, NEW l, NEW d, NEW c PROVE Exporting(step, l, d, c)
<1>1. step \notin {"export_safe", "export_vk", "export_write_sample", "export_lib"}
  BY DEF ExportPcs
<1> QED
  BY <1>1 DEF Exporting

LEMMA ElsewhereIs ==
  \A step \in {"idle", "prove_form"} \cup SetupPcs \cup ProvePcs : step \notin ExportPcs
  BY DEF SetupPcs, ProvePcs, ProveKind, ProveOn, ProveFed, ProveRead, ExportPcs

(* A step of an export or a setup: no other command is exporting.          *)
LEMMA AloneKeeps ==
  ASSUME Exports, ExportAlone, NEW p \in Procs, pc[p] \in ExportPcs \cup SetupPcs, NEW step, NEW l, Goto(p, step, l),
         Setups', ExportsOnlyProductionKeys', Exporting(step, l, dir', crate')
  PROVE  Exports'
<1>1. pc'[p] = step /\ loc'[p] = l /\ \A q \in Procs : q # p => pc'[q] = pc[q] /\ loc'[q] = loc[q]
  BY DEF Exports, Setups, Typed, Commands, Goto
<1>2. ASSUME NEW q \in Procs PROVE Exporting(pc'[q], loc'[q], dir', crate')
  <2>1. CASE q = p
    BY <1>1, <2>1
  <2>2. CASE q # p
    <3>1. pc[q] \notin ExportPcs
      BY <2>2 DEF ExportAlone
    <3> QED
      BY <1>1, <2>2, <3>1, NotExporting
  <2> QED
    BY <2>1, <2>2
<1> QED
  BY <1>2 DEF Exports

(* A step that changes neither vk.bin nor the crate.                       *)
LEMMA BesideKeeps ==
  ASSUME Exports, NEW p \in Procs, NEW step, NEW l, Goto(p, step, l),
         Setups', UNCHANGED <<crate, exported>>, dir'["vk"] = dir["vk"], Exporting(step, l, dir', crate)
  PROVE  Exports'
<1>1. pc'[p] = step /\ loc'[p] = l /\ \A q \in Procs : q # p => pc'[q] = pc[q] /\ loc'[q] = loc[q]
  BY DEF Exports, Setups, Typed, Commands, Goto
<1>2. ASSUME NEW q \in Procs PROVE Exporting(pc'[q], loc'[q], dir', crate')
  <2>1. CASE q = p
    BY <1>1, <2>1
  <2>2. CASE q # p
    <3>1. Exporting(pc'[q], loc'[q], dir, crate)
      BY <1>1, <2>2 DEF Exports
    <3> QED
      BY <3>1 DEF Exporting
  <2> QED
    BY <2>1, <2>2
<1>3. ExportsOnlyProductionKeys'
  BY DEF Exports, ExportsOnlyProductionKeys
<1> QED
  BY <1>2, <1>3 DEF Exports

LEMMA QuietExports ==
  ASSUME Exports, Setups', NEW p \in Procs, Quiet(p) PROVE Exports'
<1>1. PICK step, l : step \in {"idle", "setup_rows"} \cup ProvePcs /\ Goto(p, step, l)
  BY DEF Quiet
<1>2. step \notin ExportPcs
  BY <1>1, ElsewhereIs DEF SetupPcs
<1>3. dir'["vk"] = dir["vk"]
  BY DEF Quiet, KeyFiles
<1> QED
  BY <1>1, <1>2, <1>3, NotExporting, BesideKeeps DEF Quiet

LEMMA SetupGoExports ==
  ASSUME Exports, ExportAlone, OneSetup, NEW p \in Procs, SetupGo(p) PROVE Exports'
<1>1. Setups'
  BY SetupStepKeeps DEF Exports, SetupStep
<1>2. pc[p] \in SetupPcs
  BY DEF SetupGo, SetupRows, SetupDigest, SetupPk, SetupVk, SetupHash, SetupMeta, SetupUnmark, SetupRename, SetupPcs
<1>3. PICK step, l : step \in {"idle", "prove_form"} \cup SetupPcs /\ Goto(p, step, l)
  BY DEF SetupGo, SetupRows, SetupDigest, SetupPk, SetupVk, SetupHash, SetupMeta, SetupUnmark, SetupRename, SetupPcs
<1>4. UNCHANGED exported
  BY DEF SetupGo, SetupRows, SetupDigest, SetupPk, SetupVk, SetupHash, SetupMeta, SetupUnmark, SetupRename
<1>5. ExportsOnlyProductionKeys'
  BY <1>4 DEF Exports, ExportsOnlyProductionKeys
<1> QED
  BY <1>1, <1>2, <1>3, <1>5, ElsewhereIs, NotExporting, AloneKeeps

LEMMA StopExports ==
  ASSUME Exports, OneSetup, NEW p \in Procs, Stop(p) PROVE Exports'
<1>1. Setups'
  BY StopKeeps DEF Exports
<1>2. dir'["vk"] = dir["vk"]
  <2>1. CASE UNCHANGED dir
    BY <2>1
  <2>2. CASE \E f \in BeingWritten(p) : Put(f, Torn)
    <3>1. PICK f \in BeingWritten(p) : Put(f, Torn)
      BY <2>2
    <3>2. f \in {"rows", "pk.tmp", "vk.tmp", "meta.tmp", "proof", "public"}
      BY DEF BeingWritten
    <3>3. f \in Names /\ "vk" \in Names /\ "vk" # f
      BY <3>2 DEF Names
    <3> QED
      BY <3>1, <3>3, PutIs DEF Exports, Setups
  <2> QED
    BY <2>1, <2>2 DEF Stop
<1>3. Goto(p, "idle", NoLoc) /\ UNCHANGED <<crate, exported>> /\ "idle" \notin ExportPcs
  BY ElsewhereIs DEF Stop
<1> QED
  BY <1>1, <1>2, <1>3, NotExporting, BesideKeeps

LEMMA StartExportExports ==
  ASSUME Exports, NEW p \in Procs, NEW allow \in BOOLEAN, Setups', StartExport(p, allow) PROVE Exports'
<1> DEFINE vk == dir["vk"]
           l == [NoLoc EXCEPT !.op = "export", !.allow = allow, !.vk = vk]
<1>1. Goto(p, "export_safe", l) /\ UNCHANGED <<dir, crate, exported>>
  BY DEF StartExport
<1>2. NoLoc \in Memory
  BY NoLocIs
<1> HIDE DEF vk
<1>3. l.vk = vk
  BY <1>2 DEF Memory
<1> HIDE DEF l
<1>4. Exporting("export_safe", l, dir', crate)
  BY <1>1, <1>3 DEF Exporting, vk
<1> QED
  BY <1>1, <1>4, BesideKeeps

LEMMA ExportSafeExports ==
  ASSUME Exports, NEW p \in Procs, Setups', ExportSafe(p) PROVE Exports'
<1>1. pc[p] = "export_safe" /\ Goto(p, "export_fit", loc[p]) /\ UNCHANGED <<dir, crate, exported>>
  BY DEF ExportSafe
<1>2. loc[p].vk = dir["vk"]
  BY <1>1 DEF Exports, Exporting
<1>3. loc[p].allow \/ loc[p].vk.safe
  BY <1>2 DEF ExportSafe, ProductionSafe, Readable, Exports, Setups, Matching
<1>4. Exporting("export_fit", loc[p], dir', crate)
  BY <1>3 DEF Exporting
<1> QED
  BY <1>1, <1>4, BesideKeeps

LEMMA ExportFitExports ==
  ASSUME Exports, NEW p \in Procs, Setups', ExportFit(p) PROVE Exports'
<1>1. pc[p] = "export_fit" /\ Goto(p, "export_sample", loc[p]) /\ UNCHANGED <<dir, crate, exported>>
  BY DEF ExportFit
<1>2. loc[p].allow \/ loc[p].vk.safe
  BY <1>1 DEF Exports, Exporting, ExportPcs
<1>3. Exporting("export_sample", loc[p], dir', crate)
  BY <1>2 DEF Exporting
<1> QED
  BY <1>1, <1>3, BesideKeeps

LEMMA ExportSampleExports ==
  ASSUME Exports, NEW p \in Procs, Setups', ExportSample(p) PROVE Exports'
<1> DEFINE s == IF Exists("proof") /\ Verifies(loc[p].vk, dir["proof"], dir["public"]) THEN dir["proof"] ELSE Absent
           l == [loc[p] EXCEPT !.sample = s]
<1>1. pc[p] = "export_sample" /\ Goto(p, "export_vk", l) /\ UNCHANGED <<dir, crate, exported>>
  BY DEF ExportSample
<1>2. loc[p].allow \/ loc[p].vk.safe
  BY <1>1 DEF Exports, Exporting, ExportPcs
<1>3. s # Absent => s.key = loc[p].vk
  BY DEF Verifies
<1>4. loc[p] \in Memory
  BY Mine DEF Exports, Setups
<1> HIDE DEF s
<1>5. l.vk = loc[p].vk /\ l.allow = loc[p].allow
  BY <1>4 DEF Memory
<1>6. l.sample = s
  BY <1>4 DEF Memory
<1> HIDE DEF l
<1>7. Exporting("export_vk", l, dir', crate)
  BY <1>2, <1>3, <1>5, <1>6 DEF Exporting
<1> QED
  BY <1>1, <1>7, BesideKeeps

LEMMA CrateIs == ASSUME Exports PROVE crate \in Crates
  BY DEF Exports, Setups, Typed, Shared, Crates

LEMMA ExportVkExports ==
  ASSUME Exports, ExportAlone, NEW p \in Procs, Setups', ExportVk(p) PROVE Exports'
<1>1. /\ pc[p] = "export_vk" /\ pc[p] \in ExportPcs /\ Goto(p, "export_write_sample", loc[p])
      /\ crate' = [crate EXCEPT !.vk = loc[p].vk]
      /\ exported' = IF loc[p].allow THEN exported ELSE exported \cup {loc[p].vk}
  BY DEF ExportVk, ExportPcs
<1>2. loc[p].allow \/ loc[p].vk.safe
  BY <1>1 DEF Exports, Exporting
<1>3. loc[p].sample # Absent => loc[p].sample.key = loc[p].vk
  BY <1>1 DEF Exports, Exporting
<1>4. crate'.vk = loc[p].vk
  BY <1>1, CrateIs DEF Crates
<1>5. ExportsOnlyProductionKeys'
  BY <1>1, <1>2 DEF Exports, ExportsOnlyProductionKeys
<1>6. Exporting("export_write_sample", loc[p], dir', crate')
  BY <1>2, <1>3, <1>4 DEF Exporting
<1> QED
  BY <1>1, <1>5, <1>6, AloneKeeps

LEMMA ExportWriteSampleExports ==
  ASSUME Exports, ExportAlone, NEW p \in Procs, Setups', ExportWriteSample(p) PROVE Exports'
<1>1. /\ pc[p] = "export_write_sample" /\ pc[p] \in ExportPcs /\ Goto(p, "export_lib", loc[p])
      /\ crate' = [crate EXCEPT !.sample = loc[p].sample] /\ exported' = exported
  BY DEF ExportWriteSample, ExportPcs
<1>2. loc[p].allow \/ loc[p].vk.safe
  BY <1>1 DEF Exports, Exporting
<1>3. crate.vk = loc[p].vk /\ (loc[p].sample # Absent => loc[p].sample.key = loc[p].vk)
  BY <1>1 DEF Exports, Exporting
<1>4. crate'.vk = loc[p].vk /\ crate'.sample = loc[p].sample
  BY <1>1, <1>3, CrateIs DEF Crates
<1>5. ExportsOnlyProductionKeys'
  BY <1>1 DEF Exports, ExportsOnlyProductionKeys
<1>6. Exporting("export_lib", loc[p], dir', crate')
  BY <1>2, <1>3, <1>4 DEF Exporting
<1> QED
  BY <1>1, <1>5, <1>6, AloneKeeps

LEMMA ExportLibExports ==
  ASSUME Exports, ExportAlone, NEW p \in Procs, Setups', ExportLib(p) PROVE Exports'
<1>1. pc[p] \in ExportPcs /\ Goto(p, "idle", NoLoc) /\ exported' = exported
  BY DEF ExportLib, ExportPcs
<1>2. ExportsOnlyProductionKeys'
  BY <1>1 DEF Exports, ExportsOnlyProductionKeys
<1> QED
  BY <1>1, <1>2, ElsewhereIs, NotExporting, AloneKeeps

LEMMA ExportStepExports ==
  ASSUME Exports, ExportAlone, NEW p \in Procs, ExportStep(p) PROVE Exports'
<1>1. Setups'
  BY ExportKeeps DEF Exports
<1> QED
  BY <1>1, StartExportExports, ExportSafeExports, ExportFitExports, ExportSampleExports, ExportVkExports,
     ExportWriteSampleExports, ExportLibExports DEF ExportStep

LEMMA NextExports == Exports /\ OneSetup /\ ExportAlone /\ [Next]_vars => Exports'
<1> SUFFICES ASSUME Exports, OneSetup, ExportAlone, [Next]_vars PROVE Exports'
  OBVIOUS
<1>1. Setups'
  BY NextSetups DEF Exports
<1>2. CASE UNCHANGED <<dir, crate, pc, loc, exported>>
  BY <1>1, <1>2 DEF Exports, ExportsOnlyProductionKeys
<1>3. ASSUME NEW p \in Procs, SetupStep(p) PROVE Exports'
  <2>1. CASE \E mode \in {"dev", "ptau"}, form \in Forms, compressed \in BOOLEAN : StartSetup(p, mode, form, compressed)
    BY <1>1, <2>1, PlanQuiet, QuietExports DEF StartSetup
  <2>2. CASE SetupGo(p)
    BY <2>2, SetupGoExports
  <2> QED
    BY <1>3, <2>1, <2>2 DEF SetupStep
<1>4. ASSUME NEW p \in Procs, ProveStep(p) PROVE Exports'
  BY <1>1, <1>4, ProveQuiet, QuietExports DEF Exports, Setups
<1>5. CASE Next
  BY <1>2, <1>3, <1>4, <1>5, ExportStepExports, StopExports DEF Next, Rebuild
<1> QED
  BY <1>2, <1>5 DEF vars

LEMMA FinishedSound == Exports /\ [Next]_vars => \A p \in Procs : FinishedExport(p)
<1> SUFFICES ASSUME Exports, NEW p \in Procs, ExportLib(p)
             PROVE  crate'.test = (crate'.sample # Absent) /\ (crate'.test => crate'.sample.key = crate'.vk)
  BY DEF FinishedExport
<1> DEFINE t == loc[p].sample # Absent
<1>1. pc[p] = "export_lib" /\ crate' = [crate EXCEPT !.test = t]
  BY DEF ExportLib
<1>2. crate.vk = loc[p].vk /\ crate.sample = loc[p].sample /\ (loc[p].sample # Absent => loc[p].sample.key = loc[p].vk)
  BY <1>1 DEF Exports, Exporting
<1>3. crate'.vk = crate.vk /\ crate'.sample = crate.sample /\ crate'.test = t
  <2> HIDE DEF t
  <2> QED
    BY <1>1, CrateIs DEF Crates
<1> QED
  BY <1>2, <1>3

LEMMA InitExports == Init => Exports
  BY InitSetups, NotExporting, ElsewhereIs DEF Init, Exports, ExportsOnlyProductionKeys

(* Every crate an export finishes embeds a key of a production setup (or   *)
(* was asked for with --allow-insecure), and a self-test exactly when the  *)
(* sample it bundles is a proof of that key (export.rs): the metadata it   *)
(* trusts is of the vk.bin it read, since no setup comes between.          *)
THEOREM ExportsCorrect == Spec /\ []OneSetup /\ []ExportAlone => ExportsSound
<1>1. Exports' => ExportsOnlyProductionKeys'
  BY DEF Exports
<1>2. Exports /\ OneSetup /\ ExportAlone /\ [Next]_vars
        => [ExportsOnlyProductionKeys' /\ \A p \in Procs : FinishedExport(p)]_vars
  BY <1>1, NextExports, FinishedSound
<1> QED
  BY <1>2, InitExports, NextExports, PTL DEF Spec, ExportsSound

-----------------------------------------------------------------------------
(* A described key proves.                                                 *)

(* One command at a time.                                                  *)
Alone == \A p, q \in Procs : pc[p] # "idle" /\ pc[q] # "idle" => p = q

(* The caches and the metadata hold what they claim.                       *)
Caches(d) ==
  /\ d["rows"] \notin Missing => d["rows"].mark = d["rows"].digest
  /\ d["decoded"] # Absent => d["decoded"].full
  /\ d["meta"] # Absent => d["meta"].digest = d["pk"].digest

(* What a command that runs alone remembers of circuit.xbc and the         *)
(* directory.                                                              *)
Knowing(p, step, l, d, b) ==
  /\ step \in SetupPcs => b = l.build
  /\ step \in SetupPcs \ {"setup_rows", "setup_digest"} => l.digest = l.build.digest
  /\ step \in {"setup_unmark", "setup_rename"} => d["meta.tmp"].digest = l.build.digest
  /\ step \in ProvePcs => l.full = TRUE
  /\ step \in ProvePcs \ ProveRead => l.teed = FALSE
  /\ step = "prove_fit" /\ d["meta"] # Absent => l.kind = d["meta"].form
  /\ step \in {"prove_rows", "prove_open", "prove_run"} /\ l.described =>
       d["meta"] # Absent /\ l.kind = d["meta"].form /\ l.build.digest = d["pk"].digest
  /\ step \in {"prove_open", "prove_run"} => l.rows = l.build.digest
  /\ step = "prove_run" => l.pk = d["pk"]
  /\ step = "prove_run" /\ l.teed => d["decoded.tmp"] # Absent /\ d["decoded.tmp"].by = p
  /\ step = "prove_cache" => d["decoded.tmp"] # Absent /\ d["decoded.tmp"].full = TRUE

Matched ==
  /\ Setups
  /\ Caches(dir)
  /\ \A p \in Procs : Knowing(p, pc[p], loc[p], dir, xbc)

LEMMA AloneOneSetup == Alone => OneSetup
<1>1. "idle" \notin SetupPcs
  BY DEF SetupPcs
<1> QED
  BY <1>1 DEF Alone, OneSetup

LEMMA KnowingNothing ==
  ASSUME NEW p, NEW step \in {"idle"} \cup ExportPcs, NEW l, NEW d, NEW b PROVE Knowing(p, step, l, d, b)
<1>1. step \notin SetupPcs /\ step \notin ProvePcs
  BY DEF SetupPcs, ProvePcs, ProveKind, ProveOn, ProveFed, ProveRead, ExportPcs
<1>2. step \notin {"setup_unmark", "setup_rename", "prove_fit", "prove_rows", "prove_open", "prove_run", "prove_cache"}
  BY DEF ExportPcs
<1> QED
  BY <1>1, <1>2 DEF Knowing

(* A step of the only command there is.                                    *)
LEMMA OnlyKeeps ==
  ASSUME Matched, Alone, Alone', NEW p \in Procs, NEW step, NEW l, pc[p] # "idle" \/ step # "idle", Goto(p, step, l),
         Setups', Caches(dir'), Knowing(p, step, l, dir', xbc')
  PROVE  Matched'
<1>1. pc'[p] = step /\ loc'[p] = l /\ \A q \in Procs : q # p => pc'[q] = pc[q] /\ loc'[q] = loc[q]
  BY DEF Matched, Setups, Typed, Commands, Goto
<1>2. ASSUME NEW q \in Procs PROVE Knowing(q, pc'[q], loc'[q], dir', xbc')
  <2>1. CASE q = p
    BY <1>1, <2>1
  <2>2. CASE q # p
    <3>1. pc'[q] = "idle"
      BY <1>1, <2>2 DEF Alone
    <3> QED
      BY <3>1, KnowingNothing
  <2> QED
    BY <2>1, <2>2
<1> QED
  BY <1>2 DEF Matched

LEMMA SameCaches ==
  ASSUME NEW d, NEW e, Caches(d), \A f \in {"rows", "decoded", "meta", "pk"} : e[f] = d[f] PROVE Caches(e)
  BY DEF Caches

LEMMA NamesHas == {"pk", "vk", "meta", "pk.tmp", "vk.tmp", "meta.tmp", "rows", "decoded", "decoded.tmp", "proof",
                   "public"} = Names
  BY DEF Names

(* A file written, but for the rows, that Caches says nothing of.          *)
LEMMA PutCaches ==
  ASSUME Matched, NEW f \in Names \ {"rows", "decoded", "meta", "pk"}, NEW c, Put(f, c) PROVE Caches(dir')
<1>1. \A g \in {"rows", "decoded", "meta", "pk"} : g \in Names /\ g # f
  BY NamesHas
<1> QED
  BY <1>1, PutIs, SameCaches DEF Matched, Setups

LEMMA PutRowsCaches ==
  ASSUME Matched, NEW c, c \notin Missing => c.mark = c.digest, Put("rows", c) PROVE Caches(dir')
<1>1. "rows" \in Names /\ \A g \in {"decoded", "meta", "pk"} : g \in Names /\ g # "rows"
  BY NamesHas
<1>2. dir'["rows"] = c /\ \A g \in {"decoded", "meta", "pk"} : dir'[g] = dir[g]
  BY <1>1, PutIs DEF Matched, Setups
<1> QED
  BY <1>2 DEF Matched, Caches

LEMMA SetupKnows ==
  ASSUME Matched, NEW p \in Procs, pc[p] \in SetupPcs
  PROVE  /\ xbc = loc[p].build /\ xbc \in Builds /\ xbc # Absent
         /\ loc[p] \in Memory /\ loc[p].key \in Key /\ loc[p].key.digest = loc[p].build.digest
         /\ pc[p] \notin {"setup_rows", "setup_digest"} => loc[p].digest = loc[p].build.digest
<1>1. loc[p] \in Memory /\ loc[p].build \in Builds /\ loc[p].key \in Key /\ loc[p].key.digest = loc[p].build.digest
  BY SetupIs DEF Matched, Setups
<1>2. xbc = loc[p].build /\ (pc[p] \notin {"setup_rows", "setup_digest"} => loc[p].digest = loc[p].build.digest)
  BY DEF Matched, Knowing
<1>3. Absent \notin Builds
  BY ContentAssumption DEF Missing
<1> QED
  BY <1>1, <1>2, <1>3

(* What a setup's step leaves known, before the metadata is written.       *)
LEMMA KnowingSetup ==
  ASSUME NEW p, NEW step \in SetupPcs, NEW l, NEW d, NEW b, b = l.build,
         step \notin {"setup_rows", "setup_digest"} => l.digest = l.build.digest,
         step \in {"setup_unmark", "setup_rename"} => d["meta.tmp"].digest = l.build.digest
  PROVE  Knowing(p, step, l, d, b)
<1>1. step \notin ProvePcs
  BY DEF SetupPcs, ProvePcs, ProveKind, ProveOn, ProveFed, ProveRead
<1>2. step \notin {"prove_fit", "prove_rows", "prove_open", "prove_run", "prove_cache"}
  BY DEF SetupPcs
<1> QED
  BY <1>1, <1>2 DEF Knowing

LEMMA PlanMatched ==
  ASSUME Matched, Alone, Alone', NEW p \in Procs, NEW mode \in {"dev", "ptau"}, NEW form \in Forms, NEW compressed \in BOOLEAN,
         NEW auto \in BOOLEAN, NEW cache \in BOOLEAN, PlanSetup(p, mode, form, compressed, auto, cache)
  PROVE  Matched'
<1> DEFINE key == [id |-> keys + 1, digest |-> xbc.digest, form |-> form,
                   safe |-> mode = "ptau", compressed |-> compressed]
           l == [NoLoc EXCEPT !.op = "setup", !.build = xbc, !.auto = auto, !.cache = cache, !.key = key]
<1>1. Setups'
  BY PlanKeeps DEF Matched
<1>2. Goto(p, "setup_rows", l) /\ xbc' = xbc /\ dir' = dir
  BY DEF PlanSetup
<1> HIDE DEF key
<1>3. NoLoc \in Memory
  BY NoLocIs
<1>4. l.build = xbc
  BY <1>3 DEF Memory
<1> HIDE DEF l
<1>5. Knowing(p, "setup_rows", l, dir', xbc')
  BY <1>2, <1>4, KnowingSetup DEF SetupPcs
<1>6. Caches(dir')
  BY <1>2 DEF Matched
<1> QED
  BY <1>1, <1>2, <1>5, <1>6, OnlyKeeps

LEMMA SetupRowsMatched ==
  ASSUME Matched, Alone, Alone', NEW p \in Procs, SetupRows(p) PROVE Matched'
<1> DEFINE r == [mark |-> RowMark(p), digest |-> loc[p].build.digest]
<1>1. Setups'
  BY SetupRowsKeeps, AloneOneSetup DEF Matched
<1>2. pc[p] \in SetupPcs /\ pc[p] # "idle" /\ Goto(p, "setup_digest", loc[p]) /\ xbc' = xbc
      /\ (UNCHANGED dir \/ Put("rows", r) \/ Put("rows", Torn))
  BY DEF SetupRows, SetupPcs
<1>3. xbc = loc[p].build /\ xbc # Absent
  BY <1>2, SetupKnows
<1>4. r.mark = r.digest
  BY <1>3 DEF RowMark
<1> HIDE DEF r
<1>5. Caches(dir')
  BY <1>2, <1>4, PutRowsCaches DEF Matched, Missing
<1>6. Knowing(p, "setup_digest", loc[p], dir', xbc')
  BY <1>2, <1>3, KnowingSetup DEF SetupPcs
<1> QED
  BY <1>1, <1>2, <1>5, <1>6, OnlyKeeps

LEMMA SetupDigestMatched ==
  ASSUME Matched, Alone, Alone', NEW p \in Procs, SetupDigest(p) PROVE Matched'
<1> DEFINE d == IF xbc = Absent THEN Absent ELSE xbc.digest
           l == [loc[p] EXCEPT !.digest = d]
<1>1. Setups'
  BY SetupDigestKeeps, AloneOneSetup DEF Matched
<1>2. pc[p] \in SetupPcs /\ pc[p] # "idle" /\ Goto(p, "setup_pk", l) /\ xbc' = xbc /\ dir' = dir
  BY DEF SetupDigest, SetupPcs
<1>3. xbc = loc[p].build /\ d = loc[p].build.digest /\ loc[p] \in Memory
  BY <1>2, SetupKnows
<1> HIDE DEF d
<1>4. l.build = loc[p].build /\ l.digest = d
  BY <1>3 DEF Memory
<1> HIDE DEF l
<1>5. Knowing(p, "setup_pk", l, dir', xbc')
  BY <1>2, <1>3, <1>4, KnowingSetup DEF SetupPcs
<1>6. Caches(dir')
  BY <1>2 DEF Matched
<1> QED
  BY <1>1, <1>2, <1>5, <1>6, OnlyKeeps

LEMMA SetupPkMatched ==
  ASSUME Matched, Alone, Alone', NEW p \in Procs, SetupPk(p) \/ SetupVk(p) PROVE Matched'
<1>1. Setups'
  BY SetupPkKeeps, SetupVkKeeps, AloneOneSetup DEF Matched
<1>2. PICK step \in {"setup_vk", "setup_hash"}, f \in {"pk.tmp", "vk.tmp"} :
        /\ pc[p] \in SetupPcs /\ pc[p] # "idle" /\ pc[p] \notin {"setup_rows", "setup_digest"}
        /\ Goto(p, step, loc[p]) /\ xbc' = xbc /\ Put(f, loc[p].key)
  BY DEF SetupPk, SetupVk, SetupPcs
<1>3. Caches(dir')
  BY <1>2, PutCaches, NamesHas
<1>4. Knowing(p, step, loc[p], dir', xbc')
  <2>1. step \in SetupPcs /\ step \notin {"setup_unmark", "setup_rename"}
    BY DEF SetupPcs
  <2> QED
    BY <1>2, <2>1, SetupKnows, KnowingSetup
<1> QED
  BY <1>1, <1>2, <1>3, <1>4, OnlyKeeps

LEMMA SetupHashMatched ==
  ASSUME Matched, Alone, Alone', NEW p \in Procs, SetupHash(p) PROVE Matched'
<1> DEFINE h == dir["vk.tmp"]
           l == [loc[p] EXCEPT !.hashed = h]
<1>1. Setups'
  BY SetupHashKeeps, AloneOneSetup DEF Matched
<1>2. pc[p] \in SetupPcs /\ pc[p] # "idle" /\ pc[p] \notin {"setup_rows", "setup_digest"}
      /\ Goto(p, "setup_meta", l) /\ xbc' = xbc /\ dir' = dir
  BY DEF SetupHash, SetupPcs
<1>3. loc[p] \in Memory /\ xbc = loc[p].build /\ loc[p].digest = loc[p].build.digest
  BY <1>2, SetupKnows
<1> HIDE DEF h
<1>4. l.build = loc[p].build /\ l.digest = loc[p].digest
  BY <1>3 DEF Memory
<1> HIDE DEF l
<1>5. Knowing(p, "setup_meta", l, dir', xbc')
  BY <1>2, <1>3, <1>4, KnowingSetup DEF SetupPcs
<1>6. Caches(dir')
  BY <1>2 DEF Matched
<1> QED
  BY <1>1, <1>2, <1>5, <1>6, OnlyKeeps

LEMMA SetupMetaMatched ==
  ASSUME Matched, Alone, Alone', NEW p \in Procs, SetupMeta(p) PROVE Matched'
<1> DEFINE m == [hash |-> loc[p].build, digest |-> loc[p].digest,
                 form |-> loc[p].key.form, safe |-> loc[p].key.safe, vk |-> loc[p].hashed]
<1>1. Setups'
  BY SetupMetaKeeps, AloneOneSetup DEF Matched
<1>2. pc[p] \in SetupPcs /\ pc[p] # "idle" /\ pc[p] \notin {"setup_rows", "setup_digest"}
      /\ Goto(p, "setup_unmark", loc[p]) /\ xbc' = xbc /\ Put("meta.tmp", m)
  BY DEF SetupMeta, SetupPcs
<1>3. xbc = loc[p].build /\ loc[p].digest = loc[p].build.digest
  BY <1>2, SetupKnows
<1>4. m.digest = loc[p].digest
  OBVIOUS
<1> HIDE DEF m
<1>5. dir'["meta.tmp"] = m
  BY <1>2, PutIs, NamesHas DEF Matched, Setups
<1>6. Caches(dir')
  BY <1>2, PutCaches, NamesHas
<1>7. Knowing(p, "setup_unmark", loc[p], dir', xbc')
  BY <1>2, <1>3, <1>4, <1>5, KnowingSetup DEF SetupPcs
<1> QED
  BY <1>1, <1>2, <1>6, <1>7, OnlyKeeps

LEMMA SetupUnmarkMatched ==
  ASSUME Matched, Alone, Alone', NEW p \in Procs, SetupUnmark(p) PROVE Matched'
<1> DEFINE l == [loc[p] EXCEPT !.k = 1]
<1>1. Setups'
  BY SetupUnmarkKeeps, AloneOneSetup DEF Matched
<1>2. pc[p] \in SetupPcs /\ pc[p] = "setup_unmark" /\ Goto(p, "setup_rename", l) /\ xbc' = xbc /\ Put("meta", Absent)
  BY DEF SetupUnmark, SetupPcs
<1>3. loc[p] \in Memory /\ xbc = loc[p].build /\ loc[p].digest = loc[p].build.digest
  BY <1>2, SetupKnows
<1>4. l.build = loc[p].build /\ l.digest = loc[p].digest
  BY <1>3 DEF Memory
<1> HIDE DEF l
<1>5. dir'["meta"] = Absent /\ \A g \in {"rows", "decoded", "pk", "meta.tmp"} : dir'[g] = dir[g]
  <2>1. "meta" \in Names /\ \A g \in {"rows", "decoded", "pk", "meta.tmp"} : g \in Names /\ g # "meta"
    BY NamesHas
  <2> QED
    BY <1>2, <2>1, PutIs DEF Matched, Setups
<1>6. Caches(dir')
  BY <1>5 DEF Matched, Caches
<1>7. dir["meta.tmp"].digest = loc[p].build.digest
  BY <1>2 DEF Matched, Knowing
<1>8. Knowing(p, "setup_rename", l, dir', xbc')
  BY <1>2, <1>3, <1>4, <1>5, <1>7, KnowingSetup DEF SetupPcs
<1> QED
  BY <1>1, <1>2, <1>6, <1>8, OnlyKeeps

(* A proof about to start knows nothing of the directory.                  *)
LEMMA KnowingForm ==
  ASSUME NEW p, NEW cache \in BOOLEAN, NEW d, NEW b
  PROVE  Knowing(p, "prove_form", [NoLoc EXCEPT !.op = "prove", !.cache = cache], d, b)
<1> DEFINE l == [NoLoc EXCEPT !.op = "prove", !.cache = cache]
<1>1. l.full = TRUE /\ l.teed = FALSE
  BY DEF NoLoc
<1> HIDE DEF l
<1>2. "prove_form" \notin SetupPcs
  BY DEF SetupPcs
<1>3. Knowing(p, "prove_form", l, d, b)
  BY <1>1, <1>2 DEF Knowing
<1> QED
  BY <1>3 DEF l

LEMMA SetupRenameMatched ==
  ASSUME Matched, Alone, Alone', NEW p \in Procs, SetupRename(p) PROVE Matched'
<1> DEFINE k == loc[p].k
           from == SetupOrder[k][1]
           to   == SetupOrder[k][2]
           l    == [loc[p] EXCEPT !.k = k + 1]
<1>1. Setups' /\ Setups /\ Typed
  BY SetupRenameKeeps, AloneOneSetup DEF Matched, Setups
<1>2. /\ pc[p] \in SetupPcs /\ pc[p] = "setup_rename" /\ xbc' = xbc
      /\ dir' = [dir EXCEPT ![to] = dir[from], ![from] = Absent]
      /\ \/ k < 3 /\ Goto(p, "setup_rename", l)
         \/ \E cache \in {loc[p].cache} : Goto(p, "prove_form", [NoLoc EXCEPT !.op = "prove", !.cache = cache])
         \/ Goto(p, "idle", NoLoc)
      /\ k < 3 => Goto(p, "setup_rename", l)
  BY DEF SetupRename, SetupPcs
<1>3. k \in 1..3 /\ loc[p].cache \in BOOLEAN
  BY <1>1, <1>2, Mine DEF Ready, Memory
<1>4. /\ loc[p] \in Memory /\ xbc = loc[p].build /\ loc[p].digest = loc[p].build.digest
      /\ loc[p].key.digest = loc[p].build.digest
  BY <1>2, SetupKnows
<1>5. dir["meta"] = Absent /\ (k = 3 => dir["pk"] = loc[p].key)
  <2>1. Setting("setup_rename", loc[p], dir)
    BY <1>2 DEF Matched, Setups
  <2> QED
    BY <2>1 DEF Setting
<1>6. dir["meta.tmp"].digest = loc[p].build.digest
  BY <1>2 DEF Matched, Knowing
<1>7. DOMAIN dir = Names
  BY <1>1 DEF Typed, FilesTyped
<1>8. CASE k < 3
  <2>1. (from = "pk.tmp" /\ to = "pk") \/ (from = "vk.tmp" /\ to = "vk")
    BY <1>3, <1>8, OrderIs
  <2> HIDE DEF from, to, k
  <2>2. \A g \in {"rows", "decoded", "meta", "meta.tmp"} : dir'[g] = dir[g]
    BY <1>2, <1>7, <2>1, NamesHas
  <2>3. Caches(dir')
    BY <1>5, <2>2 DEF Matched, Caches
  <2>4. l.build = loc[p].build /\ l.digest = loc[p].digest
    BY <1>4 DEF Memory
  <2>5. Goto(p, "setup_rename", l) /\ "setup_rename" \in SetupPcs /\ "setup_rename" # "idle"
    BY <1>2, <1>8 DEF SetupPcs
  <2> HIDE DEF l
  <2>6. Knowing(p, "setup_rename", l, dir', xbc')
    BY <1>2, <1>4, <1>6, <2>2, <2>4, <2>5, KnowingSetup
  <2> QED
    BY <1>1, <2>3, <2>5, <2>6, OnlyKeeps
<1>9. CASE k = 3
  <2>1. from = "meta.tmp" /\ to = "meta"
    BY <1>9, OrderIs
  <2> HIDE DEF from, to
  <2>2. dir'["meta"] = dir["meta.tmp"] /\ \A g \in {"rows", "decoded", "pk"} : dir'[g] = dir[g]
    BY <1>2, <1>7, <2>1, NamesHas
  <2>3. Caches(dir')
    BY <1>4, <1>5, <1>6, <1>9, <2>2 DEF Matched, Caches
  <2>4. CASE Goto(p, "idle", NoLoc)
    BY <1>1, <1>2, <2>3, <2>4, KnowingNothing, OnlyKeeps
  <2>5. CASE \E cache \in {loc[p].cache} : Goto(p, "prove_form", [NoLoc EXCEPT !.op = "prove", !.cache = cache])
    <3> DEFINE m == [NoLoc EXCEPT !.op = "prove", !.cache = loc[p].cache]
    <3>1. Goto(p, "prove_form", m)
      BY <2>5
    <3>2. Knowing(p, "prove_form", m, dir', xbc')
      BY <1>3, KnowingForm
    <3> HIDE DEF m
    <3> QED
      BY <1>1, <1>2, <2>3, <3>1, <3>2, OnlyKeeps
  <2> QED
    BY <1>2, <1>9, <2>4, <2>5
<1> QED
  BY <1>3, <1>8, <1>9

LEMMA StartProveMatched ==
  ASSUME Matched, Alone, Alone', NEW p \in Procs, NEW cache \in BOOLEAN, StartProve(p, cache) PROVE Matched'
<1>1. CASE \E form \in Forms : PlanSetup(p, "dev", form, TRUE, TRUE, cache)
  BY <1>1, PlanMatched
<1>2. CASE Goto(p, "prove_form", [NoLoc EXCEPT !.op = "prove", !.cache = cache]) /\ UNCHANGED <<xbc, dir>>
  <2> DEFINE m == [NoLoc EXCEPT !.op = "prove", !.cache = cache]
  <2>1. Goto(p, "prove_form", m)
    BY <1>2
  <2>2. Knowing(p, "prove_form", m, dir', xbc')
    BY KnowingForm
  <2> HIDE DEF m
  <2>3. Setups' /\ Caches(dir')
    BY <1>2, ProveKeeps DEF Matched, ProveStep
  <2> QED
    BY <2>1, <2>2, <2>3, OnlyKeeps
<1> QED
  BY <1>1, <1>2 DEF StartProve

(* What a proof remembers between two steps.                               *)
LEMMA KnowingProve ==
  ASSUME NEW p, NEW step \in ProvePcs, NEW l, NEW d, NEW b, l.full = TRUE,
         step \notin ProveRead => l.teed = FALSE,
         step = "prove_fit" /\ d["meta"] # Absent => l.kind = d["meta"].form,
         step \in {"prove_rows", "prove_open", "prove_run"} /\ l.described =>
           d["meta"] # Absent /\ l.kind = d["meta"].form /\ l.build.digest = d["pk"].digest,
         step \in {"prove_open", "prove_run"} => l.rows = l.build.digest,
         step = "prove_run" => l.pk = d["pk"],
         step = "prove_run" /\ l.teed => d["decoded.tmp"] # Absent /\ d["decoded.tmp"].by = p,
         step = "prove_cache" => d["decoded.tmp"] # Absent /\ d["decoded.tmp"].full = TRUE
  PROVE  Knowing(p, step, l, d, b)
<1>1. step \notin SetupPcs /\ step \notin {"setup_unmark", "setup_rename"}
  BY DEF SetupPcs, ProvePcs, ProveKind, ProveOn, ProveFed, ProveRead
<1> QED
  BY <1>1 DEF Knowing

LEMMA EarlySteps ==
  /\ \A step \in {"prove_form", "prove_fit", "prove_rows", "prove_open"} : step \in ProvePcs /\ step \notin ProveRead
  /\ \A step \in {"prove_run", "prove_cache", "prove_proof", "prove_public"} : step \in ProvePcs /\ step \in ProveRead
  BY DEF ProvePcs, ProveKind, ProveOn, ProveFed, ProveRead

LEMMA EarlyKnows ==
  ASSUME Matched, NEW p \in Procs, pc[p] \in ProvePcs
  PROVE  /\ loc[p] \in Memory /\ loc[p].full = TRUE
         /\ pc[p] \notin ProveRead => loc[p].teed = FALSE
         /\ pc[p] # "idle"
<1>1. loc[p] \in Memory
  BY ProveIs DEF Matched, Setups
<1>2. "idle" \notin ProvePcs
  BY DEF ProvePcs, ProveKind, ProveOn, ProveFed, ProveRead
<1> QED
  BY <1>1, <1>2 DEF Matched, Knowing

(* metadata.json is never torn.                                            *)
LEMMA MetaIs == ASSUME Matched PROVE Readable("meta") <=> dir["meta"] # Absent
<1>1. dir["meta"] \in Metadata \cup {Absent}
  BY DEF Matched, Setups, Kept
<1>2. Torn \notin Metadata
  BY ContentAssumption DEF Missing
<1>3. Torn # Absent
  BY KeyStoreAssumption
<1> QED
  BY <1>1, <1>2, <1>3 DEF Readable

LEMMA ProveFormMatched ==
  ASSUME Matched, Alone, Alone', NEW p \in Procs, ProveForm(p) PROVE Matched'
<1>1. Setups' /\ Caches(dir') /\ UNCHANGED <<dir, xbc>> /\ pc[p] = "prove_form"
  BY ProveKeeps DEF Matched, ProveStep, ProveGo, ProveForm
<1>2. PICK kind : Goto(p, "prove_fit", [loc[p] EXCEPT !.kind = kind]) /\ (Readable("meta") => kind = dir["meta"].form)
  BY DEF ProveForm
<1> DEFINE l == [loc[p] EXCEPT !.kind = kind]
<1>3. Goto(p, "prove_fit", l)
  BY <1>2
<1>4. loc[p] \in Memory /\ loc[p].full = TRUE /\ loc[p].teed = FALSE
  BY <1>1, EarlySteps, EarlyKnows
<1>5. l.full = TRUE /\ l.teed = FALSE /\ l.kind = kind
  BY <1>4 DEF Memory
<1> HIDE DEF l
<1>6. Knowing(p, "prove_fit", l, dir', xbc')
  BY <1>1, <1>2, <1>5, MetaIs, EarlySteps, KnowingProve
<1> QED
  BY <1>1, <1>3, <1>6, OnlyKeeps

LEMMA ProveFitMatched ==
  ASSUME Matched, Alone, Alone', NEW p \in Procs, ProveFit(p) PROVE Matched'
<1> DEFINE c == Readable("meta")
           l == [loc[p] EXCEPT !.build = xbc, !.described = c]
<1>1. Setups' /\ Caches(dir') /\ UNCHANGED <<dir, xbc>> /\ pc[p] = "prove_fit" /\ Goto(p, "prove_rows", l)
  BY ProveKeeps DEF Matched, ProveStep, ProveGo, ProveFit
<1>2. loc[p] \in Memory /\ loc[p].full = TRUE /\ loc[p].teed = FALSE
  BY <1>1, EarlySteps, EarlyKnows
<1>3. c => dir["meta"] # Absent /\ loc[p].kind = dir["meta"].form /\ xbc.digest = dir["pk"].digest
  <2> SUFFICES ASSUME c PROVE dir["meta"] # Absent /\ loc[p].kind = dir["meta"].form /\ xbc.digest = dir["pk"].digest
    OBVIOUS
  <2>1. dir["meta"] # Absent
    BY MetaIs
  <2>2. loc[p].kind = dir["meta"].form
    BY <1>1, <2>1 DEF Matched, Knowing
  <2>3. dir["meta"].hash.digest = dir["pk"].digest /\ dir["meta"].digest = dir["pk"].digest
    BY <2>1 DEF Matched, Setups, Matching, Caches
  <2>4. dir["meta"].hash = xbc \/ dir["meta"].digest = xbc.digest
    BY DEF ProveFit, KeyFit
  <2> QED
    BY <2>1, <2>2, <2>3, <2>4
<1> HIDE DEF c
<1>4. l.full = TRUE /\ l.teed = FALSE
  BY <1>2 DEF Memory
<1>5. l.kind = loc[p].kind /\ l.build = xbc
  BY <1>2 DEF Memory
<1>6. l.described = c
  BY <1>2 DEF Memory
<1> HIDE DEF l
<1>7. l.described => dir["meta"] # Absent /\ l.kind = dir["meta"].form /\ l.build.digest = dir["pk"].digest
  BY <1>3, <1>5, <1>6
<1>8. Knowing(p, "prove_rows", l, dir', xbc')
  BY <1>1, <1>4, <1>7, EarlySteps, KnowingProve
<1> QED
  BY <1>1, <1>8, OnlyKeeps

LEMMA ProveRowsMatched ==
  ASSUME Matched, Alone, Alone', NEW p \in Procs, ProveRows(p) PROVE Matched'
<1> DEFINE r == [mark |-> loc[p].build.digest, digest |-> loc[p].build.digest]
<1>1. Setups' /\ xbc' = xbc /\ pc[p] = "prove_rows"
  BY ProveKeeps DEF Matched, ProveStep, ProveGo, ProveRows
<1>2. loc[p] \in Memory /\ loc[p].full = TRUE /\ loc[p].teed = FALSE
  BY <1>1, EarlySteps, EarlyKnows
<1>3. loc[p].build \in Builds
  BY <1>1, ProveIs DEF Matched, Setups, ProvePcs, ProveKind, ProveOn
<1>4. PICK d : Goto(p, "prove_open", [loc[p] EXCEPT !.rows = d]) /\ d = loc[p].build.digest
  <2>1. RowFileFits(loc[p].build) => dir["rows"].digest = loc[p].build.digest
    <3> SUFFICES ASSUME RowFileFits(loc[p].build) PROVE dir["rows"].digest = loc[p].build.digest
      OBVIOUS
    <3>1. dir["rows"].mark = dir["rows"].digest /\ dir["rows"].digest \in Digests
      BY RowFileIs DEF RowFileFits, Readable, Matched, Caches, Setups, Missing
    <3>2. dir["rows"].digest \notin Builds
      BY <3>1, ContentAssumption
    <3> QED
      BY <1>3, <3>1, <3>2 DEF RowFileFits
  <2> QED
    BY <2>1 DEF ProveRows
<1>5. Caches(dir') /\ \A g \in {"meta", "pk"} : dir'[g] = dir[g]
  <2>1. UNCHANGED dir \/ Put("rows", r)
    BY DEF ProveRows
  <2>2. r.mark = r.digest
    OBVIOUS
  <2> HIDE DEF r
  <2>3. CASE UNCHANGED dir
    BY <2>3 DEF Matched
  <2>4. CASE Put("rows", r)
    <3>1. "rows" \in Names /\ "meta" \in Names /\ "pk" \in Names
      BY NamesHas
    <3> QED
      BY <2>2, <2>4, <3>1, PutRowsCaches, PutIs DEF Matched, Setups
  <2> QED
    BY <2>1, <2>3, <2>4
<1> DEFINE l == [loc[p] EXCEPT !.rows = d]
<1>6. Goto(p, "prove_open", l)
  BY <1>4
<1>7. l.full = TRUE /\ l.teed = FALSE
  BY <1>2 DEF Memory
<1>8. l.kind = loc[p].kind /\ l.build = loc[p].build /\ l.rows = d
  BY <1>2 DEF Memory
<1>9. l.described = loc[p].described
  BY <1>2 DEF Memory
<1> HIDE DEF l
<1>10. l.described => dir["meta"] # Absent /\ l.kind = dir["meta"].form /\ l.build.digest = dir["pk"].digest
  BY <1>1, <1>8, <1>9 DEF Matched, Knowing
<1>11. Knowing(p, "prove_open", l, dir', xbc')
  BY <1>4, <1>5, <1>7, <1>8, <1>10, EarlySteps, KnowingProve
<1> QED
  BY <1>1, <1>5, <1>6, <1>11, OnlyKeeps

LEMMA ProveOpenMatched ==
  ASSUME Matched, Alone, Alone', NEW p \in Procs, ProveOpen(p) PROVE Matched'
<1> DEFINE key == dir["pk"]
           copy == [key |-> key, by |-> p, full |-> FALSE]
<1>1. Setups' /\ xbc' = xbc /\ pc[p] = "prove_open"
  BY ProveKeeps DEF Matched, ProveStep, ProveGo, ProveOpen
<1>2. loc[p] \in Memory /\ loc[p].full = TRUE /\ loc[p].teed = FALSE
  BY <1>1, EarlySteps, EarlyKnows
<1>3. /\ loc[p].described => dir["meta"] # Absent /\ loc[p].kind = dir["meta"].form /\ loc[p].build.digest = key.digest
      /\ loc[p].rows = loc[p].build.digest
  BY <1>1 DEF Matched, Knowing
<1>4. CASE /\ UsableDecoded(key) /\ UNCHANGED dir
           /\ Goto(p, "prove_run", [loc[p] EXCEPT !.pk = dir["decoded"].key, !.full = dir["decoded"].full])
  <2>1. dir["decoded"].key = key
    BY <1>4 DEF UsableDecoded
  <2>2. dir["decoded"].full = TRUE
    <3>1. Exists("decoded") /\ "decoded" \in CopyFiles
      BY <1>4 DEF UsableDecoded, Readable, Exists, CopyFiles
    <3>2. dir["decoded"].full \in BOOLEAN
      BY <3>1, CopyIs DEF Matched, Setups
    <3>3. dir["decoded"].full
      BY <3>1 DEF Matched, Caches, Exists
    <3> QED
      BY <3>2, <3>3
  <2> DEFINE a == dir["decoded"].key
             b == dir["decoded"].full
             l == [loc[p] EXCEPT !.pk = a, !.full = b]
  <2>3. Goto(p, "prove_run", l)
    BY <1>4
  <2>4. a = key /\ b = TRUE
    BY <2>1, <2>2
  <2> HIDE DEF a, b
  <2>5. l.pk = a /\ l.full = b
    BY <1>2 DEF Memory
  <2>6. l.kind = loc[p].kind /\ l.build = loc[p].build /\ l.rows = loc[p].rows
    BY <1>2 DEF Memory
  <2>7. l.described = loc[p].described /\ l.teed = loc[p].teed
    BY <1>2 DEF Memory
  <2> HIDE DEF l
  <2>8. Knowing(p, "prove_run", l, dir', xbc')
    BY <1>2, <1>3, <1>4, <2>4, <2>5, <2>6, <2>7, EarlySteps, KnowingProve
  <2>9. Caches(dir')
    BY <1>4 DEF Matched
  <2> QED
    BY <1>1, <2>3, <2>8, <2>9, OnlyKeeps
<1>5. CASE /\ Goto(p, "prove_run", [loc[p] EXCEPT !.pk = key, !.teed = loc[p].cache /\ key.compressed])
           /\ IF loc[p].cache /\ key.compressed THEN Put("decoded.tmp", copy) ELSE UNCHANGED dir
  <2> DEFINE t == loc[p].cache /\ key.compressed
             l == [loc[p] EXCEPT !.pk = key, !.teed = t]
  <2>1. Goto(p, "prove_run", l)
    BY <1>5
  <2>2. (t /\ Put("decoded.tmp", copy)) \/ (~ t /\ UNCHANGED dir)
    BY <1>5
  <2>3. copy.by = p /\ copy.full = FALSE /\ copy # Absent
    <3>1. key \in Key
      BY DEF ProveOpen, Matched, Setups, Typed, FilesTyped, KeyFiles, Readable, Missing
    <3>2. copy \in Decoded
      BY <3>1 DEF Decoded
    <3> QED
      BY <3>2, ContentAssumption DEF Missing
  <2>4. Caches(dir')
    <3>1. "decoded.tmp" \in Names \ {"rows", "decoded", "meta", "pk"}
      BY NamesHas
    <3> HIDE DEF copy
    <3> QED
      BY <2>2, <3>1, PutCaches DEF Matched
  <2> HIDE DEF copy
  <2>5. dir'["pk"] = key /\ dir'["meta"] = dir["meta"] /\ (t => dir'["decoded.tmp"] = copy)
    <3>1. "decoded.tmp" \in Names /\ "pk" \in Names /\ "meta" \in Names
      BY NamesHas
    <3> QED
      BY <2>2, <3>1, PutIs DEF Matched, Setups
  <2> HIDE DEF key, t
  <2>6. l.pk = key /\ l.teed = t
    BY <1>2 DEF Memory
  <2>7. l.kind = loc[p].kind /\ l.build = loc[p].build /\ l.rows = loc[p].rows
    BY <1>2 DEF Memory
  <2>8. l.described = loc[p].described /\ l.full = loc[p].full
    BY <1>2 DEF Memory
  <2> HIDE DEF l
  <2>9. Knowing(p, "prove_run", l, dir', xbc')
    BY <1>2, <1>3, <2>3, <2>5, <2>6, <2>7, <2>8, EarlySteps, KnowingProve
  <2> QED
    BY <1>1, <2>1, <2>4, <2>9, OnlyKeeps
<1> QED
  BY <1>4, <1>5 DEF ProveOpen

LEMMA FinishedFull ==
  ASSUME Typed, NEW f \in CopyFiles, NEW p \in Procs
  PROVE  /\ dir[f] # Absent /\ dir[f].by = p => Finished(f, p).full = TRUE /\ Finished(f, p) # Absent
         /\ dir[f] # Absent /\ dir[f].full => Finished(f, p).full
         /\ dir[f] = Absent => Finished(f, p) = Absent
<1>1. dir[f] \in Decoded \cup {Absent} /\ Torn \notin Decoded /\ Absent \notin Decoded
  BY ContentAssumption DEF Typed, FilesTyped, Missing
<1>2. \A c \in Decoded : [c EXCEPT !.full = TRUE] \in Decoded /\ [c EXCEPT !.full = TRUE].full = TRUE
  BY DEF Decoded
<1>3. Readable(f) <=> dir[f] \in Decoded
  BY <1>1 DEF Readable
<1>4. CASE dir[f] = Absent
  BY <1>4 DEF Finished, Readable
<1>5. CASE dir[f] \in Decoded /\ dir[f].by = p
  BY <1>1, <1>2, <1>3, <1>5 DEF Finished
<1>6. CASE dir[f] \in Decoded /\ dir[f].by # p
  BY <1>1, <1>3, <1>6 DEF Finished
<1> QED
  BY <1>1, <1>4, <1>5, <1>6

LEMMA ProveRunMatched ==
  ASSUME Matched, Alone, Alone', NEW p \in Procs, ProveRun(p) PROVE Matched'
<1>1. Setups' /\ xbc' = xbc /\ pc[p] = "prove_run" /\ Typed
  BY ProveKeeps DEF Matched, ProveStep, ProveGo, ProveRun, Setups
<1>2. loc[p].full = TRUE /\ pc[p] # "idle"
  BY <1>1, EarlySteps, EarlyKnows
<1>3. CASE ~ loc[p].teed /\ UNCHANGED dir /\ Goto(p, "prove_proof", loc[p])
  <2>1. Knowing(p, "prove_proof", loc[p], dir', xbc')
    BY <1>2, EarlySteps, KnowingProve
  <2>2. Caches(dir')
    BY <1>3 DEF Matched
  <2> QED
    BY <1>1, <1>2, <1>3, <2>1, <2>2, OnlyKeeps
<1>4. CASE /\ loc[p].teed /\ Goto(p, "prove_cache", loc[p])
           /\ dir' = [dir EXCEPT !["decoded.tmp"] = Finished("decoded.tmp", p), !["decoded"] = Finished("decoded", p)]
  <2>1. "decoded.tmp" \in CopyFiles /\ "decoded" \in CopyFiles
    BY DEF CopyFiles
  <2>2. dir["decoded.tmp"] # Absent /\ dir["decoded.tmp"].by = p
    BY <1>1, <1>4 DEF Matched, Knowing
  <2>3. DOMAIN dir = Names
    BY <1>1 DEF Typed, FilesTyped
  <2>4. /\ dir'["decoded.tmp"] = Finished("decoded.tmp", p) /\ dir'["decoded"] = Finished("decoded", p)
        /\ \A g \in {"rows", "meta", "pk"} : dir'[g] = dir[g]
    BY <1>4, <2>3, NamesHas
  <2>5. dir'["decoded.tmp"] # Absent /\ dir'["decoded.tmp"].full = TRUE
    BY <1>1, <2>1, <2>2, <2>4, FinishedFull
  <2>6. dir'["decoded"] # Absent => dir'["decoded"].full
    BY <1>1, <2>1, <2>4, FinishedFull DEF Matched, Caches
  <2>7. Caches(dir')
    BY <2>4, <2>6 DEF Matched, Caches
  <2>8. Knowing(p, "prove_cache", loc[p], dir', xbc')
    BY <1>2, <2>5, EarlySteps, KnowingProve
  <2> QED
    BY <1>1, <1>2, <1>4, <2>7, <2>8, OnlyKeeps
<1> QED
  BY <1>3, <1>4 DEF ProveRun

LEMMA ProveCacheMatched ==
  ASSUME Matched, Alone, Alone', NEW p \in Procs, ProveCache(p) PROVE Matched'
<1>1. Setups' /\ xbc' = xbc /\ pc[p] = "prove_cache" /\ Typed /\ Goto(p, "prove_proof", loc[p])
  BY ProveKeeps DEF Matched, ProveStep, ProveGo, ProveCache, Setups
<1>2. loc[p].full = TRUE /\ pc[p] # "idle"
  BY <1>1, EarlySteps, EarlyKnows
<1>3. Knowing(p, "prove_proof", loc[p], dir', xbc')
  BY <1>2, EarlySteps, KnowingProve
<1>4. Caches(dir')
  <2>1. CASE Put("decoded.tmp", Absent)
    BY <2>1, PutCaches, NamesHas
  <2>2. CASE dir' = [dir EXCEPT !["decoded"] = dir["decoded.tmp"], !["decoded.tmp"] = Absent]
    <3>1. dir["decoded.tmp"].full = TRUE
      BY <1>1 DEF Matched, Knowing
    <3>2. DOMAIN dir = Names
      BY <1>1 DEF Typed, FilesTyped
    <3>3. dir'["decoded"] = dir["decoded.tmp"] /\ \A g \in {"rows", "meta", "pk"} : dir'[g] = dir[g]
      BY <2>2, <3>2, NamesHas
    <3> QED
      BY <3>1, <3>3 DEF Matched, Caches
  <2> QED
    BY <2>1, <2>2 DEF ProveCache
<1> QED
  BY <1>1, <1>2, <1>3, <1>4, OnlyKeeps

LEMMA ProveWritesMatched ==
  ASSUME Matched, Alone, Alone', NEW p \in Procs, ProveProof(p) \/ ProvePublic(p) PROVE Matched'
<1>1. Setups'
  BY ProveKeeps DEF Matched, ProveStep, ProveGo
<1>2. PICK f, c : f \in {"proof", "public"} /\ Put(f, c)
  BY DEF ProveProof, ProvePublic
<1>3. Caches(dir')
  BY <1>2, PutCaches, NamesHas
<1>4. CASE ProveProof(p)
  <2>1. pc[p] = "prove_proof" /\ Goto(p, "prove_public", loc[p])
    BY <1>4 DEF ProveProof
  <2>2. loc[p].full = TRUE /\ pc[p] # "idle"
    BY <2>1, EarlySteps, EarlyKnows
  <2>3. Knowing(p, "prove_public", loc[p], dir', xbc')
    BY <2>2, EarlySteps, KnowingProve
  <2> QED
    BY <1>1, <1>3, <2>1, <2>2, <2>3, OnlyKeeps
<1>5. CASE ProvePublic(p)
  <2>1. pc[p] # "idle" /\ Goto(p, "idle", NoLoc)
    BY <1>5 DEF ProvePublic
  <2> QED
    BY <1>1, <1>3, <2>1, KnowingNothing, OnlyKeeps
<1> QED
  BY <1>4, <1>5

LEMMA ExportMatched ==
  ASSUME Matched, Alone, Alone', NEW p \in Procs, ExportStep(p) PROVE Matched'
<1>1. Setups' /\ UNCHANGED dir
  BY ExportKeeps DEF Matched, ExportStep, StartExport, ExportSafe, ExportFit, ExportSample, ExportVk,
     ExportWriteSample, ExportLib
<1>2. PICK step, l : step \in {"idle"} \cup ExportPcs /\ Goto(p, step, l) /\ (pc[p] # "idle" \/ step # "idle")
  <2>1. CASE \E allow \in BOOLEAN : StartExport(p, allow)
    <3>1. \E l : Goto(p, "export_safe", l)
      BY <2>1 DEF StartExport
    <3> QED
      BY <3>1 DEF ExportPcs
  <2>2. CASE ExportSafe(p) \/ ExportFit(p) \/ ExportSample(p) \/ ExportVk(p) \/ ExportWriteSample(p) \/ ExportLib(p)
    <3>1. pc[p] # "idle"
      BY <2>2 DEF ExportSafe, ExportFit, ExportSample, ExportVk, ExportWriteSample, ExportLib
    <3>2. \E step \in {"idle", "export_fit", "export_sample", "export_vk", "export_write_sample", "export_lib"} : \E l :
            Goto(p, step, l)
      BY <2>2 DEF ExportSafe, ExportFit, ExportSample, ExportVk, ExportWriteSample, ExportLib
    <3> QED
      BY <3>1, <3>2 DEF ExportPcs
  <2> QED
    BY <2>1, <2>2 DEF ExportStep
<1>3. Caches(dir')
  BY <1>1 DEF Matched
<1> QED
  BY <1>1, <1>2, <1>3, KnowingNothing, OnlyKeeps

LEMMA StopMatched ==
  ASSUME Matched, Alone, Alone', NEW p \in Procs, Stop(p) PROVE Matched'
<1>1. Setups' /\ pc[p] # "idle" /\ Goto(p, "idle", NoLoc)
  BY StopKeeps, AloneOneSetup DEF Matched, Stop
<1>2. Caches(dir')
  <2>1. CASE UNCHANGED dir
    BY <2>1 DEF Matched
  <2>2. CASE \E f \in BeingWritten(p) : Put(f, Torn)
    <3>1. PICK f \in BeingWritten(p) : Put(f, Torn)
      BY <2>2
    <3>2. f \in {"rows", "pk.tmp", "vk.tmp", "meta.tmp", "proof", "public"}
      BY DEF BeingWritten
    <3>3. CASE f = "rows"
      BY <3>1, <3>3, PutRowsCaches DEF Missing
    <3>4. CASE f # "rows"
      <4>1. f \in Names \ {"rows", "decoded", "meta", "pk"}
        BY <3>2, <3>4, NamesHas
      <4> QED
        BY <3>1, <4>1, PutCaches
    <3> QED
      BY <3>3, <3>4
  <2> QED
    BY <2>1, <2>2 DEF Stop
<1> QED
  BY <1>1, <1>2, KnowingNothing, OnlyKeeps

(* The circuit is rebuilt between two commands, not during one.            *)
QuietRebuild == Rebuild /\ \A p \in Procs : pc[p] = "idle"

AloneNext ==
  \/ QuietRebuild
  \/ \E p \in Procs : SetupStep(p) \/ ProveStep(p) \/ ExportStep(p) \/ Stop(p)

LEMMA RebuildMatched == ASSUME Matched, QuietRebuild PROVE Matched'
<1>1. Setups' /\ UNCHANGED <<dir, pc>> /\ \A p \in Procs : pc[p] = "idle"
  BY RebuildKeeps DEF Matched, QuietRebuild, Rebuild
<1>2. \A p \in Procs : Knowing(p, pc'[p], loc'[p], dir', xbc')
  BY <1>1, KnowingNothing
<1> QED
  BY <1>1, <1>2 DEF Matched

LEMMA NextMatched == Matched /\ Alone /\ Alone' /\ [AloneNext]_vars => Matched'
<1> SUFFICES ASSUME Matched, Alone, Alone', [AloneNext]_vars PROVE Matched'
  OBVIOUS
<1>1. CASE UNCHANGED vars
  <2>1. Setups'
    BY <1>1, NextSetups, AloneOneSetup DEF Matched
  <2> QED
    BY <1>1, <2>1 DEF vars, Matched
<1>2. ASSUME NEW p \in Procs, SetupStep(p) PROVE Matched'
  BY <1>2, PlanMatched, SetupRowsMatched, SetupDigestMatched, SetupPkMatched, SetupHashMatched, SetupMetaMatched,
     SetupUnmarkMatched, SetupRenameMatched DEF SetupStep, SetupGo, StartSetup
<1>3. ASSUME NEW p \in Procs, ProveStep(p) PROVE Matched'
  BY <1>3, StartProveMatched, ProveFormMatched, ProveFitMatched, ProveRowsMatched, ProveOpenMatched, ProveRunMatched,
     ProveCacheMatched, ProveWritesMatched DEF ProveStep, ProveGo
<1>4. CASE AloneNext
  BY <1>2, <1>3, <1>4, RebuildMatched, ExportMatched, StopMatched DEF AloneNext
<1> QED
  BY <1>1, <1>4

LEMMA InitMatched == Init => Matched
<1> SUFFICES ASSUME Init PROVE Matched
  OBVIOUS
<1>1. \A f \in {"rows", "decoded", "meta"} : dir[f] = Absent
  BY NamesHas DEF Init
<1>2. Caches(dir)
  BY <1>1 DEF Caches, Missing
<1>3. \A p \in Procs : Knowing(p, pc[p], loc[p], dir, xbc)
  BY KnowingNothing DEF Init
<1> QED
  BY <1>2, <1>3, InitSetups DEF Matched

LEMMA MatchedProves == Matched => DescribedKeyProves
<1> SUFFICES ASSUME Matched, NEW p \in Procs, pc[p] = "prove_run", loc[p].described PROVE SelfCheck(loc[p])
  BY DEF DescribedKeyProves
<1>1. loc[p].full = TRUE
  BY EarlySteps, EarlyKnows
<1>2. /\ dir["meta"] # Absent /\ loc[p].kind = dir["meta"].form /\ loc[p].build.digest = dir["pk"].digest
      /\ loc[p].rows = loc[p].build.digest /\ loc[p].pk = dir["pk"]
  BY DEF Matched, Knowing
<1>3. dir["meta"].form = dir["pk"].form
  BY <1>2 DEF Matched, Setups, Matching
<1> QED
  BY <1>1, <1>2, <1>3 DEF SelfCheck

(* When commands run one after the other, each over a circuit.xbc that     *)
(* stays, a key whose metadata fits the build passes prove's self-check,   *)
(* whatever interrupted commands left of r1cs.stream, of the decoded copy  *)
(* and of their temporary files (row_source and the key cache, prove.rs).  *)
THEOREM DescribedProves == ASSUME ~ BuildRaces PROVE Spec /\ []Alone => []DescribedKeyProves
<1>1. [Next]_vars => [AloneNext]_vars
  BY DEF Next, AloneNext, QuietRebuild, Rebuild
<1>2. Matched /\ Alone /\ Alone' /\ [Next]_vars => Matched'
  BY <1>1, NextMatched
<1> QED
  BY <1>2, InitMatched, MatchedProves, PTL DEF Spec

(* A command's step leaves the others where they are.                      *)
LEMMA StepsAlone ==
  ASSUME Typed, NEW p \in Procs, SetupStep(p) \/ ProveStep(p) \/ ExportStep(p) \/ Stop(p)
  PROVE  \A q \in Procs \ {p} : pc'[q] = pc[q]
<1> DEFINE Moved == \E step, l : Goto(p, step, l)
<1>1. Moved => \A q \in Procs \ {p} : pc'[q] = pc[q]
  BY DEF Goto, Typed, Commands
<1>2. ASSUME NEW mode, NEW form, NEW compressed, NEW auto, NEW cache,
             PlanSetup(p, mode, form, compressed, auto, cache)
      PROVE  Moved
  BY <1>2 DEF PlanSetup
<1>3. SetupStep(p) => Moved
  <2>1. SetupRows(p) \/ SetupDigest(p) \/ SetupPk(p) \/ SetupVk(p) \/ SetupHash(p) => Moved
    BY DEF SetupRows, SetupDigest, SetupPk, SetupVk, SetupHash
  <2>2. SetupMeta(p) \/ SetupUnmark(p) \/ SetupRename(p) => Moved
    BY DEF SetupMeta, SetupUnmark, SetupRename
  <2> QED BY <1>2, <2>1, <2>2 DEF SetupStep, SetupGo, StartSetup
<1>4. ProveStep(p) => Moved
  <2>1. ASSUME NEW cache, StartProve(p, cache) PROVE Moved
    BY <1>2, <2>1 DEF StartProve
  <2>2. ProveForm(p) \/ ProveFit(p) \/ ProveRows(p) \/ ProveOpen(p) => Moved
    BY DEF ProveForm, ProveFit, ProveRows, ProveOpen
  <2>3. ProveRun(p) \/ ProveCache(p) \/ ProveProof(p) \/ ProvePublic(p) => Moved
    BY DEF ProveRun, ProveCache, ProveProof, ProvePublic
  <2> QED BY <2>1, <2>2, <2>3 DEF ProveStep, ProveGo
<1>5. ExportStep(p) => Moved
  BY DEF ExportStep, StartExport, ExportSafe, ExportFit, ExportSample, ExportVk, ExportWriteSample, ExportLib
<1>6. Stop(p) => Moved
  BY DEF Stop
<1> QED
  BY <1>1, <1>3, <1>4, <1>5, <1>6

(* The commands of the checked instance: unless one proves beside a setup, *)
(* only those of SetupProcs run.                                           *)
RunAlone == scenario[1] # "beside" => Matched /\ \A p \in Procs \ SetupProcs : pc[p] = "idle"

LEMMA RunAloneKeeps ==
  ASSUME \A p, q \in SetupProcs : p = q, RunAlone, [MCNext]_mcvars
  PROVE  RunAlone'
<1> SUFFICES ASSUME scenario'[1] # "beside"
             PROVE  Matched' /\ \A p \in Procs \ SetupProcs : pc'[p] = "idle"
  BY DEF RunAlone
<1>1. scenario' = scenario /\ Matched /\ \A p \in Procs \ SetupProcs : pc[p] = "idle"
  BY DEF RunAlone, MCNext, mcvars
<1>2. \/ UNCHANGED vars \/ QuietRebuild
      \/ \E p \in SetupProcs : SetupStep(p) \/ ProveStep(p) \/ ExportStep(p) \/ Stop(p)
  <2> DEFINE Runs == \E p \in SetupProcs : SetupStep(p) \/ ProveStep(p) \/ ExportStep(p) \/ Stop(p)
  <2>1. ASSUME NEW p \in SetupProcs, NEW mode \in {"dev", "ptau"}, NEW form \in Forms,
               NEW compressed \in BOOLEAN, StartSetup(p, mode, form, compressed)
        PROVE  SetupStep(p)
    BY <2>1 DEF SetupStep
  <2>2. ASSUME NEW p \in SetupProcs, SetupGo(p) \/ ProveGo(p) \/ StartProve(p, FALSE)
        PROVE  SetupStep(p) \/ ProveStep(p)
    BY <2>2 DEF SetupStep, ProveStep
  <2>3. ProvingNext => QuietRebuild \/ Runs
    BY <2>1, <2>2 DEF ProvingNext, QuietRebuild
  <2>4. ExportingNext => QuietRebuild \/ Runs
    BY <2>1, <2>2 DEF ExportingNext, QuietRebuild
  <2> QED BY <1>1, <2>3, <2>4 DEF MCNext, mcvars, vars
<1>3. \A p \in Procs \ SetupProcs : pc'[p] = "idle"
  <2>1. CASE UNCHANGED vars \/ QuietRebuild
    BY <1>1, <2>1 DEF vars, QuietRebuild, Rebuild
  <2>2. ASSUME NEW p \in SetupProcs, SetupStep(p) \/ ProveStep(p) \/ ExportStep(p) \/ Stop(p)
        PROVE  \A q \in Procs \ SetupProcs : pc'[q] = "idle"
    <3>1. p \in Procs /\ Typed
      BY <1>1, KeyStoreAssumption DEF Matched, Setups
    <3> QED BY <1>1, <2>2, <3>1, StepsAlone
  <2> QED BY <1>2, <2>1, <2>2
<1>4. Alone /\ Alone'
  BY <1>1, <1>3 DEF Alone
<1>5. [AloneNext]_vars
  BY <1>2, KeyStoreAssumption DEF AloneNext
<1> QED
  BY <1>1, <1>3, <1>4, <1>5, NextMatched

(* The same of the commands as they are checked, with a circuit.xbc that   *)
(* may change between any two of them: setups, proofs and exports that do  *)
(* not overlap, each interrupted anywhere.                                 *)
THEOREM DescribedAlone ==
  ASSUME \A p, q \in SetupProcs : p = q
  PROVE  MCSpec => []DescribedKeyProvesAlone
<1>1. MCInit => RunAlone
  <2> SUFFICES ASSUME MCInit, scenario[1] # "beside"
               PROVE  Matched /\ \A p \in Procs \ SetupProcs : pc[p] = "idle"
    BY DEF RunAlone
  <2>1. Init
    BY DEF MCInit
  <2> QED BY <2>1, InitMatched DEF Init
<1>2. RunAlone /\ [MCNext]_mcvars => RunAlone'
  BY RunAloneKeeps
<1>3. RunAlone => DescribedKeyProvesAlone
  BY MatchedProves DEF RunAlone, DescribedKeyProvesAlone
<1> QED
  BY <1>1, <1>2, <1>3, PTL DEF MCSpec
=============================================================================
