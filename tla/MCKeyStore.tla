----------------------------- MODULE MCKeyStore -----------------------------
(* Instances of KeyStore for TLC: two circuits, each built by two          *)
(* compilers, so that a build can change with and without its circuit.     *)
EXTENDS KeyStore, TLC

CONSTANTS c1, c2, r1, r2

AllBuilds == [digest : {c1, c2}, rustc : {r1, r2}]
OneBuildEach == {b \in AllBuilds : b.rustc = r1}

(* The keys an earlier setup left.                                         *)
KeyedInit ==
  \E b \in Builds, form \in Forms, safe \in BOOLEAN :
    LET key == [id |-> 1, digest |-> b.digest, form |-> form, safe |-> safe,
                compressed |-> TRUE]
    IN /\ xbc = b
       /\ dir = [f \in Names |->
            CASE f \in {"pk", "vk"} -> key
              [] f = "meta" -> [hash |-> b, digest |-> b.digest, form |-> form,
                                safe |-> safe, vk |-> key]
              [] f = "rows" /\ form = "minimized" -> [mark |-> b.digest, digest |-> b.digest]
              [] OTHER -> Absent]
       /\ keys = 1
       /\ crate = [vk |-> Absent, sample |-> Absent, test |-> FALSE]
       /\ pc  = [p \in Procs |-> "idle"]
       /\ loc = [p \in Procs |-> NoLoc]
       /\ exported = {}

VARIABLE scenario   \* which commands run, chosen at the start
mcvars == <<vars, scenario>>

MCInit ==
  \/ Init /\ scenario = <<"prove">>
  \/ Init /\ xbc \in OneBuildEach /\ scenario = <<"export", xbc>>
  \/ KeyedInit /\ xbc \in OneBuildEach /\ scenario = <<"beside">>

(* One command at a time, interrupted anywhere, over builds that change.   *)
(* Without exports, and so with dev keys only: no other command tells the  *)
(* two modes apart.                                                        *)
ProvingNext ==
  \/ (\A p \in Procs : pc[p] = "idle") /\ Rebuild
  \/ \E p \in SetupProcs :
       \/ \E form \in Forms, compressed \in BOOLEAN : StartSetup(p, "dev", form, compressed)
       \/ SetupGo(p) \/ ProveStep(p) \/ Stop(p)

(* One command of any kind at a time, interrupted anywhere, over one       *)
(* build and without the caches of a proof.                                *)
ExportingNext ==
  \/ (\A p \in Procs : pc[p] = "idle") /\ Rebuild /\ xbc' \in {scenario[2], Absent}
  \/ \E p \in SetupProcs :
       \/ \E mode \in {"dev", "ptau"}, form \in Forms : StartSetup(p, mode, form, TRUE)
       \/ StartProve(p, FALSE)
       \/ SetupGo(p) \/ ProveGo(p) \/ ExportStep(p) \/ Stop(p)

(* A setup and a prove side by side over the keys an earlier setup left,   *)
(* and builds that race with both.                                         *)
SetupBesideProveNext ==
  \/ Rebuild /\ xbc' \in OneBuildEach \cup {Absent}
  \/ \E p \in SetupProcs :
       \/ \E mode \in {"dev", "ptau"}, form \in Forms : StartSetup(p, mode, form, TRUE)
       \/ SetupGo(p) \/ Stop(p)
  \/ \E p \in Procs \ SetupProcs : StartProve(p, FALSE) \/ ProveGo(p) \/ Stop(p)

MCNext ==
  /\ UNCHANGED scenario
  /\ \/ scenario[1] = "prove" /\ ProvingNext
     \/ scenario[1] = "export" /\ ExportingNext
     \/ scenario[1] = "beside" /\ SetupBesideProveNext

Interchangeable == Permutations({c1, c2})

MCSpec == MCInit /\ [][MCNext]_mcvars

(* A key described beside a running setup may be replaced before it is     *)
(* read: prove's own check then refuses, which is all the code promises.   *)
DescribedKeyProvesAlone == scenario[1] # "beside" => DescribedKeyProves
=============================================================================
