------------------------------- MODULE Build -------------------------------
(***************************************************************************)
(* `xark build` and the commands that build before they use a circuit      *)
(* (crates/cli/src/cli.rs; write_outputs_in and build_crate_with of        *)
(* crates/frontend/src/lib.rs; newer_source_than of crates/prover).        *)
(* Processes share one build directory.  A build holds its lock, compiles, *)
(* and reuses the outputs there if their stamp is the one it would write,  *)
(* else clears them and writes its own, file by file.  A command reads the *)
(* directory without the lock: it judges by files and times whether the    *)
(* build there is current, builds if it is not, then loads circuit.xbc.    *)
(*                                                                         *)
(* The sources are one version.  An edit is of one of two kinds: what is   *)
(* left in Cargo.toml and src/ is always looked at; the path dependencies, *)
(* and files taken away, are looked at if deps lists them.  Time is the    *)
(* number of edits so far: a file is older than a source when an edit came *)
(* after it was written.  A file that is being written, or whose writing   *)
(* was cut off, is Torn: fs::write empties it before it fills it.  What    *)
(* the system refuses (a lock, a removal, a write, a read) and a kill are  *)
(* faults.                                                                 *)
(***************************************************************************)
EXTENDS Naturals, Sequences, SequencesExt, FiniteSets

CONSTANTS
  Procs,
  Versions,          \* what the sources can be
  First,             \* what they are at first
  Broken,            \* the versions cargo rejects
  Unlowerable,       \* the versions that compile and do not lower
  Options,           \* what `xark build` is asked for: [field, views]
  MaxRuns,           \* bound on the commands and builds started
  MaxEdits,          \* bound on the edits of the sources
  MaxFaults,         \* bound on the kills and refused operations
  EditWhileBuilding  \* whether the sources may be edited during a build

ASSUME BuildAssumption ==
  /\ First \in Versions
  /\ Broken \subseteq Versions /\ Unlowerable \subseteq Versions
  /\ Options \subseteq [field : {"bn254", "other"}, views : BOOLEAN]
  /\ MaxRuns \in Nat /\ MaxEdits \in Nat /\ MaxFaults \in Nat
  /\ EditWhileBuilding \in BOOLEAN

VARIABLES
  src,     \* the sources: their version, the time of the last edit (at),
           \* and of the last one that shows without deps (own)
  dir,     \* the build directory: each file's content, or None
  made,    \* the modification time of circuit.xbc
  lock,    \* who holds .build-lock ({} or one process)
  ps,      \* the processes
  runs, faults

vars == <<src, dir, made, lock, ps, runs, faults>>

-----------------------------------------------------------------------------
(* BUILD_OUTPUTS, in their order, then the stamp.  "views" are the files   *)
(* of --emit-json and --profile.                                           *)
Outputs_CircuitLast == <<"sources.json", "deps", "views", "digest", "schema.json", "circuit.xbc">>

Outputs == <<"circuit.xbc", "sources.json", "deps", "views", "digest", "schema.json">>
BuildKey == "build-key"
Files    == ToSet(Outputs) \cup {BuildKey}

None == [ver |-> "none"]
Torn == [ver |-> "torn"]

Idle == [pc |-> "idle", cmd |-> "build", field |-> "bn254", views |-> FALSE,
         wasm |-> "none", key |-> None, left |-> <<>>, wrote |-> TRUE,
         fresh |-> {}, unlisted |-> FALSE, used |-> "none"]

Key_NoOptions(p) == [ver |-> "key", wasm |-> ps[p].wasm, text |-> src.ver]

(* build_key: the options, the module, and the sources as they are now.    *)
Key(p) == [ver |-> "key", field |-> ps[p].field, views |-> ps[p].views,
           wasm |-> ps[p].wasm, text |-> src.ver]

(* What a build of this module with these options writes.                  *)
Content(p) == [ver |-> ps[p].wasm, field |-> ps[p].field, views |-> ps[p].views]

(* build_stamp: the key, and what each output holds now.                   *)
Stamp(key) == [ver |-> "stamp", key |-> key, files |-> [f \in ToSet(Outputs) |-> dir[f]]]

(* f is whole, and of a build for that field.                              *)
Holds(f, field) == dir[f] \notin {None, Torn} /\ dir[f].field = field

Stale_OwnSources(field) ==
  \/ dir["circuit.xbc"] = None
  \/ dir["deps"] = None
  \/ src.own > made
  \/ field # "any" /\ ~ Holds("circuit.xbc", field)

(* stale_build, with the field the command needs (`any`: none).  Of deps   *)
(* it asks that it is there; newer_source_than reads what it lists, and    *)
(* what is left of a deps cut off lists nothing that was edited.           *)
Stale(field) ==
  \/ dir["circuit.xbc"] = None
  \/ dir["deps"] = None
  \/ src.own > made
  \/ dir["deps"] # Torn /\ src.at > made
  \/ field # "any" /\ ~ Holds("circuit.xbc", field)

-----------------------------------------------------------------------------
At(p, pc)   == ps[p].pc = pc
Goto(p, pc) == ps' = [ps EXCEPT ![p].pc = pc]
Same        == UNCHANGED <<src, runs>>
NoFault     == UNCHANGED faults
Fault       == faults < MaxFaults /\ faults' = faults + 1

(* A build ends: its lock is dropped.  A command goes on, or fails.        *)
Return(p, ok) ==
  /\ lock' = lock \ {p}
  /\ Goto(p, IF ~ ok THEN "failed" ELSE IF ps[p].cmd = "build" THEN "done" ELSE "require")

Start(p) ==
  /\ At(p, "idle") /\ runs < MaxRuns
  /\ runs' = runs + 1
  /\ \/ \E opt \in Options :
          ps' = [ps EXCEPT ![p] = [Idle EXCEPT !.pc = "lock", !.field = opt.field,
                                               !.views = opt.views]]
     \/ ps' = [ps EXCEPT ![p] = [Idle EXCEPT !.pc = "check", !.cmd = "command",
                                             !.fresh = {src.ver}]]
  /\ UNCHANGED <<src, dir, made, lock, faults>>

(* build_unless_current.  In a deps cut off within a name, the name is of  *)
(* a file that is gone, which is a change.  A build that is missing is made *)
(* (build_if_needed) or left to the command to miss (rebuild_if_stale).    *)
Check(p) ==
  /\ At(p, "check")
  /\ \/ /\ Stale("bn254") \/ dir["deps"] = Torn
        /\ Goto(p, "lock")
     \/ /\ ~ Stale("bn254") \/ dir["circuit.xbc"] = None
        /\ ps' = [ps EXCEPT ![p].pc = "require",
                            ![p].unlisted = dir["deps"] = Torn /\ src.at > made]
  /\ Same /\ NoFault /\ UNCHANGED <<dir, made, lock>>

Lock_Ignored(p) ==
  /\ At(p, "lock")
  /\ lock' = lock \cup {p}
  /\ Goto(p, "cargo")
  /\ Same /\ NoFault /\ UNCHANGED <<dir, made>>

(* .build-lock is made and locked, or the build fails at once.             *)
Lock(p) ==
  /\ At(p, "lock")
  /\ \/ lock = {} /\ lock' = {p} /\ Goto(p, "cargo") /\ NoFault
     \/ Return(p, FALSE) /\ Fault
  /\ Same /\ UNCHANGED <<dir, made>>

(* build_crate_with: cargo compiles the sources as they are.  If it fails  *)
(* the old outputs are cleared.                                            *)
Cargo(p) ==
  /\ At(p, "cargo")
  /\ IF src.ver \in Broken
       THEN ps' = [ps EXCEPT ![p].pc = "clear-failed", ![p].left = Append(Outputs, BuildKey)]
       ELSE ps' = [ps EXCEPT ![p].pc = "key", ![p].wasm = src.ver]
  /\ Same /\ NoFault /\ UNCHANGED <<dir, made, lock>>

(* `clear`, one file at a time: a removal that is refused ends it, and the *)
(* build.                                                                  *)
ClearFile(p) ==
  /\ ps[p].left # <<>>
  /\ \/ /\ dir' = [dir EXCEPT ![Head(ps[p].left)] = None]
        /\ ps' = [ps EXCEPT ![p].left = Tail(@)]
        /\ NoFault /\ UNCHANGED lock
     \/ Return(p, FALSE) /\ Fault /\ UNCHANGED dir

(* After a failed compile.                                                 *)
CargoFailed(p) ==
  /\ At(p, "clear-failed")
  /\ \/ ClearFile(p)
     \/ ps[p].left = <<>> /\ Return(p, FALSE) /\ NoFault /\ UNCHANGED dir
  /\ Same /\ UNCHANGED made

(* The key; none when a source cannot be read.                             *)
TakeKey(p) ==
  /\ At(p, "key")
  /\ \/ ps' = [ps EXCEPT ![p].pc = "reuse", ![p].key = Key(p)] /\ NoFault
     \/ ps' = [ps EXCEPT ![p].pc = "reuse", ![p].key = None] /\ Fault
  /\ Same /\ UNCHANGED <<dir, made, lock>>

Reusable(p) == ps[p].key # None /\ dir[BuildKey] = Stamp(ps[p].key)

(* reuse_build: outputs this build would write are marked as written now,  *)
(* circuit.xbc first.  If one cannot be, or read, they are not reused.     *)
Reuse(p) ==
  /\ At(p, "reuse")
  /\ \/ Reusable(p) /\ made' = src.at /\ Return(p, TRUE) /\ NoFault
     \/ /\ \/ ~ Reusable(p) /\ NoFault /\ UNCHANGED made
           \/ Reusable(p) /\ Fault /\ made' \in {made, src.at}
        /\ ps' = [ps EXCEPT ![p].pc = "clear", ![p].left = Append(Outputs, BuildKey)]
        /\ UNCHANGED lock
  /\ Same /\ UNCHANGED dir

(* clear, then lower_module.                                               *)
Clear(p) ==
  /\ At(p, "clear")
  /\ \/ ClearFile(p)
     \/ /\ ps[p].left = <<>>
        /\ IF ps[p].wasm \in Unlowerable
             THEN Return(p, FALSE)
             ELSE Goto(p, IF ps[p].views THEN "views" ELSE "circuit") /\ UNCHANGED lock
        /\ NoFault /\ UNCHANGED dir
  /\ Same /\ UNCHANGED made

(* fs::write: the file is opened, which makes or empties it, then filled.  *)
Fill(p, f, next) ==
  /\ \/ dir[f] # Torn /\ dir' = [dir EXCEPT ![f] = Torn] /\ UNCHANGED ps
     \/ dir[f] = Torn /\ dir' = [dir EXCEPT ![f] = Content(p)] /\ Goto(p, next)
  /\ made' = IF f = "circuit.xbc" THEN src.at ELSE made
  /\ NoFault /\ UNCHANGED lock

(* write_outputs_in and write_sources: an error ends the build.            *)
WriteOrFail(p, f, pc, next) ==
  /\ At(p, pc)
  /\ \/ Fill(p, f, next)
     \/ Return(p, FALSE) /\ Fault /\ UNCHANGED <<dir, made>>
  /\ Same

Views(p)   == WriteOrFail(p, "views", "views", "circuit")
Circuit(p) == WriteOrFail(p, "circuit.xbc", "circuit", "sources")
Sources(p) == WriteOrFail(p, "sources.json", "sources", "digest")

(* digest, schema.json and deps: an error is only remembered.              *)
Write(p, f, pc, next) ==
  /\ At(p, pc)
  /\ \/ Fill(p, f, next)
     \/ /\ ps' = [ps EXCEPT ![p].pc = next, ![p].wrote = FALSE]
        /\ Fault /\ UNCHANGED <<dir, made, lock>>
  /\ Same

Digest(p) == Write(p, "digest", "digest", "schema")
Schema(p) == Write(p, "schema.json", "schema", "deps")
Deps(p)   == Write(p, "deps", "deps", "stamp")

(* write_build_key: of the outputs as they are, when all were written.  An *)
(* error is not told.                                                      *)
WriteStamp(p) ==
  /\ At(p, "stamp")
  /\ IF ps[p].wrote /\ ps[p].key # None
       THEN \/ /\ dir[BuildKey] # Torn /\ dir' = [dir EXCEPT ![BuildKey] = Torn]
               /\ NoFault /\ UNCHANGED <<ps, lock>>
            \/ /\ dir[BuildKey] = Torn /\ dir' = [dir EXCEPT ![BuildKey] = Stamp(ps[p].key)]
               /\ Return(p, TRUE) /\ NoFault
            \/ Return(p, TRUE) /\ Fault /\ UNCHANGED dir
       ELSE Return(p, TRUE) /\ NoFault /\ UNCHANGED dir
  /\ Same /\ UNCHANGED made

-----------------------------------------------------------------------------
(* require_bn254, then the command reads the circuit.                      *)
Require(p) ==
  /\ At(p, "require")
  /\ Goto(p, IF dir["circuit.xbc"] \in {None, Torn} \/ Holds("circuit.xbc", "bn254")
               THEN "load" ELSE "failed")
  /\ Same /\ NoFault /\ UNCHANGED <<dir, made, lock>>

Load(p) ==
  /\ At(p, "load")
  /\ IF dir["circuit.xbc"] \in {None, Torn}
       THEN Goto(p, "failed")
       ELSE ps' = [ps EXCEPT ![p].pc = "done", ![p].used = dir["circuit.xbc"].ver]
  /\ Same /\ NoFault /\ UNCHANGED <<dir, made, lock>>

(* The process exits.                                                      *)
Exit(p) ==
  /\ ps[p].pc \in {"done", "failed"}
  /\ ps' = [ps EXCEPT ![p] = Idle]
  /\ Same /\ NoFault /\ UNCHANGED <<dir, made, lock>>

Crash_KeepsLock(p) ==
  /\ ps[p].pc \notin {"idle", "done", "failed"}
  /\ ps' = [ps EXCEPT ![p] = Idle]
  /\ Fault
  /\ Same /\ UNCHANGED <<dir, made, lock>>

(* A process is killed; the system drops its lock.                         *)
Crash(p) ==
  /\ ps[p].pc \notin {"idle", "done", "failed"}
  /\ ps' = [ps EXCEPT ![p] = Idle]
  /\ lock' = lock \ {p}
  /\ Fault
  /\ Same /\ UNCHANGED <<dir, made>>

(* The sources are edited, perhaps back to what they were.                 *)
Edit(v) ==
  /\ src.at < MaxEdits
  /\ EditWhileBuilding \/ lock = {}
  /\ v # src.ver
  /\ \E own \in {src.own, src.at + 1} : src' = [ver |-> v, at |-> src.at + 1, own |-> own]
  /\ ps' = [p \in Procs |-> IF At(p, "idle") THEN ps[p]
                            ELSE [ps[p] EXCEPT !.fresh = @ \cup {v}]]
  /\ UNCHANGED <<dir, made, lock, runs, faults>>

-----------------------------------------------------------------------------
Init ==
  /\ src = [ver |-> First, at |-> 0, own |-> 0]
  /\ dir = [f \in Files |-> None]
  /\ made = 0
  /\ lock = {}
  /\ ps = [p \in Procs |-> Idle]
  /\ runs = 0 /\ faults = 0

BuildStep(p) ==
  \/ Lock(p) \/ Cargo(p) \/ CargoFailed(p) \/ TakeKey(p) \/ Reuse(p) \/ Clear(p)
  \/ Views(p) \/ Circuit(p) \/ Sources(p) \/ Digest(p) \/ Schema(p) \/ Deps(p) \/ WriteStamp(p)

Step(p) == Check(p) \/ BuildStep(p) \/ Require(p) \/ Load(p) \/ Exit(p)

Next ==
  \/ \E p \in Procs : Start(p) \/ Step(p) \/ Crash(p)
  \/ \E v \in Versions : Edit(v)

(* A process that can run does.  No fault has to happen.                   *)
Spec == Init /\ [][Next]_vars /\ \A p \in Procs : WF_vars(Step(p) /\ NoFault)

-----------------------------------------------------------------------------
(* Properties.                                                             *)

(* Contents of the build directory that are a build's outputs.             *)
Written == {dir[f] : f \in ToSet(Outputs)} \ {None, Torn}

(* Every variable keeps its type.                                          *)
TypeOK ==
  /\ src \in [ver : Versions, at : 0..MaxEdits, own : 0..MaxEdits] /\ src.own <= src.at
  /\ DOMAIN dir = Files
  /\ made \in 0..MaxEdits
  /\ lock \subseteq Procs /\ Cardinality(lock) <= 1
  /\ DOMAIN ps = Procs
  /\ \A p \in Procs : ps[p].used \in Versions \cup {"none"}

(* The outputs in the directory are all one build's, at every moment and   *)
(* after every interruption (build_stable's lock, clear before write).     *)
OneBuildsOutputs == Cardinality(Written) <= 1

(* A build that stale_build takes for current is whole: circuit.xbc is not *)
(* cut short and sources.json is there.                                    *)
CurrentIsWhole ==
  ~ Stale("any") => dir["circuit.xbc"] # Torn /\ dir["sources.json"] = dir["circuit.xbc"]

(* circuit.xbc is the file `clear` removes next.                           *)
AtCircuit(p) == ps[p].pc \in {"clear", "clear-failed"} /\ Head(ps[p].left) = "circuit.xbc"

(* A build that fails never leaves the circuit of an earlier source behind *)
(* for later commands to go on with (build_stable), unless the system      *)
(* refused it the lock or the removal of that very file: a removal refused *)
(* later, whose error a failed compile drops, finds the circuit gone.      *)
FailedLeavesNoOldCircuit ==
  [][\A p \in Procs :
       ps'[p].pc = "failed" /\ ps[p].pc \notin {"failed", "require", "load"}
         => \/ dir'["circuit.xbc"] \in {None, Torn, Content(p)}
            \/ faults' # faults /\ (At(p, "lock") \/ AtCircuit(p))]_vars

(* A build that succeeds leaves what was asked for, reused or not          *)
(* (build_stable).                                                         *)
SuccessLeavesThisBuild ==
  [][\A p \in Procs :
       ps[p].pc \in {"reuse", "stamp"} /\ ps'[p].pc \in {"done", "require"}
         => dir'["circuit.xbc"] = Content(p)]_vars

(* rebuild_if_stale: "so a command never uses a circuit older than its     *)
(* source": the circuit a command loads is of a version that the sources   *)
(* had while it ran.  There is one exception: the build was judged by a    *)
(* deps that was cut off, and an edit since shows in no file of src/.      *)
NeverOlderThanSource ==
  \A p \in Procs : ps[p].used # "none" => ps[p].used \in ps[p].fresh \/ ps[p].unlisted

(* Every process ends, whichever build holds the lock and however builds   *)
(* before it were killed.                                                  *)
ProcessesEnd == \A p \in Procs : ps[p].pc # "idle" ~> ps[p].pc = "idle"

(* What the build directory holds is one build's, in every state, and all  *)
(* of it when it is taken for current; and the variables keep their types. *)
DirectoryConsistent == TypeOK /\ OneBuildsOutputs /\ CurrentIsWhole
=============================================================================
