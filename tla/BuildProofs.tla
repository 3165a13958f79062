---------------------------- MODULE BuildProofs ----------------------------
(***************************************************************************)
(* Proofs about Build, for any processes, sources and build options.  Any  *)
(* number of builds and commands may run at once, be killed at any step    *)
(* and be refused any of their files: the directory still holds one        *)
(* build's outputs (DirectoryCorrect), and a build that ends tells the     *)
(* truth of it (SuccessTold, FailureTold).  If no source is edited while a *)
(* build runs, no command uses a circuit older than its sources, but by a  *)
(* deps that was cut off (NeverStale).  Each inductive invariant contains  *)
(* the one before it: Typing (types, and the lock's holder), Placing (what *)
(* a build at each step knows of the directory), Aging (what the times of  *)
(* the files say of their sources).                                        *)
(***************************************************************************)
EXTENDS Build, FiniteSetTheorems, SequenceTheorems, TLAPS

Outs == ToSet(Outputs)
Fields == {"bn254", "other"}
Contents == [ver : Versions, field : Fields, views : BOOLEAN]
Holdings == {None, Torn} \cup Contents
Keys == [ver : {"key"}, field : Fields, views : BOOLEAN, wasm : Versions, text : Versions]
Stamps == [ver : {"stamp"}, key : Keys, files : [Outs -> Holdings]]

(* The files in the order they are cleared, and those left after k of them. *)
Clearing == <<"circuit.xbc", "sources.json", "deps", "views", "digest", "schema.json", "build-key">>
Rest(k) == [i \in 1..(7 - k) |-> Clearing[i + k]]

AtDeps    == {"deps", "stamp"}
AtDigest  == {"digest", "schema"} \cup AtDeps
AtSources == {"sources"} \cup AtDigest
Writing   == {"views", "circuit"} \cup AtSources
Compiled  == {"key", "reuse", "clear"} \cup Writing
Building  == {"cargo", "clear-failed"} \cup Compiled
Pcs       == {"idle", "check", "lock", "require", "load", "done", "failed"} \cup Building

Memory == [pc : Pcs, cmd : {"build", "command"}, field : Fields, views : BOOLEAN,
           wasm : Versions \cup {"none"}, key : Keys \cup {None}, left : Seq(Files),
           wrote : BOOLEAN, fresh : SUBSET Versions, unlisted : BOOLEAN,
           used : Versions \cup {"none"}]
Process == {r \in Memory : r.pc \in Compiled => r.wasm \in Versions}

LEMMA OutsAre == /\ Outs = {"circuit.xbc", "sources.json", "deps", "views", "digest", "schema.json"}
                 /\ Files = Outs \cup {BuildKey}
  BY DEF Outs, ToSet, Outputs, Files, BuildKey

LEMMA AppendIs ==
  ASSUME NEW S, NEW s \in Seq(S), NEW b \in S, NEW t \in Seq(S),
         Len(t) = Len(s) + 1, t[Len(s) + 1] = b, \A i \in 1..Len(s) : t[i] = s[i]
  PROVE  Append(s, b) = t
  OBVIOUS

LEMMA ClearingIs == /\ Append(Outputs, BuildKey) = Clearing
                    /\ Clearing \in Seq(Files)
                    /\ \A i \in 1..7 : Clearing[i] \in Files
                    /\ Clearing[1] = "circuit.xbc"
<1>1. Clearing \in Seq(Files) /\ Len(Clearing) = 7
  BY OutsAre DEF Clearing, BuildKey
<1>2. Outputs \in Seq(Files) /\ Len(Outputs) = 6
  BY OutsAre DEF Outputs
<1>3. BuildKey \in Files
  BY OutsAre
<1>4. \A i \in 1..6 : Outputs[i] = Clearing[i]
  BY DEF Outputs, Clearing
<1>5. Clearing[7] = BuildKey
  BY DEF BuildKey, Clearing
<1>6. Append(Outputs, BuildKey) = Clearing
  <2>1. Len(Clearing) = Len(Outputs) + 1 /\ Len(Outputs) + 1 = 7
    BY <1>1, <1>2
  <2>2. Clearing[Len(Outputs) + 1] = BuildKey
    BY <1>5, <2>1
  <2>3. \A i \in 1..Len(Outputs) : Clearing[i] = Outputs[i]
    BY <1>2, <1>4
  <2> QED BY <1>1, <1>2, <1>3, <2>1, <2>2, <2>3, AppendIs
<1>7. Clearing[1] = "circuit.xbc"
  BY DEF Clearing
<1>8. \A i \in 1..7 : Clearing[i] \in Files
  BY OutsAre DEF Clearing, BuildKey
<1> QED BY <1>1, <1>6, <1>7, <1>8

LEMMA RestIs ==
  /\ Rest(0) = Clearing
  /\ Rest(7) = <<>>
  /\ \A k \in 0..6 : /\ Rest(k) # <<>>
                     /\ Head(Rest(k)) = Clearing[k + 1]
                     /\ Tail(Rest(k)) = Rest(k + 1)
<1>1. Rest(0) = Clearing
  BY DEF Rest, Clearing
<1>2. Rest(7) = <<>>
  BY DEF Rest
<1>3. ASSUME NEW k \in 0..6 
      PROVE  /\ Rest(k) # <<>>
             /\ Head(Rest(k)) = Clearing[k + 1]
             /\ Tail(Rest(k)) = Rest(k + 1)
  <2>1. Rest(k) \in Seq(Files) /\ Len(Rest(k)) = 7 - k
    BY ClearingIs DEF Rest, Clearing
  <2>2. Rest(k) # <<>>
    BY <2>1
  <2>3. Head(Rest(k)) = Clearing[k + 1]
    BY <2>1 DEF Rest
  <2>4. Tail(Rest(k)) = Rest(k + 1)
    BY <2>1 DEF Rest
  <2> QED BY <2>2, <2>3, <2>4
<1> QED BY <1>1, <1>2, <1>3

LEMMA Kinds ==
  /\ \A c \in Contents : c # None /\ c # Torn
  /\ \A k \in Keys : k # None
  /\ \A s \in Stamps : s # None /\ s # Torn
  /\ None # Torn
<1>1. None.ver = "none" /\ Torn.ver = "torn" /\ DOMAIN None = {"ver"} /\ DOMAIN Torn = {"ver"}
  BY DEF None, Torn
<1>2. \A c \in Contents : "field" \in DOMAIN c
  BY DEF Contents
<1>3. \A k \in Keys : "field" \in DOMAIN k
  BY DEF Keys
<1>4. \A s \in Stamps : "key" \in DOMAIN s
  BY DEF Stamps
<1> QED BY <1>1, <1>2, <1>3, <1>4

-----------------------------------------------------------------------------
Typed ==
  /\ src \in [ver : Versions, at : 0..MaxEdits, own : 0..MaxEdits] /\ src.own <= src.at
  /\ DOMAIN dir = Files
  /\ \A f \in Outs : dir[f] \in Holdings
  /\ dir[BuildKey] \in {None, Torn} \cup Stamps
  /\ made \in 0..MaxEdits /\ made <= src.at
  /\ lock \in {{}} \cup {{p} : p \in Procs}
  /\ ps \in [Procs -> Process]

Locked == \A p \in Procs : ps[p].pc \in Building => lock = {p}

LEMMA WritesTyped ==
  ASSUME NEW f \in Files, NEW c, Typed, dir' = [dir EXCEPT ![f] = c],
         f \in Outs => c \in Holdings, f = BuildKey => c \in {None, Torn} \cup Stamps
  PROVE  /\ DOMAIN dir' = Files
         /\ \A g \in Outs : dir'[g] \in Holdings
         /\ dir'[BuildKey] \in {None, Torn} \cup Stamps
<1>1. BuildKey \notin Outs
  BY OutsAre DEF BuildKey
<1> QED BY <1>1, OutsAre DEF Typed

(* What p remembers when it only moves on.                                 *)
LEMMA MovedOn ==
  ASSUME NEW q \in Process, NEW pc \in Pcs, pc \in Compiled => q.pc \in Compiled
  PROVE  [q EXCEPT !.pc = pc] \in Process /\ [q EXCEPT !.pc = pc].pc = pc
<1> DEFINE r == [q EXCEPT !.pc = pc]
<1>1. r \in Memory /\ r.pc = pc /\ r.wasm = q.wasm
  BY DEF Process, Memory
<1> HIDE DEF r
<1>2. r \in Process
  BY <1>1 DEF Process
<1> QED BY <1>1, <1>2 DEF r

LEMMA GotoTyped ==
  ASSUME NEW p \in Procs, NEW pc \in Pcs, Typed, Goto(p, pc),
         pc \in Compiled => ps[p].pc \in Compiled
  PROVE  /\ ps' \in [Procs -> Process]
         /\ ps'[p] = [ps[p] EXCEPT !.pc = pc]
         /\ \A q \in Procs : q # p => ps'[q] = ps[q]
<1>1. ps' = [ps EXCEPT ![p] = [ps[p] EXCEPT !.pc = pc]]
  BY DEF Goto
<1>2. [ps[p] EXCEPT !.pc = pc] \in Process
  BY MovedOn DEF Typed
<1> QED BY <1>1, <1>2 DEF Typed

LEMMA ReturnTyped ==
  ASSUME NEW p \in Procs, NEW ok \in BOOLEAN, Typed, Return(p, ok)
  PROVE  /\ ps' \in [Procs -> Process]
         /\ ps'[p].pc \in {"done", "failed", "require"}
         /\ \A q \in Procs : q # p => ps'[q] = ps[q]
<1>1. PICK pc \in {"done", "failed", "require"} : Goto(p, pc)
  BY DEF Return
<1>2. pc \in Pcs /\ pc \notin Compiled
  BY DEF Pcs, Compiled, Writing, AtSources, AtDigest, AtDeps
<1>3. ps'[p] = [ps[p] EXCEPT !.pc = pc] /\ ps' \in [Procs -> Process] /\ \A q \in Procs : q # p => ps'[q] = ps[q]
  BY <1>1, <1>2, GotoTyped
<1>4. ps'[p].pc = pc
  BY <1>3 DEF Process, Memory, Typed
<1> QED BY <1>3, <1>4

(* What a step of p does to the process table and the lock. *)
Others(p) == \A q \in Procs : q # p => ps'[q] = ps[q]

LEMMA SetTyped ==
  ASSUME NEW p \in Procs, NEW r \in Process, Typed, ps' = [ps EXCEPT ![p] = r]
  PROVE  ps' \in [Procs -> Process] /\ ps'[p] = r /\ Others(p)
  BY DEF Typed, Others

LEMMA LockMoves ==
  ASSUME NEW p \in Procs, Typed, Locked, Others(p),
         \/ lock' = lock /\ (ps'[p].pc \in Building => ps[p].pc \in Building)
         \/ lock' = lock \ {p} /\ ps'[p].pc \notin Building
         \/ lock = {} /\ lock' = {p}
  PROVE  Locked' /\ lock' \in {{}} \cup {{q} : q \in Procs}
<1>1. lock' \in {{}} \cup {{q} : q \in Procs}
  BY DEF Typed
<1>2. ASSUME NEW q \in Procs, ps'[q].pc \in Building PROVE lock' = {q}
  <2>1. CASE q = p
    BY <1>2, <2>1 DEF Locked
  <2>2. CASE q # p
    <3>1. lock = {q}
      BY <1>2, <2>2 DEF Locked, Others
    <3> QED BY <3>1, <1>2, <2>2
  <2> QED BY <2>1, <2>2
<1> QED BY <1>1, <1>2 DEF Locked

LEMMA IdleTyped == Idle \in Process
<1>1. <<>> \in Seq(Files)
  OBVIOUS
<1> QED BY <1>1 DEF Idle, Process, Memory, Pcs, Fields, Compiled, Writing, AtSources, AtDigest, AtDeps

Typing == Typed /\ Locked

LEMMA StartTyping ==
  ASSUME NEW p \in Procs, Typing, Start(p)
  PROVE  Typing'
<1>1. PICK r \in Process : ps' = [ps EXCEPT ![p] = r] /\ r.pc \in {"lock", "check"}
  <2>1. ASSUME NEW opt \in Options,
               ps' = [ps EXCEPT ![p] = [Idle EXCEPT !.pc = "lock", !.field = opt.field, !.views = opt.views]]
        PROVE  \E r \in Process : ps' = [ps EXCEPT ![p] = r] /\ r.pc \in {"lock", "check"}
    <3>1. opt \in [field : Fields, views : BOOLEAN]
      BY BuildAssumption DEF Fields
    <3>2. [Idle EXCEPT !.pc = "lock", !.field = opt.field, !.views = opt.views] \in Process
      BY <3>1, IdleTyped DEF Process, Memory, Pcs, Compiled, Writing, AtSources, AtDigest, AtDeps
    <3> QED BY <2>1, <3>2 DEF Process, Memory, Idle
  <2>2. [Idle EXCEPT !.pc = "check", !.cmd = "command", !.fresh = {src.ver}] \in Process
    <3>1. src.ver \in Versions
      BY DEF Typing, Typed
    <3> QED BY <3>1, IdleTyped DEF Process, Memory, Pcs, Compiled, Writing, AtSources, AtDigest, AtDeps
  <2> QED BY <2>1, <2>2 DEF Start, Process, Memory, Idle
<1>2. ps' \in [Procs -> Process] /\ ps'[p] = r /\ Others(p)
  BY <1>1, SetTyped DEF Typing
<1>3. UNCHANGED <<src, dir, made, lock>>
  BY DEF Start
<1>4. Locked'
  BY <1>1, <1>2, <1>3, LockMoves DEF Typing, Building, Compiled, Writing, AtSources, AtDigest, AtDeps
<1> QED BY <1>2, <1>3, <1>4 DEF Typing, Typed

(* A step that only moves p, without taking or dropping the lock.          *)
LEMMA MoveTyping ==
  ASSUME NEW p \in Procs, Typing, NEW r \in Process, ps' = [ps EXCEPT ![p] = r],
         r.pc \in Building => ps[p].pc \in Building,
         UNCHANGED <<src, dir, lock>>, made' \in {made, src.at}
  PROVE  Typing'
<1>1. ps' \in [Procs -> Process] /\ ps'[p] = r /\ Others(p)
  BY SetTyped DEF Typing
<1>2. Locked'
  BY <1>1, LockMoves DEF Typing
<1>3. made' \in 0..MaxEdits /\ made' <= src'.at
  BY DEF Typing, Typed
<1> QED BY <1>1, <1>2, <1>3 DEF Typing, Typed

LEMMA GotoTyping ==
  ASSUME NEW p \in Procs, Typing, NEW pc \in Pcs, Goto(p, pc),
         pc \in Building => ps[p].pc \in Building,
         pc \in Compiled => ps[p].pc \in Compiled,
         UNCHANGED <<src, dir, made, lock>>
  PROVE  Typing'
<1>1. [ps[p] EXCEPT !.pc = pc] \in Process /\ [ps[p] EXCEPT !.pc = pc].pc = pc
  BY MovedOn DEF Typing, Typed
<1> QED BY <1>1, MoveTyping DEF Goto

LEMMA ReturnTyping ==
  ASSUME NEW p \in Procs, Typing, NEW ok \in BOOLEAN, Return(p, ok),
         UNCHANGED <<src, dir>>, made' \in {made, src.at}
  PROVE  Typing'
<1>1. /\ ps' \in [Procs -> Process]
      /\ ps'[p].pc \in {"done", "failed", "require"}
      /\ \A q \in Procs : q # p => ps'[q] = ps[q]
  BY ReturnTyped DEF Typing
<1>2. lock' = lock \ {p} /\ Others(p)
  BY <1>1 DEF Return, Others
<1>3. ps'[p].pc \notin Building
  BY <1>1 DEF Building, Compiled, Writing, AtSources, AtDigest, AtDeps
<1>4. Locked' /\ lock' \in {{}} \cup {{q} : q \in Procs}
  BY <1>2, <1>3, LockMoves DEF Typing
<1>5. made' \in 0..MaxEdits /\ made' <= src'.at
  BY DEF Typing, Typed
<1> QED BY <1>1, <1>4, <1>5 DEF Typing, Typed

(* A step that writes or removes one file.                                 *)
LEMMA WriteTyping ==
  ASSUME NEW p \in Procs, Typing, NEW r \in Process, ps' = [ps EXCEPT ![p] = r],
         r.pc \in Building => ps[p].pc \in Building,
         UNCHANGED <<src, lock>>, made' \in {made, src.at},
         NEW f \in Files, NEW c, dir' = [dir EXCEPT ![f] = c],
         f \in Outs => c \in Holdings, f = BuildKey => c \in {None, Torn} \cup Stamps
  PROVE  Typing'
<1>1. ps' \in [Procs -> Process] /\ ps'[p] = r /\ Others(p)
  BY SetTyped DEF Typing
<1>2. Locked'
  BY <1>1, LockMoves DEF Typing
<1>3. /\ DOMAIN dir' = Files
      /\ \A g \in Outs : dir'[g] \in Holdings
      /\ dir'[BuildKey] \in {None, Torn} \cup Stamps
  BY WritesTyped DEF Typing
<1>4. made' \in 0..MaxEdits /\ made' <= src'.at
  BY DEF Typing, Typed
<1> QED BY <1>1, <1>2, <1>3, <1>4 DEF Typing, Typed

LEMMA ContentIs ==
  ASSUME NEW p \in Procs, Typing, ps[p].pc \in Compiled
  PROVE  Content(p) \in Contents
  BY DEF Typing, Typed, Process, Memory, Content, Contents

LEMMA FileNames ==
  /\ \A f \in {"circuit.xbc", "sources.json", "deps", "views", "digest", "schema.json"} :
       f \in Outs /\ f \in Files /\ f # BuildKey
  /\ BuildKey \in Files /\ BuildKey \notin Outs
  BY OutsAre DEF BuildKey

LEMMA CheckTyping ==
  ASSUME NEW p \in Procs, Typing, Check(p)
  PROVE  Typing'
<1>1. \A pc \in {"lock", "require"} : pc \in Pcs /\ pc \notin Building /\ pc \notin Compiled
  BY DEF Pcs, Building, Compiled, Writing, AtSources, AtDigest, AtDeps
<1>2. UNCHANGED <<src, dir, made, lock>>
  BY DEF Check, Same
<1>3. CASE Goto(p, "lock")
  BY <1>1, <1>2, <1>3, GotoTyping
<1>4. CASE ps' = [ps EXCEPT ![p].pc = "require", ![p].unlisted = dir["deps"] = Torn /\ src.at > made]
  <2>1. PICK b \in BOOLEAN : b = (dir["deps"] = Torn /\ src.at > made)
    OBVIOUS
  <2> DEFINE r == [ps[p] EXCEPT !.pc = "require", !.unlisted = b]
  <2>2. ps' = [ps EXCEPT ![p] = r]
    BY <1>4, <2>1
  <2>3. r \in Process /\ r.pc = "require"
    <3>1. ps[p] \in Memory
      BY DEF Process, Typing, Typed
    <3>2. r \in Memory /\ r.pc = "require"
      BY <1>1, <3>1 DEF Memory
    <3> QED BY <1>1, <3>2 DEF Process
  <2> HIDE DEF r
  <2> QED BY <1>1, <1>2, <2>2, <2>3, MoveTyping
<1> QED BY <1>3, <1>4 DEF Check

LEMMA LockTyping ==
  ASSUME NEW p \in Procs, Typing, Lock(p)
  PROVE  Typing'
<1>1. UNCHANGED <<src, dir, made>>
  BY DEF Lock, Same
<1>2. CASE lock = {} /\ lock' = {p} /\ Goto(p, "cargo")
  <2>1. "cargo" \in Pcs /\ "cargo" \notin Compiled
    BY DEF Pcs, Building, Compiled, Writing, AtSources, AtDigest, AtDeps
  <2>2. ps' \in [Procs -> Process] /\ Others(p)
    BY <1>2, <2>1, GotoTyped DEF Typing, Others
  <2>3. Locked' /\ lock' \in {{}} \cup {{q} : q \in Procs}
    BY <1>2, <2>2, LockMoves DEF Typing
  <2> QED BY <1>1, <2>2, <2>3 DEF Typing, Typed
<1>3. CASE Return(p, FALSE)
  BY <1>1, <1>3, ReturnTyping
<1> QED BY <1>2, <1>3 DEF Lock

LEMMA CargoTyping ==
  ASSUME NEW p \in Procs, Typing, Cargo(p)
  PROVE  Typing'
<1>1. ps[p] \in Memory /\ ps[p].pc \in Building /\ src.ver \in Versions
  BY DEF Cargo, At, Typing, Typed, Process, Building, Compiled, Writing, AtSources, AtDigest, AtDeps
<1>2. UNCHANGED <<src, dir, made, lock>>
  BY DEF Cargo, Same
<1>3. CASE ps' = [ps EXCEPT ![p].pc = "clear-failed", ![p].left = Append(Outputs, BuildKey)]
  <2> DEFINE r == [ps[p] EXCEPT !.pc = "clear-failed", !.left = Clearing]
  <2>1. ps' = [ps EXCEPT ![p] = r]
    BY <1>3, ClearingIs
  <2>2. "clear-failed" \in Pcs /\ "clear-failed" \notin Compiled
    BY DEF Pcs, Building, Compiled, Writing, AtSources, AtDigest, AtDeps
  <2>3. r \in Process
    BY <1>1, <2>2, ClearingIs DEF Process, Memory
  <2> HIDE DEF r
  <2> QED BY <1>1, <1>2, <2>1, <2>3, MoveTyping
<1>4. CASE ps' = [ps EXCEPT ![p].pc = "key", ![p].wasm = src.ver]
  <2> DEFINE r == [ps[p] EXCEPT !.pc = "key", !.wasm = src.ver]
  <2>1. ps' = [ps EXCEPT ![p] = r]
    BY <1>4
  <2>2. "key" \in Pcs
    BY DEF Pcs, Building, Compiled, Writing, AtSources, AtDigest, AtDeps
  <2>3. r \in Process
    BY <1>1, <2>2 DEF Process, Memory
  <2> HIDE DEF r
  <2> QED BY <1>1, <1>2, <2>1, <2>3, MoveTyping
<1> QED BY <1>3, <1>4 DEF Cargo

(* One file of `clear`.                                                    *)
LEMMA RemoveTyping ==
  ASSUME NEW p \in Procs, Typing, ps[p].pc \in Building, ps[p].left # <<>>,
         dir' = [dir EXCEPT ![Head(ps[p].left)] = None],
         ps' = [ps EXCEPT ![p].left = Tail(@)],
         UNCHANGED <<src, made, lock>>
  PROVE  Typing'
<1> DEFINE f == Head(ps[p].left)
           r == [ps[p] EXCEPT !.left = Tail(ps[p].left)]
<1>1. ps[p] \in Process /\ ps[p] \in Memory
  BY DEF Typing, Typed, Process
<1>2. ps[p].left \in Seq(Files)
  BY <1>1 DEF Memory
<1>3. f \in Files /\ Tail(ps[p].left) \in Seq(Files)
  BY <1>2
<1>4. r \in Process /\ r.pc = ps[p].pc
  BY <1>1, <1>3 DEF Process, Memory
<1>5. ps' = [ps EXCEPT ![p] = r] /\ dir' = [dir EXCEPT ![f] = None]
  OBVIOUS
<1> HIDE DEF f, r
<1> QED BY <1>3, <1>4, <1>5, WriteTyping DEF Holdings

LEMMA ClearFileTyping ==
  ASSUME NEW p \in Procs, Typing, ps[p].pc \in Building, ClearFile(p), UNCHANGED <<src, made>>
  PROVE  Typing'
<1>1. CASE Return(p, FALSE) /\ UNCHANGED dir
  BY <1>1, ReturnTyping
<1>2. CASE /\ dir' = [dir EXCEPT ![Head(ps[p].left)] = None]
           /\ ps' = [ps EXCEPT ![p].left = Tail(@)]
           /\ UNCHANGED lock
  BY <1>2, RemoveTyping DEF ClearFile
<1> QED BY <1>1, <1>2 DEF ClearFile

LEMMA CargoFailedTyping ==
  ASSUME NEW p \in Procs, Typing, CargoFailed(p)
  PROVE  Typing'
<1>1. ps[p].pc \in Building /\ UNCHANGED <<src, made>>
  BY DEF CargoFailed, At, Building, Same
<1>2. CASE Return(p, FALSE) /\ UNCHANGED dir
  BY <1>1, <1>2, ReturnTyping
<1> QED BY <1>1, <1>2, ClearFileTyping DEF CargoFailed

LEMMA KeyIs ==
  ASSUME NEW p \in Procs, Typing, ps[p].pc \in Compiled
  PROVE  Key(p) \in Keys
  BY DEF Typing, Typed, Process, Memory, Key, Keys

LEMMA TakeKeyTyping ==
  ASSUME NEW p \in Procs, Typing, TakeKey(p)
  PROVE  Typing'
<1>1. ps[p] \in Process /\ ps[p] \in Memory /\ ps[p].pc \in Compiled /\ ps[p].pc \in Building
  BY DEF TakeKey, At, Typing, Typed, Process, Building, Compiled, Writing, AtSources, AtDigest, AtDeps
<1>2. PICK k \in Keys \cup {None} : ps' = [ps EXCEPT ![p].pc = "reuse", ![p].key = k]
  BY <1>1, KeyIs DEF TakeKey
<1> DEFINE r == [ps[p] EXCEPT !.pc = "reuse", !.key = k]
<1>3. ps' = [ps EXCEPT ![p] = r]
  BY <1>2
<1>4. "reuse" \in Pcs
  BY DEF Pcs, Building, Compiled, Writing, AtSources, AtDigest, AtDeps
<1>5. r \in Process
  BY <1>1, <1>4 DEF Process, Memory
<1>6. UNCHANGED <<src, dir, made, lock>>
  BY DEF TakeKey, Same
<1> HIDE DEF r
<1> QED BY <1>1, <1>3, <1>5, <1>6, MoveTyping

LEMMA ReuseTyping ==
  ASSUME NEW p \in Procs, Typing, Reuse(p)
  PROVE  Typing'
<1>1. ps[p] \in Process /\ ps[p] \in Memory /\ ps[p].pc \in Compiled /\ ps[p].pc \in Building
  BY DEF Reuse, At, Typing, Typed, Process, Building, Compiled, Writing, AtSources, AtDigest, AtDeps
<1>2. UNCHANGED <<src, dir>> /\ made' \in {made, src.at}
  BY DEF Reuse, Same
<1>3. CASE Return(p, TRUE)
  BY <1>2, <1>3, ReturnTyping
<1>4. CASE UNCHANGED lock /\ ps' = [ps EXCEPT ![p].pc = "clear", ![p].left = Append(Outputs, BuildKey)]
  <2> DEFINE r == [ps[p] EXCEPT !.pc = "clear", !.left = Clearing]
  <2>1. ps' = [ps EXCEPT ![p] = r]
    BY <1>4, ClearingIs
  <2>2. "clear" \in Pcs
    BY DEF Pcs, Building, Compiled, Writing, AtSources, AtDigest, AtDeps
  <2>3. r \in Process
    BY <1>1, <2>2, ClearingIs DEF Process, Memory
  <2> HIDE DEF r
  <2> QED BY <1>1, <1>2, <1>4, <2>1, <2>3, MoveTyping
<1> QED BY <1>3, <1>4 DEF Reuse

LEMMA ClearTyping ==
  ASSUME NEW p \in Procs, Typing, Clear(p)
  PROVE  Typing'
<1>1. ps[p].pc \in Building /\ ps[p].pc \in Compiled
  BY DEF Clear, At, Building, Compiled, Writing, AtSources, AtDigest, AtDeps
<1>2. UNCHANGED <<src, made>>
  BY DEF Clear, Same
<1>3. CASE ClearFile(p)
  BY <1>1, <1>2, <1>3, ClearFileTyping
<1>4. CASE Return(p, FALSE) /\ UNCHANGED dir
  BY <1>2, <1>4, ReturnTyping
<1>5. CASE Goto(p, IF ps[p].views THEN "views" ELSE "circuit") /\ UNCHANGED <<lock, dir>>
  <2>1. PICK pc \in {"views", "circuit"} : Goto(p, pc)
    BY <1>5
  <2>2. pc \in Pcs
    BY DEF Pcs, Building, Compiled, Writing, AtSources, AtDigest, AtDeps
  <2> QED BY <1>1, <1>2, <1>5, <2>1, <2>2, GotoTyping
<1> QED BY <1>3, <1>4, <1>5 DEF Clear

(* One step of writing a file.                                             *)
LEMMA FillTyping ==
  ASSUME NEW p \in Procs, Typing, ps[p].pc \in Compiled, NEW f \in Outs, NEW next \in Compiled,
         Fill(p, f, next), src' = src
  PROVE  Typing'
<1>1. ps[p] \in Process /\ ps[p] \in Memory /\ ps[p].pc \in Building /\ next \in Pcs
  BY DEF Typing, Typed, Process, Building, Pcs
<1>2. f \in Files /\ f # BuildKey
  BY OutsAre, FileNames
<1>3. UNCHANGED <<src, lock>> /\ made' \in {made, src.at}
  BY DEF Fill
<1>4. CASE dir' = [dir EXCEPT ![f] = Torn] /\ UNCHANGED ps
  <2>1. ps' = [ps EXCEPT ![p] = ps[p]]
    BY <1>4 DEF Typing, Typed
  <2>2. Torn \in Holdings
    BY DEF Holdings
  <2> QED BY <1>1, <1>2, <1>3, <1>4, <2>1, <2>2, WriteTyping
<1>5. CASE dir' = [dir EXCEPT ![f] = Content(p)] /\ Goto(p, next)
  <2> DEFINE r == [ps[p] EXCEPT !.pc = next]
  <2>1. ps' = [ps EXCEPT ![p] = r]
    BY <1>5 DEF Goto
  <2>2. r \in Process
    BY <1>1 DEF Process, Memory
  <2>3. PICK c \in Contents : c = Content(p)
    BY ContentIs
  <2>4. c \in Holdings
    BY DEF Holdings
  <2> HIDE DEF r
  <2> QED BY <1>1, <1>2, <1>3, <1>5, <2>1, <2>2, <2>3, <2>4, WriteTyping
<1> QED BY <1>4, <1>5 DEF Fill

LEMMA WriteOrFailTyping ==
  ASSUME NEW p \in Procs, Typing, NEW f \in Outs, NEW pc \in Compiled, NEW next \in Compiled,
         WriteOrFail(p, f, pc, next)
  PROVE  Typing'
<1>1. ps[p].pc \in Compiled /\ src' = src
  BY DEF WriteOrFail, At, Same
<1>2. CASE Return(p, FALSE) /\ UNCHANGED <<dir, made>>
  BY <1>1, <1>2, ReturnTyping
<1> QED BY <1>1, <1>2, FillTyping DEF WriteOrFail



LEMMA WriteFileTyping ==
  ASSUME NEW p \in Procs, Typing, NEW f \in Outs, NEW pc \in Compiled, NEW next \in Compiled,
         Write(p, f, pc, next)
  PROVE  Typing'
<1>1. ps[p].pc \in Compiled /\ ps[p].pc \in Building /\ src' = src
  BY DEF Write, At, Building, Same
<1>2. CASE ps' = [ps EXCEPT ![p].pc = next, ![p].wrote = FALSE] /\ UNCHANGED <<dir, made, lock>>
  <2> DEFINE r == [ps[p] EXCEPT !.pc = next, !.wrote = FALSE]
  <2>1. ps' = [ps EXCEPT ![p] = r]
    BY <1>2
  <2>2. ps[p] \in Process /\ next \in Pcs
    BY DEF Typing, Typed, Pcs, Building
  <2>3. r \in Process
    BY <1>1, <2>2 DEF Process, Memory
  <2> HIDE DEF r
  <2> QED BY <1>1, <1>2, <2>1, <2>3, MoveTyping
<1> QED BY <1>1, <1>2, FillTyping DEF Write

LEMMA StampIs ==
  ASSUME Typing, NEW key \in Keys
  PROVE  Stamp(key) \in Stamps
<1>1. [f \in ToSet(Outputs) |-> dir[f]] \in [Outs -> Holdings]
  BY DEF Outs, Typing, Typed
<1> QED BY <1>1 DEF Stamp, Stamps

LEMMA WriteStampTyping ==
  ASSUME NEW p \in Procs, Typing, WriteStamp(p)
  PROVE  Typing'
<1>1. ps[p].pc \in Compiled /\ ps[p].pc \in Building /\ ps[p] \in Process
  BY DEF WriteStamp, At, Typing, Typed, Building, Compiled, Writing, AtSources, AtDigest, AtDeps
<1>2. UNCHANGED <<src, made>> /\ BuildKey \in Files /\ BuildKey \notin Outs
  BY FileNames DEF WriteStamp, Same
<1>3. CASE Return(p, TRUE) /\ UNCHANGED dir
  BY <1>2, <1>3, ReturnTyping
<1>4. CASE dir' = [dir EXCEPT ![BuildKey] = Torn] /\ UNCHANGED <<ps, lock>>
  <2>1. ps' = [ps EXCEPT ![p] = ps[p]]
    BY <1>4 DEF Typing, Typed
  <2> QED BY <1>1, <1>2, <1>4, <2>1, WriteTyping
<1>5. CASE ps[p].key # None /\ dir' = [dir EXCEPT ![BuildKey] = Stamp(ps[p].key)] /\ Return(p, TRUE)
  <2>1. ps[p].key \in Keys
    BY <1>1, <1>5 DEF Process, Memory
  <2>2. PICK s \in Stamps : s = Stamp(ps[p].key)
    BY <2>1, StampIs
  <2>3. /\ ps' \in [Procs -> Process]
        /\ ps'[p].pc \in {"done", "failed", "require"}
        /\ Others(p)
    BY <1>5, ReturnTyped DEF Typing, Others
  <2>4. ps'[p].pc \notin Building
    BY <2>3 DEF Building, Compiled, Writing, AtSources, AtDigest, AtDeps
  <2>5. Locked' /\ lock' \in {{}} \cup {{q} : q \in Procs}
    BY <1>5, <2>3, <2>4, LockMoves DEF Typing, Return
  <2>6. /\ DOMAIN dir' = Files
        /\ \A g \in Outs : dir'[g] \in Holdings
        /\ dir'[BuildKey] \in {None, Torn} \cup Stamps
    BY <1>2, <1>5, <2>2, WritesTyped DEF Typing
  <2> QED BY <1>2, <2>3, <2>5, <2>6 DEF Typing, Typed
<1> QED BY <1>3, <1>4, <1>5 DEF WriteStamp

LEMMA RequireTyping ==
  ASSUME NEW p \in Procs, Typing, Require(p)
  PROVE  Typing'
<1>1. PICK pc \in {"load", "failed"} : Goto(p, pc)
  BY DEF Require
<1>2. pc \in Pcs /\ pc \notin Building /\ pc \notin Compiled
  BY DEF Pcs, Building, Compiled, Writing, AtSources, AtDigest, AtDeps
<1> QED BY <1>1, <1>2, GotoTyping DEF Require, Same

LEMMA LoadTyping ==
  ASSUME NEW p \in Procs, Typing, Load(p)
  PROVE  Typing'
<1>1. UNCHANGED <<src, dir, made, lock>>
  BY DEF Load, Same
<1>2. \A pc \in {"done", "failed"} : pc \in Pcs /\ pc \notin Building /\ pc \notin Compiled
  BY DEF Pcs, Building, Compiled, Writing, AtSources, AtDigest, AtDeps
<1>3. CASE dir["circuit.xbc"] \in {None, Torn}
  BY <1>1, <1>2, <1>3, GotoTyping DEF Load
<1>4. CASE dir["circuit.xbc"] \notin {None, Torn}
  <2>1. dir["circuit.xbc"] \in Contents
    BY <1>4, FileNames DEF Typing, Typed, Holdings
  <2>2. PICK v \in Versions : v = dir["circuit.xbc"].ver
    BY <2>1 DEF Contents
  <2> DEFINE r == [ps[p] EXCEPT !.pc = "done", !.used = v]
  <2>3. ps' = [ps EXCEPT ![p] = r]
    BY <1>4, <2>2 DEF Load
  <2>4. r \in Process /\ r.pc \notin Building
    BY <1>2, ZenonT(30) DEF Process, Memory, Typing, Typed
  <2> HIDE DEF r
  <2> QED BY <1>1, <2>3, <2>4, MoveTyping
<1> QED BY <1>3, <1>4

LEMMA IdlePc == Idle.pc = "idle" /\ Idle.pc \notin Building
  BY DEF Idle, Building, Compiled, Writing, AtSources, AtDigest, AtDeps

LEMMA ExitTyping ==
  ASSUME NEW p \in Procs, Typing, Exit(p)
  PROVE  Typing'
<1>1. UNCHANGED <<src, dir, made, lock>> /\ ps' = [ps EXCEPT ![p] = Idle]
  BY DEF Exit, Same
<1> QED BY <1>1, IdleTyped, IdlePc, MoveTyping

LEMMA CrashTyping ==
  ASSUME NEW p \in Procs, Typing, Crash(p)
  PROVE  Typing'
<1>1. UNCHANGED <<src, dir, made>> /\ ps' = [ps EXCEPT ![p] = Idle] /\ lock' = lock \ {p}
  BY DEF Crash, Same
<1>2. ps' \in [Procs -> Process] /\ ps'[p] = Idle /\ Others(p)
  BY <1>1, IdleTyped, SetTyped DEF Typing
<1>3. Locked' /\ lock' \in {{}} \cup {{q} : q \in Procs}
  BY <1>1, <1>2, IdlePc, LockMoves DEF Typing
<1> QED BY <1>1, <1>2, <1>3 DEF Typing, Typed

(* What an edit does to each process.                                      *)
LEMMA EditMoves ==
  ASSUME NEW v \in Versions, Typing, Edit(v), NEW p \in Procs
  PROVE  /\ ps'[p] = IF ps[p].pc = "idle" THEN ps[p] ELSE [ps[p] EXCEPT !.fresh = @ \cup {v}]
         /\ ps'[p] \in Process
         /\ ps'[p].pc = ps[p].pc
<1>1. ps'[p] = IF ps[p].pc = "idle" THEN ps[p] ELSE [ps[p] EXCEPT !.fresh = ps[p].fresh \cup {v}]
  BY DEF Edit, At
<1>2. ps[p] \in Process
  BY DEF Typing, Typed
<1>3. [ps[p] EXCEPT !.fresh = ps[p].fresh \cup {v}] \in Process
  BY <1>2 DEF Process, Memory
<1>4. [ps[p] EXCEPT !.fresh = ps[p].fresh \cup {v}].pc = ps[p].pc
  BY <1>2 DEF Process, Memory
<1> QED BY <1>1, <1>2, <1>3, <1>4

LEMMA EditTyping ==
  ASSUME NEW v \in Versions, Typing, Edit(v)
  PROVE  Typing'
<1>1. ps' \in [Procs -> Process]
  <2>1. DOMAIN ps' = Procs /\ ps' = [p \in DOMAIN ps' |-> ps'[p]]
    BY DEF Edit
  <2> QED BY <2>1, EditMoves
<1>2. Locked'
  BY EditMoves DEF Typing, Locked, Edit
<1>3. /\ src' \in [ver : Versions, at : 0..MaxEdits, own : 0..MaxEdits]
      /\ src'.at = src.at + 1 /\ src'.own <= src'.at
  <2>1. PICK own \in {src.own, src.at + 1} : src' = [ver |-> v, at |-> src.at + 1, own |-> own]
    BY DEF Edit
  <2>2. src.at \in 0..MaxEdits /\ src.own \in 0..MaxEdits /\ src.own <= src.at /\ src.at < MaxEdits
    BY DEF Edit, Typing, Typed
  <2> QED BY <2>1, <2>2, BuildAssumption
<1>4. UNCHANGED <<dir, made, lock>>
  BY DEF Edit
<1>5. made' <= src'.at
  BY <1>3, <1>4 DEF Typing, Typed
<1> QED BY <1>1, <1>2, <1>3, <1>4, <1>5 DEF Typing, Typed

LEMMA InitTyping == Init => Typing
<1> SUFFICES ASSUME Init PROVE Typing
  OBVIOUS
<1>1. /\ src \in [ver : Versions, at : 0..MaxEdits, own : 0..MaxEdits]
      /\ src.at = 0 /\ src.own = 0 /\ made = 0
  BY BuildAssumption DEF Init
<1>2. DOMAIN dir = Files /\ \A f \in Files : dir[f] = None
  BY DEF Init
<1>3. ps \in [Procs -> Process] /\ \A p \in Procs : ps[p] = Idle
  BY IdleTyped DEF Init
<1>4. lock = {}
  BY DEF Init
<1>5. Locked
  BY <1>3, IdlePc DEF Locked
<1>6. \A f \in Outs : dir[f] \in Holdings
  BY <1>2, OutsAre DEF Holdings
<1>7. dir[BuildKey] = None
  BY <1>2, FileNames
<1>8. made \in 0..MaxEdits /\ made <= src.at /\ src.own <= src.at
  BY <1>1, BuildAssumption
<1> QED BY <1>1, <1>2, <1>3, <1>4, <1>5, <1>6, <1>7, <1>8 DEF Typing, Typed

LEMMA StutterTyping == Typing /\ UNCHANGED vars => Typing'
  BY DEF Typing, Typed, Locked, vars

(* The names of the outputs that the parameterized steps are used with.    *)
LEMMA StepPcs ==
  /\ {"views", "circuit", "sources", "digest", "schema", "deps", "stamp"} \subseteq Compiled
  /\ {"views", "circuit.xbc", "sources.json", "digest", "schema.json", "deps"} \subseteq Outs
  BY FileNames DEF Compiled, Writing, AtSources, AtDigest, AtDeps

LEMMA NextTyping == Typing /\ [Next]_vars => Typing'
<1> SUFFICES ASSUME Typing, [Next]_vars PROVE Typing'
  OBVIOUS
<1>1. ASSUME NEW p \in Procs, Start(p) PROVE Typing'
  BY <1>1, StartTyping
<1>2. ASSUME NEW p \in Procs, Step(p) PROVE Typing'
  <2>1. CASE Views(p) \/ Circuit(p) \/ Sources(p)
    BY <2>1, StepPcs, WriteOrFailTyping DEF Views, Circuit, Sources
  <2>2. CASE Digest(p) \/ Schema(p) \/ Deps(p)
    BY <2>2, StepPcs, WriteFileTyping DEF Digest, Schema, Deps
  <2> QED BY <1>2, <2>1, <2>2, CheckTyping, LockTyping, CargoTyping, CargoFailedTyping,
             TakeKeyTyping, ReuseTyping, ClearTyping, WriteStampTyping,
             RequireTyping, LoadTyping, ExitTyping DEF Step, BuildStep
<1>3. ASSUME NEW p \in Procs, Crash(p) PROVE Typing'
  BY <1>3, CrashTyping
<1>4. ASSUME NEW v \in Versions, Edit(v) PROVE Typing'
  BY <1>4, EditTyping
<1> QED BY <1>1, <1>2, <1>3, <1>4, StutterTyping DEF Next

LEMMA TypingGivesTypeOK == Typing => TypeOK
<1> SUFFICES ASSUME Typing PROVE TypeOK
  OBVIOUS
<1>1. lock \subseteq Procs /\ Cardinality(lock) <= 1
  <2>1. CASE lock = {}
    BY <2>1, FS_EmptySet
  <2>2. ASSUME NEW p \in Procs, lock = {p} PROVE lock \subseteq Procs /\ Cardinality(lock) <= 1
    BY <2>2, FS_Singleton
  <2> QED BY <2>1, <2>2 DEF Typing, Typed
<1>2. \A p \in Procs : ps[p].used \in Versions \cup {"none"}
  BY DEF Typing, Typed, Process, Memory
<1> QED BY <1>1, <1>2 DEF Typing, Typed, TypeOK

(* Builds and commands keep the types of the directory and of their own    *)
(* memory, and at most one process holds .build-lock (build_crate_with).   *)
THEOREM TypeCorrect == Spec => []TypeOK
<1> QED BY InitTyping, NextTyping, TypingGivesTypeOK, PTL DEF Spec

-----------------------------------------------------------------------------
(* What an output written under a stamp's key is.                          *)
KeyContent(k) == [ver |-> k.wasm, field |-> k.field, views |-> k.views]

(* What a build knows of the directory it works in.                        *)
Removed(p) == \E k \in 0..7 : /\ ps[p].left = Rest(k)
                             /\ \A i \in 1..k : dir[Clearing[i]] = None
Working(p) ==
  /\ ps[p].pc \in {"reuse", "clear"} \cup Writing =>
       ps[p].key = None \/ KeyContent(ps[p].key) = Content(p)
  /\ ps[p].pc \in {"clear", "clear-failed"} => Removed(p)
  /\ ps[p].pc \in Writing \ AtDeps => dir["deps"] = None
  /\ ps[p].pc \in Writing => \A f \in Outs : dir[f] \in {None, Torn, Content(p)}
  /\ ps[p].pc \in AtSources => dir["circuit.xbc"] = Content(p)
  /\ ps[p].pc \in AtDigest => dir["sources.json"] = Content(p)

OneBuild == \A f, g \in Outs : dir[f] \in Contents /\ dir[g] \in Contents => dir[f] = dir[g]
Whole ==
  dir["deps"] # None /\ dir["circuit.xbc"] # None =>
    dir["circuit.xbc"] # Torn /\ dir["sources.json"] = dir["circuit.xbc"]
Stamped ==
  dir[BuildKey] \in Stamps => dir[BuildKey].files["circuit.xbc"] = KeyContent(dir[BuildKey].key)

Directory == OneBuild /\ Whole /\ Stamped
Placing == Typing /\ (\A p \in Procs : Working(p)) /\ Directory

(* Only the holder of the lock is at work.                                 *)
LEMMA OthersWork ==
  ASSUME NEW p \in Procs, Placing, Others(p), dir' = dir \/ ps[p].pc \in Building,
         NEW q \in Procs, q # p
  PROVE  Working(q)'
<1>1. PICK r : r = ps[q] /\ r = ps'[q]
  BY DEF Others
<1>2. Content(q)' = Content(q)
  BY <1>1 DEF Content
<1>3. CASE dir' = dir
  BY <1>1, <1>2, <1>3 DEF Placing, Working, Removed
<1>4. CASE ps[p].pc \in Building
  <2>1. ps'[q].pc \notin Building
    <3>1. ps[q].pc \notin Building
      BY <1>4 DEF Placing, Typing, Locked
    <3> QED BY <3>1, <1>1
  <2>2. /\ ps'[q].pc \notin {"reuse", "clear"} \cup Writing
        /\ ps'[q].pc \notin {"clear", "clear-failed"}
        /\ ps'[q].pc \notin Writing
        /\ ps'[q].pc \notin AtSources
        /\ ps'[q].pc \notin AtDigest
    BY <2>1 DEF Building, Compiled, Writing, AtSources, AtDigest, AtDeps
  <2> QED BY <2>2 DEF Working
<1> QED BY <1>3, <1>4

LEMMA Unplaced ==
  ASSUME NEW p \in Procs, ps'[p].pc \notin {"clear-failed", "reuse", "clear"} \cup Writing
  PROVE  Working(p)'
<1>1. /\ ps'[p].pc \notin {"reuse", "clear"} \cup Writing
      /\ ps'[p].pc \notin {"clear", "clear-failed"}
      /\ ps'[p].pc \notin Writing
      /\ ps'[p].pc \notin AtSources
      /\ ps'[p].pc \notin AtDigest
  BY DEF Writing, AtSources, AtDigest, AtDeps
<1> QED BY <1>1 DEF Working

LEMMA SameDirectory ==
  ASSUME Directory, dir' = dir
  PROVE  Directory'
  BY DEF Directory, OneBuild, Whole, Stamped

(* A file of an output is removed, the circuit first.                      *)
LEMMA RemovePlacing ==
  ASSUME NEW p \in Procs, Placing, ps[p].pc \in {"clear", "clear-failed"}, ps[p].left # <<>>,
         dir' = [dir EXCEPT ![Head(ps[p].left)] = None],
         ps' = [ps EXCEPT ![p].left = Tail(@)]
  PROVE  Working(p)' /\ Directory' /\ Others(p)
<1>1. PICK k \in 0..7 : ps[p].left = Rest(k) /\ \A i \in 1..k : dir[Clearing[i]] = None
  BY DEF Placing, Working, Removed
<1>2. k \in 0..6 /\ k + 1 \in 1..7 /\ k + 1 \in 0..7
  <2>1. Rest(7) = <<>>
    BY RestIs
  <2>2. k # 7
    BY <1>1, <2>1
  <2> QED BY <2>2
<1>3. Head(ps[p].left) = Clearing[k + 1] /\ Tail(ps[p].left) = Rest(k + 1)
  BY <1>1, <1>2, RestIs
<1>4. PICK f \in Files : f = Clearing[k + 1]
  BY <1>2, ClearingIs
<1>5. dir' = [dir EXCEPT ![f] = None] /\ DOMAIN dir = Files /\ ps \in [Procs -> Process]
  BY <1>3, <1>4 DEF Placing, Typing, Typed
<1>6. \A g \in Files : dir'[g] = IF g = f THEN None ELSE dir[g]
  BY <1>5
<1>7. \A i \in 1..(k + 1) : dir'[Clearing[i]] = None
  <2> TAKE i \in 1..(k + 1)
  <2>1. CASE i = k + 1
    BY <2>1, <1>4, <1>6
  <2>2. CASE i # k + 1
    <3>1. i \in 1..k /\ i \in 1..7
      BY <2>2, <1>2
    <3> QED BY <3>1, <1>1, <1>6, ClearingIs
  <2> QED BY <2>1, <2>2
<1>8. /\ ps'[p] = [ps[p] EXCEPT !.left = Tail(ps[p].left)]
      /\ Others(p)
  BY <1>5 DEF Others
<1>9. /\ ps'[p].pc = ps[p].pc /\ ps'[p].left = Rest(k + 1) /\ ps'[p].key = ps[p].key
      /\ Content(p)' = Content(p)
  BY <1>3, <1>5, <1>8 DEF Process, Memory, Content
<1>10. Removed(p)'
  BY <1>2, <1>7, <1>9 DEF Removed
<1>11. Working(p)'
  <2>1. ps'[p].pc \in {"clear", "clear-failed"}
    BY <1>9
  <2>2. ps'[p].pc \notin Writing /\ ps'[p].pc \notin AtSources /\ ps'[p].pc \notin AtDigest
    BY <2>1 DEF Writing, AtSources, AtDigest, AtDeps
  <2>3. ps[p].pc = "clear" => ps[p].key = None \/ KeyContent(ps[p].key) = Content(p)
    BY DEF Placing, Working
  <2>4. ps'[p].pc = "clear" => ps'[p].key = None \/ KeyContent(ps'[p].key) = Content(p)'
    BY <2>3, <1>9
  <2> QED BY <1>10, <2>1, <2>2, <2>4 DEF Working
<1>12. OneBuild'
  BY <1>6, OutsAre, Kinds DEF Placing, Directory, OneBuild
<1>13. Whole'
  <2>1. dir'["circuit.xbc"] = None
    <3>1. 1 \in 1..(k + 1)
      BY <1>2
    <3> QED BY <3>1, <1>7, ClearingIs
  <2> QED BY <2>1 DEF Whole
<1>14. Stamped'
  BY <1>6, FileNames, Kinds DEF Placing, Directory, Stamped
<1> QED BY <1>8, <1>11, <1>12, <1>13, <1>14 DEF Directory

Placed(p) == Working(p)' /\ Directory' /\ Others(p)

(* p writes nothing, and is not in the middle of a build afterwards.       *)
LEMMA QuietPlacing ==
  ASSUME NEW p \in Procs, Placing, NEW r \in Process, ps' = [ps EXCEPT ![p] = r],
         r.pc \notin {"clear-failed", "reuse", "clear"} \cup Writing, dir' = dir
  PROVE  Placed(p)
<1>1. ps'[p] = r /\ Others(p)
  BY SetTyped DEF Placing, Typing
<1>2. Working(p)'
  BY <1>1, Unplaced
<1>3. Directory'
  BY SameDirectory DEF Placing
<1> QED BY <1>1, <1>2, <1>3 DEF Placed

LEMMA GotoPlacing ==
  ASSUME NEW p \in Procs, Placing, NEW pc \in Pcs, Goto(p, pc),
         pc \notin {"clear-failed", "reuse", "clear"} \cup Writing,
         pc \in Compiled => ps[p].pc \in Compiled, dir' = dir
  PROVE  Placed(p)
<1> DEFINE r == [ps[p] EXCEPT !.pc = pc]
<1>1. r \in Process /\ r.pc = pc
  BY MovedOn DEF Placing, Typing, Typed
<1>2. ps' = [ps EXCEPT ![p] = r]
  BY DEF Goto
<1> HIDE DEF r
<1> QED BY <1>1, <1>2, QuietPlacing

LEMMA ReturnPlacing ==
  ASSUME NEW p \in Procs, Placing, NEW ok \in BOOLEAN, Return(p, ok), dir' = dir
  PROVE  Placed(p)
<1>1. PICK pc \in {"done", "failed", "require"} : Goto(p, pc)
  BY DEF Return
<1>2. pc \in Pcs /\ pc \notin Compiled /\ pc \notin {"clear-failed", "reuse", "clear"} \cup Writing
  BY DEF Pcs, Building, Compiled, Writing, AtSources, AtDigest, AtDeps
<1> QED BY <1>1, <1>2, GotoPlacing

LEMMA StartPlacing ==
  ASSUME NEW p \in Procs, Placing, Start(p)
  PROVE  Placed(p)
<1>1. ps'[p].pc \in {"lock", "check"} /\ Others(p)
  BY DEF Start, Placing, Typing, Typed, Others, Idle
<1>2. ps'[p].pc \notin {"clear-failed", "reuse", "clear"} \cup Writing
  BY <1>1 DEF Writing, AtSources, AtDigest, AtDeps
<1>3. dir' = dir
  BY DEF Start
<1> QED BY <1>1, <1>2, <1>3, Unplaced, SameDirectory DEF Placed, Placing

LEMMA CheckPlacing ==
  ASSUME NEW p \in Procs, Placing, Check(p) \/ Require(p)
  PROVE  Placed(p)
<1>1. ps'[p].pc \in {"lock", "require", "load", "failed"} /\ Others(p) /\ dir' = dir
  BY DEF Check, Require, Goto, Placing, Typing, Typed, Process, Memory, Others
<1>2. ps'[p].pc \notin {"clear-failed", "reuse", "clear"} \cup Writing
  BY <1>1 DEF Writing, AtSources, AtDigest, AtDeps
<1> QED BY <1>1, <1>2, Unplaced, SameDirectory DEF Placed, Placing

LEMMA LockPlacing ==
  ASSUME NEW p \in Procs, Placing, Lock(p)
  PROVE  Placed(p)
<1>1. "cargo" \in Pcs /\ "cargo" \notin Compiled /\ "cargo" \notin {"clear-failed", "reuse", "clear"} \cup Writing
  BY DEF Pcs, Building, Compiled, Writing, AtSources, AtDigest, AtDeps
<1>2. CASE Goto(p, "cargo")
  BY <1>1, <1>2, GotoPlacing DEF Lock
<1>3. CASE Return(p, FALSE)
  BY <1>3, ReturnPlacing DEF Lock
<1> QED BY <1>2, <1>3 DEF Lock

LEMMA LeavePlacing ==
  ASSUME NEW p \in Procs, Placing, Exit(p) \/ Crash(p)
  PROVE  Placed(p)
<1>1. ps' = [ps EXCEPT ![p] = Idle] /\ dir' = dir
  BY DEF Exit, Crash
<1>2. Idle.pc \notin {"clear-failed", "reuse", "clear"} \cup Writing
  BY IdlePc DEF Writing, AtSources, AtDigest, AtDeps
<1> QED BY <1>1, <1>2, IdleTyped, QuietPlacing

LEMMA LoadPlacing ==
  ASSUME NEW p \in Procs, Placing, Load(p)
  PROVE  Placed(p)
<1>1. ps'[p].pc \in {"done", "failed"} /\ Others(p)
  BY DEF Load, Goto, Placing, Typing, Typed, Process, Memory, Others
<1>2. ps'[p].pc \notin {"clear-failed", "reuse", "clear"} \cup Writing
  BY <1>1 DEF Writing, AtSources, AtDigest, AtDeps
<1>3. dir' = dir
  BY DEF Load
<1> QED BY <1>1, <1>2, <1>3, Unplaced, SameDirectory DEF Placed, Placing

(* `clear` begins: every file is still to be removed.                      *)
LEMMA ClearingPlacing ==
  ASSUME NEW p \in Procs, Placing, dir' = dir, Others(p),
         ps'[p].left = Clearing, ps'[p].pc \in {"clear", "clear-failed"},
         ps'[p].pc = "clear" => ps'[p].key = None \/ KeyContent(ps'[p].key) = Content(p)'
  PROVE  Placed(p)
<1>1. Removed(p)'
  BY RestIs DEF Removed
<1>2. ps'[p].pc \notin Writing /\ ps'[p].pc \notin AtSources /\ ps'[p].pc \notin AtDigest
  BY DEF Writing, AtSources, AtDigest, AtDeps
<1>3. Working(p)'
  BY <1>1, <1>2 DEF Working
<1> QED BY <1>3, SameDirectory DEF Placed, Placing

LEMMA CargoPlacing ==
  ASSUME NEW p \in Procs, Placing, Cargo(p)
  PROVE  Placed(p)
<1>1. ps \in [Procs -> Process] /\ ps[p] \in Memory /\ dir' = dir
  BY DEF Placing, Typing, Typed, Process, Cargo
<1>2. CASE ps' = [ps EXCEPT ![p].pc = "clear-failed", ![p].left = Append(Outputs, BuildKey)]
  <2>1. ps'[p].left = Clearing /\ ps'[p].pc = "clear-failed" /\ Others(p)
    BY <1>1, <1>2, ClearingIs DEF Others, Memory
  <2> QED BY <1>1, <2>1, ClearingPlacing
<1>3. CASE ps' = [ps EXCEPT ![p].pc = "key", ![p].wasm = src.ver]
  <2>1. ps'[p].pc = "key" /\ Others(p)
    BY <1>1, <1>3 DEF Others, Memory
  <2>2. ps'[p].pc \notin {"clear-failed", "reuse", "clear"} \cup Writing
    BY <2>1 DEF Writing, AtSources, AtDigest, AtDeps
  <2> QED BY <1>1, <2>1, <2>2, Unplaced, SameDirectory DEF Placed, Placing
<1> QED BY <1>2, <1>3 DEF Cargo

LEMMA ClearFilePlacing ==
  ASSUME NEW p \in Procs, Placing, ps[p].pc \in {"clear", "clear-failed"}, ClearFile(p)
  PROVE  Placed(p)
<1>1. CASE Return(p, FALSE) /\ UNCHANGED dir
  BY <1>1, ReturnPlacing
<1>2. CASE /\ dir' = [dir EXCEPT ![Head(ps[p].left)] = None]
           /\ ps' = [ps EXCEPT ![p].left = Tail(@)]
  BY <1>2, RemovePlacing DEF ClearFile, Placed
<1> QED BY <1>1, <1>2 DEF ClearFile

LEMMA CargoFailedPlacing ==
  ASSUME NEW p \in Procs, Placing, CargoFailed(p)
  PROVE  Placed(p)
<1>1. ps[p].pc \in {"clear", "clear-failed"}
  BY DEF CargoFailed, At
<1>2. CASE Return(p, FALSE) /\ UNCHANGED dir
  BY <1>2, ReturnPlacing
<1> QED BY <1>1, <1>2, ClearFilePlacing DEF CargoFailed

LEMMA TakeKeyPlacing ==
  ASSUME NEW p \in Procs, Placing, TakeKey(p)
  PROVE  Placed(p)
<1>1. ps \in [Procs -> Process] /\ ps[p] \in Memory /\ dir' = dir
  BY DEF Placing, Typing, Typed, Process, TakeKey
<1>2. PICK k : k \in {Key(p), None} /\ ps' = [ps EXCEPT ![p].pc = "reuse", ![p].key = k]
  BY DEF TakeKey
<1>3. /\ ps'[p].pc = "reuse" /\ ps'[p].key = k /\ Others(p)
      /\ Content(p)' = Content(p)
  BY <1>1, <1>2 DEF Others, Memory, Content
<1>4. k = None \/ KeyContent(k) = Content(p)
  BY <1>2 DEF Key, KeyContent, Content
<1>5. /\ ps'[p].pc \notin {"clear", "clear-failed"} /\ ps'[p].pc \notin Writing
      /\ ps'[p].pc \notin AtSources /\ ps'[p].pc \notin AtDigest
  BY <1>3 DEF Writing, AtSources, AtDigest, AtDeps
<1>6. Working(p)'
  BY <1>3, <1>4, <1>5 DEF Working
<1> QED BY <1>1, <1>3, <1>6, SameDirectory DEF Placed, Placing

LEMMA ReusePlacing ==
  ASSUME NEW p \in Procs, Placing, Reuse(p)
  PROVE  Placed(p)
<1>1. ps \in [Procs -> Process] /\ ps[p] \in Memory /\ dir' = dir /\ ps[p].pc = "reuse"
  BY DEF Placing, Typing, Typed, Process, Reuse, At
<1>2. CASE Return(p, TRUE)
  BY <1>1, <1>2, ReturnPlacing
<1>3. CASE ps' = [ps EXCEPT ![p].pc = "clear", ![p].left = Append(Outputs, BuildKey)]
  <2>1. /\ ps'[p].left = Clearing /\ ps'[p].pc = "clear" /\ ps'[p].key = ps[p].key /\ Others(p)
        /\ Content(p)' = Content(p)
    BY <1>1, <1>3, ClearingIs DEF Others, Memory, Content
  <2>2. ps[p].key = None \/ KeyContent(ps[p].key) = Content(p)
    BY <1>1 DEF Placing, Working
  <2> QED BY <1>1, <2>1, <2>2, ClearingPlacing
<1> QED BY <1>2, <1>3 DEF Reuse

(* All the files are gone when `clear` is through.                         *)
LEMMA Cleared ==
  ASSUME NEW p \in Procs, Placing, ps[p].pc \in {"clear", "clear-failed"}, ps[p].left = <<>>
  PROVE  \A f \in Outs : dir[f] = None
<1>1. PICK k \in 0..7 : ps[p].left = Rest(k) /\ \A i \in 1..k : dir[Clearing[i]] = None
  BY DEF Placing, Working, Removed
<1>2. k = 7
  <2>1. \A j \in 0..6 : Rest(j) # <<>>
    BY RestIs
  <2>2. k \notin 0..6
    BY <1>1, <2>1
  <2> QED BY <2>2
<1>3. \A i \in 1..7 : dir[Clearing[i]] = None
  BY <1>1, <1>2
<1> QED BY <1>3, OutsAre DEF Clearing

LEMMA ClearPlacing ==
  ASSUME NEW p \in Procs, Placing, Clear(p)
  PROVE  Placed(p)
<1>1. ps \in [Procs -> Process] /\ ps[p] \in Memory /\ ps[p].pc = "clear"
  BY DEF Placing, Typing, Typed, Process, Clear, At
<1>2. CASE Return(p, FALSE) /\ UNCHANGED dir
  BY <1>2, ReturnPlacing
<1>3. CASE ps[p].left = <<>> /\ Goto(p, IF ps[p].views THEN "views" ELSE "circuit") /\ UNCHANGED dir
  <2>1. PICK pc \in {"views", "circuit"} : Goto(p, pc) /\ dir' = dir
    BY <1>3
  <2>2. /\ ps'[p].pc = pc /\ ps'[p].key = ps[p].key /\ Content(p)' = Content(p) /\ Others(p)
    BY <1>1, <2>1 DEF Goto, Memory, Content, Others
  <2>3. \A f \in Outs : dir'[f] = None
    BY <1>1, <1>3, <2>1, Cleared
  <2>4. ps[p].key = None \/ KeyContent(ps[p].key) = Content(p)
    BY <1>1 DEF Placing, Working
  <2>5. /\ ps'[p].pc \notin {"clear", "clear-failed"}
        /\ ps'[p].pc \notin AtSources /\ ps'[p].pc \notin AtDigest
    BY <2>2 DEF AtSources, AtDigest, AtDeps
  <2>6. Working(p)'
    BY <2>2, <2>3, <2>4, <2>5, FileNames DEF Working
  <2> QED BY <2>1, <2>2, <2>6, SameDirectory DEF Placed, Placing
<1> QED BY <1>1, <1>2, <1>3, ClearFilePlacing DEF Clear

(* An output is written in its turn: emptied, or filled.                   *)
LEMMA OutputPlacing ==
  ASSUME NEW p \in Procs, Placing, ps[p].pc \in Writing, Others(p),
         NEW f \in Outs, NEW c \in {Torn, Content(p)}, dir' = [dir EXCEPT ![f] = c],
         NEW next \in Writing, ps'[p].pc = next, ps'[p].key = ps[p].key, Content(p)' = Content(p),
         next \in AtSources => dir'["circuit.xbc"] = Content(p),
         next \in AtDigest => dir'["sources.json"] = Content(p),
         next \in AtDeps \/ (f # "deps" /\ ps[p].pc \notin AtDeps)
  PROVE  Placed(p)
<1>1. ps[p].pc \in Compiled
  BY DEF Compiled
<1>2. Content(p) \in Contents /\ Content(p) # None /\ Content(p) # Torn
  BY <1>1, ContentIs, Kinds DEF Placing
<1>3. DOMAIN dir = Files /\ Outs \subseteq Files
  BY OutsAre DEF Placing, Typing, Typed
<1>4. \A g \in Files : dir'[g] = IF g = f THEN c ELSE dir[g]
  BY <1>3
<1>5. \A g \in Outs : dir[g] \in {None, Torn, Content(p)}
  BY <1>1 DEF Placing, Working
<1>6. \A g \in Outs : dir'[g] \in {None, Torn, Content(p)}
  BY <1>3, <1>4, <1>5
<1>7. next \in AtDeps \/ dir'["deps"] = None
  <2>1. CASE f # "deps" /\ ps[p].pc \notin AtDeps
    <3>1. dir["deps"] = None
      BY <2>1 DEF Placing, Working
    <3> QED BY <2>1, <3>1, <1>3, <1>4, FileNames
  <2> QED BY <2>1
<1>8. ps[p].key = None \/ KeyContent(ps[p].key) = Content(p)
  BY <1>1 DEF Placing, Working
<1>9. Working(p)'
  <2>1. next \notin {"clear", "clear-failed"}
    BY DEF Writing, AtSources, AtDigest, AtDeps
  <2>2. ps'[p].pc \in Writing \ AtDeps => dir'["deps"] = None
    BY <1>7
  <2> QED BY <1>6, <1>8, <2>1, <2>2 DEF Working
<1>10. OneBuild'
  BY <1>6, Kinds DEF OneBuild
<1>11. Whole'
  <2>1. CASE dir'["deps"] = None
    BY <2>1 DEF Whole
  <2>2. CASE next \in AtDeps
    <3>1. next \in AtSources /\ next \in AtDigest
      BY <2>2 DEF AtSources, AtDigest
    <3> QED BY <1>2, <3>1 DEF Whole
  <2> QED BY <1>7, <2>1, <2>2
<1>12. Stamped'
  <2>1. dir'[BuildKey] = dir[BuildKey]
    BY <1>4, FileNames
  <2> QED BY <2>1 DEF Placing, Directory, Stamped
<1> QED BY <1>9, <1>10, <1>11, <1>12 DEF Placed, Directory

(* One step of writing f, in turn from pc on to next: what an earlier turn *)
(* wrote stays.                                                            *)
LEMMA FillPlacing ==
  ASSUME NEW p \in Procs, Placing, NEW pc \in Writing, ps[p].pc = pc, NEW f \in Outs,
         NEW next \in Writing, Fill(p, f, next),
         pc \in AtSources => f # "circuit.xbc",
         next \in AtSources => f = "circuit.xbc" \/ pc \in AtSources,
         pc \in AtDigest => f # "sources.json" /\ pc \in AtSources,
         next \in AtDigest => f = "sources.json" \/ pc \in AtDigest,
         pc \in AtDeps => next \in AtDeps,
         pc \notin AtDeps => f # "deps"
  PROVE  Placed(p)
<1>1. ps \in [Procs -> Process] /\ ps[p] \in Memory /\ DOMAIN dir = Files /\ f \in Files
  BY OutsAre DEF Placing, Typing, Typed, Process
<1>2. /\ pc \in AtSources => dir["circuit.xbc"] = Content(p)
      /\ pc \in AtDigest => dir["sources.json"] = Content(p)
  BY DEF Placing, Working
<1>3. CASE dir' = [dir EXCEPT ![f] = Torn] /\ UNCHANGED ps
  <2>1. ps'[p].pc = pc /\ ps'[p].key = ps[p].key /\ Content(p)' = Content(p) /\ Others(p)
    BY <1>3 DEF Content, Others
  <2>2. /\ pc \in AtSources => dir'["circuit.xbc"] = Content(p)
        /\ pc \in AtDigest => dir'["sources.json"] = Content(p)
    BY <1>1, <1>2, <1>3, FileNames
  <2> QED BY <1>3, <2>1, <2>2, OutputPlacing
<1>4. CASE dir' = [dir EXCEPT ![f] = Content(p)] /\ Goto(p, next)
  <2>1. ps'[p].pc = next /\ ps'[p].key = ps[p].key /\ Content(p)' = Content(p) /\ Others(p)
    BY <1>1, <1>4 DEF Goto, Memory, Content, Others
  <2>2. /\ next \in AtSources => dir'["circuit.xbc"] = Content(p)
        /\ next \in AtDigest => dir'["sources.json"] = Content(p)
    BY <1>1, <1>2, <1>4, FileNames
  <2> QED BY <1>4, <2>1, <2>2, OutputPlacing
<1> QED BY <1>3, <1>4 DEF Fill

LEMMA WriteOrFailPlacing ==
  ASSUME NEW p \in Procs, Placing, Views(p) \/ Circuit(p) \/ Sources(p)
  PROVE  Placed(p)
<1>1. /\ {"views", "circuit", "sources", "digest"} \subseteq Writing
      /\ "views" \notin AtSources /\ "circuit" \notin AtSources /\ "digest" \in AtSources
      /\ "views" \notin AtDigest /\ "circuit" \notin AtDigest /\ "sources" \notin AtDigest
      /\ "views" \notin AtDeps /\ "circuit" \notin AtDeps /\ "sources" \notin AtDeps
      /\ "sources" \in AtSources
  BY DEF Writing, AtSources, AtDigest, AtDeps
<1>2. CASE Return(p, FALSE) /\ UNCHANGED <<dir, made>>
  BY <1>2, ReturnPlacing
<1>3. CASE ps[p].pc = "views" /\ Fill(p, "views", "circuit")
  BY <1>1, <1>3, FileNames, FillPlacing
<1>4. CASE ps[p].pc = "circuit" /\ Fill(p, "circuit.xbc", "sources")
  BY <1>1, <1>4, FileNames, FillPlacing
<1>5. CASE ps[p].pc = "sources" /\ Fill(p, "sources.json", "digest")
  BY <1>1, <1>5, FileNames, FillPlacing
<1> QED BY <1>2, <1>3, <1>4, <1>5 DEF Views, Circuit, Sources, WriteOrFail, At

(* digest, schema.json and deps: written or not, the build goes on.        *)
LEMMA WritePlacing ==
  ASSUME NEW p \in Procs, Placing, NEW f \in Outs, f \notin {"circuit.xbc", "sources.json"},
         NEW pc \in AtDigest, NEW next \in AtDigest,
         pc \in AtDeps => next \in AtDeps, pc \notin AtDeps => f # "deps",
         Write(p, f, pc, next)
  PROVE  Placed(p)
<1>1. ps \in [Procs -> Process] /\ ps[p] \in Memory /\ ps[p].pc = pc
  BY DEF Placing, Typing, Typed, Process, Write, At
<1>2. /\ next \in Writing /\ next \in AtSources
      /\ pc \in Writing /\ pc \in AtSources
  BY DEF Writing, AtSources
<1>3. CASE Fill(p, f, next)
  BY <1>1, <1>2, <1>3, FillPlacing
<1>4. CASE ps' = [ps EXCEPT ![p].pc = next, ![p].wrote = FALSE] /\ UNCHANGED dir
  <2>1. ps'[p].pc = next /\ ps'[p].key = ps[p].key /\ Content(p)' = Content(p) /\ Others(p)
    BY <1>1, <1>4 DEF Memory, Content, Others
  <2>2. \A g \in Outs : dir'[g] \in {None, Torn, Content(p)}
    BY <1>1, <1>2, <1>4 DEF Placing, Working
  <2>3. /\ next \notin AtDeps => dir'["deps"] = None
        /\ dir'["circuit.xbc"] = Content(p) /\ dir'["sources.json"] = Content(p)
    BY <1>1, <1>2, <1>4 DEF Placing, Working
  <2>4. ps[p].key = None \/ KeyContent(ps[p].key) = Content(p)
    BY <1>1, <1>2 DEF Placing, Working
  <2>5. next \notin {"clear", "clear-failed"}
    BY DEF AtDigest, AtDeps
  <2>6. Working(p)'
    BY <2>1, <2>2, <2>3, <2>4, <2>5 DEF Working
  <2> QED BY <1>4, <2>1, <2>6, SameDirectory DEF Placed, Placing
<1> QED BY <1>3, <1>4 DEF Write

LEMMA NamedWritePlacing ==
  ASSUME NEW p \in Procs, Placing, Digest(p) \/ Schema(p) \/ Deps(p)
  PROVE  Placed(p)
<1>1. /\ {"digest", "schema", "deps", "stamp"} \subseteq AtDigest
      /\ "digest" \notin AtDeps /\ "schema" \notin AtDeps
      /\ "deps" \in AtDeps /\ "stamp" \in AtDeps
  BY DEF AtDigest, AtDeps
<1>2. CASE Digest(p)
  BY <1>1, <1>2, FileNames, WritePlacing DEF Digest
<1>3. CASE Schema(p)
  BY <1>1, <1>3, FileNames, WritePlacing DEF Schema
<1>4. CASE Deps(p)
  BY <1>1, <1>4, FileNames, WritePlacing DEF Deps
<1> QED BY <1>2, <1>3, <1>4

LEMMA WriteStampPlacing ==
  ASSUME NEW p \in Procs, Placing, WriteStamp(p)
  PROVE  Placed(p)
<1>1. ps \in [Procs -> Process] /\ ps[p] \in Memory /\ DOMAIN dir = Files /\ ps[p].pc = "stamp"
  BY DEF Placing, Typing, Typed, Process, WriteStamp, At
<1>2. "stamp" \in AtSources /\ "stamp" \in AtDigest /\ "stamp" \in AtDeps /\ "stamp" \in Writing
  BY DEF Writing, AtSources, AtDigest, AtDeps
<1>3. CASE Return(p, TRUE) /\ UNCHANGED dir
  BY <1>3, ReturnPlacing
<1>4. ASSUME NEW c, dir' = [dir EXCEPT ![BuildKey] = c] 
      PROVE  /\ \A g \in Outs : dir'[g] = dir[g]
             /\ dir'[BuildKey] = c
             /\ OneBuild' /\ Whole'
  <2>1. \A g \in Outs : dir'[g] = dir[g]
    BY <1>1, <1>4, OutsAre, FileNames
  <2>2. OneBuild' /\ Whole'
    BY <2>1, FileNames DEF Placing, Directory, OneBuild, Whole
  <2> QED BY <1>1, <1>4, <2>1, <2>2, FileNames
<1>5. CASE dir' = [dir EXCEPT ![BuildKey] = Torn] /\ UNCHANGED ps
  <2>1. \A g \in Outs : dir'[g] = dir[g]
    BY <1>4, <1>5
  <2>2. OneBuild' /\ Whole' /\ dir'[BuildKey] = Torn
    BY <1>4, <1>5
  <2>3. Stamped'
    BY <2>2, Kinds DEF Stamped
  <2>4. Working(p)'
    <3>1. Working(p) /\ ps'[p] = ps[p] /\ Content(p)' = Content(p)
      BY <1>5 DEF Placing, Content
    <3>2. "stamp" \notin {"clear", "clear-failed"}
      OBVIOUS
    <3> QED BY <1>1, <1>2, <2>1, <3>1, <3>2, FileNames DEF Working
  <2> QED BY <1>5, <2>2, <2>3, <2>4 DEF Placed, Directory, Others
<1>6. CASE ps[p].key # None /\ dir' = [dir EXCEPT ![BuildKey] = Stamp(ps[p].key)] /\ Return(p, TRUE)
  <2>1. ps'[p].pc \in {"done", "failed", "require"} /\ Others(p)
    BY <1>1, <1>6 DEF Return, Goto, Others, Memory
  <2>2. ps'[p].pc \notin {"clear-failed", "reuse", "clear"} \cup Writing
    BY <2>1 DEF Writing, AtSources, AtDigest, AtDeps
  <2>3. OneBuild' /\ Whole' /\ dir'[BuildKey] = Stamp(ps[p].key)
    BY <1>4, <1>6
  <2>4. Stamped'
    <3>1. dir'[BuildKey].key = ps[p].key
      BY <2>3 DEF Stamp
    <3>2. dir'[BuildKey].files["circuit.xbc"] = dir["circuit.xbc"]
      BY <2>3, FileNames DEF Stamp, Outs
    <3>3. dir["circuit.xbc"] = Content(p) /\ KeyContent(ps[p].key) = Content(p)
      BY <1>1, <1>2, <1>6 DEF Placing, Working
    <3> QED BY <3>1, <3>2, <3>3 DEF Stamped, KeyContent
  <2> QED BY <2>1, <2>2, <2>3, <2>4, Unplaced DEF Placed, Directory
<1> QED BY <1>3, <1>5, <1>6 DEF WriteStamp

LEMMA EditPlacing ==
  ASSUME NEW v \in Versions, Placing, Edit(v)
  PROVE  (\A p \in Procs : Working(p)') /\ Directory'
<1>1. dir' = dir
  BY DEF Edit
<1>2. ASSUME NEW p \in Procs PROVE Working(p)'
  <2>1. ps[p] \in Memory
    BY DEF Placing, Typing, Typed, Process
  <2>2. /\ ps'[p].pc = ps[p].pc /\ ps'[p].key = ps[p].key /\ ps'[p].left = ps[p].left
        /\ Content(p)' = Content(p)
    BY <2>1, EditMoves DEF Placing, Memory, Content
  <2> QED BY <1>1, <2>2 DEF Placing, Working, Removed
<1> QED BY <1>1, <1>2, SameDirectory DEF Placing

LEMMA InitPlacing == Init => Placing
<1> SUFFICES ASSUME Init PROVE Placing
  OBVIOUS
<1>1. Typing
  BY InitTyping
<1>2. ASSUME NEW p \in Procs PROVE Working(p)
  <2>1. ps[p].pc = "idle"
    BY IdlePc DEF Init
  <2> QED BY <2>1 DEF Working, Writing, AtSources, AtDigest, AtDeps
<1>3. \A f \in Files : dir[f] = None
  BY DEF Init
<1>4. Directory
  BY <1>3, OutsAre, FileNames, Kinds DEF Directory, OneBuild, Whole, Stamped
<1> QED BY <1>1, <1>2, <1>4 DEF Placing

LEMMA NextPlacing == Placing /\ [Next]_vars => Placing'
<1> SUFFICES ASSUME Placing, [Next]_vars PROVE Placing'
  OBVIOUS
<1>1. Typing'
  BY NextTyping DEF Placing
<1>2. ASSUME NEW p \in Procs, Placed(p), dir' = dir \/ ps[p].pc \in Building PROVE Placing'
  <2>1. \A q \in Procs : Working(q)'
    BY <1>2, OthersWork DEF Placed
  <2> QED BY <1>1, <1>2, <2>1 DEF Placing, Placed
<1>3. ASSUME NEW p \in Procs, Start(p) \/ Crash(p) PROVE Placing'
  <2>1. dir' = dir
    BY <1>3 DEF Start, Crash
  <2> QED BY <1>2, <1>3, <2>1, StartPlacing, LeavePlacing
<1>4. ASSUME NEW p \in Procs, Check(p) \/ Lock(p) \/ Require(p) \/ Load(p) \/ Exit(p) PROVE Placing'
  <2>1. dir' = dir
    BY <1>4 DEF Check, Lock, Require, Load, Exit
  <2> QED BY <1>2, <1>4, <2>1, CheckPlacing, LockPlacing, LoadPlacing, LeavePlacing
<1>5. ASSUME NEW p \in Procs, BuildStep(p), ~ Lock(p) PROVE Placing'
  <2>1. ps[p].pc \in Building
    BY <1>5 DEF BuildStep, Cargo, CargoFailed, TakeKey, Reuse, Clear, Views, Circuit, Sources, Digest,
                Schema, Deps, WriteStamp, WriteOrFail, Write, At, Building, Compiled, Writing, AtSources, AtDigest, AtDeps
  <2> QED BY <1>2, <1>5, <2>1, CargoPlacing, CargoFailedPlacing, TakeKeyPlacing, ReusePlacing,
             ClearPlacing, WriteOrFailPlacing, NamedWritePlacing, WriteStampPlacing DEF BuildStep
<1>6. ASSUME NEW v \in Versions, Edit(v) PROVE Placing'
  BY <1>1, <1>6, EditPlacing DEF Placing
<1>7. CASE UNCHANGED vars
  <2>1. \A p \in Procs : Working(p)'
    BY <1>7 DEF vars, Placing, Working, Removed, Content
  <2> QED BY <1>1, <1>7, <2>1, SameDirectory DEF vars, Placing
<1> QED BY <1>3, <1>4, <1>5, <1>6, <1>7 DEF Next, Step

LEMMA PlacingConsistent == Placing => DirectoryConsistent
<1> SUFFICES ASSUME Placing PROVE DirectoryConsistent
  OBVIOUS
<1>1. TypeOK
  BY TypingGivesTypeOK DEF Placing
<1>2. OneBuildsOutputs
  <2>1. \A c \in Written : c \in Contents /\ \E f \in Outs : c = dir[f]
    BY DEF Written, Outs, Placing, Typing, Typed, Holdings
  <2>2. \A c, d \in Written : c = d
    BY <2>1 DEF Placing, Directory, OneBuild
  <2>3. CASE Written = {}
    BY <2>3, FS_EmptySet DEF OneBuildsOutputs
  <2>4. CASE Written # {}
    <3>1. PICK c : Written = {c}
      BY <2>2, <2>4
    <3> QED BY <3>1, FS_Singleton DEF OneBuildsOutputs
  <2> QED BY <2>3, <2>4
<1>3. CurrentIsWhole
  BY DEF CurrentIsWhole, Stale, Placing, Directory, Whole
<1> QED BY <1>1, <1>2, <1>3 DEF DirectoryConsistent

(* Whatever builds run, fail or are killed, the outputs in the directory   *)
(* are of one build, and whole when a command would take it for current:   *)
(* build_stable clears every file of the old build, the circuit first and  *)
(* the stamp last, and begins deps only after sources.json and circuit.xbc *)
(* are written.                                                            *)
THEOREM DirectoryCorrect == Spec => []DirectoryConsistent
<1> QED BY InitPlacing, NextPlacing, PlacingConsistent, PTL DEF Spec

Success == \A p \in Procs :
       ps[p].pc \in {"reuse", "stamp"} /\ ps'[p].pc \in {"done", "require"}
         => dir'["circuit.xbc"] = Content(p)
Failure == \A p \in Procs :
       ps'[p].pc = "failed" /\ ps[p].pc \notin {"failed", "require", "load"}
         => \/ dir'["circuit.xbc"] \in {None, Torn, Content(p)}
            \/ faults' # faults /\ (At(p, "lock") \/ AtCircuit(p))

(* Every step of a build keeps Placing and the other processes.            *)
LEMMA BuildPlaced ==
  ASSUME NEW p \in Procs, Placing, BuildStep(p)
  PROVE  Placed(p)
  BY LockPlacing, CargoPlacing, CargoFailedPlacing, TakeKeyPlacing, ReusePlacing,
     ClearPlacing, WriteOrFailPlacing, NamedWritePlacing, WriteStampPlacing DEF BuildStep

(* Only a step of p moves p, but for an edit, which moves nobody on.       *)
LEMMA WhoMoves ==
  ASSUME Placing, Next, NEW p \in Procs, ps'[p].pc # ps[p].pc
  PROVE  Start(p) \/ Step(p) \/ Crash(p)
<1>1. ASSUME NEW v \in Versions, Edit(v) PROVE FALSE
  BY <1>1, EditMoves DEF Placing
<1>2. ASSUME NEW q \in Procs, Start(q) \/ Step(q) \/ Crash(q), q # p PROVE FALSE
  <2>1. Placed(q)
    BY <1>2, StartPlacing, LeavePlacing, CheckPlacing, LoadPlacing, BuildPlaced DEF Step
  <2>2. ps'[p] = ps[p]
    BY <1>2, <2>1 DEF Placed, Others
  <2> QED BY <1>2, <2>2
<1> QED BY <1>1, <1>2 DEF Next

(* Outputs that may be reused are what this build would write.             *)
LEMMA ReusableHolds ==
  ASSUME NEW p \in Procs, Placing, ps[p].pc = "reuse", Reusable(p)
  PROVE  dir["circuit.xbc"] = Content(p)
<1>1. dir[BuildKey] = Stamp(ps[p].key) /\ ps[p].key # None
  BY DEF Reusable
<1>2. dir[BuildKey] \in Stamps
  <2>1. ps[p].key \in Keys
    BY <1>1 DEF Placing, Typing, Typed, Process, Memory
  <2> QED BY <1>1, <2>1, StampIs DEF Placing
<1>3. dir[BuildKey].files["circuit.xbc"] = KeyContent(dir[BuildKey].key)
  BY <1>2 DEF Placing, Directory, Stamped
<1>4. dir[BuildKey].key = ps[p].key /\ dir[BuildKey].files["circuit.xbc"] = dir["circuit.xbc"]
  BY <1>1, FileNames DEF Stamp, Outs
<1>5. KeyContent(ps[p].key) = Content(p)
  BY <1>1 DEF Placing, Working
<1> QED BY <1>3, <1>4, <1>5

LEMMA SuccessStep == Placing /\ [Next]_vars => [Success]_vars
<1> SUFFICES ASSUME Placing, Next, NEW p \in Procs,
                    ps[p].pc \in {"reuse", "stamp"}, ps'[p].pc \in {"done", "require"}
             PROVE  dir'["circuit.xbc"] = Content(p)
  BY DEF Success
<1>1. Start(p) \/ Step(p) \/ Crash(p)
  BY WhoMoves
<1>2. ps \in [Procs -> Process] /\ ps[p] \in Memory /\ DOMAIN dir = Files
  BY DEF Placing, Typing, Typed, Process
<1>3. Reuse(p) \/ WriteStamp(p)
  <2>1. ~ Start(p)
    BY DEF Start, At
  <2>2. ~ Crash(p)
    BY <1>2 DEF Crash, Idle
  <2>3. ~ Exit(p) /\ ~ Check(p) /\ ~ Lock(p) /\ ~ Require(p) /\ ~ Load(p)
    BY DEF Exit, Check, Lock, Require, Load, At
  <2>4. ~ Cargo(p) /\ ~ CargoFailed(p) /\ ~ TakeKey(p) /\ ~ Clear(p) /\ ~ Circuit(p)
    BY DEF Cargo, CargoFailed, TakeKey, Clear, Circuit, WriteOrFail, At
  <2>5. ~ Views(p) /\ ~ Sources(p) /\ ~ Digest(p) /\ ~ Schema(p) /\ ~ Deps(p)
    BY DEF Views, Sources, Digest, Schema, Deps, Write, WriteOrFail, At
  <2> QED BY <1>1, <2>1, <2>2, <2>3, <2>4, <2>5 DEF Step, BuildStep
<1>4. CASE Reuse(p)
  <2>1. ps[p].pc = "reuse"
    BY <1>4 DEF Reuse, At
  <2>2. Reusable(p)
    <3>1. ps' # [ps EXCEPT ![p].pc = "clear", ![p].left = Append(Outputs, BuildKey)]
      BY <1>2 DEF Memory
    <3> QED BY <1>4, <3>1 DEF Reuse
  <2>3. dir["circuit.xbc"] = Content(p)
    BY <2>1, <2>2, ReusableHolds
  <2>4. dir' = dir
    BY <1>4 DEF Reuse
  <2> QED BY <2>3, <2>4
<1>5. CASE WriteStamp(p)
  <2>1. ps[p].pc = "stamp"
    BY <1>5 DEF WriteStamp, At
  <2>2. "stamp" \in AtSources
    BY DEF AtSources, AtDigest, AtDeps
  <2>3. dir["circuit.xbc"] = Content(p)
    BY <2>1, <2>2 DEF Placing, Working
  <2>4. dir'["circuit.xbc"] = dir["circuit.xbc"]
    <3>1. dir' = dir \/ \E c : dir' = [dir EXCEPT ![BuildKey] = c]
      BY <1>5 DEF WriteStamp
    <3> QED BY <1>2, <3>1, FileNames
  <2> QED BY <2>3, <2>4
<1> QED BY <1>3, <1>4, <1>5

(* A fault is one that was not there before.                               *)
Counted == faults \in Nat

LEMMA FaultCounts == ASSUME Counted, Fault PROVE faults' # faults /\ Counted'
  BY DEF Counted, Fault

LEMMA InitCounted == Init => Counted
  BY DEF Init, Counted

LEMMA NextCounted == Counted /\ [Next]_vars => Counted'
<1> SUFFICES ASSUME Counted, [Next]_vars, ~ Fault, ~ UNCHANGED faults PROVE FALSE
  BY FaultCounts DEF Counted
<1>1. ASSUME NEW p \in Procs PROVE ~ ClearFile(p) /\ \A f, pc : ~ Fill(p, f, pc)
  BY DEF ClearFile, Fill, NoFault
<1>2. ASSUME NEW p \in Procs PROVE ~ Start(p) /\ ~ Crash(p)
  BY DEF Start, Crash
<1>3. ASSUME NEW p \in Procs PROVE ~ Step(p)
  <2>1. ~ Views(p) /\ ~ Circuit(p) /\ ~ Sources(p) /\ ~ Digest(p) /\ ~ Schema(p) /\ ~ Deps(p)
    BY <1>1 DEF Views, Circuit, Sources, Digest, Schema, Deps, WriteOrFail, Write
  <2>2. ~ CargoFailed(p) /\ ~ Clear(p)
    BY <1>1 DEF CargoFailed, Clear, NoFault
  <2>3. ~ Lock(p) /\ ~ Cargo(p) /\ ~ TakeKey(p) /\ ~ Reuse(p) /\ ~ WriteStamp(p)
    BY DEF Lock, Cargo, TakeKey, Reuse, WriteStamp, NoFault
  <2>4. ~ Check(p) /\ ~ Require(p) /\ ~ Load(p) /\ ~ Exit(p)
    BY DEF Check, Require, Load, Exit, NoFault
  <2> QED BY <2>1, <2>2, <2>3, <2>4 DEF Step, BuildStep
<1>4. ASSUME NEW v \in Versions PROVE ~ Edit(v)
  BY DEF Edit
<1>5. Next
  BY DEF vars
<1> QED BY <1>2, <1>3, <1>4, <1>5 DEF Next

LEMMA FailureStep == Placing /\ Counted /\ [Next]_vars => [Failure]_vars
<1> SUFFICES ASSUME Placing, Counted, Next, NEW p \in Procs,
                    ps'[p].pc = "failed", ps[p].pc \notin {"failed", "require", "load"}
             PROVE  \/ dir'["circuit.xbc"] \in {None, Torn, Content(p)}
                    \/ faults' # faults /\ (At(p, "lock") \/ AtCircuit(p))
  BY DEF Failure
<1>1. Start(p) \/ Step(p) \/ Crash(p)
  BY WhoMoves
<1>2. ps \in [Procs -> Process] /\ ps[p] \in Memory /\ DOMAIN dir = Files
  BY DEF Placing, Typing, Typed, Process
<1>3. /\ dir' = dir
      /\ \/ ps[p].pc \in Writing
         \/ ps[p].pc \in {"clear", "clear-failed"} /\ ps[p].left = <<>>
         \/ ps[p].pc \in {"lock", "clear", "clear-failed"} /\ Fault
  <2>1. ~ Start(p)
    BY <1>2 DEF Start, Idle
  <2>2. ~ Crash(p) /\ ~ Exit(p)
    BY <1>2 DEF Crash, Exit, Idle
  <2>3. ~ Check(p) /\ ~ Require(p) /\ ~ Load(p)
    BY <1>2 DEF Check, Require, Load, At, Goto, Memory
  <2>4. ~ Cargo(p) /\ ~ TakeKey(p)
    BY <1>2 DEF Cargo, TakeKey, At, Memory
  <2>5. ~ Reuse(p)
    BY <1>2 DEF Reuse, Return, Goto, Memory
  <2>6. ASSUME Lock(p) PROVE dir' = dir /\ ps[p].pc = "lock" /\ Fault
    <3>1. ~ Goto(p, "cargo")
      BY <1>2 DEF Goto, Memory
    <3> QED BY <2>6, <3>1 DEF Lock, At
  <2>7. ClearFile(p) => dir' = dir /\ Fault
    <3>1. ps' # [ps EXCEPT ![p].left = Tail(@)] \/ ps[p].pc \notin {"clear", "clear-failed"}
      BY <1>2 DEF Memory
    <3>2. ps' = [ps EXCEPT ![p].left = Tail(@)] => ps'[p].pc = ps[p].pc
      BY <1>2 DEF Memory
    <3> QED BY <3>2 DEF ClearFile
  <2>8. ASSUME CargoFailed(p) \/ Clear(p)
        PROVE  /\ dir' = dir /\ ps[p].pc \in {"clear", "clear-failed"}
               /\ ps[p].left = <<>> \/ Fault
    BY <2>7, <2>8 DEF CargoFailed, Clear, At
  <2>9. ASSUME NEW f, NEW next \in {"circuit", "sources", "digest", "schema", "deps", "stamp"},
               Fill(p, f, next)
        PROVE  FALSE
    BY <1>2, <2>9 DEF Fill, Goto, Memory
  <2>10. ASSUME Views(p) \/ Circuit(p) \/ Sources(p) PROVE dir' = dir /\ ps[p].pc \in Writing
    <3>1. ps[p].pc \in Writing
      BY <2>10 DEF Views, Circuit, Sources, WriteOrFail, At, Writing, AtSources
    <3> QED BY <2>9, <2>10, <3>1 DEF Views, Circuit, Sources, WriteOrFail
  <2>11. ~ Digest(p) /\ ~ Schema(p) /\ ~ Deps(p)
    BY <1>2, <2>9 DEF Digest, Schema, Deps, Write, Memory
  <2>12. ~ WriteStamp(p)
    BY <1>2 DEF WriteStamp, At, Return, Goto, Memory
  <2> QED BY <1>1, <2>1, <2>2, <2>3, <2>4, <2>5, <2>6, <2>8, <2>10, <2>11, <2>12 DEF Step, BuildStep
<1>4. CASE ps[p].pc \in Writing
  BY <1>3, <1>4, FileNames DEF Placing, Working
<1>5. CASE ps[p].pc \in {"clear", "clear-failed"} /\ ps[p].left = <<>>
  BY <1>3, <1>5, Cleared, FileNames
<1>6. CASE ps[p].pc = "lock" /\ Fault
  BY <1>6, FaultCounts DEF At
<1>7. CASE ps[p].pc \in {"clear", "clear-failed"} /\ Fault
  <2>1. PICK k \in 0..7 : ps[p].left = Rest(k) /\ \A i \in 1..k : dir[Clearing[i]] = None
    BY <1>7 DEF Placing, Working, Removed
  <2>2. CASE k = 0
    <3>1. Head(ps[p].left) = Clearing[0 + 1] /\ Clearing[1] = "circuit.xbc"
      BY <2>1, <2>2, RestIs, ClearingIs
    <3> QED BY <1>7, <3>1, FaultCounts DEF AtCircuit
  <2>3. CASE k # 0
    <3>1. 1 \in 1..k
      BY <2>3
    <3> QED BY <1>3, <2>1, <3>1, ClearingIs
  <2> QED BY <2>2, <2>3
<1> QED BY <1>3, <1>4, <1>5, <1>6, <1>7

(* A build that succeeds leaves the circuit it was asked for, whether it   *)
(* wrote it or reused it by its stamp (build_stable, reuse_build).         *)
THEOREM SuccessTold == Spec => SuccessLeavesThisBuild
<1>1. Spec => [][Success]_vars
  BY InitPlacing, NextPlacing, SuccessStep, PTL DEF Spec
<1> QED BY <1>1 DEF SuccessLeavesThisBuild, Success

(* One that fails leaves no circuit that it did not compile, whichever of  *)
(* its steps the system refuses, but for the lock and the removal of that  *)
(* circuit: it is the first file that is cleared (build_stable).           *)
THEOREM FailureTold == Spec => FailedLeavesNoOldCircuit
<1>1. Spec => [][Failure]_vars
  BY InitPlacing, NextPlacing, InitCounted, NextCounted, FailureStep, PTL DEF Spec
<1> QED BY <1>1 DEF FailedLeavesNoOldCircuit, Failure

-----------------------------------------------------------------------------
(* How old the circuit may be.                                             *)
circuit == dir["circuit.xbc"]

Honest(p) ==
  /\ ps[p].pc \in Compiled => ps[p].wasm = src.ver
  /\ ps[p].pc = "idle" => ps[p].cmd = "build"
  /\ ps[p].pc \in {"check", "require", "load"} => ps[p].cmd = "command"
  /\ ps[p].pc = "check" => ps[p].used = "none"
  /\ ps[p].cmd = "command" => src.ver \in ps[p].fresh
  /\ ps[p].pc \in {"require", "load"} /\ circuit \in Contents
       => circuit.ver \in ps[p].fresh \/ ps[p].unlisted
  /\ ps[p].used # "none" => ps[p].used \in ps[p].fresh \/ ps[p].unlisted

Timed == made = src.at /\ circuit \in Contents => circuit.ver = src.ver

Aging == Placing /\ (\A p \in Procs : Honest(p)) /\ Timed

(* What a step of a build does to its own process, and to the circuit.     *)
Carried(p) ==
  /\ ps'[p].cmd = ps[p].cmd /\ ps'[p].fresh = ps[p].fresh
  /\ ps'[p].unlisted = ps[p].unlisted /\ ps'[p].used = ps[p].used
  /\ ps'[p].pc \in Building \cup {"done", "failed", "require"}
  /\ ps'[p].pc = "require" => ps[p].cmd = "command" /\ ps[p].pc \in {"reuse", "stamp"}
  /\ ps'[p].pc \in Compiled =>
       ps'[p].wasm = src.ver \/ (ps[p].pc \in Compiled /\ ps'[p].wasm = ps[p].wasm)

Dated(p) ==
  /\ circuit' \in {circuit, None, Torn} \/ (ps[p].pc \in Compiled /\ circuit' = Content(p))
  /\ made' = made \/ (made' = src.at /\ (circuit' = Torn \/ (ps[p].pc \in Compiled /\ circuit' = Content(p))))

LEMMA GotoCarried ==
  ASSUME NEW p \in Procs, Placing, NEW pc \in Building, Goto(p, pc),
         pc \in Compiled => ps[p].pc \in Compiled
  PROVE  Carried(p)
<1>1. ps \in [Procs -> Process] /\ ps[p] \in Memory
  BY DEF Placing, Typing, Typed, Process
<1>2. pc # "require"
  BY DEF Building, Compiled, Writing, AtSources, AtDigest, AtDeps
<1>3. ps'[p].pc = pc /\ ps'[p].cmd = ps[p].cmd /\ ps'[p].fresh = ps[p].fresh /\ ps'[p].used = ps[p].used
      /\ ps'[p].unlisted = ps[p].unlisted /\ ps'[p].wasm = ps[p].wasm
  BY <1>1 DEF Goto, Memory
<1> QED BY <1>2, <1>3 DEF Carried

LEMMA ReturnCarried ==
  ASSUME NEW p \in Procs, Placing, NEW ok \in BOOLEAN, Return(p, ok), ok => ps[p].pc \in {"reuse", "stamp"}
  PROVE  Carried(p)
<1>1. ps \in [Procs -> Process] /\ ps[p] \in Memory
  BY DEF Placing, Typing, Typed, Process
<1>2. PICK pc : pc = (IF ~ ok THEN "failed" ELSE IF ps[p].cmd = "build" THEN "done" ELSE "require")
                /\ Goto(p, pc)
  BY DEF Return
<1>3. /\ ps'[p].pc = pc /\ ps'[p].cmd = ps[p].cmd /\ ps'[p].fresh = ps[p].fresh
      /\ ps'[p].unlisted = ps[p].unlisted /\ ps'[p].used = ps[p].used
  BY <1>1, <1>2 DEF Goto, Memory
<1>4. pc \in {"failed", "done", "require"} /\ (pc = "require" => ok /\ ps[p].cmd = "command")
  BY <1>1, <1>2 DEF Memory
<1>5. pc \notin Compiled
  BY <1>4 DEF Compiled, Writing, AtSources, AtDigest, AtDeps
<1> QED BY <1>3, <1>4, <1>5 DEF Carried

(* A file other than the circuit is written, or the circuit is removed.    *)
LEMMA OtherWritten ==
  ASSUME NEW p \in Procs, Placing, NEW f \in Files, NEW c, dir' = [dir EXCEPT ![f] = c],
         f = "circuit.xbc" => c = None, made' = made
  PROVE  Dated(p)
  BY FileNames DEF Placing, Typing, Typed, Dated, circuit

LEMMA UntouchedWritten == ASSUME NEW p \in Procs, dir' = dir, made' = made PROVE Dated(p)
  BY DEF Dated, circuit

LEMMA HeadIs ==
  ASSUME NEW p \in Procs, Placing, ps[p].left # <<>>
  PROVE  Head(ps[p].left) \in Files
<1>1. ps[p].left \in Seq(Files)
  BY DEF Placing, Typing, Typed, Process, Memory
<1> QED BY <1>1

LEMMA RemoveMoves ==
  ASSUME NEW p \in Procs, Placing, ps[p].pc \in {"clear", "clear-failed"}, ps[p].left # <<>>,
         dir' = [dir EXCEPT ![Head(ps[p].left)] = None],
         ps' = [ps EXCEPT ![p].left = Tail(@)], made' = made
  PROVE  Carried(p) /\ Dated(p)
<1>1. ps \in [Procs -> Process] /\ ps[p] \in Memory
  BY DEF Placing, Typing, Typed, Process
<1>2. /\ ps'[p].pc = ps[p].pc /\ ps'[p].cmd = ps[p].cmd /\ ps'[p].fresh = ps[p].fresh
      /\ ps'[p].unlisted = ps[p].unlisted /\ ps'[p].used = ps[p].used /\ ps'[p].wasm = ps[p].wasm
  BY <1>1 DEF Memory
<1>3. ps[p].pc \in Building /\ ps[p].pc # "require"
  BY DEF Building, Compiled
<1>4. PICK f \in Files : f = Head(ps[p].left)
  BY HeadIs
<1> QED BY <1>2, <1>3, <1>4, OtherWritten DEF Carried

LEMMA ClearFileMoves ==
  ASSUME NEW p \in Procs, Placing, ps[p].pc \in {"clear", "clear-failed"}, ClearFile(p), made' = made
  PROVE  Carried(p) /\ Dated(p)
<1>1. CASE Return(p, FALSE) /\ UNCHANGED dir
  BY <1>1, ReturnCarried, UntouchedWritten
<1>2. CASE /\ dir' = [dir EXCEPT ![Head(ps[p].left)] = None]
           /\ ps' = [ps EXCEPT ![p].left = Tail(@)]
  BY <1>2, RemoveMoves DEF ClearFile
<1> QED BY <1>1, <1>2 DEF ClearFile

LEMMA FillMoves ==
  ASSUME NEW p \in Procs, Placing, ps[p].pc \in Compiled, NEW f \in Outs, NEW next \in Building,
         Fill(p, f, next)
  PROVE  Carried(p) /\ Dated(p)
<1>1. f \in Files /\ DOMAIN dir = Files /\ ps[p].pc # "require" /\ ps[p].pc \in Building
  BY OutsAre DEF Placing, Typing, Typed, Building, Compiled, Writing, AtSources, AtDigest, AtDeps
<1>2. CASE dir' = [dir EXCEPT ![f] = Torn] /\ UNCHANGED ps
  <2>1. Carried(p)
    BY <1>1, <1>2 DEF Carried
  <2>2. Dated(p)
    BY <1>1, <1>2, FileNames DEF Fill, Dated, circuit
  <2> QED BY <2>1, <2>2
<1>3. CASE dir' = [dir EXCEPT ![f] = Content(p)] /\ Goto(p, next)
  <2>1. Carried(p)
    BY <1>3, GotoCarried
  <2>2. Dated(p)
    BY <1>1, <1>3, FileNames DEF Fill, Dated, circuit
  <2> QED BY <2>1, <2>2
<1> QED BY <1>2, <1>3 DEF Fill

LEMMA BuildMoves ==
  ASSUME NEW p \in Procs, Placing, BuildStep(p)
  PROVE  Carried(p) /\ Dated(p) /\ src' = src
<1>1. ps \in [Procs -> Process] /\ ps[p] \in Memory /\ DOMAIN dir = Files
  BY DEF Placing, Typing, Typed, Process
<1>2. src' = src
  BY DEF BuildStep, Lock, Cargo, CargoFailed, TakeKey, Reuse, Clear, Views, Circuit, Sources, Digest,
         Schema, Deps, WriteStamp, WriteOrFail, Write, Same
<1>3. CASE Lock(p)
  <2>1. "cargo" \in Building /\ "cargo" \notin Compiled
    BY DEF Building, Compiled, Writing, AtSources, AtDigest, AtDeps
  <2>2. Carried(p)
    BY <1>3, <2>1, GotoCarried, ReturnCarried DEF Lock
  <2> QED BY <1>2, <1>3, <2>2, UntouchedWritten DEF Lock
<1>4. CASE Cargo(p)
  <2>1. /\ ps'[p].pc \in {"clear-failed", "key"} /\ ps'[p].cmd = ps[p].cmd
        /\ ps'[p].fresh = ps[p].fresh /\ ps'[p].unlisted = ps[p].unlisted /\ ps'[p].used = ps[p].used
        /\ ps'[p].pc = "key" => ps'[p].wasm = src.ver
    BY <1>1, <1>4 DEF Cargo, Memory
  <2>2. {"clear-failed", "key"} \subseteq Building /\ "clear-failed" \notin Compiled
    BY DEF Building, Compiled, Writing, AtSources, AtDigest, AtDeps
  <2> QED BY <1>2, <1>4, <2>1, <2>2, UntouchedWritten DEF Cargo, Carried
<1>5. CASE CargoFailed(p)
  <2>1. ps[p].pc \in {"clear", "clear-failed"} /\ made' = made
    BY <1>5 DEF CargoFailed, At
  <2>2. CASE Return(p, FALSE) /\ UNCHANGED dir
    BY <1>2, <2>1, <2>2, ReturnCarried, UntouchedWritten
  <2> QED BY <1>2, <1>5, <2>1, <2>2, ClearFileMoves DEF CargoFailed
<1>6. CASE TakeKey(p)
  <2>1. PICK k : ps' = [ps EXCEPT ![p].pc = "reuse", ![p].key = k]
    BY <1>6 DEF TakeKey
  <2>2. /\ ps'[p].pc = "reuse" /\ ps'[p].cmd = ps[p].cmd /\ ps'[p].wasm = ps[p].wasm
        /\ ps'[p].fresh = ps[p].fresh /\ ps'[p].unlisted = ps[p].unlisted /\ ps'[p].used = ps[p].used
    BY <1>1, <2>1 DEF Memory
  <2>3. "reuse" \in Building /\ ps[p].pc \in Compiled
    BY <1>6 DEF TakeKey, At, Building, Compiled, Writing, AtSources, AtDigest, AtDeps
  <2> QED BY <1>2, <1>6, <2>2, <2>3, UntouchedWritten DEF TakeKey, Carried
<1>7. CASE Reuse(p)
  <2>1. ps[p].pc = "reuse" /\ ps[p].pc \in Compiled /\ dir' = dir
    BY <1>7 DEF Reuse, At, Compiled, Writing, AtSources, AtDigest, AtDeps
  <2>2. Dated(p)
    <3>1. CASE made' = made
      BY <2>1, <3>1, UntouchedWritten
    <3>2. CASE made' # made
      <4>1. Reusable(p) /\ made' = src.at
        BY <1>7, <3>2 DEF Reuse
      <4>2. dir["circuit.xbc"] = Content(p)
        BY <2>1, <4>1, ReusableHolds
      <4> QED BY <2>1, <4>1, <4>2 DEF Dated, circuit
    <3> QED BY <3>1, <3>2
  <2>3. CASE Return(p, TRUE)
    BY <1>2, <2>1, <2>2, <2>3, ReturnCarried
  <2>4. CASE ps' = [ps EXCEPT ![p].pc = "clear", ![p].left = Append(Outputs, BuildKey)]
    <3>1. /\ ps'[p].pc = "clear" /\ ps'[p].cmd = ps[p].cmd /\ ps'[p].wasm = ps[p].wasm
          /\ ps'[p].fresh = ps[p].fresh /\ ps'[p].unlisted = ps[p].unlisted /\ ps'[p].used = ps[p].used
      BY <1>1, <2>4 DEF Memory
    <3>2. "clear" \in Building
      BY DEF Building, Compiled
    <3> QED BY <1>2, <2>1, <2>2, <3>1, <3>2 DEF Carried
  <2> QED BY <1>7, <2>3, <2>4 DEF Reuse
<1>8. CASE Clear(p)
  <2>1. ps[p].pc = "clear" /\ ps[p].pc \in Compiled /\ made' = made
    BY <1>8 DEF Clear, At, Compiled
  <2>2. CASE ClearFile(p)
    BY <1>2, <2>1, <2>2, ClearFileMoves
  <2>3. CASE Return(p, FALSE) /\ UNCHANGED dir
    BY <1>2, <2>1, <2>3, ReturnCarried, UntouchedWritten
  <2>4. CASE Goto(p, IF ps[p].views THEN "views" ELSE "circuit") /\ UNCHANGED dir
    <3>1. PICK pc \in {"views", "circuit"} : Goto(p, pc)
      BY <2>4
    <3>2. pc \in Building
      BY DEF Building, Compiled, Writing
    <3> QED BY <1>2, <2>1, <2>4, <3>1, <3>2, GotoCarried, UntouchedWritten
  <2> QED BY <1>8, <2>2, <2>3, <2>4 DEF Clear
<1>9. CASE Views(p) \/ Circuit(p) \/ Sources(p)
  <2>1. PICK f \in {"views", "circuit.xbc", "sources.json"}, pc \in {"views", "circuit", "sources"},
            next \in {"circuit", "sources", "digest"} : WriteOrFail(p, f, pc, next)
    BY <1>9 DEF Views, Circuit, Sources
  <2>2. next \in Building /\ pc \in Compiled /\ f \in Outs
    BY FileNames DEF Building, Compiled, Writing, AtSources, AtDigest, AtDeps
  <2>3. ps[p].pc \in Compiled
    BY <2>1, <2>2 DEF WriteOrFail, At
  <2>4. CASE Return(p, FALSE) /\ UNCHANGED <<dir, made>>
    BY <1>2, <2>3, <2>4, ReturnCarried, UntouchedWritten
  <2> QED BY <1>2, <2>1, <2>2, <2>3, <2>4, FillMoves DEF WriteOrFail
<1>10. CASE Digest(p) \/ Schema(p) \/ Deps(p)
  <2>1. PICK f \in {"digest", "schema.json", "deps"}, pc \in {"digest", "schema", "deps"},
            next \in {"schema", "deps", "stamp"} : Write(p, f, pc, next)
    BY <1>10 DEF Digest, Schema, Deps
  <2>2. next \in Building /\ pc \in Compiled /\ f \in Outs /\ next # "require"
    BY FileNames DEF Building, Compiled, Writing, AtSources, AtDigest, AtDeps
  <2>3. ps[p].pc \in Compiled
    BY <2>1, <2>2 DEF Write, At
  <2>4. CASE ps' = [ps EXCEPT ![p].pc = next, ![p].wrote = FALSE] /\ UNCHANGED <<dir, made>>
    <3>1. /\ ps'[p].pc = next /\ ps'[p].cmd = ps[p].cmd /\ ps'[p].wasm = ps[p].wasm
          /\ ps'[p].fresh = ps[p].fresh /\ ps'[p].unlisted = ps[p].unlisted /\ ps'[p].used = ps[p].used
      BY <1>1, <2>4 DEF Memory
    <3> QED BY <1>2, <2>2, <2>3, <2>4, <3>1, UntouchedWritten DEF Carried
  <2> QED BY <1>2, <2>1, <2>2, <2>3, <2>4, FillMoves DEF Write
<1>11. CASE WriteStamp(p)
  <2>1. ps[p].pc = "stamp" /\ made' = made /\ "stamp" \in Compiled /\ "stamp" \in Building
    BY <1>11 DEF WriteStamp, At, Building, Compiled, Writing, AtSources, AtDigest, AtDeps
  <2>2. Carried(p)
    <3>1. CASE Return(p, TRUE)
      BY <2>1, <3>1, ReturnCarried
    <3>2. CASE UNCHANGED ps
      BY <2>1, <3>2 DEF Carried
    <3> QED BY <1>11, <3>1, <3>2 DEF WriteStamp
  <2>3. dir' = dir \/ \E c : dir' = [dir EXCEPT ![BuildKey] = c]
    BY <1>11 DEF WriteStamp
  <2>4. BuildKey \in Files /\ BuildKey # "circuit.xbc"
    BY FileNames
  <2> QED BY <1>2, <2>1, <2>2, <2>3, <2>4, UntouchedWritten, OtherWritten
<1> QED BY <1>3, <1>4, <1>5, <1>6, <1>7, <1>8, <1>9, <1>10, <1>11 DEF BuildStep

(* The circuit of another process is there already or of these sources.    *)
LEMMA OthersHonest ==
  ASSUME NEW p \in Procs, Aging, Others(p), src' = src, NEW q \in Procs, q # p,
         circuit' \in Contents => circuit' = circuit \/ circuit'.ver = src.ver
  PROVE  Honest(q)'
<1>1. ps'[q] = ps[q]
  BY DEF Others
<1>2. Honest(q)
  BY DEF Aging
<1>3. ps[q].pc \in {"require", "load"} /\ circuit' \in Contents
        => circuit'.ver \in ps[q].fresh \/ ps[q].unlisted
  BY <1>2 DEF Honest
<1> QED BY <1>1, <1>2, <1>3 DEF Honest

LEMMA BuildAges ==
  ASSUME NEW p \in Procs, Aging, BuildStep(p), Placed(p), Next, Placing'
  PROVE  (\A q \in Procs : Honest(q)') /\ Timed'
<1>1. Carried(p) /\ Dated(p) /\ src' = src
  BY BuildMoves DEF Aging
<1>2. Honest(p)
  BY DEF Aging
<1>3. ps[p].pc \in Compiled => Content(p).ver = src.ver
  BY <1>2 DEF Honest, Content
<1>4. circuit' \in Contents => circuit' = circuit \/ circuit'.ver = src.ver
  BY <1>1, <1>3, Kinds DEF Dated
<1>5. Timed'
  <2>1. SUFFICES ASSUME made' = src.at, circuit' \in Contents PROVE circuit'.ver = src.ver
    BY <1>1 DEF Timed
  <2>2. CASE circuit' = Content(p) /\ ps[p].pc \in Compiled
    BY <1>3, <2>2
  <2>3. CASE ~ (circuit' = Content(p) /\ ps[p].pc \in Compiled)
    <3>1. circuit' = circuit /\ made' = made
      BY <1>1, <2>1, <2>3, Kinds DEF Dated
    <3> QED BY <2>1, <3>1 DEF Aging, Timed
  <2> QED BY <2>2, <2>3
<1>6. Honest(p)'
  <2>1. ps'[p].pc \in Compiled => ps'[p].wasm = src'.ver
    BY <1>1, <1>2 DEF Carried, Honest
  <2>2. ps'[p].pc \notin {"idle", "check", "load"}
    <3>1. "idle" \notin Building /\ "check" \notin Building /\ "load" \notin Building
      BY DEF Building, Compiled, Writing, AtSources, AtDigest, AtDeps
    <3> QED BY <1>1, <3>1 DEF Carried
  <2>3. ps'[p].cmd = "command" => src'.ver \in ps'[p].fresh
    BY <1>1, <1>2 DEF Carried, Honest
  <2>4. ps'[p].used # "none" => ps'[p].used \in ps'[p].fresh \/ ps'[p].unlisted
    BY <1>1, <1>2 DEF Carried, Honest
  <2>5. ASSUME ps'[p].pc = "require" PROVE ps'[p].cmd = "command" /\ circuit'.ver \in ps'[p].fresh
    <3>1. ps'[p].cmd = "command" /\ ps[p].pc \in {"reuse", "stamp"}
      BY <1>1, <2>5 DEF Carried
    <3>2. circuit' = Content(p)
      BY <2>5, <3>1, SuccessStep DEF Aging, Success, vars, circuit
    <3>3. ps[p].pc \in Compiled
      BY <3>1 DEF Compiled, Writing, AtSources, AtDigest, AtDeps
    <3> QED BY <1>3, <1>1, <2>3, <3>1, <3>2, <3>3
  <2> QED BY <2>1, <2>2, <2>3, <2>4, <2>5 DEF Honest
<1>7. ASSUME NEW q \in Procs, q # p PROVE Honest(q)'
  BY <1>1, <1>4, <1>7, OthersHonest DEF Placed
<1> QED BY <1>5, <1>6, <1>7

(* The steps that leave the directory and the sources alone.               *)
LEMMA QuietAges ==
  ASSUME NEW p \in Procs, Aging, Others(p), UNCHANGED <<src, dir, made>>, Honest(p)'
  PROVE  (\A q \in Procs : Honest(q)') /\ Timed'
<1>1. Timed'
  BY DEF Timed, Aging, circuit
<1>2. circuit' = circuit
  BY DEF circuit
<1> QED BY <1>1, <1>2, OthersHonest

LEMMA IdleHonest ==
  ASSUME NEW p \in Procs, ps'[p] = Idle
  PROVE  Honest(p)'
<1>1. Idle.pc = "idle" /\ Idle.cmd = "build" /\ Idle.used = "none"
  BY DEF Idle
<1>2. "idle" \notin Compiled
  BY DEF Compiled, Writing, AtSources, AtDigest, AtDeps
<1> QED BY <1>1, <1>2 DEF Honest

LEMMA StartAges ==
  ASSUME NEW p \in Procs, Aging, Start(p)
  PROVE  Honest(p)'
<1>1. ps \in [Procs -> Process] /\ src' = src
  BY DEF Aging, Placing, Typing, Typed, Start
<1>2. /\ ps'[p].used = "none" /\ ps'[p].pc \in {"lock", "check"}
      /\ ps'[p].cmd = "command" => ps'[p].fresh = {src.ver}
      /\ ps'[p].pc = "check" => ps'[p].cmd = "command"
  BY <1>1, ZenonT(30) DEF Start, Idle
<1>3. "lock" \notin Compiled /\ "check" \notin Compiled
  BY DEF Compiled, Writing, AtSources, AtDigest, AtDeps
<1> QED BY <1>1, <1>2, <1>3 DEF Honest

LEMMA CheckAges ==
  ASSUME NEW p \in Procs, Aging, Check(p)
  PROVE  Honest(p)'
<1>1. ps \in [Procs -> Process] /\ ps[p] \in Memory /\ UNCHANGED <<src, dir, made>> /\ ps[p].pc = "check"
  BY DEF Aging, Placing, Typing, Typed, Process, Check, Same, At
<1>2. Honest(p)
  BY DEF Aging
<1>3. circuit' = circuit /\ {"lock", "require"} \cap Compiled = {}
  BY <1>1 DEF circuit, Compiled, Writing, AtSources, AtDigest, AtDeps
<1>4. CASE Goto(p, "lock")
  <2>1. /\ ps'[p].pc = "lock" /\ ps'[p].cmd = ps[p].cmd /\ ps'[p].fresh = ps[p].fresh
        /\ ps'[p].unlisted = ps[p].unlisted /\ ps'[p].used = ps[p].used
    BY <1>1, <1>4 DEF Goto, Memory
  <2> QED BY <1>1, <1>2, <1>3, <2>1 DEF Honest
<1>5. CASE /\ ~ Stale("bn254") \/ dir["circuit.xbc"] = None
           /\ ps' = [ps EXCEPT ![p].pc = "require", ![p].unlisted = dir["deps"] = Torn /\ src.at > made]
  <2>1. /\ ps'[p].pc = "require" /\ ps'[p].cmd = ps[p].cmd /\ ps'[p].fresh = ps[p].fresh
        /\ ps'[p].unlisted = (dir["deps"] = Torn /\ src.at > made) /\ ps'[p].used = ps[p].used
    BY <1>1, <1>5 DEF Memory
  <2>2. ps[p].used = "none"
    BY <1>1, <1>2 DEF Honest
  <2>3. circuit \in Contents => circuit.ver \in ps[p].fresh \/ ps'[p].unlisted
    <3>1. SUFFICES ASSUME circuit \in Contents, ~ ps'[p].unlisted PROVE circuit.ver \in ps[p].fresh
      OBVIOUS
    <3>2. ~ Stale("bn254")
      BY <1>5, <3>1, Kinds DEF circuit
    <3>3. ~ (src.at > made)
      BY <2>1, <3>1, <3>2 DEF Stale
    <3>4. made = src.at
      BY <3>3 DEF Aging, Placing, Typing, Typed
    <3>5. circuit.ver = src.ver
      BY <3>1, <3>4 DEF Aging, Timed
    <3> QED BY <1>1, <1>2, <3>5 DEF Honest
  <2> QED BY <1>1, <1>2, <1>3, <2>1, <2>2, <2>3 DEF Honest
<1> QED BY <1>4, <1>5 DEF Check

LEMMA RequireAges ==
  ASSUME NEW p \in Procs, Aging, Require(p)
  PROVE  Honest(p)'
<1>1. ps \in [Procs -> Process] /\ ps[p] \in Memory /\ UNCHANGED <<src, dir, made>> /\ ps[p].pc = "require"
  BY DEF Aging, Placing, Typing, Typed, Process, Require, Same, At
<1>2. Honest(p)
  BY DEF Aging
<1>3. PICK pc \in {"load", "failed"} : Goto(p, pc)
  BY DEF Require
<1>4. /\ ps'[p].pc = pc /\ ps'[p].cmd = ps[p].cmd /\ ps'[p].fresh = ps[p].fresh
      /\ ps'[p].unlisted = ps[p].unlisted /\ ps'[p].used = ps[p].used
  BY <1>1, <1>3 DEF Goto, Memory
<1>5. pc \notin Compiled
  BY DEF Compiled, Writing, AtSources, AtDigest, AtDeps
<1>6. circuit' = circuit
  BY <1>1 DEF circuit
<1> QED BY <1>1, <1>2, <1>4, <1>5, <1>6 DEF Honest

LEMMA LoadAges ==
  ASSUME NEW p \in Procs, Aging, Load(p)
  PROVE  Honest(p)'
<1>1. ps \in [Procs -> Process] /\ ps[p] \in Memory /\ UNCHANGED <<src, dir, made>> /\ ps[p].pc = "load"
  BY DEF Aging, Placing, Typing, Typed, Process, Load, Same, At
<1>2. Honest(p)
  BY DEF Aging
<1>3. /\ ps'[p].pc \in {"done", "failed"} /\ ps'[p].cmd = ps[p].cmd /\ ps'[p].fresh = ps[p].fresh
      /\ ps'[p].unlisted = ps[p].unlisted
      /\ ps'[p].used = ps[p].used \/ (circuit \notin {None, Torn} /\ ps'[p].used = circuit.ver)
  BY <1>1 DEF Load, Goto, Memory, circuit
<1>4. circuit \in Holdings
  BY FileNames DEF Aging, Placing, Typing, Typed, circuit
<1>5. ps'[p].used # "none" => ps'[p].used \in ps[p].fresh \/ ps[p].unlisted
  BY <1>1, <1>2, <1>3, <1>4 DEF Honest, Holdings
<1>6. "done" \notin Compiled /\ "failed" \notin Compiled
  BY DEF Compiled, Writing, AtSources, AtDigest, AtDeps
<1> QED BY <1>1, <1>2, <1>3, <1>5, <1>6 DEF Honest

(* No source is edited while a build runs, so that what cargo read is what *)
(* is there when the build is judged.                                      *)
LEMMA EditAges ==
  ASSUME ~ EditWhileBuilding, NEW v \in Versions, Aging, Edit(v)
  PROVE  (\A q \in Procs : Honest(q)') /\ Timed'
<1>1. lock = {} /\ UNCHANGED <<dir, made>> /\ src'.ver = v /\ src'.at = src.at + 1
  BY DEF Edit
<1>2. Timed'
  <2>1. made \in Nat /\ src.at \in Nat /\ made <= src.at /\ src'.at = src.at + 1
    BY <1>1, BuildAssumption DEF Aging, Placing, Typing, Typed
  <2>2. made' # src'.at
    BY <1>1, <2>1
  <2> QED BY <2>2 DEF Timed
<1>3. ASSUME NEW q \in Procs PROVE Honest(q)'
  <2>1. ps[q] \in Memory /\ ps[q].pc \notin Building
    BY <1>1 DEF Aging, Placing, Typing, Typed, Process, Locked
  <2>2. ps[q].pc \notin Compiled
    BY <2>1 DEF Building
  <2>3. Honest(q)
    BY DEF Aging
  <2>4. ps'[q] = IF ps[q].pc = "idle" THEN ps[q] ELSE [ps[q] EXCEPT !.fresh = @ \cup {v}]
    BY EditMoves DEF Aging, Placing
  <2>5. src'.ver = v /\ circuit' = circuit
    BY <1>1 DEF circuit
  <2>6. CASE ps[q].pc = "idle"
    BY <2>1, <2>2, <2>3, <2>4, <2>5, <2>6 DEF Honest
  <2>7. CASE ps[q].pc # "idle"
    <3>1. /\ ps'[q].pc = ps[q].pc /\ ps'[q].cmd = ps[q].cmd /\ ps'[q].used = ps[q].used
          /\ ps'[q].unlisted = ps[q].unlisted
          /\ ps'[q].fresh = ps[q].fresh \cup {v}
      BY <2>1, <2>4, <2>7 DEF Memory
    <3> QED BY <2>2, <2>3, <2>5, <2>7, <3>1 DEF Honest
  <2> QED BY <2>6, <2>7
<1> QED BY <1>2, <1>3

LEMMA InitAging == Init => Aging
<1> SUFFICES ASSUME Init PROVE Aging
  OBVIOUS
<1>1. ASSUME NEW p \in Procs PROVE Honest(p)
  <2>1. ps[p].pc = "idle" /\ ps[p].cmd = "build" /\ ps[p].used = "none"
    BY DEF Init, Idle
  <2>2. "idle" \notin Compiled
    BY DEF Compiled, Writing, AtSources, AtDigest, AtDeps
  <2> QED BY <2>1, <2>2 DEF Honest
<1>2. Timed
  <2>1. circuit = None
    BY FileNames DEF Init, circuit
  <2> QED BY <2>1, Kinds DEF Timed
<1> QED BY <1>1, <1>2, InitPlacing DEF Aging

LEMMA NextAging == ~ EditWhileBuilding /\ Aging /\ [Next]_vars => Aging'
<1> SUFFICES ASSUME ~ EditWhileBuilding, Aging, [Next]_vars PROVE Aging'
  OBVIOUS
<1>1. Placing'
  BY NextPlacing DEF Aging
<1>2. ASSUME NEW p \in Procs, Next, BuildStep(p) PROVE Aging'
  BY <1>1, <1>2, BuildPlaced, BuildAges DEF Aging
<1>3. ASSUME NEW p \in Procs, Start(p) PROVE Aging'
  BY <1>1, <1>3, StartPlacing, StartAges, QuietAges DEF Aging, Placed, Start
<1>4. ASSUME NEW p \in Procs, Check(p) \/ Require(p) PROVE Aging'
  BY <1>1, <1>4, CheckPlacing, CheckAges, RequireAges, QuietAges DEF Aging, Placed, Check, Require, Same
<1>5. ASSUME NEW p \in Procs, Load(p) PROVE Aging'
  BY <1>1, <1>5, LoadPlacing, LoadAges, QuietAges DEF Aging, Placed, Load, Same
<1>6. ASSUME NEW p \in Procs, Exit(p) \/ Crash(p) PROVE Aging'
  <2>1. ps'[p] = Idle
    BY <1>6 DEF Exit, Crash, Aging, Placing, Typing, Typed
  <2> QED BY <1>1, <1>6, <2>1, LeavePlacing, IdleHonest, QuietAges DEF Aging, Placed, Exit, Crash, Same
<1>7. ASSUME NEW v \in Versions, Edit(v) PROVE Aging'
  BY <1>1, <1>7, EditAges DEF Aging
<1>8. CASE UNCHANGED vars
  <2>1. (\A q \in Procs : Honest(q)') /\ Timed'
    BY <1>8 DEF vars, Aging, Honest, Timed, circuit
  <2> QED BY <1>1, <2>1 DEF Aging
<1> QED BY <1>2, <1>3, <1>4, <1>5, <1>6, <1>7, <1>8 DEF Next, Step

LEMMA AgingFresh == Aging => NeverOlderThanSource
  BY DEF Aging, Honest, NeverOlderThanSource

(* A command loads a circuit of sources there were while it ran, unless    *)
(* deps was cut off when it judged the build and an edit since shows in no *)
(* file of src/: else the times that newer_source_than and                 *)
(* rebuild_if_stale compare are enough although they take no lock, as long *)
(* as no source is edited during a build.                                  *)
THEOREM NeverStale ==
  ASSUME ~ EditWhileBuilding
  PROVE  Spec => []NeverOlderThanSource
<1>1. Aging /\ [Next]_vars => Aging'
  BY NextAging
<1> QED BY InitAging, <1>1, AgingFresh, PTL DEF Spec
=============================================================================
