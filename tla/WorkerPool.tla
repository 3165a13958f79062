----------------------------- MODULE WorkerPool -----------------------------
(***************************************************************************)
(* The wasm prover's worker pool (crates/wasm/js/pool.mjs and              *)
(* pool-worker.mjs).  The proving thread is one synchronous call; at each  *)
(* data-parallel step it copies its data into shared buffers, posts one    *)
(* job per worker and blocks on Atomics.wait until a shared counter has    *)
(* reached the number of jobs.  An FFT is two or three such barriers over  *)
(* one n1 x n2 matrix, an MSM or a decompression is one.                   *)
(*                                                                         *)
(* Numbers are not modelled.  A cell is the call whose data it holds and   *)
(* how many passes it has been through: a kernel that reads a cell of      *)
(* another call or pass yields Bad.                                        *)
(***************************************************************************)
EXTENDS Naturals, FiniteSets

CONSTANTS
  W,          \* workers
  N1, N2,     \* the matrix of an FFT: n1 rows, n2 columns
  Tile,       \* columns a kernel transforms at a time
  MaxPoints,  \* bound on the points of one MSM or decompression
  MaxCalls    \* bound on the calls into the pool

ASSUME PoolAssumption ==
  /\ W \in Nat \ {0} /\ N1 \in Nat \ {0} /\ N2 \in Nat \ {0} /\ Tile \in Nat \ {0}
  /\ MaxPoints \in Nat /\ MaxCalls \in Nat

VARIABLES
  pc,         \* the proving thread
  call,       \* the call it is in (or was last in): [id, op, n]
  pass,       \* which pass of it, from 1
  posted,     \* jobs of this pass posted so far
  seen,       \* the COUNT it read last
  count,      \* ctl[COUNT]
  failed,     \* ctl[FAILED]
  mail,       \* jobs posted and not yet taken
  wk,         \* each worker: [st, job, at, blk]
  data,       \* the shared FFT buffer
  out,        \* the shared result buffers of msm and decompress
  points,     \* the call whose points are in the shared input buffers
  answer,     \* what the last call gave: "none", "returned" or "threw"
  value,      \* the data it returned
  broken      \* calls in which a kernel failed (history)

coord   == <<pc, call, pass, posted, seen, answer, value, points>>
vars    == <<coord, count, failed, mail, wk, data, out, broken>>

Workers == 0..W-1
Ops     == {"toCoset", "fromCosetToT", "msm", "decompress"}
Bad     == [id |-> 0, level |-> 0]

-----------------------------------------------------------------------------
CeilDiv(a, b) == (a + b - 1) \div b
Least(a, b)   == IF a < b THEN a ELSE b

(* _ranges: [0, n) in at most W ranges, each a multiple of align.          *)
RangesOf(n, align) ==
  LET units == CeilDiv(n, align)
      per   == CeilDiv(units, W)
  IN [k \in 1..(IF units = 0 THEN 0 ELSE CeilDiv(units, per)) |->
        <<(k - 1) * per * align, Least(n, k * per * align)>>]

(* The passes of a call: columns, rows and columns; columns and rows; or   *)
(* the one of its kind.                                                    *)
FFTs     == {"toCoset", "fromCosetToT"}
Kind     == IF call.op \notin FFTs THEN call.op ELSE IF pass = 2 THEN "rows" ELSE "cols"
LastPass == IF call.op = "toCoset" THEN 3 ELSE IF call.op = "fromCosetToT" THEN 2 ELSE 1

(* The jobs of a pass, in the order they are posted.                       *)
Jobs == RangesOf(IF Kind = "cols" THEN N2 ELSE IF Kind = "rows" THEN N1 ELSE call.n,
                 IF Kind = "cols" THEN Tile ELSE 1)
NumJobs == Cardinality(DOMAIN Jobs)

Job(k) == [id |-> call.id, pass |-> pass, kind |-> Kind, k |-> k,
           lo |-> Jobs[k][1], hi |-> Jobs[k][2], to |-> (k - 1) % W]

-----------------------------------------------------------------------------
(* The proving thread.                                                     *)

Begin(op, n) ==
  /\ pc = "idle"
  /\ call.id < MaxCalls
  /\ call' = [id |-> call.id + 1, op |-> op, n |-> n]
  /\ pass' = 1
  /\ answer' = "none" /\ value' = {}
  /\ pc' = "reset"
  /\ IF op \in FFTs
       THEN /\ data' = [x \in DOMAIN data |-> [id |-> call.id + 1, level |-> 0]]
            /\ UNCHANGED points
       ELSE /\ points' = call.id + 1
            /\ UNCHANGED data
  /\ UNCHANGED <<posted, seen, count, failed, mail, wk, out, broken>>

(* _run: reset the counters, post the jobs.                                *)
Reset ==
  /\ pc = "reset"
  /\ count' = 0 /\ failed' = FALSE
  /\ posted' = 0
  /\ pc' = "post"
  /\ UNCHANGED <<call, pass, seen, mail, wk, data, out, points, answer, value, broken>>

Post ==
  /\ pc = "post"
  /\ posted < NumJobs
  /\ mail' = mail \cup {Job(posted + 1)}
  /\ posted' = posted + 1
  /\ UNCHANGED <<pc, call, pass, seen, count, failed, wk, data, out, points, answer, value,
                 broken>>

Posted ==
  /\ pc = "post"
  /\ posted = NumJobs
  /\ pc' = "load"
  /\ UNCHANGED <<call, pass, posted, seen, count, failed, mail, wk, data, out, points, answer,
                 value, broken>>

(* The barrier: read the counter; at the number of jobs, go on.            *)
Load_FailFast ==
  /\ pc = "load"
  /\ seen' = count
  /\ pc' = IF count >= NumJobs \/ failed THEN "check" ELSE "wait"
  /\ UNCHANGED <<call, pass, posted, count, failed, mail, wk, data, out, points, answer, value,
                 broken>>

Load_OneShort ==
  /\ pc = "load"
  /\ seen' = count
  /\ pc' = IF count + 1 >= NumJobs THEN "check" ELSE "wait"
  /\ UNCHANGED <<call, pass, posted, count, failed, mail, wk, data, out, points, answer, value,
                 broken>>

Load ==
  /\ pc = "load"
  /\ seen' = count
  /\ pc' = IF count >= NumJobs THEN "check" ELSE "wait"
  /\ UNCHANGED <<call, pass, posted, count, failed, mail, wk, data, out, points, answer, value,
                 broken>>

(* Atomics.wait returns at once if the counter is not what was read.       *)
Wait ==
  /\ pc = "wait"
  /\ pc' = IF count = seen THEN "asleep" ELSE "load"
  /\ UNCHANGED <<call, pass, posted, seen, count, failed, mail, wk, data, out, points, answer,
                 value, broken>>

(* After the barrier: throw, go to the next pass, or return the data.      *)
Check ==
  /\ pc = "check"
  /\ \/ /\ failed
        /\ pc' = "idle" /\ answer' = "threw"
        /\ UNCHANGED <<pass, value>>
     \/ /\ ~ failed /\ pass < LastPass
        /\ pc' = "reset" /\ pass' = pass + 1
        /\ UNCHANGED <<answer, value>>
     \/ /\ ~ failed /\ pass = LastPass
        /\ pc' = "idle" /\ answer' = "returned"
        /\ value' = IF call.op \in FFTs THEN data
                    ELSE [i \in (IF Kind = "msm" THEN 1..NumJobs ELSE 0..call.n-1) |-> out[Kind][i]]
        /\ UNCHANGED pass
  /\ UNCHANGED <<call, posted, seen, count, failed, mail, wk, data, out, points, broken>>

-----------------------------------------------------------------------------
(* A worker.  Its messages arrive in the order they were posted.           *)

NoJob == [id |-> 0, pass |-> 0, kind |-> "none", k |-> 0, lo |-> 0, hi |-> 0, to |-> 0]
Free  == [st |-> "idle", job |-> NoJob, at |-> 0, blk |-> Bad]

Before(a, b) == \/ a.id < b.id
                \/ a.id = b.id /\ a.pass < b.pass
                \/ a.id = b.id /\ a.pass = b.pass /\ a.k <= b.k

Take(w, job) ==
  /\ wk[w].st = "idle"
  /\ job \in mail /\ job.to = w
  /\ \A other \in mail : other.to = w => Before(job, other)
  /\ mail' = mail \ {job}
  /\ wk' = [wk EXCEPT ![w] = [st |-> "read", job |-> job, at |-> job.lo, blk |-> Bad]]
  /\ UNCHANGED <<coord, count, failed, data, out, broken>>

(* The next tile of a cols job, or all of any other.                       *)
TileEnd(j, at) == IF j.kind = "cols" THEN Least(j.hi, at + Tile) ELSE j.hi

Cells(j, at) == IF j.kind = "cols" THEN (0..N1-1) \X (at..TileEnd(j, at)-1)
                                   ELSE (j.lo..j.hi-1) \X (0..N2-1)

(* What a kernel makes of its input.                                       *)
Transformed(j, at) ==
  LET done == [id |-> j.id, level |-> j.pass] IN
  IF j.kind \in {"cols", "rows"}
    THEN IF \A x \in Cells(j, at) : data[x] = [done EXCEPT !.level = j.pass - 1]
           THEN done ELSE Bad
    ELSE IF points = j.id THEN done ELSE Bad

(* The worker goes on with its job.                                        *)
Onto(w, st, at, blk) ==
  wk' = [wk EXCEPT ![w] = [st |-> st, job |-> wk[w].job, at |-> at, blk |-> blk]]
Then(w, st) == Onto(w, st, wk[w].at, wk[w].blk)

Read(w) ==
  /\ wk[w].st = "read"
  /\ Onto(w, "write", wk[w].at, Transformed(wk[w].job, wk[w].at))
  /\ UNCHANGED <<coord, count, failed, mail, data, out, broken>>

Write(w) ==
  LET j   == wk[w].job
      at  == wk[w].at
      end == TileEnd(j, at)
  IN /\ wk[w].st = "write"
     /\ IF j.kind \in {"cols", "rows"}
          THEN /\ data' = [x \in DOMAIN data |-> IF x \in Cells(j, at) THEN wk[w].blk ELSE data[x]]
               /\ UNCHANGED out
          ELSE /\ out' = IF j.kind = "msm"
                           THEN [out EXCEPT !["msm"][j.k] =
                                   [val |-> wk[w].blk, lo |-> j.lo, hi |-> j.hi]]
                           ELSE [out EXCEPT !["decompress"] =
                                   [i \in DOMAIN @ |-> IF i \in j.lo..j.hi-1
                                      THEN [val |-> wk[w].blk, lo |-> i, hi |-> i + 1] ELSE @[i]]]
               /\ UNCHANGED data
     /\ Onto(w, IF end >= j.hi THEN "add" ELSE "read", end, wk[w].blk)
     /\ UNCHANGED <<coord, count, failed, mail, broken>>

(* A kernel may throw, on any tile.                                        *)
Throw(w) ==
  /\ wk[w].st = "read"
  /\ Then(w, "failed")
  /\ broken' = broken \cup {wk[w].job.id}
  /\ UNCHANGED <<coord, count, failed, mail, data, out>>

StoreFailed_Dropped(w) ==
  /\ wk[w].st = "failed"
  /\ Then(w, "add")
  /\ UNCHANGED <<coord, count, failed, mail, data, out, broken>>

StoreFailed_Returned(w) ==
  /\ wk[w].st = "failed"
  /\ failed' = TRUE
  /\ wk' = [wk EXCEPT ![w] = Free]
  /\ UNCHANGED <<coord, count, mail, data, out, broken>>

StoreFailed(w) ==
  /\ wk[w].st = "failed"
  /\ failed' = TRUE
  /\ Then(w, "add")
  /\ UNCHANGED <<coord, count, mail, data, out, broken>>

Add(w) ==
  /\ wk[w].st = "add"
  /\ count' = count + 1
  /\ Then(w, "notify")
  /\ UNCHANGED <<coord, failed, mail, data, out, broken>>

Notify(w) ==
  /\ wk[w].st = "notify"
  /\ pc' = IF pc = "asleep" THEN "load" ELSE pc
  /\ wk' = [wk EXCEPT ![w] = Free]
  /\ UNCHANGED <<call, pass, posted, seen, answer, value, points, count, failed, mail, data,
                 out, broken>>

-----------------------------------------------------------------------------
NoOut == [val |-> Bad, lo |-> 0, hi |-> 0]

Init ==
  /\ pc = "idle"
  /\ call = [id |-> 0, op |-> "msm", n |-> 0]
  /\ pass = 1 /\ posted = 0 /\ seen = 0
  /\ count = 0 /\ failed = FALSE
  /\ mail = {}
  /\ wk = [w \in Workers |-> Free]
  /\ data = [x \in (0..N1-1) \X (0..N2-1) |-> Bad]
  /\ out = [b \in {"msm", "decompress"} |->
              [i \in (IF b = "msm" THEN 1..W ELSE 0..MaxPoints-1) |-> NoOut]]
  /\ points = 0
  /\ answer = "none" /\ value = {}
  /\ broken = {}

BeginSome ==
  \/ \E op \in FFTs : Begin(op, 0)
  \/ \E op \in {"msm", "decompress"}, n \in 0..MaxPoints : Begin(op, n)

Coordinate == Reset \/ Post \/ Posted \/ Load \/ Wait \/ Check

Work(w) ==
  \/ \E job \in mail : Take(w, job)
  \/ Read(w) \/ Write(w) \/ Throw(w) \/ StoreFailed(w) \/ Add(w) \/ Notify(w)

Next == BeginSome \/ Coordinate \/ \E w \in Workers : Work(w)

(* Threads that can run do: the proving thread's own steps, and each       *)
(* worker's event loop.  Which call comes, and when, is the caller's.      *)
Spec == Init /\ [][Next]_vars /\ WF_vars(Coordinate) /\ \A w \in Workers : WF_vars(Work(w))

-----------------------------------------------------------------------------
(* Properties.                                                             *)

Pcs == {"idle", "reset", "post", "load", "wait", "asleep", "check"}
Tag == [id : Nat, level : Nat]
JobType == [id : Nat, pass : Nat, kind : {"none", "cols", "rows", "msm", "decompress"},
            k : Nat, lo : Nat, hi : Nat, to : Workers]
WorkerType == [st : {"idle", "read", "write", "failed", "add", "notify"}, job : JobType,
               at : Nat, blk : Tag]

(* Every variable keeps its type.                                          *)
TypeOK ==
  /\ pc \in Pcs
  /\ call \in [id : Nat, op : Ops, n : Nat]
  /\ pass \in Nat /\ posted \in Nat /\ seen \in Nat /\ count \in Nat
  /\ failed \in BOOLEAN
  /\ mail \subseteq JobType /\ IsFiniteSet(mail)
  /\ wk \in [Workers -> WorkerType]
  /\ data \in [(0..N1-1) \X (0..N2-1) -> Tag]
  /\ answer \in {"none", "returned", "threw"}
  /\ points \in Nat
  /\ broken \subseteq Nat

(* A worker that holds a job: its kernel may still touch shared memory.    *)
Busy == {w \in Workers : wk[w].st \in {"read", "write", "failed", "add"}}

(* _run's barrier, failures included: outside of it no job is queued or    *)
(* running, so the buffers a new call overwrites, and the ones a finished  *)
(* call hands back, are nobody else's.                                     *)
BarrierHolds == pc \in {"idle", "reset", "check"} => mail = {} /\ Busy = {}

(* The counter and the outstanding jobs always add up to what was posted:  *)
(* neither a late notify nor a failed kernel loses or repeats a job.       *)
CountsJobs == pc # "reset" /\ pc # "idle" =>
                count + Cardinality(mail) + Cardinality(Busy) = posted

(* What an MSM's partial sums cover, or a decompression's points.          *)
CoversOnce(n) ==
  \A i \in 0..n-1 : Cardinality({k \in DOMAIN value : i \in value[k].lo..value[k].hi-1}) = 1

(* The value returned is the whole result: every matrix cell has been      *)
(* through every pass of this call; the partial sums are this call's and   *)
(* take in every point exactly once.                                       *)
Whole ==
  LET done == [id |-> call.id, level |-> LastPass] IN
  IF call.op \in FFTs
    THEN \A x \in DOMAIN data : value[x] = done
    ELSE (\A k \in DOMAIN value : value[k].val = done) /\ CoversOnce(call.n)

(* The pool behaves as one serial machine (SerialPool): whatever the       *)
(* interleaving of the threads, a call returns the whole of its own result *)
(* or throws because a kernel of its own failed, and it always ends.       *)
Serial == INSTANCE SerialPool WITH
  busy   <- pc # "idle",
  made   <- call.id,
  faults <- broken,
  result <- IF answer = "returned" /\ Whole THEN call.id ELSE 0
ImplementsSerialPool == Serial!Spec

(* A failed kernel is always reported: the call throws, in the very pass   *)
(* it failed in, and a call without one does not.                          *)
FailureReported ==
  /\ answer = "returned" => call.id \notin broken
  /\ answer = "threw" => call.id \in broken
=============================================================================
