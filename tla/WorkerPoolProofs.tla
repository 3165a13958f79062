-------------------------- MODULE WorkerPoolProofs --------------------------
(***************************************************************************)
(* Proofs about WorkerPool, for any number of workers, any matrix, any     *)
(* number of points and any number of calls.                               *)
(***************************************************************************)
EXTENDS WorkerPool, FiniteSetTheorems, TLAPS

-----------------------------------------------------------------------------
(* Arithmetic of the ranges.                                               *)

(* A rounded-up quotient is a natural number, positive if the dividend is. *)
LEMMA CeilDivType ==
  ASSUME NEW a \in Nat, NEW b \in Nat \ {0}
  PROVE  /\ CeilDiv(a, b) \in Nat
         /\ a # 0 => CeilDiv(a, b) # 0
  BY DEF CeilDiv

(* A quotient rounded up is the least whose multiple reaches the dividend. *)
LEMMA CeilDivBounds ==
  ASSUME NEW a \in Nat, NEW b \in Nat \ {0}
  PROVE  a <= CeilDiv(a, b) * b /\ CeilDiv(a, b) * b < a + b
  BY DEF CeilDiv

(* Multiplying by a natural number keeps an order, by a positive one a     *)
(* strict order.                                                           *)
LEMMA TimesOrder ==
  ASSUME NEW a \in Nat, NEW b \in Nat, NEW c \in Nat
  PROVE  /\ a <= b => a * c <= b * c
         /\ a * c < b * c => a < b
  OBVIOUS

(* _ranges cuts [0, n) at the multiples of one number u, into at most W    *)
(* pieces, the last of which reaches n.                                    *)
LEMMA RangesCut ==
  ASSUME NEW n \in Nat, NEW align \in Nat \ {0}
  PROVE  \E m \in 0..W, u \in Nat :
           /\ RangesOf(n, align) = [k \in 1..m |-> <<(k - 1) * u, Least(n, k * u)>>]
           /\ n <= m * u
<1> DEFINE units == CeilDiv(n, align)
           per   == CeilDiv(units, W)
           m     == IF units = 0 THEN 0 ELSE CeilDiv(units, per)
           u     == per * align
<1>0. W \in Nat \ {0}
  BY PoolAssumption
<1>1. units \in Nat /\ n <= units * align
  BY CeilDivType, CeilDivBounds
<1>2. per \in Nat /\ (units # 0 => per # 0) /\ units <= per * W
  <2> HIDE DEF units
  <2> QED BY <1>0, <1>1, CeilDivType, CeilDivBounds
<1>3. m \in Nat /\ units <= m * per /\ (units # 0 => m * per < units + per)
  <2> HIDE DEF units, per
  <2>1. CASE units = 0
    BY <1>2, <2>1
  <2>2. CASE units # 0
    BY <1>1, <1>2, <2>2, CeilDivType, CeilDivBounds DEF m
  <2> QED BY <2>1, <2>2
<1> HIDE DEF units, per, m
<1>4. m <= W
  <2>1. CASE units = 0
    BY <1>0, <2>1 DEF m
  <2>2. CASE units # 0
    <3>1. m * per < (W + 1) * per
      BY <1>0, <1>1, <1>2, <1>3, <2>2
    <3> QED BY <3>1, <1>0, <1>2, <1>3, TimesOrder
  <2> QED BY <2>1, <2>2
<1>5. u \in Nat /\ n <= m * u
  <2>1. units * align <= (m * per) * align
    BY <1>1, <1>2, <1>3, TimesOrder
  <2> QED BY <1>1, <1>2, <1>3, <2>1
<1>6. RangesOf(n, align) = [k \in 1..m |-> <<(k - 1) * u, Least(n, k * u)>>]
  <2>1. RangesOf(n, align) = [k \in 1..m |->
          <<(k - 1) * per * align, Least(n, k * per * align)>>]
    BY DEF RangesOf, m, units, per
  <2>2. \A k \in 1..m : (k - 1) * per * align = (k - 1) * u /\ k * per * align = k * u
    BY <1>2, <1>3
  <2> HIDE DEF u
  <2> QED BY <2>1, <2>2
<1>7. m \in 0..W
  BY <1>0, <1>3, <1>4
<1> HIDE DEF u
<1> QED
  BY <1>5, <1>6, <1>7

(* The ranges stay within [0, n), cover it and do not overlap.             *)
LEMMA RangesPartition ==
  ASSUME NEW n \in Nat, NEW align \in Nat \ {0}
  PROVE  \E m \in 0..W :
           /\ DOMAIN RangesOf(n, align) = 1..m
           /\ \A k \in 1..m : /\ RangesOf(n, align)[k][1] \in Nat
                              /\ RangesOf(n, align)[k][2] \in 0..n
           /\ \A i \in 0..n-1 : \E k \in 1..m :
                i \in RangesOf(n, align)[k][1]..RangesOf(n, align)[k][2]-1
           /\ \A i \in 0..n-1, k, l \in 1..m :
                /\ i \in RangesOf(n, align)[k][1]..RangesOf(n, align)[k][2]-1
                /\ i \in RangesOf(n, align)[l][1]..RangesOf(n, align)[l][2]-1
                => k = l
<1> DEFINE R == RangesOf(n, align)
<1>1. PICK m \in 0..W, u \in Nat :
           /\ R = [k \in 1..m |-> <<(k - 1) * u, Least(n, k * u)>>]
           /\ n <= m * u
  BY RangesCut
<1>0. m \in Nat
  BY PoolAssumption
<1> HIDE DEF R
<1>2. DOMAIN R = 1..m
  BY <1>1
<1>3. ASSUME NEW k \in 1..m
      PROVE  /\ R[k][1] = (k - 1) * u /\ R[k][2] = Least(n, k * u)
             /\ (k - 1) * u \in Nat /\ k * u \in Nat
  <2>1. k \in Nat /\ k - 1 \in Nat
    BY <1>0
  <2> QED BY <1>1, <2>1
<1>4. ASSUME NEW k \in 1..m
      PROVE  R[k][1] \in Nat /\ R[k][2] \in 0..n
  BY <1>3 DEF Least
<1>5. ASSUME NEW i \in 0..n-1
      PROVE  \E k \in 1..m : i \in R[k][1]..R[k][2]-1
  <2>1. i \in Nat /\ i < n /\ i < m * u
    BY <1>0, <1>1
  <2>2. u # 0
    BY <2>1, <1>0
  <2> DEFINE q == i \div u
  <2>3. q \in Nat /\ q * u <= i /\ i < (q + 1) * u
    BY <2>1, <2>2
  <2> HIDE DEF q
  <2>4. q < m
    BY <1>0, <2>1, <2>3, TimesOrder
  <2>5. q + 1 \in 1..m
    BY <1>0, <2>3, <2>4
  <2>6. R[q + 1][1] = q * u /\ R[q + 1][2] = Least(n, (q + 1) * u)
    <3>1. (q + 1) - 1 = q
      BY <2>3
    <3> QED BY <1>3, <2>5, <3>1
  <2>7. i \in R[q + 1][1]..R[q + 1][2]-1
    <3>1. (q + 1) * u \in Nat /\ q * u \in Nat
      BY <2>3
    <3> QED BY <2>1, <2>3, <2>6, <3>1 DEF Least
  <2> QED BY <2>5, <2>7
<1>6. ASSUME NEW i \in 0..n-1, NEW k \in 1..m, NEW l \in 1..m,
             i \in R[k][1]..R[k][2]-1, i \in R[l][1]..R[l][2]-1
      PROVE  k = l
  <2>1. k \in Nat /\ l \in Nat /\ k - 1 \in Nat /\ l - 1 \in Nat
    BY <1>0
  <2>2. (k - 1) * u <= i /\ i < k * u /\ (l - 1) * u <= i /\ i < l * u
    BY <1>3, <1>6 DEF Least
  <2>3. (k - 1) * u < l * u /\ (l - 1) * u < k * u
    <3>1. (k - 1) * u \in Nat /\ k * u \in Nat /\ (l - 1) * u \in Nat /\ l * u \in Nat
      BY <1>3
    <3> QED BY <2>2, <3>1
  <2>4. k - 1 < l /\ l - 1 < k
    BY <2>1, <2>3, TimesOrder
  <2> QED BY <2>1, <2>4
<1> QED
  BY <1>2, <1>4, <1>5, <1>6 DEF R

PassInRange == pass \in 1..LastPass

(* The jobs of a pass are numbered from 1 and well typed; each carries its *)
(* number and its call.                                                    *)
LEMMA JobsType ==
  ASSUME TypeOK, PassInRange
  PROVE  /\ NumJobs \in Nat
         /\ \A k \in 1..NumJobs : Job(k) \in JobType /\ Job(k).k = k /\ Job(k).id = call.id
<1>1. call.n \in Nat /\ call.id \in Nat /\ call.op \in Ops /\ pass \in Nat
  BY DEF TypeOK
<1>2. Kind \in {"cols", "rows", "msm", "decompress"}
  BY <1>1 DEF Kind, PassInRange, LastPass, Ops, FFTs
<1>3. PICK n \in Nat, align \in Nat \ {0} : Jobs = RangesOf(n, align)
  BY <1>1, <1>2, PoolAssumption DEF Jobs
<1>4. PICK m \in 0..W :
           /\ DOMAIN Jobs = 1..m
           /\ \A k \in 1..m : Jobs[k][1] \in Nat /\ Jobs[k][2] \in 0..n
  BY <1>3, RangesPartition
<1>5. NumJobs = m /\ m \in Nat
  BY <1>4, PoolAssumption, FS_Interval DEF NumJobs
<1>6. ASSUME NEW k \in 1..m
      PROVE  Job(k) \in JobType /\ Job(k).k = k /\ Job(k).id = call.id
  <2>1. (k - 1) % W \in Workers
    BY <1>5, PoolAssumption DEF Workers
  <2>2. k \in Nat
    BY <1>5
  <2> QED BY <1>1, <1>2, <1>4, <2>1, <2>2 DEF Job, JobType
<1> QED
  BY <1>5, <1>6

-----------------------------------------------------------------------------
(* Types.                                                                  *)

Typed == TypeOK /\ PassInRange

(* A kernel's result is a tag.                                             *)
LEMMA TransformedType ==
  ASSUME TypeOK, NEW w \in Workers
  PROVE  Transformed(wk[w].job, wk[w].at) \in Tag
<1>1. wk[w].job.id \in Nat /\ wk[w].job.pass \in Nat
  BY DEF TypeOK, WorkerType, JobType
<1>2. Bad \in Tag
  BY DEF Bad, Tag
<1> QED
  BY <1>1, <1>2 DEF Transformed, Tag

(* The end of a tile is a natural number.                                  *)
LEMMA TileEndType ==
  ASSUME TypeOK, NEW w \in Workers
  PROVE  TileEnd(wk[w].job, wk[w].at) \in Nat
<1>1. wk[w].job.hi \in Nat /\ wk[w].at \in Nat
  BY DEF TypeOK, WorkerType, JobType
<1> QED
  BY <1>1, PoolAssumption DEF TileEnd, Least

(* Initially every variable has its type and the pass is in range.         *)
LEMMA InitTyped == Init => Typed
<1> SUFFICES ASSUME Init PROVE Typed
  OBVIOUS
<1> USE PoolAssumption
<1>1. Bad \in Tag
  BY DEF Bad, Tag
<1>2. Free \in WorkerType
  BY <1>1 DEF Free, NoJob, WorkerType, JobType, Workers
<1>3. wk \in [Workers -> WorkerType]
  BY <1>2 DEF Init
<1>4. data \in [(0..N1-1) \X (0..N2-1) -> Tag]
  BY <1>1 DEF Init
<1>5. mail \subseteq JobType /\ IsFiniteSet(mail)
  BY FS_EmptySet DEF Init
<1>6. call \in [id : Nat, op : Ops, n : Nat]
  BY DEF Init, Ops
<1>7. PassInRange
  BY DEF Init, PassInRange, LastPass
<1> QED
  BY <1>3, <1>4, <1>5, <1>6, <1>7 DEF Init, TypeOK, Typed, Pcs

(* A step of the proving thread keeps the types.                           *)
LEMMA CoordinateTyped ==
  ASSUME Typed, Coordinate
  PROVE  Typed'
<1> USE DEF Typed
<1>1. CASE Reset
  BY <1>1 DEF Reset, TypeOK, Pcs, PassInRange, LastPass
<1>2. CASE Post
  <2>1. NumJobs \in Nat /\ posted < NumJobs /\ posted \in Nat
    BY <1>2, JobsType DEF Post, TypeOK
  <2>2. Job(posted + 1) \in JobType
    BY <2>1, JobsType
  <2>3. mail' \subseteq JobType /\ IsFiniteSet(mail')
    BY <1>2, <2>2, FS_AddElement DEF Post, TypeOK
  <2> QED BY <1>2, <2>1, <2>3 DEF Post, TypeOK, PassInRange, LastPass
<1>3. CASE Posted
  BY <1>3 DEF Posted, TypeOK, Pcs, PassInRange, LastPass
<1>4. CASE Load
  BY <1>4 DEF Load, TypeOK, Pcs, PassInRange, LastPass
<1>5. CASE Wait
  BY <1>5 DEF Wait, TypeOK, Pcs, PassInRange, LastPass
<1>6. CASE Check
  <2>1. LastPass' = LastPass /\ LastPass \in Nat
    BY <1>6 DEF Check, LastPass
  <2>2. pass' \in 1..LastPass
    BY <1>6, <2>1 DEF Check, PassInRange
  <2>3. pc' \in Pcs /\ answer' \in {"none", "returned", "threw"}
    BY <1>6 DEF Check, TypeOK, Pcs
  <2> QED BY <1>6, <2>1, <2>2, <2>3 DEF Check, TypeOK, PassInRange
<1> QED
  BY <1>1, <1>2, <1>3, <1>4, <1>5, <1>6 DEF Coordinate

(* So does the start of a call.                                            *)
LEMMA BeginTyped ==
  ASSUME Typed, NEW op \in Ops, NEW n \in Nat, Begin(op, n)
  PROVE  Typed'
<1>1. call' \in [id : Nat, op : Ops, n : Nat] /\ call.id \in Nat
  BY DEF Begin, Typed, TypeOK
<1>2. data' \in [(0..N1-1) \X (0..N2-1) -> Tag] /\ points' \in Nat
  BY <1>1 DEF Begin, Typed, TypeOK, Tag
<1>3. PassInRange'
  BY DEF Begin, PassInRange, LastPass
<1> QED
  BY <1>1, <1>2, <1>3 DEF Begin, Typed, TypeOK, Pcs

(* And every step of a worker.                                             *)
LEMMA WorkTyped ==
  ASSUME Typed, NEW w \in Workers, Work(w)
  PROVE  Typed'
<1> USE DEF Typed
<1>0. wk[w] \in WorkerType /\ wk \in [Workers -> WorkerType]
  BY DEF TypeOK
<1>1. ASSUME NEW job \in mail, Take(w, job) PROVE Typed'
  <2>1. job \in JobType /\ job.lo \in Nat
    BY DEF TypeOK, JobType
  <2>2. Bad \in Tag
    BY DEF Bad, Tag
  <2>3. [st |-> "read", job |-> job, at |-> job.lo, blk |-> Bad] \in WorkerType
    BY <2>1, <2>2 DEF WorkerType
  <2>4. wk' \in [Workers -> WorkerType]
    BY <1>0, <1>1, <2>3 DEF Take
  <2>5. mail' \subseteq JobType /\ IsFiniteSet(mail')
    BY <1>1, FS_RemoveElement DEF Take, TypeOK
  <2> QED BY <1>1, <2>4, <2>5 DEF Take, coord, TypeOK, PassInRange, LastPass
<1>2. CASE Read(w)
  <2>1. wk' \in [Workers -> WorkerType]
    BY <1>0, <1>2, TransformedType DEF Read, Onto, WorkerType
  <2> QED BY <1>2, <2>1 DEF Read, coord, TypeOK, PassInRange, LastPass
<1>3. CASE Write(w)
  <2>1. wk' \in [Workers -> WorkerType]
    BY <1>0, <1>3, TileEndType DEF Write, Onto, WorkerType
  <2>2. data' \in [(0..N1-1) \X (0..N2-1) -> Tag]
    BY <1>0, <1>3 DEF Write, TypeOK, WorkerType
  <2> QED BY <1>3, <2>1, <2>2 DEF Write, coord, TypeOK, PassInRange, LastPass
<1>4. CASE Throw(w)
  <2>1. wk' \in [Workers -> WorkerType] /\ wk[w].job.id \in Nat
    BY <1>0, <1>4 DEF Throw, Then, Onto, WorkerType, JobType
  <2> QED BY <1>4, <2>1 DEF Throw, coord, TypeOK, PassInRange, LastPass
<1>5. CASE StoreFailed(w)
  <2>1. wk' \in [Workers -> WorkerType]
    BY <1>0, <1>5 DEF StoreFailed, Then, Onto, WorkerType
  <2> QED BY <1>5, <2>1 DEF StoreFailed, coord, TypeOK, PassInRange, LastPass
<1>6. CASE Add(w)
  <2>1. wk' \in [Workers -> WorkerType]
    BY <1>0, <1>6 DEF Add, Then, Onto, WorkerType
  <2> QED BY <1>6, <2>1 DEF Add, coord, TypeOK, PassInRange, LastPass
<1>7. CASE Notify(w)
  <2>1. Free \in WorkerType
    BY PoolAssumption DEF Free, NoJob, Bad, Tag, WorkerType, JobType, Workers
  <2>2. wk' \in [Workers -> WorkerType]
    BY <1>0, <1>7, <2>1 DEF Notify
  <2> QED BY <1>7, <2>2 DEF Notify, TypeOK, Pcs, PassInRange, LastPass
<1> QED
  BY <1>1, <1>2, <1>3, <1>4, <1>5, <1>6, <1>7 DEF Work

(* Every step keeps the types.                                             *)
LEMMA NextTyped ==
  ASSUME Typed, [Next]_vars
  PROVE  Typed'
<1>1. CASE BeginSome
  <2>1. MaxPoints \in Nat
    BY PoolAssumption
  <2>2. \E op \in Ops, n \in Nat : Begin(op, n)
    BY <1>1, <2>1 DEF BeginSome, Ops, FFTs
  <2> QED BY <2>2, BeginTyped
<1>2. CASE Coordinate
  BY <1>2, CoordinateTyped
<1>3. ASSUME NEW w \in Workers, Work(w) PROVE Typed'
  BY <1>3, WorkTyped
<1>4. CASE UNCHANGED vars
  BY <1>4 DEF vars, coord, Typed, TypeOK, PassInRange, LastPass
<1> QED
  BY <1>1, <1>2, <1>3, <1>4 DEF Next

(* Every variable of the pool keeps its type.                              *)
THEOREM TypeCorrect == Spec => []TypeOK
<1>1. Init => Typed
  BY InitTyped
<1>2. Typed /\ [Next]_vars => Typed'
  BY NextTyped
<1>3. Typed => TypeOK
  BY DEF Typed
<1> QED
  BY <1>1, <1>2, <1>3, PTL DEF Spec

-----------------------------------------------------------------------------
(* The barrier.                                                            *)

(* What the counter counts: between the first post and the end of the      *)
(* barrier, each posted job is queued, running or counted, exactly once,   *)
(* and outside of it none is left.                                         *)
Accounting ==
  /\ pc = "post" => posted <= NumJobs
  /\ pc \in {"load", "wait", "asleep", "check"} => posted = NumJobs
  /\ pc \notin {"idle", "reset"} => count + Cardinality(mail) + Cardinality(Busy) = posted
  /\ pc \in {"idle", "reset", "check"} => mail = {} /\ Busy = {}
  /\ \A j \in mail : j.k <= posted

Counted == Typed /\ Accounting

(* A counter that has reached the total leaves nothing uncounted.          *)
LEMMA AllCounted ==
  ASSUME NEW a \in Nat, NEW b \in Nat, NEW c \in Nat, NEW n \in Nat,
         a >= n, a + b + c = n
  PROVE  b = 0 /\ c = 0
  OBVIOUS

(* Only finitely many workers are busy.                                    *)
LEMMA BusyFinite == IsFiniteSet(Busy) /\ Cardinality(Busy) \in Nat
<1>1. IsFiniteSet(Workers)
  BY PoolAssumption, FS_Interval DEF Workers
<1>2. Busy \in SUBSET Workers
  BY DEF Busy
<1>3. IsFiniteSet(Busy)
  BY <1>1, <1>2, FS_Subset
<1> QED
  BY <1>3, FS_CardinalityType

(* The queue has a size.                                                   *)
LEMMA MailFinite ==
  ASSUME TypeOK
  PROVE  IsFiniteSet(mail) /\ Cardinality(mail) \in Nat
<1>1. IsFiniteSet(mail)
  BY DEF TypeOK
<1> QED
  BY <1>1, FS_CardinalityType

(* How many jobs a pass has depends on the call and the pass only.         *)
LEMMA NumJobsUnchanged ==
  ASSUME UNCHANGED <<call, pass>>
  PROVE  NumJobs' = NumJobs
  BY DEF NumJobs, Jobs, Kind

(* Initially nothing is posted, queued or running.                         *)
LEMMA InitCounted == Init => Counted
<1> SUFFICES ASSUME Init PROVE Counted
  OBVIOUS
<1>1. Busy = {}
  BY DEF Init, Busy, Free
<1> QED
  BY <1>1, InitTyped DEF Init, Counted, Accounting

(* The proving thread keeps the account: it posts jobs it has not posted   *)
(* and leaves the barrier only when the counter accounts for all of them.  *)
LEMMA CoordinateCounted ==
  ASSUME Counted, Coordinate
  PROVE  Accounting'
<1> USE DEF Counted
<1>0. NumJobs \in Nat /\ posted \in Nat /\ count \in Nat
  BY JobsType DEF Typed, TypeOK
<1>1. wk' = wk
  BY DEF Coordinate, Reset, Post, Posted, Load, Wait, Check
<1>2. Busy' = Busy
  BY <1>1 DEF Busy
<1>3. CASE Reset
  <2>1. mail = {} /\ Busy = {} /\ mail' = {} /\ Busy' = {}
    BY <1>3, <1>2 DEF Reset, Accounting
  <2>2. Cardinality({}) = 0
    BY FS_EmptySet
  <2>3. NumJobs' = NumJobs
    BY <1>3, NumJobsUnchanged DEF Reset
  <2>4. pc' = "post" /\ posted' = 0 /\ count' = 0
    BY <1>3 DEF Reset
  <2> QED BY <1>0, <2>1, <2>2, <2>3, <2>4 DEF Accounting
<1>4. CASE Post
  <2>1. pc = "post" /\ pc' = "post" /\ posted < NumJobs /\ count' = count
        /\ posted' = posted + 1 /\ mail' = mail \cup {Job(posted + 1)}
    BY <1>4 DEF Post
  <2>2. Job(posted + 1).k = posted + 1
    BY <1>0, <2>1, JobsType DEF Typed
  <2>3. Job(posted + 1) \notin mail
    BY <1>0, <2>2 DEF Accounting
  <2>4. Cardinality(mail') = Cardinality(mail) + 1
    BY <2>1, <2>3, FS_AddElement, MailFinite DEF Typed
  <2>5. NumJobs' = NumJobs
    BY <1>4, NumJobsUnchanged DEF Post
  <2>6. count' + Cardinality(mail') + Cardinality(Busy') = posted'
    BY <1>0, <1>2, <2>1, <2>4, MailFinite, BusyFinite DEF Accounting, Typed
  <2>7. \A j \in mail' : j.k <= posted'
    <3> SUFFICES ASSUME NEW j \in mail' PROVE j.k <= posted'
      OBVIOUS
    <3>1. CASE j \in mail
      <4>1. j.k \in Nat /\ j.k <= posted
        BY <3>1 DEF Accounting, Typed, TypeOK, JobType
      <4> QED BY <1>0, <2>1, <4>1
    <3>2. CASE j = Job(posted + 1)
      BY <1>0, <2>1, <2>2, <3>2
    <3> QED BY <2>1, <3>1, <3>2
  <2> QED BY <1>0, <2>1, <2>5, <2>6, <2>7 DEF Accounting
<1>5. CASE Posted
  <2>1. NumJobs' = NumJobs
    BY <1>5, NumJobsUnchanged DEF Posted
  <2> QED BY <1>2, <1>5, <2>1 DEF Posted, Accounting
<1>6. CASE Load
  <2>1. NumJobs' = NumJobs
    BY <1>6, NumJobsUnchanged DEF Load
  <2>2. pc = "load" /\ mail' = mail /\ count' = count /\ posted' = posted
        /\ pc' = (IF count >= NumJobs THEN "check" ELSE "wait")
    BY <1>6 DEF Load
  <2>3. pc' = "check" => mail = {} /\ Busy = {}
    <3>1. SUFFICES ASSUME pc' = "check" PROVE mail = {} /\ Busy = {}
      OBVIOUS
    <3>2. count >= NumJobs
      BY <2>2, <3>1
    <3>3. count + Cardinality(mail) + Cardinality(Busy) = NumJobs
      BY <2>2 DEF Accounting
    <3>4. Cardinality(mail) \in Nat /\ Cardinality(Busy) \in Nat
      BY MailFinite, BusyFinite DEF Typed
    <3>5. Cardinality(mail) = 0 /\ Cardinality(Busy) = 0
      BY <1>0, <3>2, <3>3, <3>4, AllCounted
    <3> QED BY <3>5, MailFinite, BusyFinite, FS_EmptySet DEF Typed
  <2> QED BY <1>2, <2>1, <2>2, <2>3 DEF Accounting
<1>7. CASE Wait
  <2>1. NumJobs' = NumJobs
    BY <1>7, NumJobsUnchanged DEF Wait
  <2> QED BY <1>2, <1>7, <2>1 DEF Wait, Accounting
<1>8. CASE Check
  <2>1. mail' = {} /\ Busy' = {} /\ pc' \in {"idle", "reset"}
    BY <1>2, <1>8 DEF Check, Accounting
  <2> QED BY <2>1 DEF Accounting
<1> QED
  BY <1>3, <1>4, <1>5, <1>6, <1>7, <1>8 DEF Coordinate

(* A worker keeps the account: it takes a queued job, and counts it when   *)
(* it is done with it, failed or not.                                      *)
LEMMA WorkCounted ==
  ASSUME Counted, NEW w \in Workers, Work(w)
  PROVE  Accounting'
<1> USE DEF Counted
<1>0. NumJobs \in Nat /\ posted \in Nat /\ count \in Nat /\ wk \in [Workers -> WorkerType]
  BY JobsType DEF Typed, TypeOK
<1>1. ASSUME NEW job \in mail, Take(w, job) PROVE Accounting'
  <2>1. mail' = mail \ {job} /\ UNCHANGED <<pc, call, pass, posted, count>>
    BY <1>1 DEF Take, coord
  <2>2. Busy' = Busy \cup {w} /\ w \notin Busy
    BY <1>0, <1>1 DEF Take, Busy
  <2>3. Cardinality(mail') = Cardinality(mail) - 1
    BY <2>1, FS_RemoveElement, MailFinite DEF Typed
  <2>4. Cardinality(Busy') = Cardinality(Busy) + 1
    BY <2>2, FS_AddElement, BusyFinite
  <2>5. NumJobs' = NumJobs
    BY <2>1, NumJobsUnchanged
  <2>6. pc \notin {"idle", "reset", "check"}
    BY DEF Accounting
  <2>7. Cardinality(mail) \in Nat /\ Cardinality(Busy) \in Nat
    BY MailFinite, BusyFinite DEF Typed
  <2>8. count' + Cardinality(mail') + Cardinality(Busy') = posted'
    BY <1>0, <2>1, <2>3, <2>4, <2>6, <2>7 DEF Accounting
  <2> QED BY <2>1, <2>5, <2>6, <2>8 DEF Accounting
<1>2. CASE Read(w) \/ Write(w) \/ Throw(w) \/ StoreFailed(w)
  <2>1. UNCHANGED <<pc, call, pass, posted, count, mail>>
    BY <1>2 DEF Read, Write, Throw, StoreFailed, coord
  <2>2. Busy' = Busy
    <3>1. /\ wk[w].st \in {"read", "write", "failed"}
          /\ wk'[w].st \in {"read", "write", "failed", "add"}
          /\ \A v \in Workers : v # w => wk'[v] = wk[v]
      BY <1>0, <1>2 DEF Read, Write, Throw, StoreFailed, Then, Onto
    <3> QED BY <3>1 DEF Busy
  <2>3. NumJobs' = NumJobs
    BY <2>1, NumJobsUnchanged
  <2> QED BY <2>1, <2>2, <2>3 DEF Accounting
<1>3. CASE Add(w)
  <2>1. UNCHANGED <<pc, call, pass, posted, mail>> /\ count' = count + 1
    BY <1>3 DEF Add, coord
  <2>2. Busy' = Busy \ {w} /\ w \in Busy
    BY <1>0, <1>3 DEF Add, Then, Onto, Busy
  <2>3. Cardinality(Busy') = Cardinality(Busy) - 1
    BY <2>2, FS_RemoveElement, BusyFinite
  <2>4. NumJobs' = NumJobs
    BY <2>1, NumJobsUnchanged
  <2>5. pc \notin {"idle", "reset", "check"}
    BY <2>2 DEF Accounting
  <2>6. Cardinality(mail) \in Nat /\ Cardinality(Busy) \in Nat
    BY MailFinite, BusyFinite DEF Typed
  <2>7. count' + Cardinality(mail') + Cardinality(Busy') = posted'
    BY <1>0, <2>1, <2>3, <2>5, <2>6 DEF Accounting
  <2> QED BY <2>1, <2>4, <2>5, <2>7 DEF Accounting
<1>4. CASE Notify(w)
  <2>1. UNCHANGED <<call, pass, posted, count, mail>> /\ pc' = (IF pc = "asleep" THEN "load" ELSE pc)
    BY <1>4 DEF Notify
  <2>2. Busy' = Busy
    BY <1>0, <1>4 DEF Notify, Busy, Free
  <2>3. NumJobs' = NumJobs
    BY <2>1, NumJobsUnchanged
  <2> QED BY <2>1, <2>2, <2>3 DEF Accounting
<1> QED
  BY <1>1, <1>2, <1>3, <1>4 DEF Work

(* Every step keeps the account.                                           *)
LEMMA NextCounted ==
  ASSUME Counted, [Next]_vars
  PROVE  Counted'
<1>0. Typed'
  BY NextTyped DEF Counted
<1>1. CASE BeginSome
  <2>1. pc = "idle" /\ pc' = "reset" /\ mail' = mail /\ wk' = wk /\ posted' = posted
    BY <1>1 DEF BeginSome, Begin
  <2>2. Busy' = Busy
    BY <2>1 DEF Busy
  <2> QED BY <1>0, <2>1, <2>2 DEF Counted, Accounting
<1>2. CASE Coordinate
  BY <1>0, <1>2, CoordinateCounted DEF Counted
<1>3. ASSUME NEW w \in Workers, Work(w) PROVE Counted'
  BY <1>0, <1>3, WorkCounted DEF Counted
<1>4. CASE UNCHANGED vars
  BY <1>0, <1>4, NumJobsUnchanged DEF vars, coord, Counted, Accounting, Busy
<1> QED
  BY <1>1, <1>2, <1>3, <1>4 DEF Next

(* The barrier of _run holds: between barriers no job is queued or         *)
(* running, whatever the number of workers and however kernels fail.       *)
THEOREM BarrierCorrect == Spec => []BarrierHolds
<1>1. Counted => BarrierHolds
  BY DEF Counted, Accounting, BarrierHolds
<1> QED
  BY <1>1, InitCounted, NextCounted, PTL DEF Spec

(* The shared counter never loses or repeats a job.                        *)
THEOREM CounterCorrect == Spec => []CountsJobs
<1>1. Counted => CountsJobs
  BY DEF Counted, Accounting, CountsJobs
<1> QED
  BY <1>1, InitCounted, NextCounted, PTL DEF Spec

-----------------------------------------------------------------------------
(* Failures.                                                               *)

Failing == \E w \in Workers : wk[w].st = "failed"

(* Queued and running jobs are the current call's; inside a barrier the    *)
(* call has had a failing kernel exactly when the flag says so or a worker *)
(* is about to set it; outside, the flag has been acted on.                *)
Reporting ==
  /\ \A j \in mail : j.id = call.id
  /\ \A w \in Busy : wk[w].job.id = call.id
  /\ \A b \in broken : b <= call.id
  /\ pc # "idle" => answer = "none"
  /\ pc = "reset" => call.id \notin broken
  /\ pc \notin {"idle", "reset"} => (call.id \in broken <=> failed \/ Failing)
  /\ FailureReported

Reported == Counted /\ Reporting

(* Initially nothing has failed.                                           *)
LEMMA InitReported == Init => Reported
  BY InitCounted DEF Init, Reported, Reporting, FailureReported, Busy, Free

(* A new call has its own number, which no failure bears yet.              *)
LEMMA BeginReported ==
  ASSUME Reported, BeginSome
  PROVE  Reporting'
<1>1. /\ pc = "idle" /\ pc' = "reset" /\ answer' = "none" /\ call'.id = call.id + 1
      /\ UNCHANGED <<mail, wk, broken>>
  BY DEF BeginSome, Begin
<1>2. mail = {} /\ Busy = {} /\ Busy' = Busy
  BY <1>1 DEF Reported, Counted, Accounting, Busy
<1>3. call.id \in Nat /\ \A b \in broken : b \in Nat /\ b <= call.id
  BY DEF Reported, Reporting, Counted, Typed, TypeOK
<1>4. call.id + 1 \notin broken /\ \A b \in broken : b <= call.id + 1
  BY <1>3
<1> QED
  BY <1>1, <1>2, <1>4 DEF Reporting, FailureReported

(* The proving thread acts on the flag after the barrier, when no worker   *)
(* can set it any more.                                                    *)
LEMMA CoordinateReported ==
  ASSUME Reported, Coordinate
  PROVE  Reporting'
<1> USE DEF Reported
<1>1. UNCHANGED <<call, wk, broken>>
  BY DEF Coordinate, Reset, Post, Posted, Load, Wait, Check
<1>2. Busy' = Busy /\ Failing' = Failing
  BY <1>1 DEF Busy, Failing
<1>3. Busy = {} => ~ Failing
  BY DEF Busy, Failing
<1>4. CASE Reset
  <2>1. Busy = {} /\ call.id \notin broken
    BY <1>4 DEF Reset, Counted, Accounting, Reporting
  <2> QED BY <1>1, <1>2, <1>3, <1>4, <2>1 DEF Reset, Reporting, FailureReported
<1>5. CASE Post
  <2>1. posted \in Nat /\ NumJobs \in Nat /\ posted < NumJobs
    BY <1>5, JobsType DEF Post, Counted, Typed, TypeOK
  <2>2. Job(posted + 1).id = call.id
    BY <2>1, JobsType DEF Counted, Typed
  <2>3. mail' = mail \cup {Job(posted + 1)} /\ UNCHANGED <<pc, answer, failed>>
    BY <1>5 DEF Post
  <2>4. \A j \in mail' : j.id = call.id
    BY <2>2, <2>3 DEF Reporting
  <2> QED BY <1>1, <1>2, <2>3, <2>4 DEF Reporting, FailureReported
<1>6. CASE Posted \/ Load \/ Wait
  <2>1. /\ pc \notin {"idle", "reset"} /\ pc' \notin {"idle", "reset"}
        /\ UNCHANGED <<mail, answer, failed>>
    BY <1>6 DEF Posted, Load, Wait
  <2> QED BY <1>1, <1>2, <2>1 DEF Reporting, FailureReported
<1>7. CASE Check
  <2>1. pc = "check" /\ Busy = {} /\ ~ Failing /\ UNCHANGED <<mail, failed>>
    BY <1>3, <1>7 DEF Check, Counted, Accounting
  <2>2. call.id \in broken <=> failed
    BY <2>1 DEF Reporting
  <2>3. \/ pc' = "idle" /\ answer' = "threw" /\ failed
        \/ pc' = "reset" /\ answer' = answer /\ ~ failed
        \/ pc' = "idle" /\ answer' = "returned" /\ ~ failed
    BY <1>7 DEF Check
  <2> QED BY <1>1, <1>2, <2>1, <2>2, <2>3 DEF Reporting, FailureReported
<1> QED
  BY <1>4, <1>5, <1>6, <1>7 DEF Coordinate

(* A worker's failure is the current call's, and it sets the flag before   *)
(* it counts the job.                                                      *)
LEMMA WorkReported ==
  ASSUME Reported, NEW w \in Workers, Work(w)
  PROVE  Reporting'
<1> USE DEF Reported
<1>0. wk \in [Workers -> WorkerType] /\ call.id \in Nat
  BY DEF Counted, Typed, TypeOK
<1>a. Busy # {} \/ mail # {} => pc \notin {"idle", "reset"}
  BY DEF Counted, Accounting
<1>1. ASSUME NEW job \in mail, Take(w, job) PROVE Reporting'
  <2>1. mail' = mail \ {job} /\ UNCHANGED <<pc, call, answer, failed, broken>>
    BY <1>1 DEF Take, coord
  <2>2. /\ wk[w].st = "idle" /\ wk'[w].st = "read" /\ wk'[w].job = job
        /\ \A v \in Workers : v # w => wk'[v] = wk[v]
    BY <1>0, <1>1 DEF Take
  <2>3. Failing' <=> Failing
    BY <2>2 DEF Failing
  <2>4. \A v \in Busy' : wk'[v].job.id = call.id
    BY <2>2 DEF Busy, Reporting
  <2> QED BY <2>1, <2>3, <2>4 DEF Reporting, FailureReported
<1>2. CASE Read(w) \/ Write(w)
  <2>1. UNCHANGED <<mail, pc, call, answer, failed, broken>>
    BY <1>2 DEF Read, Write, coord
  <2>2. /\ wk[w].st \in {"read", "write"} /\ wk'[w].st \in {"read", "write", "add"}
        /\ wk'[w].job = wk[w].job
        /\ \A v \in Workers : v # w => wk'[v] = wk[v]
    BY <1>0, <1>2 DEF Read, Write, Onto
  <2>3. Failing' <=> Failing
    BY <2>2 DEF Failing
  <2>4. \A v \in Busy' : wk'[v].job.id = call.id
    BY <2>2 DEF Busy, Reporting
  <2> QED BY <2>1, <2>3, <2>4 DEF Reporting, FailureReported
<1>3. CASE Throw(w)
  <2>1. UNCHANGED <<mail, pc, call, answer, failed>> /\ broken' = broken \cup {wk[w].job.id}
    BY <1>3 DEF Throw, coord
  <2>2. /\ wk[w].st = "read" /\ wk'[w].st = "failed" /\ wk'[w].job = wk[w].job
        /\ \A v \in Workers : v # w => wk'[v] = wk[v]
    BY <1>0, <1>3 DEF Throw, Then, Onto
  <2>3. Failing'
    BY <2>2 DEF Failing
  <2>4. w \in Busy /\ wk[w].job.id = call.id
    BY <2>2 DEF Busy, Reporting
  <2>5. \A v \in Busy' : wk'[v].job.id = call.id
    BY <2>2 DEF Busy, Reporting
  <2>6. pc \notin {"idle", "reset"} /\ answer = "none"
    BY <1>a, <2>4 DEF Reporting
  <2>7. call.id \in broken' /\ \A b \in broken' : b <= call.id
    BY <1>0, <2>1, <2>4 DEF Reporting
  <2> QED BY <2>1, <2>3, <2>5, <2>6, <2>7 DEF Reporting, FailureReported
<1>4. CASE StoreFailed(w)
  <2>1. UNCHANGED <<mail, pc, call, answer, broken>> /\ failed'
    BY <1>4 DEF StoreFailed, coord
  <2>2. /\ wk[w].st = "failed" /\ wk'[w].st = "add" /\ wk'[w].job = wk[w].job
        /\ \A v \in Workers : v # w => wk'[v] = wk[v]
    BY <1>0, <1>4 DEF StoreFailed, Then, Onto
  <2>3. w \in Busy /\ Failing
    BY <2>2 DEF Busy, Failing
  <2>4. \A v \in Busy' : wk'[v].job.id = call.id
    BY <2>2 DEF Busy, Reporting
  <2>5. pc \notin {"idle", "reset"} /\ call.id \in broken
    BY <1>a, <2>3 DEF Reporting
  <2> QED BY <2>1, <2>4, <2>5 DEF Reporting, FailureReported
<1>5. CASE Add(w) \/ Notify(w)
  <2>1. /\ UNCHANGED <<mail, call, answer, failed, broken>>
        /\ pc' = pc \/ (pc = "asleep" /\ pc' = "load")
    BY <1>5 DEF Add, Notify, coord
  <2>2. /\ wk[w].st \in {"add", "notify"} /\ wk'[w].st \in {"notify", "idle"}
        /\ \A v \in Workers : v # w => wk'[v] = wk[v]
    BY <1>0, <1>5 DEF Add, Notify, Then, Onto, Free
  <2>3. Failing' <=> Failing
    BY <2>2 DEF Failing
  <2>4. \A v \in Busy' : wk'[v].job.id = call.id
    BY <2>2 DEF Busy, Reporting
  <2> QED BY <2>1, <2>3, <2>4 DEF Reporting, FailureReported
<1> QED
  BY <1>1, <1>2, <1>3, <1>4, <1>5 DEF Work

(* Every step keeps the failures reported.                                 *)
LEMMA NextReported ==
  ASSUME Reported, [Next]_vars
  PROVE  Reported'
<1>0. Counted'
  BY NextCounted DEF Reported
<1>1. CASE BeginSome
  BY <1>0, <1>1, BeginReported DEF Reported
<1>2. CASE Coordinate
  BY <1>0, <1>2, CoordinateReported DEF Reported
<1>3. ASSUME NEW w \in Workers, Work(w) PROVE Reported'
  BY <1>0, <1>3, WorkReported DEF Reported
<1>4. CASE UNCHANGED vars
  BY <1>0, <1>4 DEF vars, coord, Reported, Reporting, FailureReported, Busy, Failing
<1> QED
  BY <1>1, <1>2, <1>3, <1>4 DEF Next

(* A call throws exactly when one of its kernels failed, and the failure   *)
(* of one call is never charged to another.                                *)
THEOREM FailuresReported == Spec => []FailureReported
<1>1. Reported => FailureReported
  BY DEF Reported, Reporting
<1> QED
  BY <1>1, InitReported, NextReported, PTL DEF Spec

-----------------------------------------------------------------------------
(* What the threads compute together.                                      *)

(* The workers whose kernel has still to read or write.                    *)
Running == {w \in Workers : wk[w].st \in {"read", "write"}}

(* The positions a pass divides among its jobs: columns, rows or points.   *)
Length == IF Kind = "cols" THEN N2 ELSE IF Kind = "rows" THEN N1 ELSE call.n
Along(x) == IF Kind = "cols" THEN x[2] ELSE x[1]

(* A position, or a job, this pass has still to do.                        *)
Ahead(i) ==
  \/ \E k \in 1..NumJobs : posted < k /\ i \in Jobs[k][1]..Jobs[k][2]-1
  \/ \E j \in mail : i \in j.lo..j.hi-1
  \/ \E w \in Running : i \in wk[w].at..wk[w].job.hi-1
Undone(k) ==
  \/ posted < k
  \/ \E j \in mail : j.k = k
  \/ \E w \in Running : wk[w].job.k = k

(* Each posted job is with one of the queue and the workers at most, and   *)
(* it is as it was posted.                                                 *)
Owned ==
  /\ \A j \in mail : \E k \in 1..posted : j = Job(k)
  /\ \A w \in Busy : \E k \in 1..posted : wk[w].job = Job(k)
  /\ \A w \in Busy, j \in mail : j.k # wk[w].job.k
  /\ \A v, w \in Busy : wk[v].job.k = wk[w].job.k => v = w
  /\ \A w \in Running : /\ wk[w].job.lo <= wk[w].at
                        /\ wk[w].job.kind # "cols" => wk[w].at = wk[w].job.lo

(* The shared input holds this call's points, as many as fit.              *)
Supplied ==
  /\ call.n <= MaxPoints
  /\ pc # "idle" /\ call.op \notin FFTs => points = call.id

(* What is in the shared buffers, while no kernel of the call has failed:  *)
(* at each position the work of this pass if that is behind it, and of the *)
(* one before it if it is ahead.                                           *)
Done == [id |-> call.id, level |-> pass]
Todo == [id |-> call.id, level |-> pass - 1]

Written ==
  /\ \A w \in Running : wk[w].st = "write" => wk[w].blk = Done
  /\ pc = "reset" /\ call.op \in FFTs => \A x \in DOMAIN data : data[x] = Todo
  /\ pc \notin {"idle", "reset"} /\ call.op \in FFTs =>
       \A x \in DOMAIN data, i \in 0..Length-1 :
         Along(x) = i => data[x] = (IF Ahead(i) THEN Todo ELSE Done)
  /\ pc \notin {"idle", "reset"} /\ call.op = "msm" =>
       \A k \in 1..NumJobs : ~ Undone(k) =>
         out["msm"][k] = [val |-> Done, lo |-> Jobs[k][1], hi |-> Jobs[k][2]]
  /\ pc \notin {"idle", "reset"} /\ call.op = "decompress" =>
       \A i \in 0..Length-1 : ~ Ahead(i) =>
         out["decompress"][i] = [val |-> Done, lo |-> i, hi |-> i + 1]

(* The result buffers are as large as they were made.                      *)
Shaped ==
  /\ out = [b \in {"msm", "decompress"} |-> out[b]]
  /\ out["msm"] = [k \in 1..W |-> out["msm"][k]]
  /\ out["decompress"] = [i \in 0..MaxPoints-1 |-> out["decompress"][i]]

(* Everything a call returns is computed as it should be.                  *)
Computing ==
  /\ Shaped /\ Owned /\ Supplied
  /\ pc # "idle" /\ call.id \notin broken => Written
  /\ answer = "returned" => Whole

Computed == Reported /\ Computing

(* The jobs of a pass divide its positions among themselves.               *)
LEMMA Layout ==
  ASSUME Typed
  PROVE  /\ NumJobs \in 0..W /\ DOMAIN Jobs = 1..NumJobs /\ Length \in Nat
         /\ \A k \in 1..NumJobs : Jobs[k][1] \in Nat /\ Jobs[k][2] \in 0..Length
         /\ \A i \in 0..Length-1 : \E k \in 1..NumJobs : i \in Jobs[k][1]..Jobs[k][2]-1
         /\ \A i \in 0..Length-1, k, l \in 1..NumJobs :
              i \in Jobs[k][1]..Jobs[k][2]-1 /\ i \in Jobs[l][1]..Jobs[l][2]-1 => k = l
<1>1. call.n \in Nat /\ N1 \in Nat /\ N2 \in Nat /\ Tile \in Nat \ {0} /\ W \in Nat
  BY PoolAssumption DEF Typed, TypeOK
<1>2. Length \in Nat
  BY <1>1 DEF Length
<1>3. PICK align \in Nat \ {0} : Jobs = RangesOf(Length, align)
  BY <1>1 DEF Jobs, Length
<1>4. PICK m \in 0..W :
           /\ DOMAIN Jobs = 1..m
           /\ \A k \in 1..m : Jobs[k][1] \in Nat /\ Jobs[k][2] \in 0..Length
           /\ \A i \in 0..Length-1 : \E k \in 1..m : i \in Jobs[k][1]..Jobs[k][2]-1
           /\ \A i \in 0..Length-1, k, l \in 1..m :
                i \in Jobs[k][1]..Jobs[k][2]-1 /\ i \in Jobs[l][1]..Jobs[l][2]-1 => k = l
  BY <1>2, <1>3, RangesPartition
<1>5. NumJobs = m
  BY <1>1, <1>4, FS_Interval DEF NumJobs
<1> QED
  BY <1>2, <1>4, <1>5

(* What a posted job says.                                                 *)
LEMMA JobFields ==
  ASSUME NEW k
  PROVE  /\ Job(k).id = call.id /\ Job(k).pass = pass /\ Job(k).kind = Kind /\ Job(k).k = k
         /\ Job(k).lo = Jobs[k][1] /\ Job(k).hi = Jobs[k][2]
  BY DEF Job

(* The jobs depend on the call and the pass only.                          *)
LEMMA SamePass ==
  ASSUME UNCHANGED <<call, pass>>
  PROVE  /\ NumJobs' = NumJobs /\ Jobs' = Jobs /\ Kind' = Kind /\ Length' = Length
         /\ LastPass' = LastPass /\ Done' = Done /\ Todo' = Todo
         /\ \A k : Job(k)' = Job(k)
         /\ \A x : Along(x)' = Along(x)
  BY DEF NumJobs, Jobs, Kind, Length, LastPass, Done, Todo, Job, Along

(* A worker whose kernel is running holds a job.                           *)
LEMMA RunningBusy == Running \subseteq Busy /\ Busy \subseteq Workers
  BY DEF Running, Busy

(* The proving thread and the start of a call keep the jobs as posted.     *)
LEMMA CoordinateOwned ==
  ASSUME Counted, Owned, Coordinate \/ BeginSome
  PROVE  Owned'
<1>1. wk' = wk
  BY DEF Coordinate, BeginSome, Begin, Reset, Post, Posted, Load, Wait, Check
<1>2. Busy' = Busy /\ Running' = Running
  BY <1>1 DEF Busy, Running
<1>3. CASE BeginSome \/ Reset \/ Check
  <2>1. mail = {} /\ Busy = {} /\ mail' = mail
    BY <1>3 DEF BeginSome, Begin, Reset, Check, Counted, Accounting
  <2> QED BY <1>2, <2>1, RunningBusy DEF Owned
<1>4. CASE Post
  <2>1. /\ posted \in Nat /\ posted' = posted + 1 /\ mail' = mail \cup {Job(posted + 1)}
        /\ UNCHANGED <<call, pass>>
    BY <1>4 DEF Post, Counted, Typed, TypeOK
  <2>2. \A k : Job(k)' = Job(k)
    BY <2>1, SamePass
  <2>3. Job(posted + 1).k = posted + 1
    BY JobFields
  <2>4. \A j \in mail' : \E k \in 1..posted' : j = Job(k)'
    BY <2>1, <2>2, <2>3 DEF Owned
  <2>5. \A w \in Busy : \E k \in 1..posted' : wk[w].job = Job(k)'
    BY <2>1, <2>2 DEF Owned
  <2>6. \A w \in Busy, j \in mail' : j.k # wk[w].job.k
    <3>1. \A w \in Busy : wk[w].job.k \in 1..posted
      BY JobFields DEF Owned
    <3> QED BY <2>1, <2>3, <3>1 DEF Owned
  <2> QED BY <1>1, <1>2, <2>4, <2>5, <2>6 DEF Owned
<1>5. CASE Posted \/ Load \/ Wait
  <2>1. UNCHANGED <<call, pass, posted, mail>>
    BY <1>5 DEF Posted, Load, Wait
  <2> QED BY <1>1, <1>2, <2>1, SamePass DEF Owned
<1> QED
  BY <1>3, <1>4, <1>5 DEF Coordinate

(* A worker takes a job out of the queue and keeps it until it counts it.  *)
LEMMA WorkOwned ==
  ASSUME Counted, Owned, NEW w \in Workers, Work(w)
  PROVE  Owned'
<1>0. wk \in [Workers -> WorkerType] /\ Tile \in Nat
  BY PoolAssumption DEF Counted, Typed, TypeOK
<1>a. UNCHANGED <<call, pass, posted>>
  BY DEF Work, Take, Read, Write, Throw, StoreFailed, Add, Notify, coord
<1>b. \A k : Job(k)' = Job(k)
  BY <1>a, SamePass
<1>1. ASSUME NEW job \in mail, Take(w, job) PROVE Owned'
  <2>1. /\ mail' = mail \ {job} /\ w \notin Busy
        /\ wk'[w] = [st |-> "read", job |-> job, at |-> job.lo, blk |-> Bad]
        /\ \A v \in Workers : v # w => wk'[v] = wk[v]
    BY <1>0, <1>1 DEF Take, Busy
  <2>2. Busy' = Busy \cup {w} /\ Running' = Running \cup {w}
    BY <2>1 DEF Busy, Running
  <2>3. job.lo \in Nat
    BY DEF Counted, Typed, TypeOK, JobType
  <2>4. \A j \in mail' : j.k # job.k
    <3>1. \A j \in mail : j = Job(j.k)
      BY JobFields DEF Owned
    <3> QED BY <2>1, <3>1
  <2>5. \A v \in Busy : wk'[v] = wk[v] /\ wk[v].job.k # job.k
    BY <2>1, RunningBusy DEF Owned
  <2>6. \A v \in Busy' : \E k \in 1..posted' : wk'[v].job = Job(k)'
    BY <1>a, <1>b, <2>1, <2>2, <2>5 DEF Owned
  <2>7. \A v \in Busy', j \in mail' : j.k # wk'[v].job.k
    BY <2>1, <2>2, <2>4, <2>5 DEF Owned
  <2>8. \A v, u \in Busy' : wk'[v].job.k = wk'[u].job.k => v = u
    BY <2>1, <2>2, <2>5 DEF Owned
  <2>9. \A v \in Running' : /\ wk'[v].job.lo <= wk'[v].at
                            /\ wk'[v].job.kind # "cols" => wk'[v].at = wk'[v].job.lo
    BY <2>1, <2>2, <2>3, <2>5, RunningBusy DEF Owned
  <2>10. \A j \in mail' : \E k \in 1..posted' : j = Job(k)'
    BY <1>a, <1>b, <2>1 DEF Owned
  <2> QED BY <2>6, <2>7, <2>8, <2>9, <2>10 DEF Owned
<1>2. CASE Read(w) \/ Write(w) \/ Throw(w) \/ StoreFailed(w)
  <2>1. /\ mail' = mail
        /\ wk[w].st \in {"read", "write", "failed"}
        /\ wk'[w].st \in {"read", "write", "failed", "add"}
        /\ wk'[w].job = wk[w].job
        /\ \A v \in Workers : v # w => wk'[v] = wk[v]
    BY <1>0, <1>2 DEF Read, Write, Throw, StoreFailed, Then, Onto
  <2>2. Busy' = Busy /\ \A v \in Workers : wk'[v].job = wk[v].job
    BY <2>1 DEF Busy
  <2>3. Running' \subseteq Workers /\ \A v \in Running' : v # w => v \in Running
    BY <2>1 DEF Running
  <2>4. w \in Running' => /\ wk'[w].job.lo <= wk'[w].at
                          /\ wk'[w].job.kind # "cols" => wk'[w].at = wk'[w].job.lo
    <3> SUFFICES ASSUME w \in Running'
                 PROVE  /\ wk[w].job.lo <= wk'[w].at
                        /\ wk[w].job.kind # "cols" => wk'[w].at = wk[w].job.lo
      BY <2>1
    <3>0. wk[w].at \in Nat /\ wk[w].job.hi \in Nat /\ wk[w].job.lo \in Nat
      BY <1>0 DEF WorkerType, JobType
    <3>1. CASE Read(w)
      BY <1>0, <3>1 DEF Read, Onto, Owned, Running
    <3>2. CASE Write(w)
      <4>1. w \in Running
        BY <3>2 DEF Write, Running
      <4>2. /\ wk'[w].at = TileEnd(wk[w].job, wk[w].at)
            /\ TileEnd(wk[w].job, wk[w].at) < wk[w].job.hi
        BY <1>0, <3>0, <3>2, TileEndType DEF Write, Onto, Running, Counted, Typed
      <4>3. wk[w].job.kind = "cols" /\ wk'[w].at = wk[w].at + Tile
        BY <1>0, <3>0, <4>2 DEF TileEnd, Least
      <4> QED BY <1>0, <3>0, <4>1, <4>3 DEF Owned
    <3>3. CASE Throw(w) \/ StoreFailed(w)
      BY <1>0, <3>3 DEF Throw, StoreFailed, Then, Onto, Running
    <3> QED BY <1>2, <3>1, <3>2, <3>3
  <2>5. \A v \in Running' : /\ wk'[v].job.lo <= wk'[v].at
                            /\ wk'[v].job.kind # "cols" => wk'[v].at = wk'[v].job.lo
    BY <2>1, <2>3, <2>4 DEF Owned
  <2>6. \A v \in Busy : wk'[v].job = wk[v].job
    BY <2>2, RunningBusy
  <2> QED BY <1>a, <1>b, <2>1, <2>2, <2>5, <2>6 DEF Owned
<1>3. CASE Add(w) \/ Notify(w)
  <2>1. /\ mail' = mail /\ wk'[w].st \in {"notify", "idle"}
        /\ \A v \in Workers : v # w => wk'[v] = wk[v]
    BY <1>0, <1>3 DEF Add, Notify, Then, Onto, Free
  <2>2. /\ Busy' \subseteq Busy /\ Running' \subseteq Running
        /\ \A v \in Busy' : wk'[v] = wk[v]
    BY <2>1 DEF Busy, Running
  <2>3. \A v \in Running' : wk'[v] = wk[v]
    BY <2>1 DEF Running
  <2> QED BY <1>a, <1>b, <2>1, <2>2, <2>3 DEF Owned
<1> QED
  BY <1>1, <1>2, <1>3 DEF Work

-----------------------------------------------------------------------------
(* What is still to do.                                                    *)

(* A job's range is the one the pass gives it.                             *)
LEMMA OwnedRange ==
  ASSUME Counted, Owned
  PROVE  /\ \A j \in mail : j.k \in 1..posted /\ j = Job(j.k)
         /\ \A w \in Busy : wk[w].job.k \in 1..posted /\ wk[w].job = Job(wk[w].job.k)
         /\ pc \notin {"idle", "reset"} => posted \in 0..NumJobs
<1>1. \A j \in mail : j.k \in 1..posted /\ j = Job(j.k)
  BY JobFields DEF Owned
<1>2. \A w \in Busy : wk[w].job.k \in 1..posted /\ wk[w].job = Job(wk[w].job.k)
  BY JobFields DEF Owned
<1>3. pc \notin {"idle", "reset"} => posted \in 0..NumJobs
  BY JobsType DEF Counted, Accounting, Typed, TypeOK, Pcs
<1> QED
  BY <1>1, <1>2, <1>3

(* Posting a job moves it to the queue: it is to do as before.             *)
LEMMA PostAhead ==
  ASSUME Counted, Owned, Post
  PROVE  /\ \A i : Ahead(i)' <=> Ahead(i)
         /\ \A k \in 1..NumJobs : Undone(k)' <=> Undone(k)
<1>1. /\ posted \in Nat /\ posted' = posted + 1 /\ mail' = mail \cup {Job(posted + 1)}
      /\ wk' = wk /\ UNCHANGED <<call, pass>> /\ posted < NumJobs
  BY DEF Post, Counted, Typed, TypeOK
<1>2. NumJobs' = NumJobs /\ Jobs' = Jobs /\ NumJobs \in Nat /\ Running' = Running
  BY <1>1, SamePass, JobsType DEF Counted, Typed, Running
<1>3. Job(posted + 1).k = posted + 1
      /\ Job(posted + 1).lo = Jobs[posted + 1][1] /\ Job(posted + 1).hi = Jobs[posted + 1][2]
  BY JobFields
<1>4. posted + 1 \in 1..NumJobs 
      /\ \A k \in 1..NumJobs : posted < k <=> posted + 1 < k \/ k = posted + 1
  BY <1>1, <1>2
<1> HIDE DEF NumJobs, Jobs
<1>5. ASSUME NEW i
      PROVE  Ahead(i)' <=> Ahead(i)
  BY <1>1, <1>2, <1>3, <1>4 DEF Ahead
<1>6. ASSUME NEW k \in 1..NumJobs
      PROVE  Undone(k)' <=> Undone(k)
  BY <1>1, <1>2, <1>3, <1>4 DEF Undone
<1> QED
  BY <1>5, <1>6

(* So it is when a worker takes it out of the queue.                       *)
LEMMA TakeAhead ==
  ASSUME Counted, Owned, NEW w \in Workers, NEW job \in mail, Take(w, job)
  PROVE  /\ \A i : Ahead(i)' <=> Ahead(i)
         /\ \A k \in 1..NumJobs : Undone(k)' <=> Undone(k)
<1>1. /\ mail' = mail \ {job} /\ w \notin Running
      /\ wk'[w] = [st |-> "read", job |-> job, at |-> job.lo, blk |-> Bad]
      /\ \A v \in Workers : v # w => wk'[v] = wk[v]
      /\ UNCHANGED <<call, pass, posted>>
  BY DEF Take, Running, coord, Counted, Typed, TypeOK
<1>2. Running' = Running \cup {w} /\ \A v \in Running : wk'[v] = wk[v]
  BY <1>1 DEF Running
<1>3. NumJobs' = NumJobs /\ Jobs' = Jobs
  BY <1>1, SamePass
<1>4. ASSUME NEW i
      PROVE  Ahead(i)' <=> Ahead(i)
  BY <1>1, <1>2, <1>3 DEF Ahead
<1>5. ASSUME NEW k \in 1..NumJobs
      PROVE  Undone(k)' <=> Undone(k)
  BY <1>1, <1>2, <1>3 DEF Undone
<1> QED
  BY <1>4, <1>5

(* A step that touches no job leaves to do what there was.                 *)
LEMMA SameAhead ==
  ASSUME UNCHANGED <<call, pass, posted, mail, Running>>,
         \A v \in Running : wk'[v].job = wk[v].job /\ wk'[v].at = wk[v].at
  PROVE  /\ \A i : Ahead(i)' <=> Ahead(i)
         /\ \A k \in 1..NumJobs : Undone(k)' <=> Undone(k)
<1>1. NumJobs' = NumJobs /\ Jobs' = Jobs
  BY SamePass
<1>2. ASSUME NEW i
      PROVE  Ahead(i)' <=> Ahead(i)
  BY <1>1 DEF Ahead
<1>3. ASSUME NEW k \in 1..NumJobs
      PROVE  Undone(k)' <=> Undone(k)
  BY <1>1 DEF Undone
<1> QED
  BY <1>2, <1>3

(* Writing a tile puts its positions, and no others, behind.               *)
LEMMA WriteAhead ==
  ASSUME Counted, Owned, NEW w \in Workers, Write(w)
  PROVE  /\ \A i \in 0..Length-1 :
              Ahead(i)' <=> Ahead(i) /\ i \notin wk[w].at..TileEnd(wk[w].job, wk[w].at)-1
         /\ \A k \in 1..NumJobs : wk[w].job.kind # "cols" =>
              (Undone(k)' <=> Undone(k) /\ k # wk[w].job.k)
<1> DEFINE job == wk[w].job
           at  == wk[w].at
           end == TileEnd(job, at)
<1>0. wk \in [Workers -> WorkerType] /\ wk[w] \in WorkerType /\ job \in JobType
      /\ at \in Nat /\ end \in Nat /\ job.hi \in Nat /\ job.lo \in Nat /\ posted \in Nat
  BY TileEndType DEF Counted, Typed, TypeOK, WorkerType, JobType
<1>1. /\ wk[w].st = "write" /\ UNCHANGED <<call, pass, posted, mail, pc>>
      /\ wk'[w] = [st |-> IF end >= job.hi THEN "add" ELSE "read", job |-> job, at |-> end,
                   blk |-> wk[w].blk]
      /\ \A v \in Workers : v # w => wk'[v] = wk[v]
  BY <1>0 DEF Write, Onto, coord
<1>2. w \in Running /\ w \in Busy
  BY <1>1 DEF Running, Busy
<1>3. /\ job.k \in 1..posted /\ job = Job(job.k) /\ job.lo <= at
      /\ job.lo = Jobs[job.k][1] /\ job.hi = Jobs[job.k][2]
      /\ job.kind # "cols" => at = job.lo
  BY <1>2, OwnedRange, JobFields DEF Owned
<1>4. posted \in 0..NumJobs /\ NumJobs \in Nat
  BY <1>2, OwnedRange, JobsType DEF Counted, Accounting, Typed
<1>5. NumJobs' = NumJobs /\ Jobs' = Jobs
  BY <1>1, SamePass
<1>6. /\ \A v \in Workers : v # w => (v \in Running' <=> v \in Running) /\ wk'[v] = wk[v]
      /\ w \in Running' <=> end < job.hi
  BY <1>0, <1>1 DEF Running
<1>7. end <= job.hi /\ (job.kind # "cols" => end = job.hi) /\ (at <= end \/ end = job.hi)
  BY <1>0, PoolAssumption DEF TileEnd, Least
<1>8. ASSUME NEW i \in 0..Length-1
      PROVE  Ahead(i)' <=> Ahead(i) /\ i \notin at..end-1
  <2>1. i \in job.lo..job.hi-1 =>
          /\ \A k \in 1..NumJobs : posted < k => i \notin Jobs[k][1]..Jobs[k][2]-1
          /\ \A j \in mail : i \notin j.lo..j.hi-1
          /\ \A v \in Running : v # w => i \notin wk[v].at..wk[v].job.hi-1
    <3> SUFFICES ASSUME i \in job.lo..job.hi-1
                 PROVE  /\ \A k \in 1..NumJobs : posted < k => i \notin Jobs[k][1]..Jobs[k][2]-1
                        /\ \A j \in mail : i \notin j.lo..j.hi-1
                        /\ \A v \in Running : v # w => i \notin wk[v].at..wk[v].job.hi-1
      OBVIOUS
    <3>1. job.k \in 1..NumJobs /\ \A k \in 1..NumJobs : i \in Jobs[k][1]..Jobs[k][2]-1 => k = job.k
      BY <1>3, <1>4, Layout DEF Counted
    <3>2. \A k \in 1..NumJobs : posted < k => i \notin Jobs[k][1]..Jobs[k][2]-1
      BY <1>3, <1>4, <3>1
    <3>3. ASSUME NEW j \in mail PROVE i \notin j.lo..j.hi-1
      <4>1. j.k \in 1..NumJobs /\ j.lo = Jobs[j.k][1] /\ j.hi = Jobs[j.k][2] /\ j.k # job.k
        BY <1>2, <1>4, OwnedRange, JobFields DEF Owned
      <4> QED BY <3>1, <4>1
    <3>4. ASSUME NEW v \in Running, v # w PROVE i \notin wk[v].at..wk[v].job.hi-1
      <4>1. v \in Busy /\ v \in Workers
        BY RunningBusy
      <4>2. wk[v].job.k \in 1..NumJobs /\ wk[v].job.lo = Jobs[wk[v].job.k][1]
            /\ wk[v].job.hi = Jobs[wk[v].job.k][2] /\ wk[v].job.k # job.k
        BY <1>2, <1>4, <3>4, <4>1, OwnedRange, JobFields DEF Owned
      <4>3. wk[v].job.lo <= wk[v].at /\ wk[v].job.lo \in Nat /\ wk[v].at \in Nat
            /\ wk[v].job.hi \in Nat
        BY <1>0, <4>1 DEF Owned, WorkerType, JobType
      <4>4. i \notin wk[v].job.lo..wk[v].job.hi-1
        BY <3>1, <4>2
      <4> QED BY <4>3, <4>4
    <3> QED BY <3>2, <3>3, <3>4
  <2>2. i \in Int
    OBVIOUS
  <2>3. i \in at..end-1 => i \in job.lo..job.hi-1
    BY <1>0, <1>3, <1>7, <2>2
  <2>4. i \in at..job.hi-1 <=> i \in at..end-1 \/ (end < job.hi /\ i \in end..job.hi-1)
    BY <1>0, <1>7, <2>2
  <2>a. (end < job.hi /\ i \in end..job.hi-1) => i \notin at..end-1
    BY <1>0, <2>2
  <2> HIDE DEF job, at, end
  <2>5. Ahead(i) <=>
          \/ \E k \in 1..NumJobs : posted < k /\ i \in Jobs[k][1]..Jobs[k][2]-1
          \/ \E j \in mail : i \in j.lo..j.hi-1
          \/ \E v \in Running : v # w /\ i \in wk[v].at..wk[v].job.hi-1
          \/ i \in at..job.hi-1
    BY <1>2 DEF Ahead, job, at
  <2>6. Ahead(i)' <=>
          \/ \E k \in 1..NumJobs : posted < k /\ i \in Jobs[k][1]..Jobs[k][2]-1
          \/ \E j \in mail : i \in j.lo..j.hi-1
          \/ \E v \in Running : v # w /\ i \in wk[v].at..wk[v].job.hi-1
          \/ end < job.hi /\ i \in end..job.hi-1
    <3>1. (\E v \in Running' : i \in wk'[v].at..wk'[v].job.hi-1) <=>
             \/ \E v \in Running : v # w /\ i \in wk[v].at..wk[v].job.hi-1
             \/ end < job.hi /\ i \in end..job.hi-1
      <4>1. wk'[w].at = end /\ wk'[w].job = job
        BY <1>1 DEF end, job, at
      <4>2. Running \subseteq Workers /\ Running' \subseteq Workers
        BY DEF Running
      <4> QED BY <1>6, <4>1, <4>2
    <3> QED BY <1>1, <1>5, <3>1 DEF Ahead
  <2> QED BY <2>1, <2>3, <2>4, <2>a, <2>5, <2>6
<1>9. ASSUME NEW k \in 1..NumJobs, job.kind # "cols"
      PROVE  Undone(k)' <=> Undone(k) /\ k # job.k
  <2>1. w \notin Running'
    BY <1>0, <1>6, <1>7, <1>9
  <2>2. Running' = Running \ {w}
    BY <1>6, <2>1 DEF Running
  <2>3. ~ (posted < job.k) /\ \A j \in mail : j.k # job.k
    BY <1>0, <1>2, <1>3 DEF Owned
  <2>4. \A v \in Running : v # w => wk[v].job.k # job.k
    BY <1>2, RunningBusy DEF Owned
  <2>5. \A v \in Running' : wk'[v] = wk[v]
    BY <1>6, <2>2, RunningBusy
  <2> HIDE DEF job
  <2>6. Undone(k) <=> (posted < k \/ (\E j \in mail : j.k = k)
                        \/ (\E v \in Running \ {w} : wk[v].job.k = k) \/ job.k = k)
    BY <1>2 DEF Undone, job
  <2>7. Undone(k)' <=> (posted < k \/ (\E j \in mail : j.k = k)
                        \/ (\E v \in Running \ {w} : wk[v].job.k = k))
    BY <1>1, <2>2, <2>5 DEF Undone
  <2> QED BY <2>3, <2>4, <2>6, <2>7
<1> QED
  BY <1>8, <1>9

-----------------------------------------------------------------------------
(* What has been done.                                                     *)

(* A running job is one of this pass, within the positions of the pass.    *)
LEMMA RunningJob ==
  ASSUME Counted, Owned, NEW w \in Running
  PROVE  /\ wk[w].job.id = call.id /\ wk[w].job.pass = pass /\ wk[w].job.kind = Kind
         /\ wk[w].job.k \in 1..NumJobs /\ wk[w].job.lo = Jobs[wk[w].job.k][1]
         /\ wk[w].job.hi = Jobs[wk[w].job.k][2]
         /\ wk[w].job.lo \in Nat /\ wk[w].job.hi \in 0..Length /\ wk[w].at \in Nat
         /\ wk[w].job.lo <= wk[w].at /\ (Kind # "cols" => wk[w].at = wk[w].job.lo)
         /\ pc \notin {"idle", "reset"}
<1>1. w \in Busy /\ w \in Workers
  BY RunningBusy
<1>2. pc \notin {"idle", "reset"}
  BY <1>1 DEF Counted, Accounting
<1>3. wk[w].job.k \in 1..posted /\ wk[w].job = Job(wk[w].job.k) /\ posted \in 0..NumJobs
      /\ NumJobs \in Nat
  BY <1>1, <1>2, OwnedRange, JobsType DEF Counted, Typed
<1>4. wk[w].job.k \in 1..NumJobs
  BY <1>3
<1>5. /\ wk[w].job.id = call.id /\ wk[w].job.pass = pass /\ wk[w].job.kind = Kind
      /\ wk[w].job.lo = Jobs[wk[w].job.k][1] /\ wk[w].job.hi = Jobs[wk[w].job.k][2]
  BY <1>3, JobFields
<1>6. wk[w].at \in Nat
  BY <1>1 DEF Counted, Typed, TypeOK, WorkerType
<1> QED
  BY <1>2, <1>4, <1>5, <1>6, Layout DEF Owned, Counted

(* The cells of a tile are those at its positions.                         *)
LEMMA CellsAlong ==
  ASSUME Counted, Owned, NEW w \in Running, call.op \in FFTs
  PROVE  LET job == wk[w].job
             at  == wk[w].at
         IN /\ Cells(job, at) \subseteq DOMAIN data
            /\ \A x \in DOMAIN data : x \in Cells(job, at) <=> Along(x) \in at..TileEnd(job, at)-1
            /\ \A x \in DOMAIN data : Along(x) \in 0..Length-1
            /\ TileEnd(job, at) <= job.hi
            /\ Kind \in {"cols", "rows"}
<1> DEFINE job == wk[w].job
           at  == wk[w].at
           end == TileEnd(job, at)
<1>1. DOMAIN data = (0..N1-1) \X (0..N2-1) /\ N1 \in Nat /\ N2 \in Nat /\ Tile \in Nat
  BY PoolAssumption DEF Counted, Typed, TypeOK
<1>2. Kind \in {"cols", "rows"}
  BY DEF Kind
<1>3. job.kind = Kind /\ job.lo \in Nat /\ job.hi \in 0..Length /\ at \in Nat /\ job.lo <= at
      /\ (Kind # "cols" => at = job.lo)
  BY RunningJob
<1>4. end <= job.hi /\ end \in Int
  BY <1>1, <1>2, <1>3, Layout DEF TileEnd, Least, Counted
<1>5. CASE Kind = "cols"
  <2>1. Cells(job, at) = (0..N1-1) \X (at..end-1) /\ Length = N2
    BY <1>3, <1>5 DEF Cells, Length
  <2>2. \A x \in DOMAIN data : Along(x) = x[2]
    BY <1>5 DEF Along
  <2> HIDE DEF job, at, end
  <2> QED BY <1>1, <1>2, <1>3, <1>4, <2>1, <2>2 DEF job, at, end
<1>6. CASE Kind = "rows"
  <2>1. Cells(job, at) = (at..end-1) \X (0..N2-1) /\ Length = N1
    BY <1>3, <1>6 DEF Cells, TileEnd, Length
  <2>2. \A x \in DOMAIN data : Along(x) = x[1]
    BY <1>6 DEF Along
  <2> HIDE DEF job, at, end
  <2> QED BY <1>1, <1>2, <1>3, <1>4, <2>1, <2>2 DEF job, at, end
<1> QED
  BY <1>2, <1>5, <1>6

(* A kernel that reads input of this call and pass makes the work of this  *)
(* pass of it.                                                             *)
LEMMA KernelDone ==
  ASSUME Counted, Owned, Supplied, Written, NEW w \in Running
  PROVE  Transformed(wk[w].job, wk[w].at) = Done
<1> DEFINE job == wk[w].job
           at  == wk[w].at
<1>1. /\ job.id = call.id /\ job.pass = pass /\ job.kind = Kind /\ job.lo \in Nat
      /\ job.hi \in 0..Length /\ at \in Nat /\ pc \notin {"idle", "reset"} /\ Length \in Nat
  BY RunningJob, Layout DEF Counted
<1>2. CASE call.op \in FFTs
  <2>1. Kind \in {"cols", "rows"}
    BY <1>2, CellsAlong
  <2>2. ASSUME NEW x \in Cells(job, at)
        PROVE  data[x] = Todo
    <3>1. x \in DOMAIN data /\ Along(x) \in at..TileEnd(job, at)-1 /\ TileEnd(job, at) <= job.hi
          /\ Along(x) \in 0..Length-1
      BY <1>2, <2>2, CellsAlong
    <3>2. TileEnd(job, at) \in Int
      BY <1>1, PoolAssumption DEF TileEnd, Least
    <3>3. Along(x) \in at..job.hi-1
      BY <1>1, <3>1, <3>2
    <3>4. Ahead(Along(x))
      BY <3>3 DEF Ahead
    <3> QED BY <1>1, <1>2, <3>1, <3>4 DEF Written
  <2> QED BY <1>1, <2>1, <2>2 DEF Transformed, Done, Todo
<1>3. CASE call.op \notin FFTs
  <2>1. Kind \notin {"cols", "rows"} /\ points = call.id
    BY <1>1, <1>3 DEF Kind, Supplied, Counted, Typed, TypeOK, Ops, FFTs
  <2> QED BY <1>1, <2>1 DEF Transformed, Done
<1> QED
  BY <1>2, <1>3

(* A step that does no work leaves it as it was.                           *)
LEMMA SameWritten ==
  ASSUME Written, UNCHANGED <<call, pass, data, out>>,
         pc \notin {"idle", "reset"}, pc' \notin {"idle", "reset"},
         \A i : Ahead(i)' <=> Ahead(i),
         \A k \in 1..NumJobs : Undone(k)' <=> Undone(k),
         \A v \in Running' : wk'[v].st = "write" => wk'[v].blk = Done
  PROVE  Written'
<1>1. NumJobs' = NumJobs /\ Jobs' = Jobs /\ Length' = Length /\ Done' = Done /\ Todo' = Todo
      /\ \A x : Along(x)' = Along(x)
  BY SamePass
<1> HIDE DEF NumJobs, Jobs
<1>2. call.op \in FFTs =>
        \A x \in DOMAIN data, i \in 0..Length-1 :
          Along(x) = i => data[x] = (IF Ahead(i)' THEN Todo ELSE Done)
  BY DEF Written
<1>3. call.op = "msm" =>
        \A k \in 1..NumJobs : ~ Undone(k)' =>
          out["msm"][k] = [val |-> Done, lo |-> Jobs[k][1], hi |-> Jobs[k][2]]
  BY DEF Written
<1>4. call.op = "decompress" =>
        \A i \in 0..Length-1 : ~ Ahead(i)' =>
          out["decompress"][i] = [val |-> Done, lo |-> i, hi |-> i + 1]
  BY DEF Written
<1> QED
  BY <1>1, <1>2, <1>3, <1>4 DEF Written

(* A tile written is work done at its positions.                           *)
LEMMA WriteWritten ==
  ASSUME Reported, Shaped, Owned, Supplied, Written, NEW w \in Workers, Write(w)
  PROVE  Written'
<1> DEFINE job == wk[w].job
           at  == wk[w].at
           end == TileEnd(job, at)
<1>0. Counted /\ wk \in [Workers -> WorkerType] /\ NumJobs \in 0..W
  BY Layout DEF Reported, Counted, Typed, TypeOK
<1>1. w \in Running
  BY DEF Write, Running
<1>2. /\ UNCHANGED <<call, pass, pc>> /\ wk'[w].st \in {"read", "add"}
      /\ \A v \in Workers : v # w => wk'[v] = wk[v]
  BY <1>0 DEF Write, Onto, coord
<1>3. pc \notin {"idle", "reset"} /\ wk[w].blk = Done /\ job.kind = Kind
      /\ job.k \in 1..NumJobs /\ job.lo = Jobs[job.k][1] /\ job.hi = Jobs[job.k][2]
      /\ (Kind # "cols" => at = job.lo)
  BY <1>0, <1>1, RunningJob DEF Written, Write
<1>4. NumJobs' = NumJobs /\ Jobs' = Jobs /\ Length' = Length /\ Done' = Done /\ Todo' = Todo
      /\ \A x : Along(x)' = Along(x)
  BY <1>2, SamePass
<1>5. \A v \in Running' : wk'[v].st = "write" => wk'[v].blk = Done'
  BY <1>2, <1>4 DEF Running, Written
<1>6. ASSUME call.op \in FFTs
      PROVE  \A x \in DOMAIN data', i \in 0..Length-1 :
               Along(x) = i => data'[x] = (IF Ahead(i)' THEN Todo ELSE Done)
  <2>1. Kind \in {"cols", "rows"}
    BY <1>0, <1>1, <1>6, CellsAlong
  <2>2. data' = [x \in DOMAIN data |-> IF x \in Cells(job, at) THEN Done ELSE data[x]]
    BY <1>3, <2>1 DEF Write
  <2> SUFFICES ASSUME NEW x \in DOMAIN data, NEW i \in 0..Length-1, Along(x) = i
               PROVE  data'[x] = (IF Ahead(i)' THEN Todo ELSE Done)
    BY <2>2
  <2>3. x \in Cells(job, at) <=> i \in at..end-1
    BY <1>0, <1>1, <1>6, CellsAlong
  <2>4. Ahead(i)' <=> Ahead(i) /\ i \notin at..end-1
    BY <1>0, WriteAhead
  <2>5. data[x] = (IF Ahead(i) THEN Todo ELSE Done)
    BY <1>3, <1>6 DEF Written
  <2> QED BY <2>2, <2>3, <2>4, <2>5
<1>7. ASSUME call.op = "msm"
      PROVE  \A k \in 1..NumJobs : ~ Undone(k)' =>
               out'["msm"][k] = [val |-> Done, lo |-> Jobs[k][1], hi |-> Jobs[k][2]]
  <2>1. Kind = "msm"
    BY <1>7 DEF Kind, FFTs
  <2>2. out' = [out EXCEPT !["msm"][job.k] = [val |-> Done, lo |-> job.lo, hi |-> job.hi]]
    BY <1>3, <2>1 DEF Write
  <2>3. DOMAIN out = {"msm", "decompress"} /\ DOMAIN out["msm"] = 1..W
    BY DEF Shaped
  <2>4. \A k \in 1..W :
          out'["msm"][k] = IF k = job.k THEN [val |-> Done, lo |-> job.lo, hi |-> job.hi]
                           ELSE out["msm"][k]
    BY <2>2, <2>3
  <2> SUFFICES ASSUME NEW k \in 1..NumJobs, ~ Undone(k)'
               PROVE  out'["msm"][k] = [val |-> Done, lo |-> Jobs[k][1], hi |-> Jobs[k][2]]
    OBVIOUS
  <2>5. k \in 1..W
    BY <1>0, PoolAssumption
  <2>6. k = job.k \/ ~ Undone(k)
    BY <1>0, <1>3, <2>1, WriteAhead
  <2> QED BY <1>3, <1>7, <2>4, <2>5, <2>6 DEF Written
<1>8. ASSUME call.op = "decompress"
      PROVE  \A i \in 0..Length-1 : ~ Ahead(i)' =>
               out'["decompress"][i] = [val |-> Done, lo |-> i, hi |-> i + 1]
  <2>1. Kind = "decompress"
    BY <1>8 DEF Kind, FFTs
  <2>2. out' = [out EXCEPT !["decompress"] =
                  [i \in DOMAIN @ |-> IF i \in job.lo..job.hi-1
                     THEN [val |-> Done, lo |-> i, hi |-> i + 1] ELSE @[i]]]
    BY <1>3, <2>1 DEF Write
  <2>3. DOMAIN out = {"msm", "decompress"} /\ DOMAIN out["decompress"] = 0..MaxPoints-1
    BY DEF Shaped
  <2>4. \A i \in 0..MaxPoints-1 :
          out'["decompress"][i] =
            IF i \in job.lo..job.hi-1 THEN [val |-> Done, lo |-> i, hi |-> i + 1]
            ELSE out["decompress"][i]
    BY <2>2, <2>3
  <2> SUFFICES ASSUME NEW i \in 0..Length-1, ~ Ahead(i)'
               PROVE  out'["decompress"][i] = [val |-> Done, lo |-> i, hi |-> i + 1]
    OBVIOUS
  <2>5. end = job.hi /\ at = job.lo
    BY <1>3, <2>1 DEF TileEnd
  <2>6. i \in job.lo..job.hi-1 \/ ~ Ahead(i)
    BY <1>0, <2>5, WriteAhead
  <2>7. i \in 0..MaxPoints-1
    <3>1. Length = call.n /\ call.n \in Nat /\ MaxPoints \in Nat
      BY <1>0, <2>1, PoolAssumption DEF Length, Counted, Typed, TypeOK
    <3> QED BY <3>1 DEF Supplied
  <2> QED BY <1>3, <1>8, <2>4, <2>6, <2>7 DEF Written
<1> QED
  BY <1>2, <1>3, <1>4, <1>5, <1>6, <1>7, <1>8 DEF Written

(* A worker's step keeps the account of the work done.                     *)
LEMMA WorkWritten ==
  ASSUME Computed, NEW w \in Workers, Work(w), pc' # "idle", call'.id \notin broken'
  PROVE  Written'
<1> USE DEF Computed, Computing
<1>0. Counted /\ wk \in [Workers -> WorkerType]
  BY DEF Reported, Counted, Typed, TypeOK
<1>1. UNCHANGED <<call, pass, posted>> /\ broken \subseteq broken'
      /\ (pc' = pc \/ (pc = "asleep" /\ pc' = "load"))
  BY DEF Work, Take, Read, Write, Throw, StoreFailed, Add, Notify, coord
<1>2. Written
  BY <1>1
<1>3. \A v \in Running : wk[v].st = "write" => wk[v].blk = Done
  BY <1>2 DEF Written
<1>4. mail # {} \/ Busy # {} => pc \notin {"idle", "reset"}
  BY <1>0 DEF Counted, Accounting
<1>5. ASSUME NEW job \in mail, Take(w, job) PROVE Written'
  <2>1. /\ UNCHANGED <<pc, data, out>>
        /\ wk'[w].st = "read" /\ \A v \in Workers : v # w => wk'[v] = wk[v]
    BY <1>0, <1>5 DEF Take, coord
  <2>2. \A v \in Running' : wk'[v].st = "write" => wk'[v].blk = Done
    BY <1>3, <2>1 DEF Running
  <2> QED BY <1>0, <1>1, <1>2, <1>4, <1>5, <2>1, <2>2, TakeAhead, SameWritten
<1>6. CASE Read(w)
  <2>1. /\ UNCHANGED <<pc, data, out, mail>> /\ wk[w].st = "read" /\ wk'[w].st = "write"
        /\ wk'[w].job = wk[w].job /\ wk'[w].at = wk[w].at
        /\ wk'[w].blk = Transformed(wk[w].job, wk[w].at)
        /\ \A v \in Workers : v # w => wk'[v] = wk[v]
    BY <1>0, <1>6 DEF Read, Onto, coord
  <2>2. w \in Running /\ Running' = Running /\ w \in Busy
    BY <2>1 DEF Running, Busy
  <2>3. wk'[w].blk = Done
    BY <1>0, <1>2, <2>1, <2>2, KernelDone
  <2>4. \A v \in Running' : wk'[v].st = "write" => wk'[v].blk = Done
    BY <1>3, <2>1, <2>2, <2>3, RunningBusy
  <2>5. \A v \in Running : wk'[v].job = wk[v].job /\ wk'[v].at = wk[v].at
    BY <2>1, RunningBusy
  <2>6. pc \notin {"idle", "reset"}
    BY <1>4, <2>2
  <2> QED BY <1>1, <1>2, <2>1, <2>2, <2>4, <2>5, <2>6, SameAhead, SameWritten
<1>7. CASE Write(w)
  BY <1>2, <1>7, WriteWritten
<1>8. CASE Throw(w)
  <2>1. w \in Busy /\ wk[w].job.id \in broken'
    BY <1>8 DEF Throw, Busy
  <2> QED BY <1>1, <2>1 DEF Reported, Reporting
<1>9. CASE StoreFailed(w)
  <2>1. w \in Busy /\ Failing
    BY <1>9 DEF StoreFailed, Busy, Failing
  <2>2. call.id \in broken
    BY <1>4, <2>1 DEF Reported, Reporting
  <2> QED BY <1>1, <2>2
<1>10. CASE Add(w) \/ Notify(w)
  <2>1. /\ UNCHANGED <<data, out, mail>> /\ wk[w].st \in {"add", "notify"}
        /\ wk'[w].st \in {"notify", "idle"}
        /\ \A v \in Workers : v # w => wk'[v] = wk[v]
    BY <1>0, <1>10 DEF Add, Notify, Then, Onto, Free, coord
  <2>2. Running' = Running /\ \A v \in Running : wk'[v] = wk[v]
    BY <2>1 DEF Running
  <2>3. CASE pc = "reset"
    BY <1>1, <1>2, <1>3, <2>1, <2>2, <2>3, SamePass DEF Written
  <2>4. CASE pc # "reset"
    <3>1. pc \notin {"idle", "reset"} /\ pc' \notin {"idle", "reset"}
      BY <1>1, <2>4
    <3> QED BY <1>1, <1>2, <1>3, <2>1, <2>2, <3>1, SameAhead, SameWritten
  <2> QED BY <2>3, <2>4
<1> QED
  BY <1>5, <1>6, <1>7, <1>8, <1>9, <1>10 DEF Work

(* After the barrier nothing is left to do.                                *)
LEMMA NothingAhead ==
  ASSUME Counted, pc = "check"
  PROVE  /\ \A i : ~ Ahead(i)
         /\ \A k \in 1..NumJobs : ~ Undone(k)
<1>1. mail = {} /\ Running = {} /\ posted = NumJobs /\ NumJobs \in Nat
  BY RunningBusy, JobsType DEF Counted, Accounting, Typed
<1> QED
  BY <1>1 DEF Ahead, Undone

(* Every cell of the matrix is at a position of the pass.                  *)
LEMMA AlongType ==
  ASSUME Typed, call.op \in FFTs
  PROVE  \A x \in DOMAIN data : Along(x) \in 0..Length-1
<1>1. DOMAIN data = (0..N1-1) \X (0..N2-1)
  BY DEF Typed, TypeOK
<1>2. Kind \in {"cols", "rows"}
  BY DEF Kind
<1> QED
  BY <1>1, <1>2 DEF Along, Length

(* The proving thread keeps the account of the work done.                  *)
LEMMA CoordinateWritten ==
  ASSUME Computed, Coordinate, pc' # "idle", call'.id \notin broken'
  PROVE  Written'
<1> USE DEF Computed, Computing
<1>0. Counted /\ Typed /\ pass \in Nat
  BY DEF Reported, Counted, Typed, TypeOK
<1>1. UNCHANGED <<call, wk, data, out, broken>> /\ pc # "idle"
  BY DEF Coordinate, Reset, Post, Posted, Load, Wait, Check
<1>2. Written /\ Running' = Running
  BY <1>1 DEF Running
<1>3. \A v \in Running' : wk'[v].st = "write" => wk'[v].blk = Done
  BY <1>1, <1>2 DEF Written
<1>4. CASE Reset
  <2>1. pc = "reset" /\ pc' = "post" /\ posted' = 0 /\ UNCHANGED <<pass, mail>>
        /\ mail = {} /\ Busy = {}
    BY <1>0, <1>4 DEF Reset, Counted, Accounting
  <2>2. mail' = {} /\ Running' = {}
    BY <1>2, <2>1, RunningBusy
  <2>3. /\ \A i \in 0..Length-1 : Ahead(i)'
        /\ \A k \in 1..NumJobs : Undone(k)'
    <3>1. NumJobs' = NumJobs /\ Jobs' = Jobs
      BY <1>1, <2>1, SamePass
    <3> HIDE DEF NumJobs, Jobs
    <3>2. \A i \in 0..Length-1 : Ahead(i)'
      BY <1>0, <2>1, <3>1, Layout DEF Ahead
    <3>3. \A k \in 1..NumJobs : Undone(k)'
      BY <1>0, <2>1, <3>1, Layout DEF Undone
    <3> QED BY <3>2, <3>3
  <2>4. call.op \in FFTs => \A x \in DOMAIN data : data[x] = Todo
    BY <1>2, <2>1 DEF Written
  <2>5. Todo' = Todo /\ Length' = Length /\ NumJobs' = NumJobs
    BY <1>1, <2>1, SamePass
  <2> QED BY <1>1, <2>1, <2>2, <2>3, <2>4, <2>5 DEF Written
<1>5. CASE Post
  <2>1. pc = "post" /\ pc' = "post" /\ pass' = pass
    BY <1>5 DEF Post
  <2> QED BY <1>0, <1>1, <1>2, <1>3, <1>5, <2>1, PostAhead, SameWritten
<1>6. CASE Posted \/ Load \/ Wait
  <2>1. /\ UNCHANGED <<pass, posted, mail>>
        /\ pc \notin {"idle", "reset"} /\ pc' \notin {"idle", "reset"}
    BY <1>6 DEF Posted, Load, Wait
  <2> QED BY <1>1, <1>2, <1>3, <2>1, SameAhead, SameWritten
<1>7. CASE Check
  <2>1. pc = "check" /\ pc' = "reset" /\ pass' = pass + 1 /\ pass < LastPass
    BY <1>7 DEF Check
  <2>2. mail = {} /\ Busy = {}
    BY <1>0, <2>1 DEF Counted, Accounting
  <2>3. Running' = {}
    BY <1>2, <2>2, RunningBusy
  <2>4. call.op \in FFTs => \A x \in DOMAIN data : data[x] = Done
    BY <1>0, <1>2, <2>1, NothingAhead, AlongType DEF Written
  <2>5. Todo' = Done
    BY <1>0, <1>1, <2>1 DEF Todo, Done
  <2> QED BY <1>1, <2>1, <2>3, <2>4, <2>5 DEF Written
<1> QED
  BY <1>4, <1>5, <1>6, <1>7 DEF Coordinate

(* A call that has begun has all of its work ahead.                        *)
LEMMA BeginWritten ==
  ASSUME Computed, BeginSome
  PROVE  Written' /\ Supplied'
<1>1. PICK op \in Ops, n \in 0..MaxPoints : Begin(op, n)
  BY PoolAssumption DEF BeginSome, Ops, FFTs
<1>2. /\ call' = [id |-> call.id + 1, op |-> op, n |-> n] /\ pass' = 1 /\ pc' = "reset"
      /\ pc = "idle" /\ wk' = wk /\ call.id \in Nat
  BY <1>1 DEF Begin, Computed, Reported, Counted, Typed, TypeOK
<1>3. Running' = {}
  <2>1. Busy = {}
    BY <1>2 DEF Computed, Reported, Counted, Accounting
  <2> QED BY <1>2, <2>1, RunningBusy DEF Running, Busy
<1>4. op \in FFTs => \A x \in DOMAIN data' : data'[x] = Todo'
  BY <1>1, <1>2 DEF Begin, Todo
<1>5. op \notin FFTs => points' = call'.id
  BY <1>1, <1>2 DEF Begin
<1>6. n <= MaxPoints
  OBVIOUS
<1> QED
  BY <1>2, <1>3, <1>4, <1>5, <1>6 DEF Written, Supplied

-----------------------------------------------------------------------------
(* What a call returns.                                                    *)

(* After the last barrier the data handed back is the whole result.        *)
LEMMA CheckWhole ==
  ASSUME Computed, Check, answer' = "returned"
  PROVE  Whole'
<1> USE DEF Computed, Computing
<1>0. Counted /\ Typed /\ call.id \in Nat /\ call.n \in Nat /\ call.op \in Ops
  BY DEF Reported, Counted, Typed, TypeOK
<1>1. pc = "check" /\ UNCHANGED <<call, data>> /\ answer = "none"
  BY DEF Check, Reported, Reporting
<1>2. ~ failed /\ pass = LastPass
      /\ value' = IF call.op \in FFTs THEN data
                  ELSE [i \in (IF Kind = "msm" THEN 1..NumJobs ELSE 0..call.n-1) |-> out[Kind][i]]
  BY <1>1 DEF Check
<1>3. call.id \notin broken
  <2>1. ~ Failing
    BY <1>0, <1>1 DEF Failing, Busy, Counted, Accounting
  <2> QED BY <1>1, <1>2, <2>1 DEF Reported, Reporting
<1>4. Written
  BY <1>1, <1>3
<1>5. LastPass' = LastPass /\ Done = [id |-> call.id, level |-> LastPass]
  BY <1>1, <1>2 DEF LastPass, Done
<1>6. CASE call.op \in FFTs
  <2>1. \A x \in DOMAIN data : data[x] = Done
    BY <1>0, <1>1, <1>4, <1>6, NothingAhead, AlongType DEF Written
  <2> QED BY <1>1, <1>2, <1>5, <1>6, <2>1 DEF Whole
<1>7. CASE call.op = "msm"
  <2>1. Kind = "msm" /\ call.op \notin FFTs
    BY <1>7 DEF Kind, FFTs
  <2>2. value' = [k \in 1..NumJobs |-> out["msm"][k]]
    BY <1>2, <2>1
  <2>3. \A k \in 1..NumJobs : value'[k] = [val |-> Done, lo |-> Jobs[k][1], hi |-> Jobs[k][2]]
    BY <1>0, <1>1, <1>4, <1>7, <2>2, NothingAhead DEF Written
  <2>4. Length = call.n /\ DOMAIN value' = 1..NumJobs
    BY <2>1, <2>2 DEF Length
  <2>5. ASSUME NEW i \in 0..call.n-1
        PROVE  Cardinality({k \in DOMAIN value' : i \in value'[k].lo..value'[k].hi-1}) = 1
    <3>1. PICK k \in 1..NumJobs : i \in Jobs[k][1]..Jobs[k][2]-1
      BY <1>0, <2>4, Layout
    <3>2. \A l \in 1..NumJobs : i \in Jobs[l][1]..Jobs[l][2]-1 => l = k
      BY <1>0, <2>4, <3>1, Layout
    <3>3. \A l \in DOMAIN value' : i \in value'[l].lo..value'[l].hi-1 <=> l = k
      BY <2>3, <2>4, <3>1, <3>2
    <3>4. {l \in DOMAIN value' : i \in value'[l].lo..value'[l].hi-1} = {k}
      BY <2>4, <3>1, <3>3
    <3> QED BY <3>4, FS_Singleton
  <2>6. CoversOnce(call.n)'
    BY <1>1, <2>5 DEF CoversOnce
  <2>7. \A k \in DOMAIN value' : value'[k].val = Done
    BY <2>3, <2>4
  <2> QED BY <1>1, <1>5, <2>1, <2>6, <2>7 DEF Whole
<1>8. CASE call.op = "decompress"
  <2>1. Kind = "decompress" /\ call.op \notin FFTs
    BY <1>8 DEF Kind, FFTs
  <2>2. value' = [i \in 0..call.n-1 |-> out["decompress"][i]] /\ Length = call.n
    BY <1>2, <2>1 DEF Length
  <2>3. \A i \in 0..call.n-1 : value'[i] = [val |-> Done, lo |-> i, hi |-> i + 1]
    BY <1>0, <1>1, <1>4, <1>8, <2>2, NothingAhead DEF Written
  <2>4. DOMAIN value' = 0..call.n-1
    BY <2>2
  <2>5. ASSUME NEW k \in 0..call.n-1
        PROVE  value'[k].val = Done /\ value'[k].lo = k /\ value'[k].hi = k + 1
    <3>1. value'[k] = [val |-> Done, lo |-> k, hi |-> k + 1]
      BY <2>3
    <3> QED BY <3>1
  <2>6. ASSUME NEW i \in 0..call.n-1
        PROVE  Cardinality({k \in DOMAIN value' : i \in value'[k].lo..value'[k].hi-1}) = 1
    <3>1. \A k \in 0..call.n-1 : k \in Int /\ (i \in k..(k + 1)-1 <=> k = i)
      OBVIOUS
    <3>2. \A k \in DOMAIN value' : i \in value'[k].lo..value'[k].hi-1 <=> k = i
      BY <2>5, <2>4, <3>1
    <3>3. {k \in DOMAIN value' : i \in value'[k].lo..value'[k].hi-1} = {i}
      BY <2>4, <3>2
    <3> QED BY <3>3, FS_Singleton
  <2>7. CoversOnce(call.n)'
    BY <1>1, <2>6 DEF CoversOnce
  <2>8. \A k \in DOMAIN value' : value'[k].val = Done
    BY <2>5, <2>4
  <2> QED BY <1>1, <1>5, <2>1, <2>7, <2>8 DEF Whole
<1> QED
  BY <1>0, <1>6, <1>7, <1>8 DEF Ops, FFTs

(* No other step touches an answer that has been given.                    *)
LEMMA StillWhole ==
  ASSUME Computed, Whole, UNCHANGED <<call, value, DOMAIN data>>
  PROVE  Whole'
  BY DEF Whole, CoversOnce, LastPass

(* The result buffers keep their shape.                                    *)
LEMMA NextShaped ==
  ASSUME Typed, Shaped, [Next]_vars
  PROVE  Shaped'
<1>1. CASE out' = out
  BY <1>1 DEF Shaped
<1>2. ASSUME NEW w \in Workers, Write(w) PROVE Shaped'
  <2>1. CASE wk[w].job.kind \in {"cols", "rows"}
    BY <1>1, <1>2, <2>1 DEF Write
  <2>2. CASE wk[w].job.kind = "msm"
    BY <1>2, <2>2 DEF Write, Shaped
  <2>3. CASE wk[w].job.kind \notin {"cols", "rows", "msm"}
    BY <1>2, <2>3 DEF Write, Shaped
  <2> QED BY <2>1, <2>2, <2>3
<1>3. out' = out \/ \E w \in Workers : Write(w)
  BY DEF Next, BeginSome, Begin, Coordinate, Reset, Post, Posted, Load, Wait, Check, Work, Take,
         Read, Throw, StoreFailed, Add, Notify, vars
<1> QED
  BY <1>1, <1>2, <1>3

(* Initially nothing has been computed and nothing is claimed.             *)
LEMMA InitComputed == Init => Computed
<1> SUFFICES ASSUME Init PROVE Computed
  OBVIOUS
<1>1. Reported /\ mail = {} /\ Busy = {} /\ Running = {}
  BY InitReported DEF Init, Busy, Running, Free
<1>2. Shaped
  BY DEF Init, Shaped
<1>3. Owned
  BY <1>1 DEF Owned
<1>4. Supplied
  BY PoolAssumption DEF Init, Supplied
<1> QED
  BY <1>1, <1>2, <1>3, <1>4 DEF Init, Computed, Computing

(* Every step keeps the account of the work done, and an answer given.     *)
LEMMA NextComputed ==
  ASSUME Computed, [Next]_vars
  PROVE  Computed'
<1> USE DEF Computed
<1>0. Reported' /\ Shaped' /\ Counted /\ Owned /\ Typed /\ Supplied
  BY NextReported, NextShaped DEF Reported, Counted, Computing
<1>d. DOMAIN data' = DOMAIN data
  BY <1>0 DEF Reported, Counted, Typed, TypeOK
<1>1. CASE BeginSome
  <2>1. Owned'
    BY <1>0, <1>1, CoordinateOwned
  <2>2. answer' = "none"
    BY <1>1 DEF BeginSome, Begin
  <2> QED BY <1>0, <1>1, <2>1, <2>2, BeginWritten DEF Computing
<1>2. CASE Coordinate
  <2>1. Owned'
    BY <1>0, <1>2, CoordinateOwned
  <2>2. UNCHANGED <<call, points, data>> /\ pc # "idle" /\ answer = "none"
    BY <1>2 DEF Coordinate, Reset, Post, Posted, Load, Wait, Check, Reported, Reporting
  <2>3. Supplied'
    BY <1>0, <2>2 DEF Supplied
  <2>4. answer' = "returned" => Check
    BY <1>2, <2>2 DEF Coordinate, Reset, Post, Posted, Load, Wait
  <2> QED BY <1>0, <1>2, <2>1, <2>3, <2>4, CoordinateWritten, CheckWhole DEF Computing
<1>3. ASSUME NEW w \in Workers, Work(w) PROVE Computed'
  <2>1. Owned'
    BY <1>0, <1>3, WorkOwned
  <2>2. UNCHANGED <<call, points, answer, value>> /\ (pc' = "idle" <=> pc = "idle")
    BY <1>3 DEF Work, Take, Read, Write, Throw, StoreFailed, Add, Notify, coord
  <2>3. Supplied'
    BY <1>0, <2>2 DEF Supplied
  <2>4. answer' = "returned" => Whole'
    BY <1>d, <2>2, StillWhole DEF Computing
  <2> QED BY <1>0, <1>3, <2>1, <2>3, <2>4, WorkWritten DEF Computing
<1>4. CASE UNCHANGED vars
  <2>1. Owned'
    BY <1>0, <1>4, SamePass DEF Owned, Busy, Running, vars, coord
  <2>2. Supplied'
    BY <1>0, <1>4 DEF Supplied, vars, coord
  <2>3. answer' = "returned" => Whole'
    BY <1>4, StillWhole DEF Computing, vars, coord
  <2>4. ASSUME pc' # "idle", call'.id \notin broken' PROVE Written'
    <3>1. Written
      BY <1>4, <2>4 DEF Computing, vars, coord
    <3>2. Running' = Running
      BY <1>4 DEF Running, vars
    <3>3. CASE pc = "reset"
      BY <1>4, <3>1, <3>2, <3>3, SamePass DEF Written, vars, coord
    <3>4. CASE pc # "reset"
      BY <1>4, <2>4, <3>1, <3>2, <3>4, SameAhead, SameWritten DEF vars, coord, Written
    <3> QED BY <3>3, <3>4
  <2> QED BY <1>0, <2>1, <2>2, <2>3, <2>4 DEF Computing
<1> QED
  BY <1>1, <1>2, <1>3, <1>4 DEF Next

(* Every result returned is whole: each cell of the matrix has been        *)
(* through every pass of its own call, each point is in exactly one sum.   *)
THEOREM AnswersWhole == Spec => [](answer = "returned" => Whole)
<1>1. Computed => (answer = "returned" => Whole)
  BY DEF Computed, Computing
<1> QED
  BY <1>1, InitComputed, NextComputed, PTL DEF Spec

(* The pool, seen from outside, only takes the steps of the serial machine *)
(* SerialPool: no interleaving of the threads shows in what a call         *)
(* answers.                                                                *)
THEOREM RefinesSerialPool == Spec => Serial!Safe
<1>1. Init => Serial!Init
  BY DEF Init, Serial!Init, Serial!NoResult
<1>2. ASSUME Computed, Computed', [Next]_vars
      PROVE  [Serial!Next]_(Serial!vars)
  <2> DEFINE result == IF answer = "returned" /\ Whole THEN call.id ELSE 0
  <2>0. /\ result = IF answer = "returned" THEN call.id ELSE 0
        /\ result' = IF answer' = "returned" THEN call'.id ELSE 0
    BY <1>2 DEF Computed, Computing
  <2> HIDE DEF result
  <2>1. pc # "idle" => answer = "none"
    BY <1>2 DEF Computed, Reported, Reporting
  <2>2. CASE BeginSome
    <3>1. /\ pc = "idle" /\ pc' # "idle" /\ call.id < MaxCalls /\ call'.id = call.id + 1
          /\ answer' = "none" /\ broken' = broken
      BY <2>2 DEF BeginSome, Begin
    <3> QED BY <2>0, <3>1 DEF Serial!Next, Serial!Call, Serial!NoResult, result
  <2>3. CASE Check
    <3>1. pc = "check" /\ UNCHANGED <<call, broken>>
      BY <2>3 DEF Check
    <3>2. \/ pc' = "idle" /\ answer' = "threw"
          \/ pc' = "reset" /\ answer' = answer
          \/ pc' = "idle" /\ answer' = "returned"
      BY <2>3 DEF Check
    <3>3. /\ answer' = "threw" => call.id \in broken
          /\ answer' = "returned" => call.id \notin broken
      BY <1>2, <3>1 DEF Computed, Reported, Reporting, FailureReported
    <3> QED BY <2>0, <2>1, <3>1, <3>2, <3>3
            DEF Serial!Next, Serial!Return, Serial!Throw, Serial!vars, result
  <2>4. CASE Reset \/ Post \/ Posted \/ Load \/ Wait
    <3>1. pc # "idle" /\ pc' # "idle" /\ UNCHANGED <<call, answer, broken>>
      BY <2>4 DEF Reset, Post, Posted, Load, Wait
    <3> QED BY <2>0, <3>1 DEF Serial!vars, result
  <2>5. ASSUME NEW w \in Workers, Work(w)
        PROVE  [Serial!Next]_(Serial!vars)
    <3>1. UNCHANGED <<call, answer>> /\ (pc' = "idle" <=> pc = "idle")
      BY <2>5 DEF Work, Take, Read, Write, Throw, StoreFailed, Add, Notify, coord
    <3>2. CASE Throw(w)
      <4>1. w \in Busy /\ broken' = broken \cup {wk[w].job.id}
        BY <3>2 DEF Throw, Busy
      <4>2. pc # "idle" /\ wk[w].job.id = call.id
        BY <1>2, <4>1 DEF Computed, Reported, Reporting, Counted, Accounting
      <4> QED BY <2>0, <3>1, <4>1, <4>2 DEF Serial!Next, Serial!Fault, result
    <3>3. CASE ~ Throw(w)
      <4>1. broken' = broken
        BY <2>5, <3>3 DEF Work, Take, Read, Write, StoreFailed, Add, Notify
      <4> QED BY <2>0, <3>1, <4>1 DEF Serial!vars, result
    <3> QED BY <3>2, <3>3
  <2>6. CASE UNCHANGED vars
    BY <2>0, <2>6 DEF vars, coord, Serial!vars, result
  <2> QED BY <1>2, <2>2, <2>3, <2>4, <2>5, <2>6 DEF Next, Coordinate
<1> QED
  BY <1>1, <1>2, InitComputed, NextComputed, PTL DEF Spec, Serial!Safe
=============================================================================
