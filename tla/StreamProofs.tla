---------------------------- MODULE StreamProofs ----------------------------
(***************************************************************************)
(* Proofs about KeyStream and PushProver, for any keys, any chunk size and *)
(* any way to cut a key into pushes: the parser keeps its place and tells  *)
(* the file's events in order, and the prover folds every point once, with *)
(* its own scalar.  A key that fits the circuit is never refused.          *)
(***************************************************************************)
EXTENDS PushProver, Induction, TLAPS

-----------------------------------------------------------------------------
(* Where things are in a key file.                                         *)

(* The stage after vector i.                                               *)
AfterStage(i) == IF i < 5 THEN LenStage(i + 1) ELSE DoneStage

(* A product of larger factors is larger.                                  *)
LEMMA TimesMonotone ==
  ASSUME NEW a \in Nat, NEW b \in Nat, NEW c \in Nat, a <= b
  PROVE  a * c \in Nat /\ b * c \in Nat /\ a * c <= b * c
<1>1. PICK d \in Nat : b = a + d
  BY b - a \in Nat, b = a + (b - a)
<1>2. b * c = a * c + d * c
  BY <1>1
<1>3. a * c \in Nat /\ b * c \in Nat /\ d * c \in Nat
  OBVIOUS
<1> QED
  BY <1>2, <1>3

(* The five vectors follow each other without a gap to the end of the key. *)
LEMMA Layout ==
  ASSUME TypeOK
  PROVE  /\ key.header \in Nat \ {0} /\ key.lens \in [1..5 -> Nat]
         /\ \A i \in 1..5 : /\ LenAt(i) \in Nat
                            /\ PointSize(i) \in Nat \ {0}
                            /\ key.lens[i] * PointSize(i) \in Nat
                            /\ LenAt(i) + LenBytes + key.lens[i] * PointSize(i)
                                 = StageAt(AfterStage(i))
                            /\ StageAt(AfterStage(i)) <= Total
         /\ LenAt(1) = key.header
         /\ key.header < Total
<1>1. /\ key.header \in Nat \ {0} /\ key.lens \in [1..5 -> Nat]
      /\ LenBytes \in Nat \ {0} /\ G1Bytes \in Nat \ {0} /\ G2Bytes \in Nat \ {0}
  BY KeyStreamAssumption DEF TypeOK
<1> DEFINE v1 == key.lens[1] * G1Bytes
           v2 == key.lens[2] * G1Bytes
           v3 == key.lens[3] * G2Bytes
           v4 == key.lens[4] * G1Bytes
           v5 == key.lens[5] * G1Bytes
<1>2. /\ v1 \in Nat /\ v2 \in Nat /\ v3 \in Nat /\ v4 \in Nat /\ v5 \in Nat
      /\ key.lens[1] \in Nat /\ key.lens[2] \in Nat /\ key.lens[4] \in Nat /\ key.lens[5] \in Nat
  BY <1>1
<1>3. (key.lens[1] + key.lens[2] + key.lens[4] + key.lens[5]) * G1Bytes = v1 + v2 + v4 + v5
  BY <1>1, <1>2
<1>4. Total = key.header + 5 * LenBytes + (v1 + v2 + v4 + v5) + v3
  BY <1>3 DEF Total
<1>5. /\ LenAt(1) = key.header
      /\ LenAt(2) = key.header + LenBytes + v1
      /\ LenAt(3) = key.header + 2 * LenBytes + v1 + v2
      /\ LenAt(4) = key.header + 3 * LenBytes + v1 + v2 + v3
      /\ LenAt(5) = key.header + 4 * LenBytes + v1 + v2 + v3 + v4
  BY <1>1, <1>2 DEF LenAt
<1>6. /\ StageAt(AfterStage(1)) = LenAt(2) /\ StageAt(AfterStage(2)) = LenAt(3)
      /\ StageAt(AfterStage(3)) = LenAt(4) /\ StageAt(AfterStage(4)) = LenAt(5)
      /\ StageAt(AfterStage(5)) = Total
  BY DEF StageAt, AfterStage, LenStage, DoneStage
<1>7. /\ PointSize(1) = G1Bytes /\ PointSize(2) = G1Bytes /\ PointSize(3) = G2Bytes
      /\ PointSize(4) = G1Bytes /\ PointSize(5) = G1Bytes
  BY DEF PointSize
<1>8. /\ key.lens[1] * PointSize(1) = v1 /\ key.lens[2] * PointSize(2) = v2
      /\ key.lens[3] * PointSize(3) = v3 /\ key.lens[4] * PointSize(4) = v4
      /\ key.lens[5] * PointSize(5) = v5
  BY <1>7
<1> HIDE DEF v1, v2, v3, v4, v5
<1>9. ASSUME NEW i \in 1..5
      PROVE  /\ LenAt(i) \in Nat /\ PointSize(i) \in Nat \ {0} /\ key.lens[i] * PointSize(i) \in Nat
             /\ LenAt(i) + LenBytes + key.lens[i] * PointSize(i) = StageAt(AfterStage(i))
             /\ StageAt(AfterStage(i)) <= Total
  <2>1. i = 1 \/ i = 2 \/ i = 3 \/ i = 4 \/ i = 5
    OBVIOUS
  <2> QED BY <1>1, <1>2, <1>4, <1>5, <1>6, <1>7, <1>8, <2>1
<1> QED
  BY <1>1, <1>2, <1>4, <1>5, <1>9

(* The length of the file is a number. *)
LEMMA TotalNat ==
  ASSUME TypeOK
  PROVE  Total \in Nat /\ LenBytes \in Nat \ {0}
<1>1. /\ key.header \in Nat /\ key.lens \in [1..5 -> Nat]
      /\ LenBytes \in Nat \ {0} /\ G1Bytes \in Nat /\ G2Bytes \in Nat
  BY KeyStreamAssumption DEF TypeOK
<1> QED BY <1>1 DEF Total

(* Where each stage begins.                                                *)
LEMMA StagePlaces ==
  /\ StageAt(HeaderStage) = 0
  /\ StageAt(DoneStage) = Total
  /\ \A i : StageAt(LenStage(i)) = LenAt(i)
  /\ \A i, d : StageAt(PointsStage(i, d)) = LenAt(i) + LenBytes + d * PointSize(i)
  BY DEF StageAt, HeaderStage, DoneStage, LenStage, PointsStage

(* A chunk is not empty, is at most Chunk points and ends in its vector.   *)
LEMMA ChunkInVector ==
  ASSUME TypeOK, NEW i \in 1..5, NEW d \in 0..key.lens[i], d # key.lens[i]
  PROVE  /\ NextChunk(i, d) \in Nat \ {0}
         /\ d + NextChunk(i, d) \in 0..key.lens[i]
         /\ NextChunk(i, d) * PointSize(i) \in Nat \ {0}
         /\ NextChunk(i, d) * PointSize(i) <= Chunk * PointSize(i)
         /\ (d + NextChunk(i, d)) * PointSize(i) = d * PointSize(i) + NextChunk(i, d) * PointSize(i)
         /\ d * PointSize(i) \in Nat
         /\ d * PointSize(i) + NextChunk(i, d) * PointSize(i) <= key.lens[i] * PointSize(i)
<1>1. key.lens[i] \in Nat /\ PointSize(i) \in Nat \ {0} /\ Chunk \in Nat \ {0}
  BY Layout, KeyStreamAssumption
<1>2. PICK n \in Nat : n = NextChunk(i, d) /\ n # 0 /\ n <= Chunk /\ d + n <= key.lens[i]
  BY <1>1 DEF NextChunk, Smaller
<1>3. PICK p \in Nat \ {0} : p = PointSize(i)
  BY <1>1
<1>4. n * p \in Nat /\ n * p # 0 /\ d * p \in Nat /\ (d + n) * p = d * p + n * p
  BY <1>2, <1>3
<1>5. n * p <= Chunk * p /\ (d + n) * p <= key.lens[i] * p
  BY <1>1, <1>2, <1>3, TimesMonotone
<1> QED
  BY <1>1, <1>2, <1>3, <1>4, <1>5

-----------------------------------------------------------------------------
(* The inductive invariant of the parser.                                  *)

Waiting == {"ready", "finished", "ended early"}

(* The stages there are.                                                   *)
Staged ==
  \/ stage = HeaderStage \/ stage = DoneStage
  \/ \E i \in 1..5 : stage = LenStage(i)
  \/ \E i \in 1..5 : \E d \in 0..key.lens[i] : stage = PointsStage(i, d)

(* Between events what is buffered begins where the stage does and is not  *)
(* yet a whole piece; the parser waits only when it has taken every byte.  *)
InPlace ==
  /\ st \in Waiting \cup {"body"} =>
       /\ pos = StageAt(stage) + buf
       /\ stage.s = "Len" => buf < LenBytes
       /\ stage.s = "Points" =>
            \/ buf = 0
            \/ stage.done # key.lens[stage.i]
               /\ buf < NextChunk(stage.i, stage.done) * PointSize(stage.i)
       /\ stage.s = "Done" => buf = 0
  /\ st \in Waiting \cup {"header"} => pos = pushed
  /\ st \in Waiting => /\ stage.s = "Header" => buf < key.header
                       /\ stage.s = "Points" => stage.done # key.lens[stage.i]
  /\ st = "body" => stage.s # "Header"
  /\ st = "header" => stage = HeaderStage /\ pos = buf

(* The event being handled is the one whose bytes end where the parser is. *)
Emitting ==
  st = "emit" =>
    \/ event = HeaderEvent /\ stage = LenStage(1) /\ pos = key.header /\ seen = <<>>
    \/ \E i \in 1..5 :
         /\ stage = LenStage(i) /\ event = [LenEvent(i) EXCEPT !.at = LenAt(i)]
         /\ pos = LenAt(i) + LenBytes
         /\ seen # <<>>
    \/ \E i \in 1..5 : \E d \in 0..key.lens[i] :
         /\ d # key.lens[i]
         /\ stage = PointsStage(i, d)
         /\ event = [PointsEvent(i, d, NextChunk(i, d)) EXCEPT !.at = StageAt(stage)]
         /\ pos = StageAt(stage) + NextChunk(i, d) * PointSize(i)
         /\ seen # <<>>

(* The stage follows from the last event told, a finished vector being     *)
(* left in a step of its own.                                              *)
Leads(e, g) ==
  \/ e = HeaderEvent /\ g = LenStage(1)
  \/ \E i \in 1..5 :
       /\ e.e = "Len" /\ e.i = i /\ e.n = key.lens[i]
       /\ g = PointsStage(i, 0) \/ (key.lens[i] = 0 /\ g = AfterStage(i))
  \/ \E i \in 1..5 :
       /\ e.e = "Points" /\ e.i = i
       /\ g = PointsStage(i, e.off + e.n) \/ (e.off + e.n = key.lens[i] /\ g = AfterStage(i))

Told ==
  /\ seen = <<>> => stage = HeaderStage \/ (stage = LenStage(1) /\ st \in {"emit", "error"})
  /\ seen # <<>> => Leads(seen[Len(seen)], stage)

Parsed == /\ TypeOK /\ Staged /\ InPlace /\ Emitting /\ Told
          /\ BufferBounded /\ EventsInFileOrder

(* A parser that waits has every byte pushed so far, and the key is whole  *)
(* exactly when its bytes are.                                             *)
LEMMA ParsedSuffices ==
  ASSUME Parsed
  PROVE  StreamInOrder
<1> USE DEF Parsed
<1>1. Aligned
  BY DEF Aligned, InPlace, Waiting
<1>2. CompleteAtLastByte
  <2>1. SUFFICES ASSUME st \in Waiting PROVE stage.s = "Done" <=> pushed = Total
    BY DEF CompleteAtLastByte, Waiting
  <2>2. pushed = StageAt(stage) + buf /\ pushed \in Nat /\ buf \in Nat
    <3>1. pos = pushed /\ pos = StageAt(stage) + buf
      BY <2>1 DEF InPlace
    <3>2. pushed \in Nat /\ pos \in 0..pushed /\ buf \in 0..pos
      BY DEF TypeOK
    <3> QED BY <3>1, <3>2
  <2>7. Total \in Nat
    BY TotalNat
  <2>3. CASE stage = DoneStage
    <3>1. buf = 0 /\ stage.s = "Done" /\ StageAt(stage) = Total
      BY <2>1, <2>3, StagePlaces DEF InPlace, DoneStage
    <3> QED BY <2>2, <2>7, <3>1
  <2>4. CASE stage = HeaderStage
    <3>1. buf < key.header /\ stage.s = "Header" /\ StageAt(stage) = 0
      BY <2>1, <2>4, StagePlaces DEF InPlace, HeaderStage
    <3>2. key.header \in Nat /\ key.header < Total
      BY Layout
    <3> QED BY <2>2, <2>7, <3>1, <3>2
  <2>5. ASSUME NEW i \in 1..5, stage = LenStage(i)
        PROVE  pushed < Total /\ stage.s = "Len"
    <3>1. stage.s = "Len" /\ buf < LenBytes /\ StageAt(stage) = LenAt(i)
      BY <2>1, <2>5, StagePlaces DEF InPlace, LenStage
    <3>2. LenAt(i) \in Nat /\ key.lens[i] * PointSize(i) \in Nat /\ StageAt(AfterStage(i)) <= Total
          /\ LenAt(i) + LenBytes + key.lens[i] * PointSize(i) = StageAt(AfterStage(i))
      BY Layout
    <3>3. Total \in Nat /\ LenBytes \in Nat
      BY TotalNat
    <3> QED BY <2>2, <3>1, <3>2, <3>3
  <2>6. ASSUME NEW i \in 1..5, NEW d \in 0..key.lens[i], stage = PointsStage(i, d)
        PROVE  pushed < Total /\ stage.s = "Points"
    <3>1. stage.s = "Points" /\ stage.i = i /\ stage.done = d /\ d # key.lens[i]
      BY <2>1, <2>6 DEF InPlace, PointsStage
    <3>2. buf < NextChunk(i, d) * PointSize(i)
      BY <2>1, <2>2, <3>1, ChunkInVector DEF InPlace
    <3>3. StageAt(stage) = LenAt(i) + LenBytes + d * PointSize(i)
      BY <2>6, StagePlaces
    <3>4. LenAt(i) \in Nat /\ key.lens[i] * PointSize(i) \in Nat /\ StageAt(AfterStage(i)) <= Total
          /\ LenAt(i) + LenBytes + key.lens[i] * PointSize(i) = StageAt(AfterStage(i))
      BY Layout
    <3>5. Total \in Nat /\ LenBytes \in Nat
      BY TotalNat
    <3>6. /\ NextChunk(i, d) * PointSize(i) \in Nat /\ d * PointSize(i) \in Nat
          /\ d * PointSize(i) + NextChunk(i, d) * PointSize(i) <= key.lens[i] * PointSize(i)
      BY <3>1, ChunkInVector
    <3> QED BY <2>2, <3>1, <3>2, <3>3, <3>4, <3>5, <3>6
  <2> QED BY <2>2, <2>3, <2>4, <2>5, <2>6, <2>7 DEF Staged
<1> QED
  BY <1>1, <1>2 DEF StreamInOrder

-----------------------------------------------------------------------------
(* The steps that keep the invariant.                                      *)

(* What depends on the key alone stays as it is.                           *)
LEMMA KeyFixed ==
  ASSUME key' = key
  PROVE  /\ Total' = Total
         /\ \A i : LenAt(i)' = LenAt(i)
         /\ \A i, d : NextChunk(i, d)' = NextChunk(i, d)
         /\ \A g : StageAt(g)' = StageAt(g)
         /\ \A i : LenEvent(i)' = LenEvent(i)
         /\ \A d, e : Follows(d, e)' = Follows(d, e)
         /\ \A e, g : Leads(e, g)' = Leads(e, g)
<1>1. Total' = Total /\ (\A i : LenAt(i)' = LenAt(i)) /\ (\A i, d : NextChunk(i, d)' = NextChunk(i, d))
      /\ (\A i : LenEvent(i)' = LenEvent(i))
  BY DEF Total, LenAt, NextChunk, LenEvent
<1>2. \A g : StageAt(g)' = StageAt(g)
  BY <1>1 DEF StageAt
<1>3. \A d, e : Follows(d, e)' = Follows(d, e)
  BY <1>1 DEF Follows, AfterVector, NextPoints
<1>4. \A e, g : Leads(e, g)' = Leads(e, g)
  BY DEF Leads
<1> QED
  BY <1>1, <1>2, <1>3, <1>4

(* A step that only stops or only waits.                                   *)
LEMMA Stopped ==
  ASSUME Parsed, UNCHANGED <<source, pushed, pos, buf, stage, event, seen>>,
         \/ st' = "error"
         \/ st \in Waiting /\ st' \in Waiting
         \/ st = "body" /\ stage.s = "Done" /\ Rest = 0 /\ st' = "ready"
  PROVE  Parsed'
<1>1. key' = key /\ extra' = extra
  BY DEF source
<1>2. TypeOK'
  BY <1>1 DEF Parsed, TypeOK, Waiting
<1>3. Staged'
  BY <1>1 DEF Parsed, Staged
<1>4. StageAt(stage)' = StageAt(stage)
  BY <1>1, KeyFixed
<1>5. InPlace'
  <2>1. ASSUME st = "body" /\ stage.s = "Done" /\ Rest = 0 /\ st' = "ready"
        PROVE  pos = pushed
    <3>1. pushed \in Nat /\ pos \in 0..pushed
      BY DEF Parsed, TypeOK
    <3> QED BY <2>1, <3>1 DEF Rest
  <2>2. CASE st' = "error"
    BY <2>2 DEF InPlace, Waiting
  <2>3. CASE st' # "error"
    <3>1. /\ pos' = pos /\ pushed' = pushed /\ buf' = buf /\ stage' = stage /\ key' = key
          /\ (\A i, d : NextChunk(i, d)' = NextChunk(i, d))
          /\ st' \in Waiting /\ st \in Waiting \cup {"body"}
      BY <1>1, <2>3, KeyFixed DEF Waiting
    <3>2. pos = pushed
      BY <2>1, <2>3 DEF Parsed, InPlace
    <3>3. /\ pos = StageAt(stage) + buf
          /\ stage.s = "Len" => buf < LenBytes
          /\ stage.s = "Points" =>
                \/ buf = 0
                \/ stage.done # key.lens[stage.i]
                   /\ buf < NextChunk(stage.i, stage.done) * PointSize(stage.i)
          /\ stage.s = "Done" => buf = 0
      BY <3>1 DEF Parsed, InPlace
    <3>4. /\ stage.s = "Header" => buf < key.header
          /\ stage.s = "Points" => stage.done # key.lens[stage.i]
      <4>1. CASE st \in Waiting
        BY <4>1 DEF Parsed, InPlace
      <4>2. CASE st \notin Waiting
        BY <2>3, <4>2
      <4> QED BY <4>1, <4>2
    <3>5. st' # "body" /\ st' # "header"
      BY <3>1 DEF Waiting
    <3> QED BY <1>4, <3>1, <3>2, <3>3, <3>4, <3>5 DEF InPlace
  <2> QED BY <2>2, <2>3
<1>6. Emitting' /\ BufferBounded'
  BY DEF Parsed, Emitting, BufferBounded, Waiting
<1>7. Told'
  BY <1>1, KeyFixed DEF Parsed, Told, Waiting
<1>8. EventsInFileOrder'
  BY <1>1, KeyFixed DEF Parsed, EventsInFileOrder
<1> QED
  BY <1>2, <1>3, <1>5, <1>6, <1>7, <1>8 DEF Parsed

(* A step of the parser itself that leaves the stage alone.                *)
LEMMA Frame ==
  ASSUME Parsed, UNCHANGED <<source, stage, seen>>, st \notin {"emit", "error"}
  PROVE  key' = key /\ extra' = extra /\ Staged' /\ Told' /\ EventsInFileOrder'
<1>1. key' = key /\ extra' = extra
  BY DEF source
<1>2. Staged'
  BY <1>1 DEF Parsed, Staged
<1>3. Told'
  BY <1>1, KeyFixed DEF Parsed, Told
<1>4. EventsInFileOrder'
  BY <1>1, KeyFixed DEF Parsed, EventsInFileOrder
<1> QED
  BY <1>1, <1>2, <1>3, <1>4

(* The kinds of stages are told apart by their names.                      *)
LEMMA StageKinds ==
  ASSUME Parsed
  PROVE  /\ stage.s = "Header" => stage = HeaderStage
         /\ stage.s = "Done" => stage = DoneStage
         /\ stage.s = "Len" => stage.i \in 1..5 /\ stage = LenStage(stage.i)
         /\ stage.s = "Points" => /\ stage.i \in 1..5 /\ stage.done \in 0..key.lens[stage.i]
                                  /\ stage = PointsStage(stage.i, stage.done)
  BY DEF Parsed, Staged, HeaderStage, DoneStage, LenStage, PointsStage

(* More bytes arrive.                                                      *)
LEMMA PushStep ==
  ASSUME Parsed, NEW n \in Nat, Push(n)
  PROVE  Parsed'
<1>1. /\ st = "ready" /\ pushed' = pushed + n
      /\ UNCHANGED <<source, stage, event, seen>>
  BY DEF Push
<1>2. /\ key' = key /\ extra' = extra /\ Staged' /\ Told' /\ EventsInFileOrder'
  BY <1>1, Frame
<1>3. pushed \in Nat /\ pos \in 0..pushed /\ buf \in 0..pos /\ pos = pushed
      /\ pos = StageAt(stage) + buf
  BY <1>1 DEF Parsed, TypeOK, InPlace, Waiting
<1>4. StageAt(stage)' = StageAt(stage)
  BY <1>1, <1>2, KeyFixed
<1>5. CASE stage.s = "Header"
  <2>1. buf' = buf + n /\ pos' = pos + n /\ st' = "header"
    BY <1>5 DEF Push
  <2>2. stage = HeaderStage /\ pos = buf
    BY <1>3, <1>5, StageKinds, StagePlaces
  <2>3. TypeOK'
    BY <1>1, <1>2, <1>3, <2>1 DEF Parsed, TypeOK
  <2>4. InPlace'
    BY <1>1, <1>3, <2>1, <2>2 DEF InPlace, Waiting
  <2>5. Emitting' /\ BufferBounded'
    BY <1>1, <1>5, <2>1 DEF Emitting, BufferBounded
  <2> QED BY <1>2, <2>3, <2>4, <2>5 DEF Parsed
<1>6. CASE stage.s # "Header"
  <2>1. buf' = buf /\ pos' = pos /\ st' = "body"
    BY <1>6 DEF Push
  <2>2. TypeOK'
    BY <1>1, <1>2, <1>3, <2>1 DEF Parsed, TypeOK
  <2>3. InPlace'
    BY <1>1, <1>2, <1>4, <1>6, <2>1, KeyFixed DEF Parsed, InPlace, Waiting
  <2>4. Emitting' /\ BufferBounded'
    BY <1>1, <2>1 DEF Parsed, Emitting, BufferBounded
  <2> QED BY <1>2, <2>2, <2>3, <2>4 DEF Parsed
<1> QED
  BY <1>5, <1>6

(* The header parses, or it is not all there yet.                          *)
LEMMA HeaderStep ==
  ASSUME Parsed, TryHeader
  PROVE  Parsed'
<1>1. st = "header" /\ UNCHANGED <<source, pushed, seen>> /\ stage = HeaderStage /\ pos = buf /\ pos = pushed
  BY DEF TryHeader, Parsed, InPlace
<1>2. pushed \in Nat /\ pos \in 0..pushed /\ buf \in 0..pos /\ key.header \in Nat \ {0}
  BY Layout DEF Parsed, TypeOK
<1>3. key' = key /\ extra' = extra
  BY <1>1 DEF source
<1>4. seen = <<>>
  <2>1. \A e : ~Leads(e, HeaderStage)
    BY DEF Leads, AfterStage, HeaderStage, LenStage, PointsStage, DoneStage
  <2> QED BY <1>1, <2>1 DEF Parsed, Told
<1>5. CASE buf >= key.header
  <2>1. pos' = key.header /\ buf' = 0 /\ stage' = LenStage(1) /\ event' = HeaderEvent /\ st' = "emit"
    BY <1>2, <1>5 DEF TryHeader
  <2>2. TypeOK'
    BY <1>1, <1>2, <1>3, <1>5, <2>1 DEF Parsed, TypeOK, Stage, LenStage, Event, HeaderEvent
  <2>3. Staged' /\ InPlace' /\ Emitting' /\ Told'
    BY <1>1, <1>3, <1>4, <2>1 DEF Staged, InPlace, Emitting, Told, Waiting
  <2>4. BufferBounded'
    BY <1>2, <2>1, TotalNat DEF BufferBounded, LenStage, Parsed
  <2>5. EventsInFileOrder'
    BY <1>1, <1>3, KeyFixed DEF Parsed, EventsInFileOrder
  <2> QED BY <2>2, <2>3, <2>4, <2>5 DEF Parsed
<1>6. CASE buf < key.header
  <2>1. UNCHANGED <<pos, buf, stage, event>> /\ st' \in {"ready", "error"}
    BY <1>2, <1>6 DEF TryHeader
  <2>2. CASE st' = "error"
    BY <1>1, <2>1, <2>2, Stopped
  <2>3. CASE st' = "ready"
    <3>1. TypeOK'
      BY <1>1, <1>3, <2>1, <2>3 DEF Parsed, TypeOK
    <3>2. StageAt(stage)' = 0
      BY <1>1, <1>3, <2>1, KeyFixed, StagePlaces
    <3>3. InPlace'
      <4>1. pos' = StageAt(stage)' + buf' /\ pos' = pushed' /\ buf' < key.header'
        <5>1. pos' = pos /\ buf' = buf /\ pushed' = pushed /\ key' = key
          BY <1>1, <1>3, <2>1
        <5>2. pos = 0 + buf
          BY <1>1, <1>2
        <5> QED BY <1>1, <1>6, <3>2, <5>1, <5>2
      <4>2. stage'.s = "Header"
        BY <1>1, <2>1 DEF HeaderStage
      <4> QED BY <2>3, <4>1, <4>2 DEF InPlace
    <3>4. Emitting' /\ BufferBounded'
      BY <1>1, <2>1, <2>3 DEF Emitting, BufferBounded, HeaderStage
    <3>5. Staged' /\ Told' /\ EventsInFileOrder'
      BY <1>1, <2>1, Frame
    <3> QED BY <3>1, <3>3, <3>4, <3>5 DEF Parsed
  <2> QED BY <2>1, <2>2, <2>3
<1> QED
  BY <1>2, <1>5, <1>6

(* A step in a stage has told the header at least.                         *)
LEMMA HeaderTold ==
  ASSUME Parsed, st = "body"
  PROVE  seen # <<>>
  BY DEF Parsed, Told, InPlace, HeaderStage

(* Taking bytes ends with all that were pushed, or with the whole piece.   *)
LEMMA Taken ==
  ASSUME Parsed, st = "body", UNCHANGED <<source, pushed, stage, seen>>,
         NEW need \in Nat, buf < need, NEW e, TakeUpTo(need, e)
  PROVE  /\ StageAt(stage) \in Nat /\ StageAt(stage)' = StageAt(stage)
         /\ \/ /\ st' = "ready" /\ event' = event
               /\ pos' = pushed' /\ pos' = StageAt(stage) + buf'
               /\ buf' \in 0..pos' /\ buf' < need
            \/ /\ st' = "emit" /\ event' = [e EXCEPT !.at = StageAt(stage)]
               /\ pos' = StageAt(stage) + need /\ pos' <= pushed'
               /\ buf' = IF stage.s = "Len" THEN 0 ELSE need
<1>1. pushed \in Nat /\ pos \in 0..pushed /\ buf \in 0..pos /\ pos = StageAt(stage) + buf
  BY DEF Parsed, TypeOK, InPlace
<1>2. StageAt(stage) \in Nat
  <2>1. CASE stage.s = "Len" \/ stage.s = "Points"
    <3>1. stage.i \in 1..5 /\ LenAt(stage.i) \in Nat /\ PointSize(stage.i) \in Nat /\ LenBytes \in Nat
      BY <2>1, StageKinds, Layout, TotalNat DEF Parsed
    <3>2. CASE stage.s = "Len"
      BY <3>1, <3>2 DEF StageAt
    <3>3. CASE stage.s = "Points"
      <4>1. stage.done \in Nat
        BY <3>1, <3>3, StageKinds, Layout DEF Parsed
      <4>2. stage.done * PointSize(stage.i) \in Nat
        BY <3>1, <4>1
      <4> QED BY <3>1, <3>3, <4>2 DEF StageAt
    <3> QED BY <2>1, <3>2, <3>3
  <2>2. CASE stage.s # "Len" /\ stage.s # "Points"
    BY <2>2, TotalNat DEF StageAt, Parsed
  <2> QED BY <2>1, <2>2
<1>3. StageAt(stage)' = StageAt(stage)
  BY KeyFixed DEF source
<1> DEFINE take == Smaller(need - buf, Rest)
<1>4. take \in Nat /\ take <= Rest /\ buf + take <= need /\ (buf + take < need => take = Rest)
  BY <1>1 DEF Smaller, Rest
<1>5. pos' = pos + take
  BY DEF TakeUpTo
<1>6. CASE buf + take < need
  <2>1. buf' = buf + take /\ st' = "ready" /\ event' = event
    BY <1>6 DEF TakeUpTo
  <2> HIDE DEF take
  <2> QED BY <1>1, <1>2, <1>3, <1>4, <1>5, <1>6, <2>1 DEF Rest
<1>7. CASE ~(buf + take < need)
  <2>1. buf' = (IF stage.s = "Len" THEN 0 ELSE need) /\ st' = "emit"
        /\ event' = [e EXCEPT !.at = pos + take - need]
    BY <1>7 DEF TakeUpTo
  <2> HIDE DEF take
  <2>2. buf + take = need
    BY <1>1, <1>4, <1>7
  <2>3. pos + take - need = StageAt(stage)
    BY <1>1, <1>2, <1>4, <2>2
  <2>4. pos' = StageAt(stage) + need /\ pos' <= pushed'
    BY <1>1, <1>2, <1>4, <1>5, <2>2 DEF Rest
  <2> QED BY <1>2, <1>3, <2>1, <2>3, <2>4
<1> QED
  BY <1>6, <1>7

(* A vector's length is told, or more of it is buffered.                   *)
LEMMA BodyLenStep ==
  ASSUME Parsed, BodyLen
  PROVE  Parsed'
<1>1. /\ st = "body" /\ stage.s = "Len" /\ UNCHANGED <<source, pushed, stage, seen>>
      /\ TakeUpTo(LenBytes, LenEvent(stage.i)) /\ LenBytes \in Nat /\ buf < LenBytes
  BY TotalNat DEF BodyLen, Parsed, InPlace
<1> DEFINE i == stage.i
<1>2. i \in 1..5 /\ stage = LenStage(i) /\ StageAt(stage) = LenAt(i)
  BY <1>1, StageKinds, StagePlaces
<1>3. /\ key' = key /\ extra' = extra /\ Staged' /\ Told' /\ EventsInFileOrder' /\ seen # <<>>
  BY <1>1, Frame, HeaderTold
<1>4. /\ StageAt(stage) \in Nat /\ StageAt(stage)' = StageAt(stage)
      /\ \/ /\ st' = "ready" /\ event' = event
            /\ pos' = pushed' /\ pos' = StageAt(stage) + buf'
            /\ buf' \in 0..pos' /\ buf' < LenBytes
         \/ /\ st' = "emit" /\ event' = [LenEvent(i) EXCEPT !.at = StageAt(stage)]
            /\ pos' = StageAt(stage) + LenBytes /\ pos' <= pushed'
            /\ buf' = IF stage.s = "Len" THEN 0 ELSE LenBytes
  BY <1>1, Taken
<1>5. pushed' = pushed /\ pushed \in Nat /\ stage' = stage /\ seen' = seen
  BY <1>1 DEF Parsed, TypeOK
<1> HIDE DEF i
<1>6. CASE st' = "ready"
  <2>1. event' = event /\ pos' = pushed' /\ pos' = StageAt(stage)' + buf' /\ buf' \in 0..pos' /\ buf' < LenBytes
    BY <1>4, <1>6
  <2>2. TypeOK'
    <3>1. pos' \in 0..pushed' /\ buf' \in 0..pos'
      BY <1>5, <2>1
    <3> QED BY <1>3, <1>5, <1>6, <2>1, <3>1 DEF Parsed, TypeOK
  <2>3. InPlace'
    BY <1>1, <1>5, <1>6, <2>1 DEF InPlace
  <2>4. Emitting' /\ BufferBounded'
    BY <1>1, <1>5, <1>6, <2>1 DEF Emitting, BufferBounded
  <2> QED BY <1>3, <2>2, <2>3, <2>4 DEF Parsed
<1>7. CASE st' = "emit"
  <2>1. /\ event' = [LenEvent(i) EXCEPT !.at = LenAt(i)] /\ pos' = LenAt(i) + LenBytes
        /\ pos' <= pushed' /\ buf' = 0 /\ LenAt(i) \in Nat
    BY <1>1, <1>2, <1>4, <1>7
  <2>2. event' \in Event
    BY <1>2, <2>1, Layout DEF Event, LenEvent, Parsed
  <2>3. TypeOK'
    <3>1. pos' \in 0..pushed' /\ buf' \in 0..pos'
      BY <1>1, <1>5, <2>1
    <3> QED BY <1>3, <1>5, <1>7, <2>2, <3>1 DEF Parsed, TypeOK
  <2>4. InPlace'
    BY <1>7 DEF InPlace, Waiting
  <2>5. Emitting'
    BY <1>2, <1>3, <1>5, <2>1, KeyFixed DEF Emitting
  <2>6. BufferBounded'
    BY <1>1, <1>5, <2>1 DEF BufferBounded
  <2> QED BY <1>3, <2>3, <2>4, <2>5, <2>6 DEF Parsed
<1> QED
  BY <1>4, <1>6, <1>7

(* A chunk of points is told, or more of it is buffered.                   *)
LEMMA BodyPointsStep ==
  ASSUME Parsed, BodyPoints
  PROVE  Parsed'
<1> DEFINE i == stage.i
           d == stage.done
           n == NextChunk(i, d)
<1>1. /\ st = "body" /\ stage.s = "Points" /\ d # key.lens[i]
      /\ UNCHANGED <<source, pushed, stage, seen>>
  BY DEF BodyPoints
<1>2. i \in 1..5 /\ d \in 0..key.lens[i] /\ stage = PointsStage(i, d)
  BY <1>1, StageKinds
<1>3. /\ key' = key /\ extra' = extra /\ Staged' /\ Told' /\ EventsInFileOrder' /\ seen # <<>>
  BY <1>1, Frame, HeaderTold
<1>4. /\ n \in Nat \ {0} /\ n * PointSize(i) \in Nat \ {0} /\ n * PointSize(i) <= Chunk * PointSize(i)
      /\ PointSize(i) \in Nat /\ key.lens[i] \in Nat
  BY <1>1, <1>2, ChunkInVector, Layout DEF Parsed
<1>5. pushed' = pushed /\ pushed \in Nat /\ stage' = stage /\ seen' = seen
      /\ pos \in 0..pushed /\ buf \in 0..pos
  BY <1>1 DEF Parsed, TypeOK
<1>6. buf < n * PointSize(i)
  BY <1>1, <1>4, <1>5 DEF Parsed, InPlace
<1>7. n' = n /\ StageAt(stage)' = StageAt(stage)
  BY <1>3, <1>5, KeyFixed
<1> HIDE DEF i, d, n
<1>8. CASE Rest = 0
  <2>1. st' = "ready" /\ pos' = pos /\ buf' = buf /\ event' = event
    BY <1>1, <1>8 DEF BodyPoints, i, d
  <2>2. pos = pushed /\ pos = StageAt(stage) + buf
    BY <1>1, <1>5, <1>8 DEF Rest, Parsed, InPlace
  <2>3. TypeOK' /\ BufferBounded' /\ Emitting'
    BY <1>3, <1>5, <2>1 DEF Parsed, TypeOK, BufferBounded, Emitting
  <2>4. InPlace'
    BY <1>1, <1>3, <1>5, <1>6, <1>7, <2>1, <2>2 DEF InPlace, i, d, n
  <2> QED BY <1>3, <2>3, <2>4 DEF Parsed
<1>9. CASE Rest # 0
  <2>1. TakeUpTo(n * PointSize(i), PointsEvent(i, d, n))
    BY <1>9 DEF BodyPoints, i, d, n
  <2>2. /\ StageAt(stage) \in Nat
        /\ \/ /\ st' = "ready" /\ event' = event
              /\ pos' = pushed' /\ pos' = StageAt(stage) + buf'
              /\ buf' \in 0..pos' /\ buf' < n * PointSize(i)
           \/ /\ st' = "emit" /\ event' = [PointsEvent(i, d, n) EXCEPT !.at = StageAt(stage)]
              /\ pos' = StageAt(stage) + n * PointSize(i) /\ pos' <= pushed'
              /\ buf' = IF stage.s = "Len" THEN 0 ELSE n * PointSize(i)
    BY <1>1, <1>4, <1>6, <2>1, Taken
  <2>3. CASE st' = "ready"
    <3>1. event' = event /\ pos' = pushed' /\ pos' = StageAt(stage)' + buf' /\ buf' \in 0..pos'
          /\ buf' < n * PointSize(i)
      BY <1>7, <2>2, <2>3
    <3>2. TypeOK'
      <4>1. pos' \in 0..pushed' /\ buf' \in 0..pos'
        BY <1>5, <3>1
      <4> QED BY <1>3, <1>5, <2>3, <3>1, <4>1 DEF Parsed, TypeOK
    <3>3. InPlace'
      BY <1>1, <1>3, <1>5, <1>7, <2>3, <3>1 DEF InPlace, i, d, n
    <3>4. Emitting'
      BY <2>3 DEF Emitting
    <3>5. BufferBounded'
      <4>1. buf' <= Chunk * PointSize(i)
        BY <1>4, <1>5, <3>1, KeyStreamAssumption
      <4> QED BY <1>1, <1>5, <4>1 DEF BufferBounded, i
    <3> QED BY <1>3, <3>2, <3>3, <3>4, <3>5 DEF Parsed
  <2>4. CASE st' = "emit"
    <3>1. /\ event' = [PointsEvent(i, d, n) EXCEPT !.at = StageAt(stage)]
          /\ pos' = StageAt(stage) + n * PointSize(i)
          /\ pos' <= pushed' /\ buf' = n * PointSize(i)
      BY <1>1, <2>2, <2>4
    <3>2. event' \in Event
      BY <1>2, <1>4, <2>2, <3>1 DEF Event, PointsEvent
    <3>3. TypeOK'
      <4>1. pos' \in 0..pushed' /\ buf' \in 0..pos'
        BY <1>4, <1>5, <2>2, <3>1
      <4> QED BY <1>3, <1>5, <2>4, <3>2, <4>1 DEF Parsed, TypeOK
    <3>4. InPlace'
      BY <2>4 DEF InPlace, Waiting
    <3>5. Emitting'
      BY <1>1, <1>2, <1>3, <1>5, <1>7, <3>1, KeyFixed DEF Emitting, n
    <3>6. BufferBounded'
      BY <1>1, <1>4, <1>5, <3>1 DEF BufferBounded, i
    <3> QED BY <1>3, <3>3, <3>4, <3>5, <3>6 DEF Parsed
  <2> QED BY <2>2, <2>3, <2>4
<1> QED
  BY <1>8, <1>9

(* A finished vector's last event also leads to what follows the vector.   *)
LEMMA VectorEndStep ==
  ASSUME Parsed, VectorEnd
  PROVE  Parsed'
<1> DEFINE i == stage.i
           g == AfterStage(i)
<1>1. /\ st = "body" /\ stage.s = "Points" /\ stage.done = key.lens[i] /\ stage' = g
      /\ UNCHANGED <<source, pushed, pos, buf, st, event, seen>>
  BY DEF VectorEnd, AfterStage
<1>2. i \in 1..5 /\ stage = PointsStage(i, key.lens[i]) /\ key' = key /\ extra' = extra
  BY <1>1, StageKinds DEF source
<1>3. /\ pos = StageAt(stage) + buf /\ buf = 0 /\ seen # <<>> /\ LenBytes \in Nat \ {0}
  BY <1>1, TotalNat, HeaderTold DEF Parsed, InPlace
<1>4. pos = StageAt(g)
  <2>1. /\ LenAt(i) \in Nat /\ key.lens[i] * PointSize(i) \in Nat
        /\ LenAt(i) + LenBytes + key.lens[i] * PointSize(i) = StageAt(g)
    BY <1>2, Layout DEF Parsed
  <2>2. StageAt(stage) = LenAt(i) + LenBytes + key.lens[i] * PointSize(i)
    BY <1>2, StagePlaces
  <2> QED BY <1>3, <2>1, <2>2
<1>5. StageAt(stage)' = StageAt(g)
  BY <1>1, <1>2, KeyFixed
<1>6. /\ \/ g = DoneStage
         \/ \E j \in 1..5 : g = LenStage(j)
      /\ g \in Stage /\ g.s \in {"Len", "Done"}
  BY <1>2 DEF AfterStage, Stage, LenStage, DoneStage
<1>7. Leads(seen[Len(seen)], g)
  <2>1. Leads(seen[Len(seen)], PointsStage(i, key.lens[i]))
    BY <1>2, <1>3 DEF Parsed, Told
  <2> DEFINE e == seen[Len(seen)]
  <2> HIDE DEF e
  <2>2. /\ PointsStage(i, key.lens[i]) # LenStage(1)
        /\ \A j : PointsStage(i, key.lens[i]) # AfterStage(j)
        /\ \A j, d : PointsStage(i, key.lens[i]) = PointsStage(j, d) => j = i /\ d = key.lens[i]
    BY DEF PointsStage, LenStage, AfterStage, DoneStage
  <2>3. \/ e.e = "Len" /\ e.i = i /\ e.n = key.lens[i] /\ key.lens[i] = 0
        \/ e.e = "Points" /\ e.i = i /\ e.off + e.n = key.lens[i]
    BY <2>1, <2>2 DEF Leads, e
  <2> QED BY <1>2, <2>3 DEF Leads, e
<1> HIDE DEF i, g
<1>8. TypeOK' /\ Staged'
  BY <1>1, <1>2, <1>6 DEF Parsed, TypeOK, Staged
<1>9. InPlace'
  BY <1>1, <1>3, <1>4, <1>5, <1>6 DEF InPlace, Waiting, Parsed
<1>10. Emitting' /\ BufferBounded'
  BY <1>1, <1>3, <1>6 DEF Emitting, BufferBounded
<1>11. Told' /\ EventsInFileOrder'
  BY <1>1, <1>2, <1>3, <1>7, KeyFixed DEF Told, Parsed, EventsInFileOrder
<1> QED
  BY <1>8, <1>9, <1>10, <1>11 DEF Parsed

(* The event being handled is the file's next one.                         *)
LEMMA NextInFile ==
  ASSUME Parsed, st = "emit", seen # <<>>
  PROVE  Follows(seen[Len(seen)], event)
<1> DEFINE e == seen[Len(seen)]
<1>1. Leads(e, stage)
  BY DEF Parsed, Told
<1> HIDE DEF e
<1>2. CASE \E i \in 1..5 : stage = LenStage(i) /\ event = [LenEvent(i) EXCEPT !.at = LenAt(i)]
  <2>1. PICK i \in 1..5 : stage = LenStage(i) /\ event = [LenEvent(i) EXCEPT !.at = LenAt(i)]
    BY <1>2
  <2>2. event.e = "Len" /\ event.i = i /\ event.at = LenAt(i) /\ event.n = key.lens[i]
    BY <2>1 DEF LenEvent
  <2>3. \/ e = HeaderEvent /\ i = 1
        \/ \E j \in 1..5 : /\ i = j + 1 /\ e.i = j
                           /\ \/ e.e = "Len" /\ e.n = key.lens[j] /\ key.lens[j] = 0
                              \/ e.e = "Points" /\ e.off + e.n = key.lens[j]
    BY <1>1, <2>1 DEF Leads, LenStage, AfterStage, PointsStage, DoneStage
  <2>4. CASE e = HeaderEvent /\ i = 1
    BY <2>2, <2>4 DEF Follows, AfterVector, HeaderEvent, e
  <2>5. CASE \E j \in 1..5 : /\ i = j + 1 /\ e.i = j
                           /\ \/ e.e = "Len" /\ e.n = key.lens[j] /\ key.lens[j] = 0
                              \/ e.e = "Points" /\ e.off + e.n = key.lens[j]
    BY <2>2, <2>5 DEF Follows, AfterVector, e
  <2> QED BY <2>3, <2>4, <2>5
<1>3. CASE \E i \in 1..5 : \E d \in 0..key.lens[i] :
             /\ d # key.lens[i] /\ stage = PointsStage(i, d)
             /\ event = [PointsEvent(i, d, NextChunk(i, d)) EXCEPT !.at = StageAt(stage)]
  <2>0. PICK i \in 1..5 : \E d \in 0..key.lens[i] :
             /\ d # key.lens[i] /\ stage = PointsStage(i, d)
             /\ event = [PointsEvent(i, d, NextChunk(i, d)) EXCEPT !.at = StageAt(stage)]
    BY <1>3
  <2>1. PICK d \in 0..key.lens[i] :
             /\ d # key.lens[i] /\ stage = PointsStage(i, d)
             /\ event = [PointsEvent(i, d, NextChunk(i, d)) EXCEPT !.at = StageAt(stage)]
    BY <2>0
  <2>2. NextPoints(i, d, event)
    BY <2>1, StagePlaces DEF NextPoints, PointsEvent
  <2>3. \/ e.e = "Len" /\ e.i = i /\ e.n = key.lens[i] /\ d = 0
        \/ e.e = "Points" /\ e.i = i /\ d = e.off + e.n
    BY <1>1, <2>1 DEF Leads, LenStage, AfterStage, PointsStage, DoneStage
  <2> QED BY <2>1, <2>2, <2>3 DEF Follows, e
<1> QED
  BY <1>2, <1>3 DEF Parsed, Emitting

(* Telling the next event keeps the file's order.                          *)
LEMMA ResumeOrder ==
  ASSUME Parsed, Resume
  PROVE  EventsInFileOrder' /\ seen' \in Seq(Event) /\ seen' # <<>> /\ seen'[Len(seen')] = event
<1>1. st = "emit" /\ seen' = Append(seen, event) /\ key' = key /\ seen \in Seq(Event) /\ event \in Event
  BY DEF Resume, source, Parsed, TypeOK
<1>2. /\ seen' \in Seq(Event) /\ Len(seen') = Len(seen) + 1 /\ Len(seen) \in Nat
      /\ \A m \in 1..Len(seen) : seen'[m] = seen[m]
      /\ seen'[Len(seen) + 1] = event
  BY <1>1
<1>3. (seen' # <<>> => seen'[1] = HeaderEvent)
  <2>1. CASE seen = <<>>
    BY <1>1, <1>2, <2>1 DEF Parsed, Emitting
  <2>2. CASE seen # <<>>
    <3>1. 1 \in 1..Len(seen)
      BY <1>1, <2>2
    <3> QED BY <1>2, <2>2, <3>1 DEF Parsed, EventsInFileOrder
  <2> QED BY <2>1, <2>2
<1>4. ASSUME NEW m \in 1..(Len(seen') - 1)
      PROVE  Follows(seen'[m], seen'[m + 1])
  <2>1. CASE m = Len(seen)
    <3>1. seen # <<>>
      BY <1>1, <1>2, <2>1
    <3> QED BY <1>1, <1>2, <2>1, <3>1, NextInFile
  <2>2. CASE m # Len(seen)
    <3>1. m \in 1..Len(seen) /\ m + 1 \in 1..Len(seen) /\ m \in 1..(Len(seen) - 1)
      BY <1>2, <2>2
    <3>2. seen'[m] = seen[m] /\ seen'[m + 1] = seen[m + 1]
      BY <1>2, <3>1
    <3> QED BY <3>1, <3>2 DEF Parsed, EventsInFileOrder
  <2> QED BY <2>1, <2>2
<1>5. EventsInFileOrder'
  BY <1>1, <1>3, <1>4, KeyFixed DEF EventsInFileOrder
<1> QED
  BY <1>1, <1>2, <1>5

(* The handler accepted the event: the parser moves to the next piece.     *)
LEMMA ResumeStep ==
  ASSUME Parsed, Resume
  PROVE  Parsed'
<1>1. /\ st = "emit" /\ st' = "body" /\ buf' = 0 /\ pos' = pos /\ pushed' = pushed /\ event' = event
      /\ key' = key /\ extra' = extra
  BY DEF Resume, source
<1>2. /\ EventsInFileOrder' /\ seen' \in Seq(Event) /\ seen' # <<>> /\ seen'[Len(seen')] = event
  BY ResumeOrder
<1>3. /\ pushed \in Nat /\ pos \in 0..pushed /\ LenBytes \in Nat \ {0}
  BY TotalNat DEF Parsed, TypeOK
<1> DEFINE Placed == /\ stage'.s # "Header" /\ stage' \in Stage /\ Staged'
                     /\ pos = StageAt(stage') /\ Leads(event, stage')
<1>4. Placed
  <2>1. CASE event = HeaderEvent /\ stage = LenStage(1) /\ pos = key.header
    <3>1. stage' = LenStage(1)
      BY <2>1 DEF Resume, HeaderEvent
    <3>2. pos = StageAt(LenStage(1))
      BY <2>1, StagePlaces, Layout DEF Parsed
    <3>3. Leads(event, LenStage(1))
      BY <2>1 DEF Leads
    <3> QED BY <1>1, <3>1, <3>2, <3>3 DEF Stage, LenStage, Staged
  <2>2. ASSUME NEW i \in 1..5, stage = LenStage(i), event = [LenEvent(i) EXCEPT !.at = LenAt(i)],
               pos = LenAt(i) + LenBytes
        PROVE  Placed
    <3>1. stage' = PointsStage(i, 0) /\ event.e = "Len" /\ event.i = i /\ event.n = key.lens[i]
      BY <2>2 DEF Resume, LenEvent
    <3>2. LenAt(i) \in Nat /\ PointSize(i) \in Nat /\ key.lens[i] \in Nat
      BY Layout DEF Parsed
    <3>3. pos = StageAt(PointsStage(i, 0))
      BY <1>3, <2>2, <3>2, StagePlaces
    <3>4. Leads(event, PointsStage(i, 0))
      BY <3>1 DEF Leads
    <3> QED BY <1>1, <3>1, <3>2, <3>3, <3>4 DEF Stage, PointsStage, Staged
  <2>3. ASSUME NEW i \in 1..5, NEW d \in 0..key.lens[i], d # key.lens[i], stage = PointsStage(i, d),
               event = [PointsEvent(i, d, NextChunk(i, d)) EXCEPT !.at = StageAt(stage)],
               pos = StageAt(stage) + NextChunk(i, d) * PointSize(i)
        PROVE  Placed
    <3> DEFINE n == NextChunk(i, d)
    <3>1. /\ n \in Nat /\ d + n \in 0..key.lens[i] /\ n * PointSize(i) \in Nat /\ d * PointSize(i) \in Nat
          /\ (d + n) * PointSize(i) = d * PointSize(i) + n * PointSize(i)
          /\ LenAt(i) \in Nat /\ key.lens[i] \in Nat
      BY <2>3, ChunkInVector, Layout DEF Parsed
    <3> HIDE DEF n
    <3>2. stage' = PointsStage(i, d + n) /\ event.e = "Points" /\ event.i = i /\ event.off + event.n = d + n
      BY <2>3 DEF Resume, PointsEvent, n
    <3>3. pos = StageAt(PointsStage(i, d + n))
      BY <1>3, <2>3, <3>1, StagePlaces DEF n
    <3>4. Leads(event, PointsStage(i, d + n))
      BY <3>2 DEF Leads
    <3>5. PointsStage(i, d + n) \in Stage
      BY <3>1 DEF Stage, PointsStage
    <3> QED BY <1>1, <3>1, <3>2, <3>3, <3>4, <3>5 DEF PointsStage, Staged
  <2> HIDE DEF Placed
  <2>4. CASE \E i \in 1..5 : /\ stage = LenStage(i) /\ event = [LenEvent(i) EXCEPT !.at = LenAt(i)]
                             /\ pos = LenAt(i) + LenBytes
    BY <2>2, <2>4
  <2>5. CASE \E i \in 1..5 : \E d \in 0..key.lens[i] :
               /\ d # key.lens[i] /\ stage = PointsStage(i, d)
               /\ event = [PointsEvent(i, d, NextChunk(i, d)) EXCEPT !.at = StageAt(stage)]
               /\ pos = StageAt(stage) + NextChunk(i, d) * PointSize(i)
    BY <2>3, <2>5
  <2> QED BY <1>1, <2>1, <2>4, <2>5 DEF Parsed, Emitting
<1>5. StageAt(stage)' = StageAt(stage') /\ StageAt(stage') \in Nat
  BY <1>1, <1>3, <1>4, KeyFixed
<1>6. TypeOK'
  BY <1>1, <1>2, <1>3, <1>4 DEF Parsed, TypeOK
<1>7. InPlace'
  BY <1>1, <1>3, <1>4, <1>5 DEF InPlace, Waiting
<1>8. Emitting' /\ Told'
  BY <1>1, <1>2, <1>4, KeyFixed DEF Emitting, Told
<1>9. BufferBounded'
  <2>1. stage'.s = "Points" => stage'.i \in 1..5
    BY <1>4 DEF Staged, HeaderStage, DoneStage, LenStage, PointsStage
  <2>2. \A i \in 1..5 : 0 <= Chunk * PointSize(i)
    <3>1. \A c, p \in Nat : 0 <= c * p
      BY TimesMonotone
    <3> QED BY <3>1, Layout, KeyStreamAssumption DEF Parsed
  <2> QED BY <1>1, <1>3, <2>1, <2>2 DEF BufferBounded
<1> QED
  BY <1>2, <1>4, <1>6, <1>7, <1>8, <1>9 DEF Parsed

(* A step of something else.                                               *)
LEMMA StutterStep ==
  ASSUME Parsed, UNCHANGED ksvars
  PROVE  Parsed'
<1>1. /\ key' = key /\ extra' = extra /\ pushed' = pushed /\ pos' = pos /\ buf' = buf
      /\ stage' = stage /\ st' = st /\ event' = event /\ seen' = seen
  BY DEF ksvars, source
<1>2. TypeOK' /\ Staged' /\ BufferBounded'
  BY <1>1 DEF Parsed, TypeOK, Staged, BufferBounded
<1>3. StageAt(stage)' = StageAt(stage)
  BY <1>1, KeyFixed
<1>4. InPlace'
  BY <1>1, <1>3, KeyFixed DEF Parsed, InPlace
<1>5. Emitting'
  BY <1>1, <1>3, KeyFixed DEF Parsed, Emitting
<1>6. Told' /\ EventsInFileOrder'
  BY <1>1, KeyFixed DEF Parsed, Told, EventsInFileOrder
<1> QED
  BY <1>2, <1>4, <1>5, <1>6 DEF Parsed

(* The parser starts at the first byte.                                    *)
LEMMA ParsedFirst ==
  ASSUME Begin
  PROVE  Parsed
<1>1. /\ key \in Keys /\ extra \in 0..MaxExtra /\ pushed = 0 /\ pos = 0 /\ buf = 0
      /\ stage = HeaderStage /\ st = "ready" /\ event = HeaderEvent /\ seen = <<>>
  BY DEF Begin, StreamInit
<1>2. TypeOK
  <2>1. HeaderStage \in Stage /\ HeaderEvent \in Event /\ <<>> \in Seq(Event)
    BY DEF HeaderStage, Stage, HeaderEvent, Event
  <2> QED BY <1>1, <2>1 DEF TypeOK
<1>3. key.header \in Nat \ {0} /\ StageAt(stage) = 0
  BY <1>1, <1>2, Layout, StagePlaces
<1>4. Staged /\ InPlace /\ Emitting /\ Told /\ BufferBounded /\ EventsInFileOrder
  BY <1>1, <1>3
     DEF Staged, InPlace, Waiting, Emitting, Told, BufferBounded, EventsInFileOrder, HeaderStage
<1> QED
  BY <1>2, <1>4 DEF Parsed

(* Every step keeps the parser in place.                                   *)
LEMMA ParsedNext ==
  ASSUME Parsed, [Next]_pvars
  PROVE  Parsed'
<1>1. CASE Hinted
  BY <1>1, Stopped DEF Hinted, Waiting
<1>2. ASSUME NEW n \in 0..(Total + extra - pushed), Push(n)
      PROVE  Parsed'
  BY <1>2, PushStep
<1>3. CASE TryHeader
  BY <1>3, HeaderStep
<1>4. CASE BodyDone
  BY <1>4, Stopped DEF BodyDone
<1>5. CASE BodyLen
  BY <1>5, BodyLenStep
<1>6. CASE VectorEnd
  BY <1>6, VectorEndStep
<1>7. CASE BodyPoints
  BY <1>7, BodyPointsStep
<1>8. CASE Fold
  BY <1>8, ResumeStep DEF Fold
<1>9. CASE Refused
  BY <1>9, Stopped DEF Refused, Refuse
<1>10. CASE FinishProof
  BY <1>10, Stopped DEF FinishProof, Finish, Waiting
<1>11. CASE UNCHANGED pvars
  BY <1>11, StutterStep DEF pvars
<1> QED
  BY <1>1, <1>2, <1>3, <1>4, <1>5, <1>6, <1>7, <1>8, <1>9, <1>10, <1>11 DEF Next, Feed, Parse

(* KeyStream.push and emit, whatever the key and however it is cut into    *)
(* pushes: the parser keeps its place, buffers no more than a piece, tells *)
(* the file's events in order, and knows the last byte when it has it.     *)
THEOREM Streamed == Spec => []StreamInOrder
<1>1. Begin => Parsed
  BY ParsedFirst
<1>2. Parsed /\ [Next]_pvars => Parsed'
  BY ParsedNext
<1>3. Parsed => StreamInOrder
  BY ParsedSuffices
<1> QED
  BY <1>1, <1>2, <1>3, PTL DEF Spec

-----------------------------------------------------------------------------
(* Evaluation domains.                                                     *)

(* The sizes with_size shifts up to are positive numbers.                  *)
LEMMA Powers ==
  Power \in [0..TwoAdicity -> Nat \ {0}]
<1> DEFINE N == Nat \ {0}
           step == [x \in (1..TwoAdicity) \X N |-> 2 * x[2]]
           IsPower(f) == f = [k \in 0..TwoAdicity |-> IF k = 0 THEN 1 ELSE 2 * f[k - 1]]
<1>0. TwoAdicity \in Nat /\ 1 \in N
  BY PushProverAssumption
<1>1. step \in [(1..TwoAdicity) \X N -> N]
  <2>1. ASSUME NEW x \in (1..TwoAdicity) \X N
        PROVE  2 * x[2] \in N
    BY <2>1
  <2> QED BY <2>1
<1>2. PICK f : Recursion(f, TwoAdicity, N, 1, step)
  <2> HIDE DEF step, N
  <2> QED BY <1>0, <1>1, SegmentRecursion
<1>3. IsPower(f)
  <2>1. ASSUME NEW k \in 0..TwoAdicity
        PROVE  f[k] = IF k = 0 THEN 1 ELSE 2 * f[k - 1]
    <3>1. CASE k # 0
      <4>1. k \in 1..TwoAdicity /\ k - 1 \in 0..TwoAdicity
        BY <3>1, <1>0
      <4>2. f[k - 1] \in N
        BY <4>1, <1>2 DEF Recursion
      <4>3. step[<<k, f[k - 1]>>] = 2 * f[k - 1]
        BY <4>1, <4>2
      <4> HIDE DEF step
      <4> QED BY <4>1, <4>3, <1>2, <3>1 DEF Recursion
    <3> QED BY <3>1, <1>2 DEF Recursion
  <2> QED BY <2>1, <1>2 DEF Recursion
<1>4. Power = CHOOSE g : IsPower(g)
  BY DEF Power
<1>5. IsPower(Power)
  <2> HIDE DEF IsPower
  <2> QED BY <1>3, <1>4
<1>6. ASSUME NEW k \in 0..TwoAdicity
      PROVE  Power[k] = f[k]
  <2> DEFINE Same == {i \in 0..TwoAdicity : Power[i] = f[i]}
  <2>1. 0 \in Same
    BY <1>0, <1>3, <1>5
  <2>2. ASSUME NEW i \in 0..TwoAdicity, i # 0, i - 1 \in Same
        PROVE  i \in Same
    <3>1. Power[i] = 2 * Power[i - 1] /\ f[i] = 2 * f[i - 1]
      BY <1>3, <1>5, <2>2
    <3> QED BY <2>2, <3>1
  <2>3. \A i \in 0..TwoAdicity : i \in Same
    <3> HIDE DEF Same
    <3> QED BY <1>0, <2>1, <2>2, SegmentInduction
  <2> QED BY <2>3
<1> QED
  BY <1>2, <1>5, <1>6 DEF Recursion

(* A radix-2 size is a supported one, and all are positive.                *)
LEMMA DomainSizes ==
  Radix2 \subseteq Supported /\ Supported \subseteq Nat \ {0}
<1>1. ASSUME NEW n \in Radix2 PROVE n \in Nat \ {0}
  BY Powers DEF Radix2
<1>2. ASSUME NEW n \in Supported PROVE n \in Nat \ {0}
  <2>1. n \in Radix2 \/ (\E m \in Radix2 : n = 3 * m) \/ (\E m \in Radix2 : n = 9 * m)
    BY DEF Supported
  <2> QED BY <1>1, <2>1
<1> QED
  BY <1>2 DEF Supported

LEMMA LeastIs ==
  ASSUME NEW S, S \subseteq Nat, S # {}
  PROVE  Least(S) \in S /\ \A m \in S : Least(S) <= m
BY LeastNat DEF Least

(* A circuit within the curve's domains has its radix-2 domain, and the    *)
(* least supported one is no larger.                                       *)
LEMMA CircuitDomains ==
  ASSUME rows \in RowCounts
  PROVE  /\ DomainOk(DomainFor) /\ DomainFor \in Nat \ {0}
         /\ LET d == Least({n \in Supported : n >= rows}) IN
            DomainOk(d) /\ d \in Nat \ {0} /\ d <= DomainFor
<1>1. Power[TwoAdicity] \in Radix2 /\ Power[TwoAdicity] >= rows /\ rows \in Nat
  <2>1. TwoAdicity \in 0..TwoAdicity /\ RowCounts \subseteq 1..Power[TwoAdicity]
    BY PushProverAssumption
  <2>2. Power[TwoAdicity] \in Nat
    BY <2>1, Powers
  <2> QED BY <2>1, <2>2 DEF Radix2
<1>2. DomainFor \in {n \in Radix2 : n >= rows}
  <2>1. {n \in Radix2 : n >= rows} \subseteq Nat /\ {n \in Radix2 : n >= rows} # {}
    BY <1>1, DomainSizes
  <2> QED BY <2>1, LeastIs DEF DomainFor
<1>3. PICK d : d = Least({n \in Supported : n >= rows})
  OBVIOUS
<1>4. d \in {n \in Supported : n >= rows} /\ \A m \in {n \in Supported : n >= rows} : d <= m
  <2>1. {n \in Supported : n >= rows} \subseteq Nat /\ {n \in Supported : n >= rows} # {}
    BY <1>2, DomainSizes
  <2> QED BY <1>3, <2>1, LeastIs
<1> QED
  BY <1>2, <1>3, <1>4, DomainSizes DEF DomainOk

-----------------------------------------------------------------------------
(* What has been folded.                                                   *)

(* Points of vector i that come before stage g.                            *)
Upto(g, i) == CASE g.s = "Done" -> key.lens[i]
                [] g.s = "Header" -> 0
                [] OTHER -> IF i < g.i THEN key.lens[i] ELSE IF i = g.i THEN g.done ELSE 0

PairsBefore(g) == {p \in [v : 1..5, k : Nat, s : Nat] :
                     p.k < Upto(g, p.v) /\ p.s = ScalarAt(p.v, p.k)}

(* Vector i is no longer than the scalars it is folded with.               *)
Fits(i) == CASE i = H -> key.lens[i] <= h
             [] i = L -> key.lens[i] = NumVars - NumInst
             [] OTHER -> key.lens[i] = NumVars

Summed ==
  /\ h \in Nat
  /\ stage.s = "Points" => Fits(stage.i)
  /\ stage.s = "Done" => Fits(L)
  /\ folded = SetToBag(PairsBefore(stage))
  /\ outcome = "proof" => stage = DoneStage /\ st = "finished"

(* Disjoint sets of pairs add up without a second copy.                    *)
LEMMA BagsOfSets ==
  ASSUME NEW A, NEW B, A \cap B = {}
  PROVE  SetToBag(A) (+) SetToBag(B) = SetToBag(A \cup B)
  BY DEF SetToBag, (+)

(* A set has each of its elements once.                                    *)
LEMMA BagOfSet ==
  ASSUME NEW A
  PROVE  BagToSet(SetToBag(A)) = A /\ \A e \in A : SetToBag(A)[e] = 1
  BY DEF SetToBag, BagToSet

(* Every scalar the fold reads exists, and a finished proof has them all.  *)
LEMMA SummedSuffices ==
  ASSUME Parsed, Summed
  PROVE  FoldExact
<1>1. NumInst \in Nat /\ NumVars \in Nat /\ NumInst <= NumVars
  BY PushProverAssumption
<1>2. ScalarsInRange
  <2>1. SUFFICES ASSUME st = "emit", event.e = "Points",
                        NEW k \in event.off .. event.off + event.n - 1
                 PROVE  ScalarAt(event.i, k) < IF event.i = H THEN h ELSE NumVars
    BY DEF ScalarsInRange
  <2>2. PICK i \in 1..5 : \E d \in 0..key.lens[i] :
          /\ d # key.lens[i] /\ stage = PointsStage(i, d)
          /\ event = [PointsEvent(i, d, NextChunk(i, d)) EXCEPT !.at = StageAt(stage)]
    BY <2>1 DEF Parsed, Emitting, HeaderEvent, LenEvent
  <2>3. PICK d \in 0..key.lens[i] :
          /\ d # key.lens[i] /\ stage = PointsStage(i, d)
          /\ event = [PointsEvent(i, d, NextChunk(i, d)) EXCEPT !.at = StageAt(stage)]
    BY <2>2
  <2>4. event.i = i /\ event.off = d /\ event.n = NextChunk(i, d) /\ stage.s = "Points" /\ stage.i = i
    BY <2>3 DEF PointsEvent, PointsStage
  <2>5. NextChunk(i, d) \in Nat /\ d + NextChunk(i, d) \in 0..key.lens[i] /\ key.lens[i] \in Nat
    BY <2>3, ChunkInVector, Layout DEF Parsed
  <2>6. k \in Nat /\ k < key.lens[i]
    BY <2>3, <2>4, <2>5
  <2>7. Fits(i) /\ h \in Nat
    BY <2>4 DEF Summed
  <2> QED BY <1>1, <2>4, <2>5, <2>6, <2>7 DEF Fits, ScalarAt, H, L
<1>3. FoldedOnce
  <2>1. SUFFICES ASSUME outcome = "proof" PROVE FoldedOnce!2
    BY DEF FoldedOnce
  <2>2. stage = DoneStage /\ Fits(L) /\ folded = SetToBag(PairsBefore(DoneStage))
    BY <2>1 DEF Summed, DoneStage
  <2>3. \A i \in 1..5 : Upto(DoneStage, i) = key.lens[i] /\ key.lens[i] \in Nat
    BY Layout DEF Upto, DoneStage, Parsed
  <2>4. BagToSet(folded) = PairsBefore(DoneStage) /\ \A e \in PairsBefore(DoneStage) : folded[e] = 1
    BY <2>2, BagOfSet
  <2>5. ASSUME NEW i \in 1..5, NEW k \in 0 .. key.lens[i] - 1
        PROVE  [v |-> i, k |-> k, s |-> ScalarAt(i, k)] \in PairsBefore(DoneStage)
    <3>1. k \in Nat /\ k < key.lens[i] /\ ScalarAt(i, k) \in Nat
      BY <1>1, <2>3 DEF ScalarAt
    <3> QED BY <2>3, <3>1 DEF PairsBefore
  <2>6. \A x \in PairsBefore(DoneStage) : x.v \in 1..5 /\ x.k \in Nat /\ x.k < key.lens[x.v] /\ x.s = ScalarAt(x.v, x.k)
    BY <2>3 DEF PairsBefore
  <2>7. {x.s : x \in {y \in BagToSet(folded) : y.v = L}} = NumInst .. NumVars - 1
    <3>1. key.lens[L] = NumVars - NumInst /\ L \in 1..5
      BY <2>2 DEF Fits, L, H
    <3>2. ASSUME NEW x \in BagToSet(folded), x.v = L
          PROVE  x.s \in NumInst .. NumVars - 1
      <4>1. x.k \in Nat /\ x.k < NumVars - NumInst /\ x.s = NumInst + x.k
        BY <2>4, <2>6, <3>1, <3>2 DEF ScalarAt
      <4> QED BY <1>1, <4>1
    <3>3. ASSUME NEW s \in NumInst .. NumVars - 1
          PROVE  \E x \in BagToSet(folded) : x.v = L /\ x.s = s
      <4>1. s - NumInst \in 0 .. key.lens[L] - 1
        BY <1>1, <3>1
      <4>2. [v |-> L, k |-> s - NumInst, s |-> ScalarAt(L, s - NumInst)] \in BagToSet(folded)
        BY <2>4, <2>5, <3>1, <4>1
      <4>3. ScalarAt(L, s - NumInst) = s
        BY <1>1 DEF ScalarAt
      <4> QED BY <4>2, <4>3
    <3> QED BY <3>2, <3>3
  <2> QED BY <2>4, <2>5, <2>6, <2>7
<1> QED
  BY <1>2, <1>3 DEF FoldExact

(* The pairs before a stage change only when a chunk has been folded.      *)
LEMMA PairsAdvance ==
  ASSUME Parsed
  PROVE  /\ PairsBefore(HeaderStage) = {} /\ PairsBefore(LenStage(1)) = {}
         /\ \A i \in 1..5 : PairsBefore(PointsStage(i, 0)) = PairsBefore(LenStage(i))
         /\ \A i \in 1..5 : PairsBefore(AfterStage(i)) = PairsBefore(PointsStage(i, key.lens[i]))
<1>1. \A i \in 1..5 : key.lens[i] \in Nat
  BY Layout DEF Parsed
<1>2. \A v \in 1..5 : Upto(HeaderStage, v) = 0 /\ Upto(LenStage(1), v) = 0
  BY DEF Upto, HeaderStage, LenStage
<1>3. \A i, v \in 1..5 : Upto(PointsStage(i, 0), v) = Upto(LenStage(i), v)
  BY DEF Upto, PointsStage, LenStage
<1>4. \A i, v \in 1..5 : Upto(AfterStage(i), v) = Upto(PointsStage(i, key.lens[i]), v)
  <2>1. ASSUME NEW i \in 1..5, NEW v \in 1..5
        PROVE  Upto(AfterStage(i), v) = Upto(PointsStage(i, key.lens[i]), v)
    <3>1. Upto(PointsStage(i, key.lens[i]), v) = IF v <= i THEN key.lens[v] ELSE 0
      BY DEF Upto, PointsStage
    <3>2. Upto(AfterStage(i), v) = IF v <= i THEN key.lens[v] ELSE 0
      BY DEF Upto, AfterStage, LenStage, DoneStage
    <3> QED BY <3>1, <3>2
  <2> QED BY <2>1
<1>5. PairsBefore(HeaderStage) = {} /\ PairsBefore(LenStage(1)) = {}
  BY <1>2 DEF PairsBefore
<1>6. \A i \in 1..5 : PairsBefore(PointsStage(i, 0)) = PairsBefore(LenStage(i))
  BY <1>3 DEF PairsBefore
<1>7. \A i \in 1..5 : PairsBefore(AfterStage(i)) = PairsBefore(PointsStage(i, key.lens[i]))
  BY <1>4 DEF PairsBefore
<1> QED
  BY <1>5, <1>6, <1>7

(* A chunk's pairs are the ones between its stage and the next.            *)
LEMMA ChunkPairs ==
  ASSUME Parsed, NEW i \in 1..5, NEW d \in 0..key.lens[i], NEW n \in Nat, d + n \in 0..key.lens[i],
         event.i = i, event.off = d, event.n = n
  PROVE  /\ PairsBefore(PointsStage(i, d)) \cap Pairs = {}
         /\ PairsBefore(PointsStage(i, d)) \cup Pairs = PairsBefore(PointsStage(i, d + n))
<1>1. key.lens[i] \in Nat /\ NumInst \in Nat
  BY Layout, PushProverAssumption DEF Parsed
<1>2. \A e, v \in 1..5 : \A x \in Nat :
        Upto(PointsStage(i, x), v) = IF v < i THEN key.lens[v] ELSE IF v = i THEN x ELSE 0
  BY DEF Upto, PointsStage
<1>3. \A k : ScalarAt(i, k) = IF i = L THEN NumInst + k ELSE k
  BY DEF ScalarAt
<1>4. Pairs = {p \in [v : 1..5, k : Nat, s : Nat] :
                 p.v = i /\ p.k >= d /\ p.k < d + n /\ p.s = ScalarAt(p.v, p.k)}
  <2>1. ASSUME NEW k \in d .. d + n - 1
        PROVE  /\ k \in Nat /\ k >= d /\ k < d + n /\ ScalarAt(i, k) \in Nat
    BY <1>1, <1>3
  <2>2. Pairs = {[v |-> i, k |-> k, s |-> ScalarAt(i, k)] : k \in d .. d + n - 1}
    BY <1>1 DEF Pairs
  <2>3. ASSUME NEW p \in [v : 1..5, k : Nat, s : Nat],
               p.v = i, p.k >= d, p.k < d + n, p.s = ScalarAt(p.v, p.k)
        PROVE  p \in Pairs
    <3>1. p.k \in d .. d + n - 1 /\ p = [v |-> i, k |-> p.k, s |-> ScalarAt(i, p.k)]
      BY <1>1, <2>3
    <3> QED BY <2>2, <3>1
  <2> QED BY <2>1, <2>2, <2>3
<1>5. \A v \in 1..5 : \A k \in Nat :
        /\ ~(k < Upto(PointsStage(i, d), v) /\ v = i /\ k >= d)
        /\ k < Upto(PointsStage(i, d + n), v) <=>
             \/ k < Upto(PointsStage(i, d), v)
             \/ v = i /\ k >= d /\ k < d + n
  BY <1>1, <1>2
<1> QED
  BY <1>4, <1>5 DEF PairsBefore

(* What stays when the key and the quotient's domain do, or when the       *)
(* domain grows.                                                           *)
LEMMA FoldFixed ==
  ASSUME key' = key
  PROVE  /\ \A g : PairsBefore(g)' = PairsBefore(g)
         /\ h \in Nat /\ h' \in Nat /\ h <= h' /\ key.lens[H] \in Nat => \A i : Fits(i) => Fits(i)'
<1>1. \A g : PairsBefore(g)' = PairsBefore(g)
  <2>1. \A g, i : Upto(g, i)' = Upto(g, i)
    BY DEF Upto
  <2>2. \A i, k : ScalarAt(i, k)' = ScalarAt(i, k)
    BY DEF ScalarAt
  <2> QED BY <2>1, <2>2 DEF PairsBefore
<1>2. h \in Nat /\ h' \in Nat /\ h <= h' /\ key.lens[H] \in Nat => \A i : Fits(i) => Fits(i)'
  BY DEF Fits
<1> QED
  BY <1>1, <1>2

(* Steps that fold nothing and leave the stage.                            *)
LEMMA SummedKept ==
  ASSUME Parsed, Summed, key' = key, stage' = stage, folded' = folded, h' \in Nat, h <= h',
         outcome' = "proof" => stage = DoneStage /\ st' = "finished"
  PROVE  Summed'
<1>1. key.lens[H] \in Nat
  BY Layout DEF Parsed, H
<1>2. \A i : Fits(i) => Fits(i)'
  BY <1>1, FoldFixed DEF Summed
<1>3. PairsBefore(stage)' = PairsBefore(stage)
  BY FoldFixed
<1> QED
  BY <1>2, <1>3 DEF Summed

(* Steps of the parser that move on without an event.                      *)
LEMMA SummedParse ==
  ASSUME Parsed, Summed, Parse, UNCHANGED <<h, folded, outcome>>
  PROVE  Summed'
<1>1. key' = key /\ h' = h /\ folded' = folded /\ outcome' = outcome /\ h' \in Nat /\ h <= h'
  BY DEF Parse, TryHeader, BodyDone, BodyLen, VectorEnd, BodyPoints, source, Summed
<1>2. outcome # "proof"
  BY DEF Summed, Parse, TryHeader, BodyDone, BodyLen, VectorEnd, BodyPoints
<1>3. CASE stage' = stage
  BY <1>1, <1>2, <1>3, SummedKept
<1>4. CASE stage' # stage /\ TryHeader
  <2>1. stage = HeaderStage /\ stage' = LenStage(1)
    BY <1>4 DEF TryHeader, Parsed, InPlace
  <2>2. PairsBefore(stage)' = PairsBefore(stage)
    BY <1>1, <2>1, FoldFixed, PairsAdvance
  <2> QED BY <1>1, <1>2, <2>1, <2>2 DEF Summed, LenStage
<1>5. CASE stage' # stage /\ VectorEnd
  <2>0. PICK i \in 1..5 : i = stage.i /\ stage.s = "Points"
    BY <1>5, StageKinds DEF VectorEnd
  <2>1. stage.s = "Points" /\ stage' = AfterStage(i) /\ stage.done = key.lens[i]
    BY <1>5, <2>0 DEF VectorEnd, AfterStage
  <2>2. stage = PointsStage(i, key.lens[i])
    BY <2>0, <2>1, StageKinds
  <2>3. PairsBefore(stage)' = PairsBefore(stage)
    BY <1>1, <2>1, <2>2, FoldFixed, PairsAdvance
  <2>4. stage'.s # "Points" /\ (stage'.s = "Done" => i = L)
    BY <2>0, <2>1 DEF AfterStage, LenStage, DoneStage, L
  <2>5. Fits(i)'
    BY <1>1, <2>0, FoldFixed, Layout DEF Summed, H, Parsed
  <2>6. stage'.s = "Done" => Fits(L)'
    BY <2>4, <2>5
  <2> QED BY <1>1, <1>2, <2>3, <2>4, <2>6 DEF Summed
<1> QED
  BY <1>3, <1>4, <1>5 DEF Parse, BodyDone, BodyLen, BodyPoints

(* A fold of the event told: the header and the lengths settle what the    *)
(* vectors fit, a chunk adds its pairs.                                    *)
LEMMA SummedFold ==
  ASSUME Parsed, Summed, Fold
  PROVE  Summed'
<1>1. /\ st = "emit" /\ key' = key /\ outcome' = outcome /\ outcome # "proof" /\ h \in Nat
      /\ \A n \in Supported : n \in Nat
  BY DomainSizes DEF Fold, Resume, source, Summed
<1>2. CASE event = HeaderEvent /\ stage = LenStage(1)
  <2>1. stage' = stage /\ FoldHeader
    BY <1>2 DEF Fold, Resume, HeaderEvent, FoldLen, FoldPoints
  <2>2. folded' = folded /\ h' \in Nat /\ h <= h'
    <3>1. h' = h \/ (h = 0 /\ h' \in Supported)
      BY <2>1 DEF FoldHeader, HeaderFits, DomainOk
    <3>2. folded' = folded
      BY <2>1 DEF FoldHeader
    <3> QED BY <1>1, <3>1, <3>2
  <2> QED BY <1>1, <2>1, <2>2, SummedKept
<1>3. ASSUME NEW i \in 1..5, stage = LenStage(i), event = [LenEvent(i) EXCEPT !.at = LenAt(i)]
      PROVE  Summed'
  <2>1. stage' = PointsStage(i, 0) /\ event.i = i /\ event.n = key.lens[i] /\ key.lens[i] \in Nat
    BY <1>3, Layout DEF Fold, Resume, LenEvent, Parsed
  <2>2. FoldLen
    BY <1>3 DEF Fold, FoldHeader, FoldPoints, LenEvent
  <2>3. folded' = folded /\ h' \in Nat /\ Fits(i)'
    <3>1. CASE i = H
      <4> DEFINE n == event.n
      <4>1. (h \in {n, n + 1} /\ h' = h) \/ h' \in KeyDomains(n)
        BY <2>1, <2>2, <3>1 DEF FoldLen, HKept, H, L
      <4>2. KeyDomains(n) \subseteq {n, n + 1}
        BY DEF KeyDomains
      <4>3. n = key.lens[i] /\ n \in Nat
        BY <2>1
      <4> HIDE DEF n
      <4>4. h' \in Nat /\ key.lens[i] <= h'
        BY <4>1, <4>2, <4>3
      <4>5. Fits(H)'
        BY <1>1, <3>1, <4>4 DEF Fits, H, L
      <4>6. folded' = folded
        BY <2>2 DEF FoldLen
      <4> QED BY <3>1, <4>4, <4>5, <4>6
    <3>2. CASE i # H
      BY <1>1, <2>1, <2>2, <3>2 DEF FoldLen, HKept, LenFits, Fits, H, L
    <3> QED BY <3>1, <3>2
  <2>4. PairsBefore(stage)' = PairsBefore(stage)
    BY <1>1, <1>3, <2>1, FoldFixed, PairsAdvance
  <2> QED BY <1>1, <2>1, <2>3, <2>4 DEF Summed, PointsStage
<1>4. ASSUME NEW i \in 1..5, NEW d \in 0..key.lens[i], d # key.lens[i], stage = PointsStage(i, d),
             event = [PointsEvent(i, d, NextChunk(i, d)) EXCEPT !.at = StageAt(stage)]
      PROVE  Summed'
  <2>1. PICK n \in Nat : n = NextChunk(i, d) /\ d + n \in 0..key.lens[i]
    BY <1>4, ChunkInVector DEF Parsed
  <2>2. event.e = "Points" /\ event.i = i /\ event.off = d /\ event.n = n
    BY <1>4, <2>1 DEF PointsEvent
  <2>3. stage' = PointsStage(i, d + n) /\ FoldPoints
    BY <2>2 DEF Fold, Resume, FoldHeader, FoldLen
  <2> DEFINE A == PairsBefore(PointsStage(i, d))
  <2>4. A \cap Pairs = {} /\ A \cup Pairs = PairsBefore(PointsStage(i, d + n))
    BY <2>1, <2>2, ChunkPairs
  <2>5. folded = SetToBag(A)
    BY <1>4 DEF Summed
  <2> HIDE DEF A
  <2>6. PICK pooled \in {{}, Pairs} :
          folded' = folded (+) SetToBag(pooled) (+) SetToBag(Pairs \ pooled)
    BY <2>3 DEF FoldPoints
  <2>7. folded' = SetToBag(A \cup Pairs)
    <3>1. A \cap pooled = {} /\ (A \cup pooled) \cap (Pairs \ pooled) = {}
          /\ (A \cup pooled) \cup (Pairs \ pooled) = A \cup Pairs
      BY <2>4
    <3>2. folded (+) SetToBag(pooled) = SetToBag(A \cup pooled)
      BY <2>5, <3>1, BagsOfSets
    <3>3. SetToBag(A \cup pooled) (+) SetToBag(Pairs \ pooled) = SetToBag(A \cup Pairs)
      BY <3>1, BagsOfSets
    <3> QED BY <2>6, <3>2, <3>3
  <2>8. folded' = SetToBag(PairsBefore(stage)')
    BY <1>1, <2>3, <2>4, <2>7, FoldFixed
  <2>9. h' = h /\ Fits(i)'
    <3>1. h' = h /\ Fits(i)
      BY <1>4, <2>3 DEF FoldPoints, Summed, PointsStage
    <3> QED BY <1>1, <3>1, FoldFixed, Layout DEF H, Parsed
  <2> QED BY <1>1, <2>3, <2>8, <2>9 DEF Summed, PointsStage
<1>5. CASE \E i \in 1..5 : stage = LenStage(i) /\ event = [LenEvent(i) EXCEPT !.at = LenAt(i)]
  BY <1>3, <1>5
<1>6. CASE \E i \in 1..5 : \E d \in 0..key.lens[i] :
             /\ d # key.lens[i] /\ stage = PointsStage(i, d)
             /\ event = [PointsEvent(i, d, NextChunk(i, d)) EXCEPT !.at = StageAt(stage)]
  BY <1>4, <1>6
<1> QED
  BY <1>1, <1>2, <1>5, <1>6 DEF Parsed, Emitting

(* Every step keeps the sums exact.                                        *)
LEMMA SummedNext ==
  ASSUME Parsed, Summed, [Next]_pvars
  PROVE  Summed'
<1>1. CASE Hinted
  <2>1. /\ key' = key /\ stage' = stage /\ folded' = folded /\ outcome' = outcome /\ outcome # "proof"
        /\ h \in Nat /\ \A n \in Supported : n \in Nat
    BY <1>1, DomainSizes DEF Hinted, source, Summed
  <2>2. h' \in Nat /\ h <= h'
    <3>1. h' = h \/ (h = 0 /\ h' \in Supported)
      BY <1>1 DEF Hinted, DomainOk
    <3> QED BY <2>1, <3>1
  <2> QED BY <2>1, <2>2, SummedKept
<1>2. ASSUME NEW n \in 0..(Total + extra - pushed), Push(n), UNCHANGED <<h, folded, outcome>>
      PROVE  Summed'
  <2>1. /\ key' = key /\ stage' = stage /\ folded' = folded /\ outcome' = outcome /\ outcome # "proof"
        /\ h' \in Nat /\ h <= h'
    BY <1>2 DEF Push, source, Summed
  <2> QED BY <2>1, SummedKept
<1>3. CASE Parse /\ UNCHANGED <<h, folded, outcome>>
  BY <1>3, SummedParse
<1>4. CASE Fold
  BY <1>4, SummedFold
<1>5. CASE Refused
  <2>1. /\ key' = key /\ stage' = stage /\ folded' = folded /\ outcome' = outcome /\ outcome # "proof"
        /\ h' \in Nat /\ h <= h'
    BY <1>5 DEF Refused, Refuse, source, Summed
  <2> QED BY <2>1, SummedKept
<1>6. CASE FinishProof
  <2>1. /\ key' = key /\ stage' = stage /\ folded' = folded /\ h' \in Nat /\ h <= h'
    <3>1. key' = key /\ stage' = stage /\ folded' = folded /\ h' = h
      BY <1>6 DEF FinishProof, Finish, source
    <3> QED BY <3>1 DEF Summed
  <2>2. outcome' = "proof" => stage = DoneStage /\ st' = "finished"
    BY <1>6, StageKinds DEF FinishProof, Finish
  <2> QED BY <2>1, <2>2, SummedKept
<1>7. CASE UNCHANGED pvars
  <2>1. /\ key' = key /\ stage' = stage /\ folded' = folded /\ h' \in Nat /\ h <= h'
        /\ outcome' = outcome /\ st' = st
    BY <1>7 DEF pvars, ksvars, source, Summed
  <2> QED BY <2>1, SummedKept DEF Summed
<1> QED
  BY <1>1, <1>2, <1>3, <1>4, <1>5, <1>6, <1>7 DEF Next, Feed

(* Nothing is folded at first.                                             *)
LEMMA SummedFirst ==
  ASSUME Begin
  PROVE  Summed
<1>1. h = 0 /\ folded = EmptyBag /\ outcome = "none" /\ stage = HeaderStage
  BY DEF Begin, StreamInit
<1>2. PairsBefore(HeaderStage) = {}
  BY ParsedFirst, PairsAdvance
<1> QED
  BY <1>1, <1>2 DEF Summed, HeaderStage, EmptyBag

(* push.rs on_event and fold, whatever the key, its chunks and the pool's  *)
(* answers: no scalar is read past its vector, and a finished proof has    *)
(* folded every point exactly once, with its own scalar.                   *)
THEOREM Folded == Spec => []FoldExact
<1> DEFINE Inv == Parsed /\ Summed
<1>1. Begin => Inv
  BY ParsedFirst, SummedFirst
<1>2. Inv /\ [Next]_pvars => Inv'
  BY ParsedNext, SummedNext
<1>3. Inv => FoldExact
  BY SummedSuffices
<1> QED
  BY <1>1, <1>2, <1>3, PTL DEF Spec
-----------------------------------------------------------------------------
(* A fitting key proves.                                                   *)

(* The stages after the length of H has been told.                         *)
PastH == stage.s = "Done" \/ stage.i = L \/ (stage.s = "Points" /\ stage.i = H)

(* While a fitting key without a hint is read, h is computed once for the  *)
(* key's own domain or for the radix-2 one, and from the length of H on it *)
(* is for the key's own: a proof then ends only with the file.             *)
Fitted ==
  /\ rows \in RowCounts
  /\ outcome # "none" => st \in {"finished", "ended early"}
  /\ KeyFitsCircuit /\ hint = 0 =>
       /\ h \in {0, DomainFor, key.lens[H] + 1}
       /\ seen # <<>> => h # 0
       /\ PastH => KeyMadeFor(h)
       /\ outcome = "error" => stage.s # "Done"

(* A fitting key's domain, the caller's and the header's choices for it:   *)
(* the length of H is short of all of them, so h for another domain than   *)
(* the key's is told apart by that length.                                 *)
LEMMA FittingDomains ==
  ASSUME Parsed, rows \in RowCounts, KeyFitsCircuit
  PROVE  /\ key.lens[H] \in Nat
         /\ DomainOk(key.lens[H] + 1) /\ DomainOk(DomainFor) /\ DomainOk(HeaderDomain)
         /\ HeaderDomain \in {DomainFor, key.lens[H] + 1} /\ HeaderDomain # 0
         /\ DomainFor # 0 /\ DomainFor # key.lens[H]
         /\ KeyDomains(key.lens[H]) = {key.lens[H] + 1}
<1>1. key.lens[H] \in Nat
  BY Layout DEF Parsed, H
<1>2. PICK d : d = Least({n \in Supported : n >= rows})
  OBVIOUS
<1>3. /\ DomainOk(DomainFor) /\ DomainFor \in Nat \ {0}
      /\ DomainOk(d) /\ d \in Nat \ {0} /\ d <= DomainFor
  BY <1>2, CircuitDomains
<1>4. key.lens[H] + 1 \in {DomainFor, d} /\ key.domain \in {0, key.lens[H] + 1}
  BY <1>2 DEF KeyFitsCircuit
<1>5. DomainOk(key.lens[H] + 1) /\ DomainFor # key.lens[H]
  BY <1>1, <1>3, <1>4
<1>6. HeaderDomain \in {DomainFor, key.lens[H] + 1}
  BY <1>4 DEF HeaderDomain
<1>7. DomainOk(HeaderDomain) /\ HeaderDomain # 0
  BY <1>1, <1>3, <1>5, <1>6
<1>8. KeyDomains(key.lens[H]) = {key.lens[H] + 1}
  BY <1>5 DEF KeyDomains
<1> QED
  BY <1>1, <1>3, <1>5, <1>6, <1>7, <1>8

(* The events of a fitting key are the ones the fold accepts.              *)
LEMMA FittingEvents ==
  ASSUME Parsed, Fitted, KeyFitsCircuit, st = "emit"
  PROVE  (event.e = "Header" => HeaderFits) /\ (event.e = "Len" => LenFits)
<1>1. event.e = "Header" => HeaderFits
  BY FittingDomains DEF HeaderFits, KeyFitsCircuit, Fitted
<1>2. ASSUME event.e = "Len" PROVE LenFits
  <2>0. PICK i \in 1..5 : event = [LenEvent(i) EXCEPT !.at = LenAt(i)]
    <3>1. event # HeaderEvent
      BY <1>2 DEF HeaderEvent
    <3>2. ASSUME NEW i \in 1..5, NEW d \in 0..key.lens[i]
          PROVE  event # [PointsEvent(i, d, NextChunk(i, d)) EXCEPT !.at = StageAt(stage)]
      BY <1>2 DEF PointsEvent
    <3> QED BY <3>1, <3>2 DEF Parsed, Emitting
  <2>1. event.i = i /\ event.n = key.lens[i]
    BY <2>0 DEF LenEvent
  <2>2. CASE i = H
    <3>1. KeyDomains(event.n) # {}
      BY <2>1, <2>2, FittingDomains DEF Fitted
    <3> QED BY <2>1, <2>2, <3>1 DEF LenFits, H, L
  <2>3. CASE i = L
    BY <2>1, <2>3 DEF LenFits, KeyFitsCircuit, H, L
  <2>4. CASE i \notin {H, L}
    <3>1. i \in {1, 2, 3}
      BY <2>4 DEF H, L
    <3> QED BY <2>1, <2>4, <3>1 DEF LenFits, KeyFitsCircuit, H, L
  <2> QED BY <2>2, <2>3, <2>4
<1> QED
  BY <1>1, <1>2

LEMMA FittedSuffices ==
  ASSUME Parsed, Fitted
  PROVE  FittingKeyProves
BY FittingEvents DEF FittingKeyProves, Fitted

(* What the circuit and the key alone decide stays.                        *)
LEMMA CircuitFixed ==
  ASSUME key' = key, rows' = rows
  PROVE  /\ KeyFitsCircuit' = KeyFitsCircuit /\ DomainFor' = DomainFor
         /\ \A d : KeyMadeFor(d)' = KeyMadeFor(d)
<1>1. DomainFor' = DomainFor
  BY DEF DomainFor
<1> QED
  BY <1>1 DEF KeyFitsCircuit, KeyMadeFor

(* Steps that leave h, and do not go past H.                               *)
LEMMA FittedKept ==
  ASSUME Fitted, UNCHANGED <<key, rows, hint, h>>, seen # <<>> \/ seen' = seen,
         PastH' => PastH,
         outcome' # "none" => st' \in {"finished", "ended early"},
         KeyFitsCircuit /\ hint = 0 /\ outcome' = "error" => stage'.s # "Done"
  PROVE  Fitted'
<1>1. /\ KeyFitsCircuit' = KeyFitsCircuit /\ DomainFor' = DomainFor
      /\ KeyMadeFor(h)' = KeyMadeFor(h) /\ key' = key /\ rows' = rows /\ hint' = hint /\ h' = h
  <2>1. \A d : KeyMadeFor(d)' = KeyMadeFor(d)
    BY CircuitFixed
  <2>2. KeyMadeFor(h)' = KeyMadeFor(h)
    BY DEF KeyMadeFor
  <2> QED BY <2>2, CircuitFixed
<1> QED
  BY <1>1 DEF Fitted

(* Steps of the parser that move on without an event.                      *)
LEMMA FittedParse ==
  ASSUME Parsed, Fitted, Parse, UNCHANGED <<rows, hint, h, folded, outcome>>
  PROVE  Fitted'
<1>1. key' = key /\ seen' = seen /\ st \in {"header", "body"}
  BY DEF Parse, TryHeader, BodyDone, BodyLen, VectorEnd, BodyPoints, source
<1>2. outcome' = "none"
  BY <1>1 DEF Fitted
<1>3. PastH' => PastH
  <2>1. CASE stage' = stage
    BY <2>1 DEF PastH
  <2>2. CASE stage' # stage /\ TryHeader
    <3>1. stage' = LenStage(1)
      BY <2>2 DEF TryHeader
    <3> QED BY <3>1 DEF PastH, LenStage, H, L
  <2>3. CASE stage' # stage /\ VectorEnd
    <3>0. PICK i \in 1..5 : i = stage.i /\ stage.s = "Points"
      BY <2>3, StageKinds DEF VectorEnd
    <3>1. stage' = AfterStage(i)
      BY <2>3, <3>0 DEF VectorEnd, AfterStage
    <3>2. PastH' => i \in {H, L}
      BY <3>0, <3>1 DEF PastH, AfterStage, LenStage, DoneStage, H, L
    <3> QED BY <3>0, <3>2 DEF PastH
  <2> QED BY <2>1, <2>2, <2>3 DEF Parse, BodyDone, BodyLen, BodyPoints
<1> QED
  BY <1>1, <1>2, <1>3, FittedKept

(* A fold: the header settles h, the length of H corrects it.              *)
LEMMA FittedFold ==
  ASSUME Parsed, Fitted, Fold
  PROVE  Fitted'
<1>1. /\ st = "emit" /\ key' = key /\ rows' = rows /\ hint' = hint /\ outcome' = outcome
      /\ seen' # <<>>
  <2>1. st = "emit" /\ key' = key /\ rows' = rows /\ hint' = hint /\ outcome' = outcome
        /\ seen' = Append(seen, event) /\ seen \in Seq(Event) /\ event \in Event
    BY DEF Fold, Resume, source, Parsed, TypeOK
  <2>2. Len(seen') = Len(seen) + 1 /\ Len(seen) \in Nat
    BY <2>1
  <2> QED BY <2>1, <2>2
<1>2. outcome' = "none"
  BY <1>1 DEF Fitted
<1>3. CASE event = HeaderEvent /\ stage = LenStage(1)
  <2>1. stage' = stage /\ h' = IF h = 0 THEN HeaderDomain ELSE h
    BY <1>3 DEF Fold, Resume, HeaderEvent, FoldHeader, FoldLen, FoldPoints
  <2>2. ~PastH'
    BY <1>3, <2>1 DEF PastH, LenStage, H, L
  <2>3. KeyFitsCircuit /\ hint = 0 => h' \in {DomainFor, key.lens[H] + 1} /\ h' # 0
    BY <2>1, FittingDomains DEF Fitted
  <2> QED BY <1>1, <1>2, <2>2, <2>3, CircuitFixed DEF Fitted
<1>4. ASSUME NEW i \in 1..5, stage = LenStage(i), event = [LenEvent(i) EXCEPT !.at = LenAt(i)],
             seen # <<>>
      PROVE  Fitted'
  <2>1. stage' = PointsStage(i, 0) /\ event.i = i /\ event.n = key.lens[i]
    BY <1>4 DEF Fold, Resume, LenEvent
  <2>2. FoldLen
    BY <1>4 DEF Fold, FoldHeader, FoldPoints, LenEvent
  <2>3. CASE i = H
    <3>1. ASSUME KeyFitsCircuit, hint = 0
          PROVE  h' = key.lens[H] + 1
      <4>1. (h \in {key.lens[H], key.lens[H] + 1} /\ h' = h) \/ h' \in KeyDomains(key.lens[H])
        BY <2>1, <2>2, <2>3 DEF FoldLen, HKept
      <4>2. h \in {DomainFor, key.lens[H] + 1}
        BY <1>4, <3>1 DEF Fitted
      <4>3. DomainFor # key.lens[H] /\ KeyDomains(key.lens[H]) = {key.lens[H] + 1}
            /\ key.lens[H] \in Nat
        BY <3>1, FittingDomains DEF Fitted
      <4> QED BY <4>1, <4>2, <4>3
    <3>2. KeyFitsCircuit /\ hint = 0 => h' # 0 /\ KeyMadeFor(h)'
      <4>1. KeyMadeFor(h)' <=> key'.lens[H] + 1 = h'
        BY Zenon DEF KeyMadeFor
      <4> QED BY <1>1, <3>1, <4>1, FittingDomains DEF Fitted
    <3> QED BY <1>1, <1>2, <3>1, <3>2, CircuitFixed DEF Fitted
  <2>4. CASE i # H
    <3>1. h' = h
      BY <2>1, <2>2, <2>4 DEF FoldLen, HKept
    <3>2. PastH' => PastH
      BY <1>4, <2>1, <2>4 DEF PastH, LenStage, PointsStage
    <3> QED BY <1>1, <1>2, <1>4, <3>1, <3>2, FittedKept
  <2> QED BY <2>3, <2>4
<1>5. ASSUME NEW i \in 1..5, NEW d \in 0..key.lens[i], stage = PointsStage(i, d),
             event = [PointsEvent(i, d, NextChunk(i, d)) EXCEPT !.at = StageAt(stage)],
             seen # <<>>
      PROVE  Fitted'
  <2>1. event.e = "Points" /\ event.i = i
    BY <1>5 DEF PointsEvent
  <2>2. stage'.s = "Points" /\ stage'.i = i /\ h' = h
    BY <2>1 DEF Fold, Resume, FoldHeader, FoldLen, FoldPoints, PointsStage
  <2>3. PastH' => PastH
    BY <1>5, <2>2 DEF PastH, PointsStage
  <2> QED BY <1>1, <1>2, <1>5, <2>2, <2>3, FittedKept
<1> QED
  BY <1>1, <1>3, <1>4, <1>5 DEF Parsed, Emitting

(* Every step keeps a fitting key's proof on its way.                      *)
LEMMA FittedNext ==
  ASSUME Parsed, Fitted, [Next]_pvars
  PROVE  Fitted'
<1>1. CASE Hinted
  <2>1. /\ key' = key /\ rows' = rows /\ hint' = hint /\ hint # 0 /\ outcome' = outcome
        /\ st = "ready"
    BY <1>1 DEF Hinted, source
  <2> QED BY <2>1 DEF Fitted
<1>2. ASSUME NEW n \in 0..(Total + extra - pushed), Push(n), UNCHANGED <<rows, hint, h, folded, outcome>>
      PROVE  Fitted'
  <2>1. /\ key' = key /\ stage' = stage /\ seen' = seen /\ st = "ready"
    BY <1>2 DEF Push, source
  <2>2. outcome' = "none"
    BY <1>2, <2>1 DEF Fitted
  <2> QED BY <1>2, <2>1, <2>2, FittedKept DEF PastH
<1>3. CASE Parse /\ UNCHANGED <<rows, hint, h, folded, outcome>>
  BY <1>3, FittedParse
<1>4. CASE Fold
  BY <1>4, FittedFold
<1>5. CASE Refused
  <2>1. /\ key' = key /\ rows' = rows /\ hint' = hint /\ h' = h /\ stage' = stage
        /\ seen' = seen /\ st = "emit" /\ outcome' = outcome
    BY <1>5 DEF Refused, Refuse, source
  <2>2. outcome' = "none"
    BY <2>1 DEF Fitted
  <2> QED BY <2>1, <2>2, FittedKept DEF PastH
<1>6. CASE FinishProof
  <2>1. /\ key' = key /\ rows' = rows /\ hint' = hint /\ h' = h /\ stage' = stage
        /\ seen' = seen /\ st' \in {"finished", "ended early"}
        /\ outcome' = IF stage.s = "Done" /\ SelfCheck THEN "proof" ELSE "error"
    BY <1>6 DEF FinishProof, Finish, source
  <2>2. KeyFitsCircuit /\ hint = 0 /\ outcome' = "error" => stage'.s # "Done"
    BY <2>1 DEF Fitted, PastH, SelfCheck
  <2> QED BY <2>1, <2>2, FittedKept DEF PastH
<1>7. CASE UNCHANGED pvars
  <2>1. /\ key' = key /\ rows' = rows /\ hint' = hint /\ h' = h /\ stage' = stage
        /\ seen' = seen /\ st' = st /\ outcome' = outcome
    BY <1>7 DEF pvars, ksvars, source
  <2> QED BY <2>1, FittedKept DEF Fitted, PastH
<1> QED
  BY <1>1, <1>2, <1>3, <1>4, <1>5, <1>6, <1>7 DEF Next, Feed

LEMMA FittedFirst ==
  ASSUME Begin
  PROVE  Fitted
BY DEF Begin, StreamInit, Fitted, PastH, HeaderStage, H, L

(* push.rs event and finish, qap.rs domain_for, domain_of_size and         *)
(* key_domain: a key that a setup made for this circuit is never refused   *)
(* for its shape or its domain, and once all of it has arrived, in         *)
(* whatever pieces, the proof passes the self-check.                       *)
THEOREM FittingProved == Spec => []FittingKeyProves
<1> DEFINE Inv == Parsed /\ Fitted
<1>1. Begin => Inv
  BY ParsedFirst, FittedFirst
<1>2. Inv /\ [Next]_pvars => Inv'
  BY ParsedNext, FittedNext
<1>3. Inv => FittingKeyProves
  BY FittedSuffices
<1> QED
  BY <1>1, <1>2, <1>3, PTL DEF Spec
=============================================================================
