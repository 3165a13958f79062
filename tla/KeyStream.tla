------------------------------ MODULE KeyStream ------------------------------
(***************************************************************************)
(* Push-driven parsing of a proving key (crates/groth16/src/keystream.rs): *)
(* bytes are fed in any chunking, and the handler sees the header, each    *)
(* vector's length and its points, at most Chunk at a time, in file order. *)
(*                                                                         *)
(* Bytes are file positions: the source is the key's bytes and perhaps     *)
(* some more after them.  The parser has taken the first pos of the        *)
(* pushed; the last buf of those are in its buffer.  One step is one turn  *)
(* of the loop in body; a handler call is a step of its own.               *)
(***************************************************************************)
EXTENDS Naturals, Sequences

CONSTANTS
  Keys,         \* proving keys: [header, lens, ...]
  Chunk,        \* the most points delivered at once
  LenBytes,     \* bytes of a vector length (8)
  G1Bytes, G2Bytes,
  HeaderLimit,  \* bytes after which an unparsable header is an error (2^24)
  MaxExtra      \* bound on the bytes after the key

ASSUME KeyStreamAssumption ==
  /\ \A k \in Keys : k.header \in Nat \ {0} /\ k.lens \in [1..5 -> Nat]
  /\ Chunk \in Nat \ {0} /\ LenBytes \in Nat \ {0}
  /\ G1Bytes \in Nat \ {0} /\ G2Bytes \in Nat \ {0}
  /\ HeaderLimit \in Nat /\ MaxExtra \in Nat

VARIABLES
  key, extra,   \* what the source holds
  pushed,       \* bytes fed so far (received)
  pos,          \* of those, bytes the parser has taken
  buf,          \* of those, bytes it still buffers
  stage,        \* [s, i, done]
  st,           \* "ready" between pushes, "header", "body", "emit" in a handler
                \* call, then "error", "finished" or "ended early"
  event,        \* the event of the handler call
  seen          \* events the handler accepted, in order

source == <<key, extra>>
ksvars == <<source, pushed, pos, buf, stage, st, event, seen>>

-----------------------------------------------------------------------------
Smaller(a, b) == IF a < b THEN a ELSE b

(* File order A, B1, B2, H, L: the third holds G2 points.                  *)
PointSize(i) == IF i = 3 THEN G2Bytes ELSE G1Bytes

LenStage(i)      == [s |-> "Len", i |-> i, done |-> 0]
PointsStage(i,d) == [s |-> "Points", i |-> i, done |-> d]
HeaderStage      == [s |-> "Header", i |-> 0, done |-> 0]
DoneStage        == [s |-> "Done", i |-> 0, done |-> 0]

(* at: where in the file the event's bytes begin.                          *)
HeaderEvent            == [e |-> "Header", i |-> 0, at |-> 0, off |-> 0, n |-> 0]
LenEvent(i)            == [e |-> "Len", i |-> i, at |-> 0, off |-> 0, n |-> key.lens[i]]
PointsEvent(i, off, n) == [e |-> "Points", i |-> i, at |-> 0, off |-> off, n |-> n]

Total == key.header + 5 * LenBytes
         + (key.lens[1] + key.lens[2] + key.lens[4] + key.lens[5]) * G1Bytes
         + key.lens[3] * G2Bytes

Rest == pushed - pos

-----------------------------------------------------------------------------
(* push: before the header is in, everything is buffered.                  *)
Push(n) ==
  /\ st = "ready"
  /\ pushed + n <= Total + extra
  /\ pushed' = pushed + n
  /\ IF stage.s = "Header"
       THEN /\ buf' = buf + n /\ pos' = pos + n
            /\ st' = "header"
       ELSE /\ st' = "body"
            /\ UNCHANGED <<buf, pos>>
  /\ UNCHANGED <<source, stage, event, seen>>

(* What follows a header that parses is handed on to body.                 *)
TryHeader ==
  /\ st = "header"
  /\ \/ /\ buf >= key.header
        /\ pos' = key.header /\ buf' = 0
        /\ stage' = LenStage(1)
        /\ event' = HeaderEvent
        /\ st' = "emit"
     \/ /\ buf < key.header
        /\ st' = IF buf < HeaderLimit THEN "ready" ELSE "error"
        /\ UNCHANGED <<pos, buf, stage, event>>
  /\ UNCHANGED <<source, pushed, seen>>

BodyDone ==
  /\ st = "body" /\ stage.s = "Done"
  /\ st' = IF Rest = 0 THEN "ready" ELSE "error"
  /\ UNCHANGED <<source, pushed, pos, buf, stage, event, seen>>

(* Take bytes into the buffer until it holds `need`; then hand out e.      *)
TakeUpTo(need, e) ==
  LET take == Smaller(need - buf, Rest) IN
  /\ pos' = pos + take
  /\ IF buf + take < need
       THEN /\ buf' = buf + take /\ st' = "ready"
            /\ UNCHANGED event
       ELSE /\ buf' = IF stage.s = "Len" THEN 0 ELSE need
            /\ st' = "emit"
            /\ event' = [e EXCEPT !.at = pos + take - need]

BodyLen ==
  /\ st = "body" /\ stage.s = "Len"
  /\ TakeUpTo(LenBytes, LenEvent(stage.i))
  /\ UNCHANGED <<source, pushed, stage, seen>>

VectorEnd ==
  /\ st = "body" /\ stage.s = "Points" /\ stage.done = key.lens[stage.i]
  /\ stage' = IF stage.i < 5 THEN LenStage(stage.i + 1) ELSE DoneStage
  /\ UNCHANGED <<source, pushed, pos, buf, st, event, seen>>

NextChunk(i, done) == Smaller(Chunk, key.lens[i] - done)

BodyPoints ==
  LET i == stage.i
      n == NextChunk(i, stage.done)
  IN /\ st = "body" /\ stage.s = "Points" /\ stage.done # key.lens[i]
     /\ IF Rest = 0
          THEN st' = "ready" /\ UNCHANGED <<pos, buf, event>>
          ELSE TakeUpTo(n * PointSize(i), PointsEvent(i, stage.done, n))
     /\ UNCHANGED <<source, pushed, stage, seen>>

Resume_FromStart ==
  /\ st = "emit"
  /\ seen' = Append(seen, event)
  /\ st' = "body"
  /\ buf' = 0
  /\ stage' = CASE event.e = "Header" -> stage
                [] event.e = "Len"    -> PointsStage(event.i, 0)
                [] OTHER              -> PointsStage(event.i, event.n)
  /\ UNCHANGED <<source, pushed, pos, event>>

(* The handler returns Ok: the parser moves on.                            *)
Resume ==
  /\ st = "emit"
  /\ seen' = Append(seen, event)
  /\ st' = "body"
  /\ buf' = 0
  /\ stage' = CASE event.e = "Header" -> stage
                [] event.e = "Len"    -> PointsStage(event.i, 0)
                [] OTHER              -> PointsStage(event.i, event.off + event.n)
  /\ UNCHANGED <<source, pushed, pos, event>>

(* It returns an error: push fails, and the caller gives up.               *)
Refuse ==
  /\ st = "emit"
  /\ st' = "error"
  /\ UNCHANGED <<source, pushed, pos, buf, stage, event, seen>>

Finish ==
  /\ st = "ready"
  /\ st' = IF stage.s = "Done" THEN "finished" ELSE "ended early"
  /\ UNCHANGED <<source, pushed, pos, buf, stage, event, seen>>

-----------------------------------------------------------------------------
StreamInit ==
  /\ key \in Keys /\ extra \in 0..MaxExtra
  /\ pushed = 0 /\ pos = 0 /\ buf = 0
  /\ stage = HeaderStage
  /\ st = "ready"
  /\ event = HeaderEvent
  /\ seen = <<>>

Parse == TryHeader \/ BodyDone \/ BodyLen \/ VectorEnd \/ BodyPoints

Feed == \E n \in 0..(Total + extra - pushed) : Push(n)

StreamNext == Feed \/ Parse \/ Resume \/ Refuse \/ Finish

StreamSpec == StreamInit /\ [][StreamNext]_ksvars

-----------------------------------------------------------------------------
(* Properties.                                                             *)

Stage == [s : {"Header", "Len", "Points", "Done"}, i : 0..5, done : Nat]
Event == [e : {"Header", "Len", "Points"}, i : 0..5, at : Nat, off : Nat, n : Nat]

(* Every variable keeps its type, and no byte is read before it is pushed. *)
TypeOK ==
  /\ key \in Keys /\ extra \in 0..MaxExtra
  /\ pushed \in Nat /\ pos \in 0..pushed /\ buf \in 0..pos
  /\ stage \in Stage
  /\ st \in {"ready", "header", "body", "emit", "error", "finished", "ended early"}
  /\ event \in Event
  /\ seen \in Seq(Event)

(* Where vector i's length field is in the file.                           *)
LenAt(i) == key.header + (i - 1) * LenBytes
            + (IF i > 1 THEN key.lens[1] * G1Bytes ELSE 0)
            + (IF i > 2 THEN key.lens[2] * G1Bytes ELSE 0)
            + (IF i > 3 THEN key.lens[3] * G2Bytes ELSE 0)
            + (IF i > 4 THEN key.lens[4] * G1Bytes ELSE 0)

(* The file position of the byte a stage reads first.                      *)
StageAt(g) == CASE g.s = "Header" -> 0
                [] g.s = "Len"    -> LenAt(g.i)
                [] g.s = "Points" -> LenAt(g.i) + LenBytes + g.done * PointSize(g.i)
                [] OTHER          -> Total

(* However the key is cut into pushes, the parser never loses its place:   *)
(* what it buffers begins at the very byte its stage expects.              *)
Aligned == st \in {"ready", "body"} => pos = StageAt(stage) + buf

(* The event after e in the file.                                          *)
AfterVector(i, e) == /\ e.e = "Len" /\ e.i = i + 1 /\ e.at = LenAt(i + 1) /\ e.n = key.lens[i + 1]

NextPoints(i, off, e) ==
  /\ e.e = "Points" /\ e.i = i /\ e.off = off
  /\ e.n = NextChunk(i, off)
  /\ e.at = LenAt(i) + LenBytes + off * PointSize(i)

Follows(d, e) ==
  CASE d.e = "Header" -> AfterVector(0, e)
    [] d.e = "Len"    -> IF d.n = 0 THEN AfterVector(d.i, e) ELSE NextPoints(d.i, 0, e)
    [] OTHER          -> IF d.off + d.n = key.lens[d.i] THEN AfterVector(d.i, e)
                                                        ELSE NextPoints(d.i, d.off + d.n, e)

(* The handler sees the file's events and no others, each once and in file *)
(* order, whatever the chunking.                                           *)
EventsInFileOrder ==
  /\ seen # <<>> => seen[1] = HeaderEvent
  /\ \A m \in 1..(Len(seen) - 1) : Follows(seen[m], seen[m + 1])

(* The parser needs no further push to notice that the key is complete:    *)
(* finish may follow the last byte at once; and it is complete only then.  *)
CompleteAtLastByte ==
  st \in {"ready", "finished", "ended early"} => (stage.s = "Done" <=> pushed = Total)

(* "Neither the caller nor the prover ever holds the key": past the header *)
(* the buffer never exceeds one length field or one chunk of points.       *)
BufferBounded ==
  /\ stage.s = "Len" => buf <= LenBytes
  /\ stage.s = "Points" => buf <= Chunk * PointSize(stage.i)

(* The parser's whole promise while a key arrives in pieces (push, emit):  *)
(* it keeps its place and its types, holds no more than a piece, tells the *)
(* file's events in order, and knows the last byte when it has it.         *)
StreamInOrder == TypeOK /\ Aligned /\ BufferBounded /\ EventsInFileOrder /\ CompleteAtLastByte
=============================================================================
