----------------------------- MODULE SerialPool -----------------------------
(***************************************************************************)
(* What the worker pool promises the prover (PoolAccel of                  *)
(* crates/wasm/src/streaming.rs): calls are made one at a time; each ends, *)
(* by returning a result that is wholly its own, or by throwing, and it    *)
(* throws exactly when one of its kernels failed.  No job, worker, counter *)
(* or shared buffer is visible.                                            *)
(***************************************************************************)
EXTENDS Naturals

CONSTANTS MaxCalls   \* bound on the calls

VARIABLES
  busy,     \* a call is being made
  made,     \* calls made so far: the last one's number
  faults,   \* calls in which a kernel failed
  answer,   \* how the last call ended
  result    \* the call whose data was returned

vars == <<busy, made, faults, answer, result>>

NoResult == 0

Init == busy = FALSE /\ made = 0 /\ faults = {} /\ answer = "none" /\ result = NoResult

Call ==
  /\ ~ busy /\ made < MaxCalls
  /\ busy' = TRUE /\ made' = made + 1
  /\ answer' = "none" /\ result' = NoResult
  /\ UNCHANGED faults

Fault ==
  /\ busy
  /\ faults' = faults \cup {made}
  /\ UNCHANGED <<busy, made, answer, result>>

Return ==
  /\ busy /\ made \notin faults
  /\ busy' = FALSE /\ answer' = "returned" /\ result' = made
  /\ UNCHANGED <<made, faults>>

Throw ==
  /\ busy /\ made \in faults
  /\ busy' = FALSE /\ answer' = "threw"
  /\ UNCHANGED <<made, faults, result>>

Next == Call \/ Fault \/ Return \/ Throw

Safe == Init /\ [][Next]_vars

(* Whoever made the call does not wait forever.                            *)
Spec == Safe /\ WF_vars(Return \/ Throw)
=============================================================================
