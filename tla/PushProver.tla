----------------------------- MODULE PushProver -----------------------------
(***************************************************************************)
(* The push-driven prover (crates/groth16/src/push.rs): KeyStream's        *)
(* handler.  Each chunk of points is folded, with its scalars, into the    *)
(* accumulator of its vector, on the host's worker pool or, if the pool    *)
(* declines or answers badly, here.  The quotient h is computed for the    *)
(* domain the caller hinted at or the header states, and again when the    *)
(* length of the key's H vector shows another.                             *)
(*                                                                         *)
(* Domains are their sizes; a scalar is its index in z or h.               *)
(***************************************************************************)
EXTENDS KeyStream, Bags

CONSTANTS
  NumInst, NumVars,  \* the circuit: z has NumVars entries, NumInst public
  RowCounts,         \* numbers of rows (the least domain size) it may have
  Hints,             \* values of cfg.domain (0: none)
  TwoAdicity         \* the largest radix-2 domain has 2^TwoAdicity points (28)

\* 2^k
Power[k \in 0..TwoAdicity] == IF k = 0 THEN 1 ELSE 2 * Power[k - 1]

(* The circuit is within the curve's domains (domain_for's expect).        *)
ASSUME PushProverAssumption ==
  /\ NumInst \in Nat /\ NumVars \in Nat /\ NumInst <= NumVars
  /\ TwoAdicity \in Nat /\ RowCounts \subseteq 1..Power[TwoAdicity]
  /\ \A k \in Keys : k.pubs \in Nat /\ k.domain \in Nat
  /\ Hints \subseteq Nat

VARIABLES
  rows,       \* the rows of the circuit
  hint,       \* cfg.domain
  h,          \* the domain h was computed for (0: not yet)
  folded,     \* (point, scalar) pairs taken into a sum, as often as they were
  outcome     \* finish: "none", "proof" or "error"

pvars == <<ksvars, rows, hint, h, folded, outcome>>

-----------------------------------------------------------------------------
(* Domain::with_size: q * 2^k points with q in {1, 3, 9}.                  *)
Radix2    == {Power[k] : k \in 0..TwoAdicity}
Supported == Radix2 \cup {3 * n : n \in Radix2} \cup {9 * n : n \in Radix2}

(* domain_of_size, domain_for (radix-2), key_domain.                       *)
DomainOk(n) == n \in Supported /\ n >= rows
Least(S)    == CHOOSE n \in S : \A m \in S : n <= m
DomainFor   == Least({n \in Radix2 : n >= rows})
KeyDomains(len) == IF DomainOk(len + 1) THEN {len + 1}
                   ELSE IF DomainOk(len) THEN {len} ELSE {}

H == 4
L == 5

-----------------------------------------------------------------------------
(* PushProver::new: a hinted domain is used at once.                       *)
Begin ==
  /\ StreamInit
  /\ rows \in RowCounts /\ hint \in Hints
  /\ h = 0 /\ folded = EmptyBag /\ outcome = "none"

Hinted ==
  /\ st = "ready" /\ h = 0 /\ hint # 0 /\ pushed = 0
  /\ IF DomainOk(hint) THEN h' = hint /\ UNCHANGED st
                       ELSE st' = "error" /\ UNCHANGED h
  /\ UNCHANGED <<source, pushed, pos, buf, stage, event, seen, rows, hint, folded, outcome>>

(* Header: the number of public inputs must fit, and the domain, unless h  *)
(* is there already: the stated one, or radix-2.                           *)
HeaderDomain == IF key.domain # 0 THEN key.domain ELSE DomainFor
HeaderFits   == key.pubs = NumInst /\ (h = 0 => DomainOk(HeaderDomain))

FoldHeader ==
  /\ event.e = "Header" /\ HeaderFits
  /\ h' = IF h = 0 THEN HeaderDomain ELSE h
  /\ UNCHANGED folded

FoldLen_HUnchecked ==
  /\ event.e = "Len"
  /\ \/ event.i = H /\ UNCHANGED h
     \/ event.i = L /\ event.n = NumVars - NumInst /\ UNCHANGED h
     \/ event.i \notin {H, L} /\ event.n = NumVars /\ UNCHANGED h
  /\ UNCHANGED folded

(* Len: A, B1, B2 and L are the circuit's sizes; h may need recomputing.   *)
HKept   == event.i = H => h \in {event.n, event.n + 1}
LenFits == CASE event.i = H -> HKept \/ KeyDomains(event.n) # {}
             [] event.i = L -> event.n = NumVars - NumInst
             [] OTHER       -> event.n = NumVars

FoldLen ==
  /\ event.e = "Len" /\ LenFits
  /\ IF HKept THEN UNCHANGED h ELSE h' \in KeyDomains(event.n)
  /\ UNCHANGED folded

ScalarAt(i, k) == IF i = L THEN NumInst + k ELSE k

Pairs == {[v |-> event.i, k |-> k, s |-> ScalarAt(event.i, k)] :
            k \in event.off .. event.off + event.n - 1}

FoldPoints_Both ==
  /\ event.e = "Points"
  /\ folded' = folded (+) SetToBag(Pairs) (+) SetToBag(Pairs)
  /\ UNCHANGED h

(* The pool sums the chunk, or nothing of it (it declines, or its output   *)
(* is invalid) and the chunk is summed here.                               *)
FoldPoints ==
  /\ event.e = "Points"
  /\ \E pooled \in {{}, Pairs} :
       folded' = folded (+) SetToBag(pooled) (+) SetToBag(Pairs \ pooled)
  /\ UNCHANGED h

Fold == Resume /\ (FoldHeader \/ FoldLen \/ FoldPoints) /\ UNCHANGED <<rows, hint, outcome>>

(* A mismatch, a failed quotient, or a point that does not decode.         *)
Refused == Refuse /\ UNCHANGED <<rows, hint, h, folded, outcome>>

(* The self-check: the sums are over all pairs, with h of the key's own    *)
(* domain.                                                                 *)
KeyMadeFor(d) == key.lens[H] + 1 = d
SelfCheck == KeyMadeFor(h)

FinishProof ==
  /\ Finish
  /\ outcome' = IF stage.s = "Done" /\ SelfCheck THEN "proof" ELSE "error"
  /\ UNCHANGED <<rows, hint, h, folded>>

-----------------------------------------------------------------------------
Started == h # 0 \/ hint = 0 \/ pushed # 0

Next ==
  \/ Hinted
  \/ Started /\ (Feed \/ Parse) /\ UNCHANGED <<rows, hint, h, folded, outcome>>
  \/ Fold
  \/ Refused
  \/ Started /\ FinishProof

Spec == Begin /\ [][Next]_pvars

-----------------------------------------------------------------------------
(* Properties.                                                             *)

(* Every scalar the fold reads exists: no index is past z or h, whatever   *)
(* lengths the key claims (an index past them would panic).                *)
ScalarsInRange ==
  st = "emit" /\ event.e = "Points" =>
    \A k \in event.off .. event.off + event.n - 1 :
      ScalarAt(event.i, k) < IF event.i = H THEN h ELSE NumVars

(* In a finished proof every point of every vector was folded exactly      *)
(* once, on the pool or here, with its own scalar: z[k] for A, B1, B2,     *)
(* h[k] for H and the witness part of z for L.                             *)
FoldedOnce ==
  outcome = "proof" =>
    /\ \A i \in 1..5 : \A k \in 0 .. key.lens[i] - 1 :
         LET pair == [v |-> i, k |-> k, s |-> ScalarAt(i, k)] IN
         pair \in BagToSet(folded) /\ folded[pair] = 1
    /\ \A x \in BagToSet(folded) : x.k < key.lens[x.v] /\ x.s = ScalarAt(x.v, x.k)
    /\ {x.s : x \in {y \in BagToSet(folded) : y.v = L}} = NumInst .. NumVars - 1

(* Both, of the sums the proof is made of (on_event, fold).                *)
FoldExact == ScalarsInRange /\ FoldedOnce

(* The key is for this circuit, as a setup with either kind of domain      *)
(* makes it (radix-2, or the smallest supported), stating the domain or    *)
(* not.                                                                    *)
KeyFitsCircuit ==
  /\ key.pubs = NumInst
  /\ \A i \in {1, 2, 3} : key.lens[i] = NumVars
  /\ key.lens[L] = NumVars - NumInst
  /\ key.lens[H] + 1 \in {DomainFor, Least({n \in Supported : n >= rows})}
  /\ key.domain \in {0, key.lens[H] + 1}

(* Without a hint a fitting key proves: no event of it is refused, and h   *)
(* ends up on the key's domain, whether its header states it or only the   *)
(* length of H tells.                                                      *)
FittingKeyProves ==
  KeyFitsCircuit /\ hint = 0 =>
    /\ outcome = "error" => stage.s # "Done"
    /\ st = "emit" => /\ event.e = "Header" => HeaderFits
                      /\ event.e = "Len" => LenFits
=============================================================================
