---------------------------- MODULE MCPushProver ----------------------------
(* Instances of PushProver for TLC: keys of the circuit's shape and keys   *)
(* that miss it by one, with stated, implied and other domains, H vectors  *)
(* from none to more than a chunk, and a key whose header never parses.    *)
EXTENDS PushProver

Lens(a, b2, l, hl) ==
  [i \in 1..5 |-> CASE i = 3 -> b2 [] i = H -> hl [] i = L -> l [] OTHER -> a]

Fitting == <<NumVars, NumVars, NumVars - NumInst, NumInst>>
Sizes   == {Fitting} \cup {[Fitting EXCEPT ![i] = @ + 1] : i \in 1..4}

NearKeys ==
  {[header |-> 2, lens |-> Lens(x[1], x[2], x[3], hl), pubs |-> x[4], domain |-> d] :
     x \in Sizes, hl \in {0, 2, 3, 5}, d \in {0, 3, 4}}
  \cup {[header |-> 9, lens |-> Lens(1, 1, 1, 1), pubs |-> 1, domain |-> 0]}
=============================================================================
