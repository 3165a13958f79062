-------------------------------- MODULE Inputs --------------------------------
(* The inputs of a circuit, end to end: what a caller may write for a value, in  *)
(* each of the forms the documentation gives, the codec, the solver's variables, *)
(* the circuit's own reading of them, and the public inputs a verifier and a     *)
(* client read back from a proof. Meant says what a value is to a client without *)
(* going through the schema.                                                     *)
(*                                                                               *)
(* A generated client works around the codec: each input has a standard type     *)
(* (`Ty`), the JSON it sends for a JavaScript value, and the value it makes of   *)
(* decoded JSON; the crate's Rust functions it may call; and how the leaves that *)
(* come out of the codec reach the solver's variables. A JavaScript value is a   *)
(* record whose js says its type.                                                *)
EXTENDS Schema

CONSTANT MsPerSec   \* milliseconds of a second (1000)

JsField(n) == [js |-> "Field", n |-> n]
JsBigInt(n) == [js |-> "bigint", n |-> n]
JsNumber(n) == [js |-> "number", n |-> n]
JsBool(b) == [js |-> "boolean", is |-> b]
JsDate(ms) == [js |-> "Date", ms |-> ms]
JsOtherDate == [js |-> "other Date"]   \* an invalid one, or another than was written
JsBytes(b) == [js |-> "Uint8Array", b |-> b]
JsString(v) == [js |-> "string", v |-> v]
JsArray(xs) == [js |-> "array", xs |-> xs]
JsSet(s) == [js |-> "Set", s |-> s]
JsObject(m) == [js |-> "object", m |-> m]

--------------------------------------------------------------------------------
(* JavaScript to JSON *)

\* A Date goes as its seconds: milliseconds are dropped, down.
DateSeconds(d) == Num(d.ms \div MsPerSec)

\* Whether a value can be sent: a number is a safe integer.
RECURSIVE Sendable(_)
Sendable(v) ==
  CASE v.js = "number" -> v.n \in (1 - 2 ^ JsonBits)..(2 ^ JsonBits - 1)
    [] v.js = "array" -> \A i \in DOMAIN v.xs : Sendable(v.xs[i])
    [] v.js = "Set" -> \A x \in v.s : Sendable(x)
    [] v.js = "object" -> \A n \in DOMAIN v.m : Sendable(v.m[n])
    [] OTHER -> TRUE

RECURSIVE plain(_)
plain(v) ==
  CASE v.js = "Date" -> DateSeconds(v)
    [] v.js \in {"bigint", "Field"} -> Dec(v.n)
    [] v.js = "number" -> Num(v.n)
    [] v.js = "boolean" -> Bool(v.is)
    [] v.js = "Uint8Array" -> Arr([i \in DOMAIN v.b |-> Num(v.b[i])])
    [] v.js = "array" -> Arr([i \in DOMAIN v.xs |-> plain(v.xs[i])])
    [] v.js = "Set" -> Arr(FoldSet(LAMBDA x, s : Append(s, plain(x)), <<>>, v.s))
    [] v.js = "object" -> Obj([n \in DOMAIN v.m |-> plain(v.m[n])])
    [] OTHER -> v.v

--------------------------------------------------------------------------------
(* The standard types *)

\* A byte-encoded type's length: its own, or its fields' together.
RECURSIVE byte_len(_, _)
byte_len(S, ty) ==
  LET def == Def(S, ty) IN
  IF def.enc.e \in {"limbs", "concat"} THEN def.enc.bytes
  ELSE FoldFunction(+, 0, [i \in DOMAIN def.fields |-> byte_len(S, def.fields[i].ty)])

RECURSIVE Ty(_, _)
Ty(S, ty) ==
  CASE ty.k = "array" /\ ty.of.k = "uint" /\ ty.of.w = Byte -> [t |-> "bytes", len |-> ty.n]
    [] ty.k = "array" /\ ~(ty.of.k = "uint" /\ ty.of.w = Byte) ->
         [t |-> "array", of |-> Ty(S, ty.of), len |-> ty.n]
    [] ty.k = "tuple" -> [t |-> "tuple", ts |-> [i \in DOMAIN ty.ts |-> Ty(S, ty.ts[i])]]
    [] IsRef(ty) ->
         (LET def == Def(S, ty) IN
          CASE def.enc.e = "timestamp" -> [t |-> "timestamp"]
            [] def.enc.e = "time" ->
                 [t |-> "time", unit |-> def.enc.unit, from |-> def.enc.from, to |-> def.enc.to]
            [] def.enc.e = "text" -> [t |-> "text", max |-> def.enc.max]
            [] def.enc.e \in {"choice", "set"} -> [t |-> def.enc.e, enum |-> def.enc.enum]
            [] def.enc.e = "limbs" -> [t |-> "number", of |-> ty.name]
            [] def.enc.e = "fields" ->
                 (IF def.layout = "newtype" THEN Ty(S, def.ty) ELSE [t |-> "struct", name |-> ty.name])
            [] OTHER -> [t |-> "bytes", of |-> ty.name, len |-> byte_len(S, ty)])
    [] OTHER -> IF ty.k \in {"uint", "int"} THEN [t |-> ty.k, w |-> ty.w] ELSE [t |-> ty.k]

\* A struct's fields, by the property a client names each.
StructFields(S, name) ==
  LET fs == S.types[name].fields IN
  [k \in {camel(fs[i].name) : i \in DOMAIN fs} |->
     Ty(S, fs[CHOOSE i \in DOMAIN fs : camel(fs[i].name) = k].ty)]

--------------------------------------------------------------------------------
(* Decoded JSON to JavaScript *)

RECURSIVE revive(_, _, _)
revive(S, ty, e) ==
  LET asIs(v) ==
        CASE v.j = "num" -> JsNumber(v.n)
          [] v.j = "bool" -> JsBool(v.is)
          [] v.j = "arr" -> JsArray([i \in DOMAIN v.xs |-> JsString(v.xs[i])])
          [] OTHER -> JsString(v)
  IN CASE ty.t = "field" -> JsField(e.n)
       [] ty.t = "number" \/ (ty.t \in {"uint", "int"} /\ ty.w > JsonBits) -> JsBigInt(e.n)
       [] ty.t = "bytes" -> JsBytes(e.b)
       [] ty.t \in {"timestamp", "time"} /\ e.j = "date" -> JsDate(e.secs * MsPerSec)
       [] ty.t \in {"timestamp", "time"} /\ e.j = "dec" -> JsOtherDate
       [] ty.t = "array" -> JsArray([i \in 1..ty.len |-> revive(S, ty.of, e.xs[i])])
       [] ty.t = "tuple" -> JsArray([i \in DOMAIN ty.ts |-> revive(S, ty.ts[i], e.xs[i])])
       [] ty.t = "struct" ->
            LET fs == StructFields(S, ty.name)
            IN JsObject([k \in DOMAIN fs |-> revive(S, fs[k], e.m[k])])
       [] OTHER -> asIs(e)

\* The public inputs of a proof, as the generated client gives them.
decodePublic(S, f) ==
  LET public == SelectSeq(S.inputs, LAMBDA i : i.public)
      r == DecodePublic(S, f, TRUE)
      js == [i \in DOMAIN public |-> revive(S, Ty(S, public[i].ty), r.v[i].v)]
  IN IF r.ok THEN Good([k \in {camel(public[i].name) : i \in DOMAIN public} |->
                          js[CHOOSE i \in DOMAIN public : camel(public[i].name) = k]])
     ELSE Bad

--------------------------------------------------------------------------------
(* The crate's Rust functions, in client.wasm *)

\* A type as written in Rust: a time carries its own range, anything else named must
\* be one of the circuit's input types.
RECURSIVE rust_ty(_, _)
rust_ty(S, ty) ==
  LET of == rust_ty(S, ty.of)
      all == [i \in DOMAIN ty.ts |-> rust_ty(S, ty.ts[i])]
  IN CASE ty.k = "array" ->
            IF ~of.ok THEN Bad
            ELSE Good(IF of.v = [t |-> "uint", w |-> Byte] THEN [t |-> "bytes", len |-> ty.n]
                      ELSE [t |-> "array", of |-> of.v, len |-> ty.n])
       [] ty.k = "tuple" ->
            IF \A i \in DOMAIN all : all[i].ok
            THEN Good([t |-> "tuple", ts |-> [i \in DOMAIN all |-> all[i].v]]) ELSE Bad
       [] IsRef(ty) /\ ty.name[1] = "Timestamp" -> Good([t |-> "timestamp"])
       [] IsRef(ty) /\ ty.name[1] = "Time" ->
            Good([t |-> "time", unit |-> ty.name[2], from |-> ty.name[3], to |-> ty.name[4]])
       [] IsRef(ty) /\ ty.name[1] \notin {"Time", "Timestamp"} ->
            IF ty.name \in DOMAIN S.types THEN Good(Ty(S, ty)) ELSE Bad
       [] OTHER -> Good(Ty(S, ty))

\* The schema with one input, v, of one type: the codec of a function's argument or result.
ValueSchema(t) == SchemaJson(<<[name |-> "v", public |-> TRUE, ty |-> t]>>)

from_json(t, v) ==
  LET r == LeavesWhere(ValueSchema(t), <<[key |-> <<"v">>, v |-> v]>>, FALSE)
      names == LeafNames(t, <<"v">>)
  IN IF r.ok /\ ToSet(names) \subseteq DOMAIN r.out
     THEN Good(Read(t, [i \in DOMAIN names |-> r.out[names[i]]], 1).v) ELSE Bad

to_json(t, v) ==
  LET r == DecodePublic(ValueSchema(t), Write(t, v), TRUE)
  IN IF r.ok THEN Good(r.v[1].v) ELSE Bad

--------------------------------------------------------------------------------
(* Leaves to the solver's variables *)

\* A nested value, by leaf name. Any list's element i is name[i].
RECURSIVE Flatten(_, _)
Flatten(name, v) ==
  CASE v.j = "arr" ->
         FoldLeft(LAMBDA out, x : x @@ out, <<>>,
                  [i \in DOMAIN v.xs |-> Flatten(Append(name, Index(i - 1)), v.xs[i])])
    [] v.j = "obj" ->
         FoldSet(LAMBDA k, out : Flatten(Append(name, Dot(k)), v.m[k]) @@ out, <<>>, DOMAIN v.m)
    [] v.j = "bool" -> name :> Num(IF v.is THEN 1 ELSE 0)
    [] OTHER -> name :> v

\* The inputs, an object by name, as leaves.
flatten_inputs(inputs) ==
  FoldSet(LAMBDA k, out : Flatten(k, inputs[k]) @@ out, <<>>, DOMAIN inputs)

\* A circuit's variables: its inputs in the order they are bound, then the rest.
CircuitVars(params) ==
  LET leaves(p) == [i \in DOMAIN LeafNames(p.ty, <<p.name>>) |->
                      [name |-> LeafNames(p.ty, <<p.name>>)[i],
                       role |-> IF p.public THEN "public" ELSE "private"]]
  IN FlattenSeq([i \in DOMAIN params |-> leaves(params[i])])
       \o <<[name |-> <<"tmp">>, role |-> "derived"]>>

\* Each input variable's value, by position. Every input, and only inputs, each a
\* field element.
resolve_input_ids(vars, inputs) ==
  LET ids == {i \in DOMAIN vars : vars[i].role # "derived"}
      names == {vars[i].name : i \in ids}
  IN IF DOMAIN inputs = names /\ \A n \in names : field(inputs[n]).ok
     THEN Good([i \in ids |-> field(inputs[vars[i].name]).v]) ELSE Bad

\* The public inputs a proof carries, in the order of their variables.
public_inputs(vars, assign) ==
  LET order == SelectSeq([i \in DOMAIN vars |-> i], LAMBDA i : vars[i].role = "public")
  IN [i \in DOMAIN order |-> assign[order[i]]]

\* The codec's leaves, as the object of decimals the prover takes.
encode_inputs(leaves) == [n \in DOMAIN leaves |-> Dec(leaves[n])]

--------------------------------------------------------------------------------
(* Values and what they mean *)

NumberOf(t, v) == FoldFunction(+, 0, [i \in DOMAIN v[1] |-> v[1][i] * (2 ^ (t.enc.bits * (i - 1)))])

\* The big-endian bytes of a byte-encoded value.
RECURSIVE BytesOf(_, _)
BytesOf(t, v) ==
  CASE t.enc.e = "number" -> ToBytesBE(NumberOf(t, v), NaturalBytes(Leaves(t), t.enc.bits))
    [] t.enc.e = "split" -> FlattenSeq([i \in DOMAIN v |-> ToBytesBE(v[i], t.enc.sizes[i])])
    [] OTHER -> FlattenSeq([i \in DOMAIN v |-> BytesOf(t.ms[i].ty, v[i])])

IsBytes(t) == t.k = "array" /\ t.of.k = "uint" /\ t.of.w = Byte
EncodingOf(t) == IF t.k = "named" THEN t.enc.e ELSE "fields"
VariantNames(t, v) ==
  SelectSeq(t.enc.v.names, LAMBDA n : \E i \in DOMAIN t.enc.v.names : t.enc.v.names[i] = n /\ Slice(v, i - 1, 1) = 1)
Seconds(t, v) == IF t.enc.e = "time" THEN t.enc.from + v * t.enc.unit ELSE v

--------------------------------------------------------------------------------
(* The parts of a value: itself, and those of its elements or fields, each with  *)
(* its type.                                                                      *)

RECURSIVE Parts(_, _)
Parts(t, v) ==
  <<[t |-> t, v |-> v]>> \o
  (CASE t.k = "array" -> FlattenSeq([i \in DOMAIN v |-> Parts(t.of, v[i])])
     [] t.k = "tuple" -> FlattenSeq([i \in DOMAIN v |-> Parts(t.ts[i], v[i])])
     [] t.k = "named" /\ t.layout = "newtype" /\ EncodingOf(t) = "fields" -> Parts(t.ty, v)
     [] t.k = "named" /\ t.layout = "struct" -> FlattenSeq([i \in DOMAIN v |-> Parts(t.ms[i].ty, v[i])])
     [] OTHER -> <<>>)

\* Whether the leaves of a value may decode to those of another: a set past its names,
\* a number's limbs past their width, a text that is not UTF-8.
Loose(t, v) ==
  \E p \in ToSet(Parts(t, v)) :
    \/ EncodingOf(p.t) \in {"set", "number", "sec1", "points"}
    \/ EncodingOf(p.t) = "text" /\ ~IsUtf8(TextBytes(p.v))

\* Whether every moment in a value can be written as a date. JavaScript's Date does not
\* read back the seconds of one that cannot.
HasDates(t, v) ==
  \A p \in ToSet(Parts(t, v)) :
    EncodingOf(p.t) \in {"timestamp", "time"} => Seconds(p.t, p.v) \in Dated

--------------------------------------------------------------------------------
(* What a value is to a client *)

RECURSIVE Meant(_, _)
Meant(t, v) ==
  LET encoded == EncodingOf(t) IN
  CASE encoded \in {"timestamp", "time"} -> JsDate(Seconds(t, v) * MsPerSec)
    [] encoded = "text" -> JsString(TextOf(TextBytes(v)))
    [] encoded = "choice" -> JsString(Name(t.enc.v.names[v + 1]))
    [] encoded = "set" -> JsArray([i \in DOMAIN VariantNames(t, v) |-> JsString(Name(VariantNames(t, v)[i]))])
    [] encoded = "number" -> JsBigInt(NumberOf(t, v))
    [] encoded \in {"split", "points", "sec1"} -> JsBytes(BytesOf(t, v))
    [] t.k = "field" -> JsField(v)
    [] t.k = "bool" -> JsBool(v)
    [] t.k \in {"uint", "int"} -> IF t.w > JsonBits THEN JsBigInt(v) ELSE JsNumber(v)
    [] IsBytes(t) -> JsBytes(v)
    [] t.k = "array" /\ ~IsBytes(t) -> JsArray([i \in DOMAIN v |-> Meant(t.of, v[i])])
    [] t.k = "tuple" -> JsArray([i \in DOMAIN v |-> Meant(t.ts[i], v[i])])
    [] encoded = "fields" /\ t.k = "named" /\ t.layout = "newtype" -> Meant(t.ty, v)
    [] encoded = "fields" /\ t.k = "named" /\ t.layout = "struct" ->
         JsObject([k \in {camel(t.ms[i].name) : i \in DOMAIN t.ms} |->
                     LET i == CHOOSE i \in DOMAIN t.ms : camel(t.ms[i].name) = k
                     IN Meant(t.ms[i].ty, v[i])])

--------------------------------------------------------------------------------
(* The JSON a caller may write for a value: as the documentation writes it       *)
(* ("plain"), in its other forms ("other"), sent by a client ("client"), and     *)
(* with every encoded struct as an object of its fields ("object").              *)

Styles == {"plain", "other", "client", "object"}

RECURSIVE Form(_, _, _)
Encoding(style, t, v) ==
  LET secs == Seconds(t, v)
      unit == IF t.enc.e = "time" THEN t.enc.unit ELSE 1
      named == VariantNames(t, v)
      b == IF t.enc.e \in {"number", "split", "points", "sec1"} THEN BytesOf(t, v) ELSE <<>>
  IN CASE t.enc.e \in {"timestamp", "time"} ->
            (CASE style = "client" -> plain(JsDate(secs * MsPerSec + MsPerSec - 1))
               [] style = "other" -> Moment(secs + unit - 1)
               [] OTHER -> Num(secs))
       [] t.enc.e = "text" -> TextOf(TextBytes(v))
       [] t.enc.e = "choice" -> IF style = "plain" THEN Num(v) ELSE Name(t.enc.v.names[v + 1])
       [] t.enc.e = "set" ->
            (CASE style = "plain" -> Num(v)
               [] style = "client" -> plain(JsSet({JsString(Name(n)) : n \in ToSet(named)}))
               [] OTHER -> IF Len(named) = 1 THEN Name(named[1])
                           ELSE Arr([i \in DOMAIN named |-> Name(Reverse(named)[i])]))
       [] t.enc.e = "number" ->
            (CASE style = "plain" -> Dec(NumberOf(t, v))
               [] style = "other" -> Arr([i \in DOMAIN b |-> Num(Reverse(b)[i])])
               [] OTHER -> plain(JsBytes(Reverse(b))))
       [] OTHER ->
            (CASE style = "client" -> plain(JsBytes(b))
               [] style = "other" /\ t.enc.e = "sec1" -> Hex(<<2 ^ Byte - 1>> \o b)
               [] OTHER -> Hex(b))

Form(style, t, v) ==
  LET object(key(_)) ==
        Obj([k \in {key(t.ms[i].name) : i \in DOMAIN t.ms} |->
               LET i == CHOOSE i \in DOMAIN t.ms : key(t.ms[i].name) = k
               IN Form(style, t.ms[i].ty, v[i])])
      same(name) == name
  IN CASE t.k = "field" -> IF style = "other" THEN Hex(ToBytesBE(v, 3)) ELSE Dec(v)
       [] t.k = "bool" -> IF style = "other" THEN Num(IF v THEN 1 ELSE 0) ELSE Bool(v)
       [] t.k = "uint" -> (CASE style = "other" -> Hex(ToBytesBE(v, 2))
                             [] style = "client" -> plain(JsBigInt(v))
                             [] OTHER -> Num(v))
       [] t.k = "int" -> IF style = "plain" THEN Num(v) ELSE Dec(v)
       [] IsBytes(t) -> (CASE style = "other" -> Hex(v)
                           [] style = "client" -> plain(JsBytes(v))
                           [] OTHER -> Arr([i \in DOMAIN v |-> Num(v[i])]))
       [] t.k = "array" /\ ~IsBytes(t) -> Arr([i \in DOMAIN v |-> Form(style, t.of, v[i])])
       [] t.k = "tuple" -> Arr([i \in DOMAIN v |-> Form(style, t.ts[i], v[i])])
       [] t.k = "named" /\ t.layout = "newtype" ->
            IF t.enc.e = "fields" THEN Form(style, t.ty, v) ELSE Encoding(style, t, v)
       [] t.k = "named" /\ t.layout = "struct" ->
            IF t.enc.e # "fields" /\ style # "object" THEN Encoding(style, t, v)
            ELSE IF style \in {"other", "client"} THEN object(camel) ELSE object(same)

\* The inputs as the entries of a JSON object: by name; by camelCase name in another
\* order; or with structs and arrays taken apart, an entry for each part's path.
ByName(params, vs, style) ==
  [i \in DOMAIN params |-> [key |-> <<params[i].name>>, v |-> Form(style, params[i].ty, vs[i])]]
ByCamelName(params, vs, style) ==
  Reverse([i \in DOMAIN params |->
             [key |-> <<camel(params[i].name)>>, v |-> Form(style, params[i].ty, vs[i])]])
ByPath(params, vs, style) ==
  LET parts(t, v, name) ==
        IF t.k = "array" /\ (style = "other" => ~IsBytes(t))
        THEN [i \in DOMAIN v |-> [key |-> <<name, Index(i - 1)>>, v |-> Form(style, t.of, v[i])]]
        ELSE IF t.k = "named" /\ t.layout = "struct" /\ t.enc.e = "fields"
        THEN [i \in DOMAIN v |-> [key |-> <<name, Dot(t.ms[i].name)>>, v |-> Form(style, t.ms[i].ty, v[i])]]
        ELSE << [key |-> <<name>>, v |-> Form(style, t, v)] >>
  IN FlattenSeq([i \in DOMAIN params |-> parts(params[i].ty, vs[i], params[i].name)])

Entries(params, vs, style) ==
  CASE style \in {"plain", "object"} -> ByName(params, vs, style)
    [] style = "other" -> ByPath(params, vs, style)
    [] style = "client" -> ByCamelName(params, vs, style)

--------------------------------------------------------------------------------
(* JSON that is wrong in one place *)

WrongHere(t) ==
  CASE EncodingOf(t) = "timestamp" -> {Num(2 ^ (t.ty.w - 1)), Num(-(2 ^ (t.ty.w - 1)) - 1), Bool(TRUE)}
    [] EncodingOf(t) = "time" -> {Num(t.enc.from - 1), Date(t.enc.to), Placeholder}
    [] EncodingOf(t) = "text" -> {TextOf([i \in 1..(TextMax + 1) |-> 1]), Num(1)}
    [] EncodingOf(t) = "choice" -> {Num(Len(t.enc.v.names)), Name("Nope"), Arr(<<>>)}
    [] EncodingOf(t) = "set" -> {Num(2 ^ Len(t.enc.v.names)), Arr(<<Name("Nope")>>), Bool(TRUE)}
    [] EncodingOf(t) = "number" -> {Dec(2 ^ (t.enc.bits * Leaves(t))), Num(-1), Arr(<<Num(2 ^ Byte)>>)}
    [] EncodingOf(t) \in {"split", "points", "sec1"} -> {Hex(<<1>>), Hex([i \in 1..8 |-> 0]), Num(1)}
    [] t.k = "field" -> {Dec(P), Num(-1), Bool(TRUE), Hex(<<>>)}
    [] t.k = "bool" -> {Num(2), Dec(1)}
    [] t.k = "uint" -> {Num(2 ^ t.w), Num(-1), Dec(2 ^ t.w)}
    [] t.k = "int" -> {Num(2 ^ (t.w - 1)), Num(-(2 ^ (t.w - 1)) - 1)}
    [] t.k \in {"array", "tuple"} -> {Arr(<<>>), Obj(<<>>), Num(0)}
    [] OTHER -> {Num(99), Obj("nope" :> Num(0))}

RECURSIVE Wrong(_, _)
Wrong(t, v) ==
  LET right == Form("plain", t, v) IN
  WrongHere(t) \cup
  (CASE t.k = "array" /\ ~IsBytes(t) ->
          UNION {{Arr([right.xs EXCEPT ![i] = w]) : w \in Wrong(t.of, v[i])} : i \in DOMAIN v}
     [] t.k = "tuple" ->
          UNION {{Arr([right.xs EXCEPT ![i] = w]) : w \in Wrong(t.ts[i], v[i])} : i \in DOMAIN v}
     [] t.k = "named" /\ t.layout = "newtype" /\ t.enc.e = "fields" -> Wrong(t.ty, v)
     [] t.k = "named" /\ t.layout = "struct" /\ t.enc.e = "fields" ->
          UNION {{Obj([right.m EXCEPT ![t.ms[i].name] = w]) : w \in Wrong(t.ms[i].ty, v[i])} : i \in DOMAIN v}
            \cup {Obj(Restrict(right.m, DOMAIN right.m \ {n})) : n \in DOMAIN right.m}
            \cup {Obj(right.m @@ ("nope" :> Num(0)))}
     [] OTHER -> {})

WrongEntries(params, vs) ==
  LET right == ByName(params, vs, "plain") IN
  UNION {{[right EXCEPT ![i].v = w] : w \in Wrong(params[i].ty, vs[i])} : i \in DOMAIN params}
    \cup {RemoveAt(right, i) : i \in DOMAIN params}
    \cup {Append(right, [key |-> <<"nope">>, v |-> Num(0)])}
--------------------------------------------------------------------------------
(* What must hold of a circuit's parameters and honest values of them           *)

\* Every form a caller may write gives the prover the host's leaves; the solver binds
\* them to the variables in order, and the circuit reads the values meant.
ProverAgrees(params, vs, style) ==
  LET S == SchemaJson(params)
      r == LeavesWhere(S, Entries(params, vs, style), FALSE)
      vars == CircuitVars(params)
      ids == resolve_input_ids(vars, flatten_inputs(encode_inputs(r.out)))
      f == [i \in 1..(Len(vars) - 1) |-> ids.v[i]]
      bound == BindAll(params, f)
  IN /\ r.ok
     /\ r.out = HostLeaves(params, vs)
     /\ ids.ok
     /\ f = WriteAll(params, vs)
     /\ bound.ok
     /\ bound.v = vs

\* The verifier's public inputs are the proof's, in the proof's order; decoding them, in
\* either case of key, encodes back to them, and gives a client what was meant wherever
\* dates can be written.
VerifierAgrees(params, vs, style) ==
  LET S == SchemaJson(params)
      vars == CircuitVars(params)
      proof == public_inputs(vars, WriteAll(params, vs))
      public == SelectSeq([i \in DOMAIN params |-> i], LAMBDA i : params[i].public)
      given == PublicInputs(S, Entries([n \in DOMAIN public |-> params[public[n]]],
                                       [n \in DOMAIN public |-> vs[public[n]]], style))
      read == decodePublic(S, proof)
  IN /\ given = Good(proof)
     /\ read.ok
     /\ DOMAIN read.v = {camel(params[i].name) : i \in ToSet(public)}
     /\ \A i \in ToSet(public) :
          HasDates(params[i].ty, vs[i]) =>
            read.v[camel(params[i].name)] = Meant(params[i].ty, vs[i])
     /\ \A camelKeys \in BOOLEAN :
          LET d == DecodePublic(S, proof, camelKeys)
          IN d.ok /\ PublicInputs(S, d.v) = Good(proof)

\* A value alone: its fields as the codec gives them, what a client read sent back, and
\* its trip through a Rust function of the client, whose signature has the inputs' types.
ValueAgrees(t, v) ==
  LET S == ValueSchema(t)
      ty == SchemaType(t)
      json == to_json(t, v)
  IN /\ Fields(S, ty, Form("plain", t, v)) = Good(Write(t, v))
     /\ Sendable(Meant(t, v))
     /\ Fields(S, ty, plain(Meant(t, v))) = Good(Write(t, v))
     /\ IsRef(ty) /\ Ty(S, ty).t = "bytes" => byte_len(S, ty) = Len(BytesOf(t, v))
     /\ rust_ty(S, ty) = Good(Ty(S, ty))
     /\ json.ok
     /\ from_json(t, json.v) = Good(v)

\* Leaves a prover makes up: the circuit takes them only if they are the leaves of the
\* value it reads, and a verifier who decodes them and encodes what was decoded never
\* ends with other ones, unless the value is loose.
RawExact(params, f) ==
  LET bound == BindAll(params, f)
      S == SchemaJson(params)
      loose == \E i \in DOMAIN params : params[i].public /\ Loose(params[i].ty, bound.v[i])
      d == DecodePublic(S, public_inputs(CircuitVars(params), f), TRUE)
      back == PublicInputs(S, d.v)
  IN bound.ok =>
       /\ WriteAll(params, bound.v) = f
       /\ ~loose /\ d.ok /\ back.ok => back.v = public_inputs(CircuitVars(params), f)

\* The calendar: a day's date is the one after the day before's, reading it gives the
\* day, as does reading it as a time of day in another zone; no other day reads so.
DayAfter(c) ==
  IF c.d < days_in_month(c.y, c.m) THEN [c EXCEPT !.d = @ + 1]
  ELSE IF c.m < 12 THEN [c EXCEPT !.m = @ + 1, !.d = 1]
  ELSE [y |-> c.y + 1, m |-> 1, d |-> 1]

CalendarExact(day, secs, offset) ==
  LET c == civil_from_days(day)
      whole == FormatDate(day, 0, TRUE)
      full == FormatDate(day, secs, FALSE)
      local == (secs + offset) \div DaySeconds
      abroad == FormatDate(day + local, (secs + offset) % DaySeconds, FALSE)
      noDay == [whole.v EXCEPT !.d = days_in_month(c.y, c.m) + 1]
  IN /\ civil_from_days(day + 1) = DayAfter(c)
     /\ whole.ok = (c.y \in 0..9999)
     /\ whole.ok =>
          /\ ParseDate(whole.v) = Good(<<day, 0>>)
          /\ ParseDate(full.v) = Good(<<day, secs>>)
          /\ abroad.ok => ParseDate([abroad.v EXCEPT !.offset = offset]) = Good(<<day, secs>>)
          /\ ~ParseDate(noDay).ok
          /\ ~ParseDate([full.v EXCEPT !.zoned = FALSE]).ok

\* A value wrong in one place is refused wherever the place is, as are a missing input,
\* an unknown one, and the template.
WrongRefused(params, vs) ==
  LET S == SchemaJson(params)
      template == [i \in DOMAIN params |-> [key |-> <<params[i].name>>, v |-> Template(S, S.inputs[i].ty)]]
  IN /\ \A entries \in WrongEntries(params, vs) : ~LeavesWhere(S, entries, FALSE).ok
     /\ (\E i \in DOMAIN template : HasPlaceholder(template[i].v)) => ~LeavesWhere(S, template, FALSE).ok

\* An input given by its name and again by the paths of its parts: what the paths say
\* replaces what the name says.
PathsReplace(params, vs, others) ==
  LET byPath == SelectSeq(ByPath(params, others, "plain"), LAMBDA e : Len(e.key) > 1)
      replaced == {i \in DOMAIN params : \E e \in ToSet(byPath) : e.key[1] = params[i].name}
  IN LeavesWhere(SchemaJson(params), ByName(params, vs, "plain") \o byPath, FALSE)
       = [ok |-> TRUE,
          out |-> HostLeaves(params, [i \in DOMAIN vs |-> IF i \in replaced THEN others[i] ELSE vs[i]])]
================================================================================
