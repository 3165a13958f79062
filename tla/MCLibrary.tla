------------------------------- MODULE MCLibrary -------------------------------
(* Circuits with one or two parameters of every kind of type, small values of    *)
(* them, and leaves nobody wrote.                                                *)
EXTENDS Inputs

CONSTANTS RawValues, GadgetField

MCCamel == ("net_worth" :> "netWorth") @@ ("my_policy" :> "myPolicy")

\* Replacement of the byte 3, longer than it.
MCReplacement == <<2, 2>>
\* The least timestamp and the last step of the time type have no date.
MCDated == (-3)..9

VARIABLE case

Color == [name |-> "Color", names |-> <<"Red", "Green", "Blue">>]
Tier == [name |-> "Tier", names |-> <<"A", "B">>]
F(name, ty) == [name |-> name, ty |-> ty, unpacked |-> FALSE]
Unpacked(name, ty) == [name |-> name, ty |-> ty, unpacked |-> TRUE]
Public(name, ty) == [name |-> name, public |-> TRUE, ty |-> ty]
Private(name, ty) == [name |-> name, public |-> FALSE, ty |-> ty]

Fp == InputStruct(<<"Fp">>, <<F("limbs", TArray(TField, 2))>>, [e |-> "number", bits |-> 2])
Hash == InputStruct(<<"Hash">>, <<F("hi", TField), F("lo", TField)>>, [e |-> "split", sizes |-> <<1, 2>>])
Pair == InputStruct(<<"Point">>, <<F("x", Fp), F("y", Fp)>>, [e |-> "points"])
Key == InputStruct(<<"Key">>, <<F("x", Fp), F("y", Fp)>>, [e |-> "sec1"])
Id == InputStruct(<<"Id">>,
        <<F("born", Time(2, 4, 12)), F("net_worth", TUint(2)), F("home", Choice(Color)),
          Unpacked("tier", Choice(Tier)), F("rank", TUint(2))>>, AsFields)
Policy == InputStruct(<<"Policy">>,
            <<F("on", TBool), F("allowed", Bitfield(Color)), F("x", TInt(3)), F("z", TBool), F("y", TField)>>,
            AsFields)
Small == InputStruct(<<"Small">>, <<F("a", TBool), F("b", Newtype(<<"W">>, TUint(3), AsFields))>>, AsFields)
OtherSmall == InputStruct(<<"Small">>, <<F("b", TUint(2)), F("a", TBool)>>, AsFields)

\* Two public parameters share a name in a circuit the check refuses.
Circuits ==
  { <<Private("id", Id), Public("msg", TArray(TUint(Byte), 2))>>,
    <<Public("my_policy", Policy)>>,
    <<Public("key", Key), Private("h", Hash)>>,
    <<Public("p", Pair), Public("day", Time(2, 4, 12))>>,
    <<Private("secret", TField), Public("t", Text(TextMax)), Public("h", Hash)>>,
    <<Public("pair", TTuple(<<TUint(3), TInt(2)>>)), Public("at", Timestamp(3)), Private("wide", TUint(4))>>,
    <<Public("xs", TArray(Small, 2)), Private("set", Bitfield(Color))>>,
    <<Public("home", Choice(Color)), Public("ws", TArray(Newtype(<<"W">>, TUint(3), AsFields), 2))>>,
    <<Public("a", Small), Public("b", OtherSmall)>> }

\* A few values of a type, its ends among them.
RECURSIVE Values(_)
Values(t) ==
  CASE t.k = "field" -> {0, 5, P - 1}
    [] t.k = "bool" -> BOOLEAN
    [] t.k = "uint" -> {0, 1, 2 ^ t.w - 1}
    [] t.k = "int" -> {-(2 ^ (t.w - 1)), -1, 2 ^ (t.w - 1) - 1}
    [] t.k = "array" -> [1..t.n -> Values(t.of)]
    [] t.k = "tuple" -> {vs \in [DOMAIN t.ts -> UNION {Values(t.ts[i]) : i \in DOMAIN t.ts}] :
                           \A i \in DOMAIN t.ts : vs[i] \in Values(t.ts[i])}
    [] EncodingOf(t) = "time" -> {0, Steps(t.enc) - 1}
    [] EncodingOf(t) = "text" -> {0, 1, 2 ^ (Byte * TextMax - 1) + 1}
    [] EncodingOf(t) = "choice" -> {0, Len(t.enc.v.names) - 1}
    [] EncodingOf(t) = "set" -> {0, 2, 2 ^ Len(t.enc.v.names) - 2}
    [] EncodingOf(t) = "number" -> {<<l>> : l \in {<<0, 0>>, <<3, 1>>, <<2, 3>>}}
    [] EncodingOf(t) = "split" -> {<<0, 1>>, <<3, 14>>}
    [] t.k = "named" /\ t.layout = "newtype" /\ EncodingOf(t) \in {"fields", "timestamp"} -> Values(t.ty)
    [] t.k = "named" /\ t.layout = "struct" /\ EncodingOf(t) \in {"fields", "points", "sec1"} ->
         LET all == [i \in DOMAIN t.ms |-> Values(t.ms[i].ty)]
             product[n \in 0..Len(all)] ==
               IF n = 0 THEN {<<>>} ELSE {Append(s, v) : s \in product[n - 1], v \in all[n]}
         IN product[Len(all)]

RECURSIVE Tuples(_, _)
Tuples(params, n) ==
  IF n = 0 THEN {<<>>}
  ELSE {Append(vs, v) : vs \in Tuples(params, n - 1), v \in Values(params[n].ty)}

FirstValues(params) == [i \in DOMAIN params |-> CHOOSE v \in Values(params[i].ty) : TRUE]

Checked == {params \in Circuits : NamesAreUnique(params)}

\* Two limbs of 3 bits for numbers, and of 2 for points; a curve of 9 points in each form.
MCK1 == [p |-> 13, s |-> 1, u |-> 4, d |-> 3, lo |-> <<1, 0, 3>>, hi |-> <<0, 1, 0>>,
         K |-> [bias |-> 8, bits |-> 8], T |-> [bias |-> 8, bits |-> 9],
         twice |-> <<6, 5>>, twice_minus_b |-> <<3, 5>>, a |-> 0, b |-> 3]
MCR1 == [p |-> 11, s |-> 1, u |-> 3, d |-> 1, lo |-> <<1, 0, 1>>, hi |-> <<0, 1, 1>>,
         K |-> [bias |-> 16, bits |-> 9], T |-> [bias |-> 16, bits |-> 8],
         twice |-> <<6, 4>>, twice_minus_b |-> <<4, 3>>, a |-> -3, b |-> 6]
Big == INSTANCE Bignum WITH Fr <- GadgetField, L <- 2, B <- 3, K1 <- MCK1, R1 <- MCR1
Ec == INSTANCE Bignum WITH Fr <- GadgetField, L <- 2, B <- 2, K1 <- MCK1, R1 <- MCR1
ASSUME Big!ColumnsFit /\ Ec!ColumnsFit

\* Curves of 13 and 17 points for signatures, with offsets, and a group of 8 * 13.
Sig == INSTANCE Signatures
MCSecp256k1 == [n |-> 13, lambda |-> 3, b |-> 1, W |-> 2, N |-> 2, O |-> 5, H |-> 7,
                X |-> <<4, 18, 6, 9, 12, 8, 8, 12, 9, 6, 18, 4>>]
MCSecp256r1 == [n |-> 17, lambda |-> 2, b |-> 1, W |-> 3, N |-> 2, O |-> 5, H |-> 7,
                X |-> <<1, 21, 17, 6, 11, 14, 9, 19, 19, 9, 14, 11, 6, 17, 21, 1>>]
MCEd25519 == [n |-> 13, b |-> 1, W |-> 2, N |-> 2]
MCEdwards ==
  [p |-> 101, d |-> 29,
   points |-> {Q \in (0..100) \X (0..100) : Sig!OnEdwards([p |-> 101, d |-> 29], Q)}]

Moduli == {<<<<1, 3>>, 10>>, <<<<1, 1>>, 10>>, <<<<15>>, 16>>}
Near(m) == {0, 1, 2, m \div 2, m - 1, m, m + 1, 2 * m - 1, 63}
CurvePoints(cv) == {Q \in Ec!AllLimbs \X Ec!AllLimbs : Ec!Equation(cv, Ec!Value(Q[1]), Ec!Value(Q[2]))}

\* What is asked of the library.
Asked(what) == [kind |-> "asked", what |-> what]
MCInit == \E what \in {"inputs", "raw", "day", "numbers", "points of k1", "points of r1",
                       "ecdsa on k1", "ecdsa on r1", "eddsa"} : case = Asked(what)
GiveInputs ==
  /\ case = Asked("inputs")
  /\ \E params \in Checked, style \in Styles :
       \E vs \in Tuples(params, Len(params)) :
         case' = [kind |-> "inputs", params |-> params, vs |-> vs, style |-> style]
GiveRaw ==
  /\ case = Asked("raw")
  /\ \E params \in {params \in Checked : Len(CircuitVars(params)) <= 5} :
       \E f \in [1..(Len(CircuitVars(params)) - 1) -> RawValues] :
         case' = [kind |-> "raw", params |-> params, f |-> f]
\* Days on either side of every kind of century, and of the years dates can be written.
Days == UNION {c..(c + 800) : c \in {-719893, -719528, -135505, -36890, 10591, 47116, 2932531}}
GiveDay ==
  /\ case = Asked("day")
  /\ \E day \in Days, secs \in {0, 86399}, offset \in {-34200, 20700} :
       case' = [kind |-> "day", day |-> day, secs |-> secs, offset |-> offset]
GiveNumbers ==
  /\ case = Asked("numbers")
  /\ \E ds \in Moduli :
       LET fp == Big!Fp(ds[1], ds[2])
       IN \E a, b \in Near(Big!Value(fp.M)) :
            case' = [kind |-> "numbers", fp |-> fp, a |-> Big!Limbs(a), b |-> Big!Limbs(b)]
GiveScalar ==
  /\ case = Asked("numbers")
  /\ \E u \in Big!AllLimbs : case' = [kind |-> "scalar", u |-> u]
GivePoints(curve, cv) ==
  /\ case = Asked("points of " \o curve)
  /\ \E A, S \in CurvePoints(cv), negated \in BOOLEAN :
       case' = [kind |-> "points", curve |-> curve, A |-> A,
                S |-> <<S[1], IF negated THEN Ec!lin8(cv.twice, S[2], -1, S[2], 0) ELSE S[2]>>]
GiveCoordinates ==
  /\ case = Asked("numbers")
  /\ \E curve \in {"k1", "r1"}, x, y \in Ec!AllLimbs :
       case' = [kind |-> "coordinates", curve |-> curve, x |-> x, y |-> y]
GiveProduct ==
  /\ case = Asked("numbers")
  /\ \E curve \in {"k1", "r1"}, a, b, t \in [1..2 -> {0, 7, 15}] :
       case' = [kind |-> "product", curve |-> curve, a |-> a, b |-> b, t |-> t]
GiveEcdsa(curve, cv, keys, coordinates) ==
  /\ case = Asked("ecdsa on " \o curve)
  /\ \E Q \in keys, s \in {1, 5}, r \in coordinates, e \in 0..(cv.n - 1) :
       case' = [kind |-> "ecdsa", curve |-> curve, Q |-> Q, r |-> r, s |-> s, e |-> e]
GiveEddsa ==
  /\ case = Asked("eddsa")
  /\ \E a \in {0, 8, 13, 53}, r \in {r \in 0..103 : r % 3 # 2}, s \in {0, 5, 13}, k \in {0, 6, 15} :
       case' = [kind |-> "eddsa", a |-> a, r |-> r, s |-> s, k |-> k]
GiveEdwards ==
  /\ case = Asked("eddsa")
  /\ \E Q \in MCEdwards.points : case' = [kind |-> "edwards", Q |-> Q]
MCNext ==
  \/ GiveInputs \/ GiveRaw \/ GiveDay
  \/ GiveNumbers \/ GiveScalar \/ GivePoints("k1", MCK1) \/ GivePoints("r1", MCR1)
  \/ GiveCoordinates \/ GiveProduct
  \/ GiveEcdsa("k1", MCSecp256k1, {1, 2, 3, 5, 8, 9, 12}, {4, 5, 6, 8, 9, 12})
  \/ GiveEcdsa("r1", MCSecp256r1, {1, 5, 9, 16}, {1, 2, 4, 6, 9})
  \/ GiveEddsa \/ GiveEdwards
MCSpec == MCInit /\ [][MCNext]_case

InputsAgreeOn(c) ==
  c.kind = "inputs" =>
    /\ ProverAgrees(c.params, c.vs, c.style)
    /\ VerifierAgrees(c.params, c.vs, c.style)
    /\ c.style = "plain" => \A i \in DOMAIN c.params : ValueAgrees(c.params[i].ty, c.vs[i])

InputsExactOn(c) ==
  /\ c.kind = "inputs" /\ c.style = "plain" =>
       /\ WrongRefused(c.params, c.vs)
       /\ PathsReplace(c.params, c.vs, FirstValues(c.params))
  /\ c.kind = "raw" => RawExact(c.params, c.f)
  /\ c.kind = "day" => CalendarExact(c.day, c.secs, c.offset)

\* A gadget on limbs gives the arithmetic of the numbers they stand for.
NumbersExact(c) ==
  /\ c.kind = "numbers" => Big!NumbersExact(c.fp, c.a, c.b)
  /\ c.kind = "scalar" => Big!TablesExact(c.u, 2)

\* An addition of points gives the sum, or nothing when the points have one x; the
\* honest hints give it; and only a curve's own points, each in one encoding, pass as
\* on it.
CurvesExact(c) ==
  LET k1 == c.curve = "k1"
      cv == IF k1 THEN MCK1 ELSE MCR1
      product == IF k1 THEN Ec!mul_cert_k1(c.a, c.b, c.t) ELSE Ec!mul_cert_r1(c.a, c.b, c.t)
      onCurve == IF k1 THEN Ec!on_curve_k1(c.x, c.y) ELSE Ec!on_curve_r1(c.x, c.y)
      x == Ec!Value(c.x)
      y == Ec!Value(c.y)
      px == c.A[1]
      py == c.A[2]
      qx == c.S[1]
      qy == c.S[2]
      A == Ec!PointOf(cv, px, py)
      S == Ec!PointOf(cv, qx, qy)
  IN /\ c.kind = "product" =>
          product = ((Ec!Value(c.a) * Ec!Value(c.b) - Ec!Value(c.t)) % cv.p = 0)
     /\ c.kind = "coordinates" => onCurve = (x < cv.p /\ y < cv.p /\ Ec!Equation(cv, x, y))
     /\ c.kind = "points" /\ k1 =>
          /\ Ec!AdditionExact(cv, Ec!ec_add_k1_check(px, py, qx, qy), Ec!ec_add_k1(px, py, qx, qy),
                              Ec!SumOf(cv, A, S))
          /\ Ec!AdditionExact(cv, Ec!ec_double_add_k1_check(px, py, qx, qy),
                              Ec!ec_double_add_k1(px, py, qx, qy), Ec!DoubleSumOf(cv, A, S))
     /\ c.kind = "points" /\ ~k1 =>
          /\ Ec!AdditionExact(cv, Ec!ec_add_r1_check(px, py, qx, qy), Ec!ec_add_r1(px, py, qx, qy),
                              Ec!SumOf(cv, A, S))
          /\ Ec!AdditionExact(cv, Ec!ec_double_add_r1_check(px, py, qx, qy),
                              Ec!ec_double_add_r1(px, py, qx, qy), Ec!DoubleSumOf(cv, A, S))

LimbsExactOn(c) == NumbersExact(c) /\ CurvesExact(c)

SignaturesExactOn(c) ==
  /\ c.kind = "ecdsa" =>
       LET k1 == c.curve = "k1"
       IN Sig!EcdsaExact(IF k1 THEN MCSecp256k1 ELSE MCSecp256r1, k1, c.Q, c.r, c.s, c.e)
  /\ c.kind = "eddsa" => Sig!EddsaExact(MCEd25519, c.a, c.r, c.s, c.k)
  /\ c.kind = "edwards" => Sig!EdwardsExact(MCEdwards, c.Q)

\* Whatever form its inputs are written in, a circuit whose schema is accepted gets
\* the values meant: the codec, the host, the solver and the circuit agree on every
\* leaf and its place; what a verifier decodes encodes back to the proof's public inputs,
\* and what a client reads back is what was meant, for moments of the years 0 to 9999
\* (lang/src/input.rs, schema/src/lib.rs, the generated clients).
InputsAgree == [][InputsAgreeOn(case')]_case

\* A value wrong in one place is refused, as are missing and unknown inputs; a path's
\* value replaces the one under its input's name, and nothing else. Leaves a prover makes
\* up are taken only as the one value they are the leaves of, and decode to no other,
\* but for sets, limbs and text that is not UTF-8. A date is one day, and a day one date
\* (schema/src/lib.rs, lang/src/input.rs).
InputsExact == [][InputsExactOn(case')]_case

\* Whatever its hints, a gadget on limbs gives the arithmetic of the numbers or of the
\* points they stand for, or no proof exists (xark-bignum, xark-ec).
LimbsExact == [][LimbsExactOn(case')]_case

\* Whatever its hints, a proof exists only for a valid signature; the honest hints of
\* a valid one are refused only where two points of an addition have one x, and those
\* of a valid EdDSA signature never (xark-ecdsa, xark-ed25519).
SignaturesExact == [][SignaturesExactOn(case')]_case
================================================================================
