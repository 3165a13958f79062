-------------------------------- MODULE Schema --------------------------------
(* The one codec of a circuit's inputs: it reads schema.json, encodes the JSON  *)
(* values a caller gives into the circuit's leaves, and decodes a proof's       *)
(* public inputs back. The command line, the wasm prover and the generated      *)
(* clients all go through it. Before it, the input types as the circuit sees    *)
(* them: how a value of each type is laid out in field elements, how            *)
(* neighbouring fields of a struct share one element, the names of the          *)
(* elements, how `#[input]` types are read (with the checks the circuit makes)  *)
(* and written, and the schema.json that `xark build` writes from them.         *)
(*                                                                              *)
(* A name is a sequence of tokens: id.{born,net} is <<"id", ".{", "born",       *)
(* "net", "}">>, msg[1] is <<"msg", "[1]">>.                                     *)
(*                                                                              *)
(* A JSON value is a record whose j says which kind it is; a string is told     *)
(* apart by what the codec makes of it: digits ("dec"), 0x bytes ("hex"), a     *)
(* date ("date", its seconds), a name ("name"), other text ("text", its bytes), *)
(* or a placeholder of the inputs template ("placeholder").                     *)
EXTENDS Integers, Sequences, FiniteSets, SequencesExt, FiniteSetsExt, Functions, TLC, Bitwise

CONSTANTS
  P,          \* the field's modulus
  PackBits,   \* the most bits a packed element holds (253 in the code)
  Byte,       \* bits of a byte (8)
  Word,       \* bits of a machine word (64); wider integers are read in two parts
  NatBits,    \* a number of about 256 bits is given as 32 bytes: the width that rounds to
  TextMax,    \* bytes of a text (31)
  NotUtf8,    \* the bytes no UTF-8 text holds
  Replacement,  \* the bytes of U+FFFD, put in place of each such byte (3 of them)
  Dated,      \* the seconds that can be written as a date (of the years 0 to 9999)
  JsonBits,   \* the widest integer decoded as a JSON number (53)
  Camel       \* the camelCase form of each name that has another one

ASSUME PackFits == 2 ^ PackBits <= P

--------------------------------------------------------------------------------
(* Types *)

TField == [k |-> "field"]
TBool == [k |-> "bool"]
TUint(w) == [k |-> "uint", w |-> w]
TInt(w) == [k |-> "int", w |-> w]
TArray(t, n) == [k |-> "array", of |-> t, n |-> n]
TTuple(ts) == [k |-> "tuple", ts |-> ts]
Newtype(name, t, enc) == [k |-> "named", name |-> name, layout |-> "newtype", ty |-> t, enc |-> enc]
Struct(name, ms, enc) == [k |-> "named", name |-> name, layout |-> "struct", ms |-> ms, enc |-> enc]

AsFields == [e |-> "fields"]
Timestamp(w) == Newtype(<<"Timestamp">>, TInt(w), [e |-> "timestamp"])
Text(max) == Newtype(<<"Text">>, TField, [e |-> "text", max |-> max])
Choice(enum) == Newtype(<<"Choice", enum.name>>, TField, [e |-> "choice", v |-> enum])
Bitfield(enum) == Newtype(<<"Bitfield", enum.name>>, TField, [e |-> "set", v |-> enum])

\* The least width that holds n, at least one bit.
BitLen(n) == Min({b \in 1..16 : n < 2 ^ b})

\* How many steps of a time's unit its range holds, and the width of a step's number.
Steps(enc) == ((enc.to - enc.from - 1) \div enc.unit) + 1
Time(unit, from, to) ==
  LET enc == [e |-> "time", unit |-> unit, from |-> from, to |-> to]
  IN Newtype(<<"Time">>, TUint(BitLen(Steps(enc) - 1)), enc)

--------------------------------------------------------------------------------
(* Packing *)

\* The width of a value that may be packed; 0 for one that may not.
RECURSIVE Bits(_)
Bits(t) ==
  CASE t.k \in {"uint", "int"} -> t.w
    [] t.k = "bool" -> 1
    [] t.k = "named" /\ t.layout = "newtype" ->
         (CASE t.enc.e = "choice" -> BitLen(Len(t.enc.v.names) - 1)
            [] t.enc.e = "set" -> Len(t.enc.v.names)
            [] t.enc.e \in {"fields", "timestamp", "time"} -> Bits(t.ty)
            [] OTHER -> 0)
    [] OTHER -> 0

Packable(m) == IF m.pack THEN Bits(m.ty) ELSE 0

SumTo(ms, from, to) == FoldFunction(+, 0, [j \in from..to |-> Packable(ms[j])])

\* The last field of the run that starts at a packable field.
RunEnd(ms, start) ==
  Max({start} \cup {e \in start..Len(ms) :
        /\ \A j \in start..e : Packable(ms[j]) > 0
        /\ SumTo(ms, start, e) <= PackBits})

RECURSIVE RunsFrom(_, _)
RunsFrom(ms, start) ==
  IF start > Len(ms) THEN {}
  ELSE IF Packable(ms[start]) = 0 THEN RunsFrom(ms, start + 1)
  ELSE LET end == RunEnd(ms, start) IN {<<start, end>>} \cup RunsFrom(ms, end + 1)

Alone == [offset |-> 0, bits |-> 0, total |-> 0, last |-> TRUE, check |-> FALSE]
IsPacked(p) == p.total > 0

\* The run of at least two fields that holds field i, if one does.
RunOf(ms, i) == {r \in RunsFrom(ms, 1) : r[1] <= i /\ i <= r[2] /\ r[1] < r[2]}

\* Where field i of a struct sits: a field with no neighbour to pack with is alone.
PackOf(ms, i) ==
  IF RunOf(ms, i) = {} THEN Alone
  ELSE LET r == CHOOSE r \in RunOf(ms, i) : TRUE IN
       [offset |-> SumTo(ms, r[1], i - 1), bits |-> Packable(ms[i]),
        total |-> SumTo(ms, r[1], r[2]), last |-> i = r[2],
        check |-> ms[i].ty.k = "named" /\ ms[i].ty.enc.e \in {"choice", "set"}]

\* What `#[input]` makes of a struct's fields: packed unless marked, or unless the
\* struct has an encoding that lays its leaves out itself; and where each one sits.
InputStruct(name, fields, enc) ==
  LET ms == [i \in DOMAIN fields |->
               [name |-> fields[i].name, ty |-> fields[i].ty,
                pack |-> enc.e = "fields" /\ ~fields[i].unpacked]]
  IN Struct(name, [i \in DOMAIN ms |-> [at |-> PackOf(ms, i)] @@ ms[i]], enc)

--------------------------------------------------------------------------------
(* Leaves: their number and their names *)

Index(i) == "[" \o ToString(i) \o "]"
Dot(name) == "." \o name

RECURSIVE Leaves(_)
Leaves(t) ==
  CASE t.k = "array" -> t.n * Leaves(t.of)
    [] t.k = "tuple" -> FoldFunction(+, 0, [i \in DOMAIN t.ts |-> Leaves(t.ts[i])])
    [] t.k = "named" /\ t.layout = "newtype" -> Leaves(t.ty)
    [] t.k = "named" /\ t.layout = "struct" ->
         FoldFunction(+, 0, [i \in DOMAIN t.ms |->
           LET p == t.ms[i].at IN
           IF ~IsPacked(p) THEN Leaves(t.ms[i].ty) ELSE IF p.offset = 0 THEN 1 ELSE 0])
    [] OTHER -> 1

\* The names of the fields that share the element starting at field i.
SharedNames(ms, i) ==
  LET end == Min({j \in i..Len(ms) : ms[j].at.last})
  IN [j \in 1..(end - i + 1) |-> ms[i + j - 1].name]

RECURSIVE LeafNames(_, _)
LeafNames(t, prefix) ==
  CASE t.k = "array" ->
         FlattenSeq([i \in 1..t.n |-> LeafNames(t.of, Append(prefix, Index(i - 1)))])
    [] t.k = "tuple" ->
         FlattenSeq([i \in DOMAIN t.ts |-> LeafNames(t.ts[i], Append(prefix, Dot(ToString(i - 1))))])
    [] t.k = "named" /\ t.layout = "newtype" -> LeafNames(t.ty, prefix)
    [] t.k = "named" /\ t.layout = "struct" ->
         FlattenSeq([i \in DOMAIN t.ms |->
           LET p == t.ms[i].at IN
           IF ~IsPacked(p) THEN LeafNames(t.ms[i].ty, Append(prefix, Dot(t.ms[i].name)))
           ELSE IF p.offset = 0 THEN <<prefix \o <<".{">> \o SharedNames(t.ms, i) \o <<"}">> >>
           ELSE <<>>])
    [] OTHER -> <<prefix>>

--------------------------------------------------------------------------------
(* Writing a value. A natural number stands for a field element, an integer for *)
(* a signed one, a sequence for an array, a tuple or a struct's fields.         *)

RECURSIVE Write(_, _)
Write(t, v) ==
  CASE t.k = "bool" -> <<IF v THEN 1 ELSE 0>>
    [] t.k = "int" -> <<v % (2 ^ t.w)>>
    [] t.k = "array" -> FlattenSeq([i \in 1..t.n |-> Write(t.of, v[i])])
    [] t.k = "tuple" -> FlattenSeq([i \in DOMAIN t.ts |-> Write(t.ts[i], v[i])])
    [] t.k = "named" /\ t.layout = "newtype" -> Write(t.ty, v)
    [] t.k = "named" /\ t.layout = "struct" ->
         FlattenSeq([i \in DOMAIN t.ms |->
           LET p == t.ms[i].at
               first == Max({j \in 1..i : IsPacked(t.ms[j].at) /\ t.ms[j].at.offset = 0})
               part(j) == Write(t.ms[j].ty, v[j])[1] * (2 ^ t.ms[j].at.offset)
           IN IF ~IsPacked(p) THEN Write(t.ms[i].ty, v[i])
              ELSE IF p.last THEN <<FoldFunction(+, 0, [j \in first..i |-> part(j)]) % P>>
              ELSE <<>>])
    [] OTHER -> <<v>>

\* Whether every packed field's element fits its width: an integer does by its type,
\* a choice or a set is checked.
RECURSIVE WriteFits(_, _)
WriteFits(t, v) ==
  CASE t.k = "array" -> \A i \in 1..t.n : WriteFits(t.of, v[i])
    [] t.k = "tuple" -> \A i \in DOMAIN t.ts : WriteFits(t.ts[i], v[i])
    [] t.k = "named" /\ t.layout = "struct" ->
         \A i \in DOMAIN t.ms :
           LET p == t.ms[i].at IN
           /\ ~IsPacked(p) => WriteFits(t.ms[i].ty, v[i])
           /\ IsPacked(p) /\ p.check => Write(t.ms[i].ty, v[i])[1] < 2 ^ p.bits
    [] OTHER -> TRUE

--------------------------------------------------------------------------------
(* Reading a value from the circuit's inputs f, from position `at`: the value,  *)
(* the position after it, and whether the checks made on entry hold.            *)

Signed(w, x) == IF x >= 2 ^ (w - 1) THEN x - 2 ^ w ELSE x
Slice(x, offset, bits) == (x \div (2 ^ offset)) % (2 ^ bits)

\* A packed field, from its bits of the element x. An integer wider than a word is
\* put together from two slices.
RECURSIVE ReadSlot(_, _, _, _)
ReadSlot(t, x, offset, bits) ==
  LET lo == Slice(x, offset, Min({bits, Word}))
      hi == IF bits > Word THEN Slice(x, offset + Word, bits - Word) ELSE 0
      wide == hi * (2 ^ Word) + lo
  IN CASE t.k = "bool" -> Slice(x, offset, bits) # 0
       [] t.k = "uint" -> wide
       [] t.k = "int" -> Signed(t.w, wide)
       [] t.k = "named" -> ReadSlot(t.ty, x, offset, bits)
       [] OTHER -> Slice(x, offset, bits)

RECURSIVE Read(_, _, _)
ReadAll(ts, f, at) ==
  FoldLeft(LAMBDA acc, t :
             LET r == Read(t, f, acc.at)
             IN [ok |-> acc.ok /\ r.ok, v |-> Append(acc.v, r.v), at |-> r.at],
           [ok |-> TRUE, v |-> <<>>, at |-> at], ts)

\* a bug: a packed element is not split into exactly its bits
ReadMember_Unchecked(ms, acc, i, f) ==
  LET p == ms[i].at
      fresh == p.offset = 0
      x == IF fresh THEN f[acc.at] ELSE acc.group
      alone == Read(ms[i].ty, f, acc.at)
  IN IF ~IsPacked(p)
     THEN [acc EXCEPT !.ok = @ /\ alone.ok, !.v = Append(@, alone.v), !.at = alone.at]
     ELSE [ok |-> acc.ok, v |-> Append(acc.v, ReadSlot(ms[i].ty, x, p.offset, p.bits)),
           at |-> IF fresh THEN acc.at + 1 ELSE acc.at, group |-> x]

\* One struct field. The first field of a packed element reads the element and
\* splits it into its bits, which is every field's range check.
ReadMember(ms, acc, i, f) ==
  LET p == ms[i].at
      fresh == p.offset = 0
      x == IF fresh THEN f[acc.at] ELSE acc.group
      alone == Read(ms[i].ty, f, acc.at)
  IN IF ~IsPacked(p)
     THEN [acc EXCEPT !.ok = @ /\ alone.ok, !.v = Append(@, alone.v), !.at = alone.at]
     ELSE [ok |-> acc.ok /\ (fresh => x < 2 ^ p.total),
           v |-> Append(acc.v, ReadSlot(ms[i].ty, x, p.offset, p.bits)),
           at |-> IF fresh THEN acc.at + 1 ELSE acc.at,
           group |-> x]

Read(t, f, at) ==
  LET leaf(ok, v) == [ok |-> ok, v |-> v, at |-> at + 1] IN
  CASE t.k = "bool" -> leaf(f[at] \in {0, 1}, f[at] = 1)
    [] t.k = "uint" -> leaf(f[at] < 2 ^ t.w, f[at])
    [] t.k = "int" -> leaf(f[at] < 2 ^ t.w, Signed(t.w, f[at]))
    [] t.k = "array" -> ReadAll([i \in 1..t.n |-> t.of], f, at)
    [] t.k = "tuple" -> ReadAll(t.ts, f, at)
    [] t.k = "named" /\ t.layout = "newtype" -> Read(t.ty, f, at)
    [] t.k = "named" /\ t.layout = "struct" ->
         LET r == FoldLeftDomain(LAMBDA acc, i : ReadMember(t.ms, acc, i, f),
                                 [ok |-> TRUE, v |-> <<>>, at |-> at, group |-> 0], t.ms)
         IN [ok |-> r.ok, v |-> r.v, at |-> r.at]
    [] OTHER -> leaf(TRUE, f[at])

--------------------------------------------------------------------------------
(* schema.json *)

TypeName(t) ==
  IF t.enc.e = "time"
  THEN <<"Time", t.enc.unit, t.enc.from, t.enc.to>>
  ELSE t.name

RECURSIVE SchemaType(_)
SchemaType(t) ==
  CASE t.k = "array" -> [k |-> "array", of |-> SchemaType(t.of), n |-> t.n]
    [] t.k = "tuple" -> [k |-> "tuple", ts |-> [i \in DOMAIN t.ts |-> SchemaType(t.ts[i])]]
    [] t.k = "named" -> [k |-> "ref", name |-> TypeName(t)]
    [] OTHER -> t

\* Every named type a type reaches.
RECURSIVE Reached(_)
Reached(t) ==
  CASE t.k = "array" -> Reached(t.of)
    [] t.k = "tuple" -> UNION {Reached(t.ts[i]) : i \in DOMAIN t.ts}
    [] t.k = "named" /\ t.layout = "newtype" -> {t} \cup Reached(t.ty)
    [] t.k = "named" /\ t.layout = "struct" ->
         {t} \cup UNION {Reached(t.ms[i].ty) : i \in DOMAIN t.ms}
    [] OTHER -> {}

\* The byte length a number of so many limbs is given in: 32 when it is a 256-bit
\* number with the limbs' slack, else its bits rounded up.
NaturalBytes(limbs, bits) ==
  IF limbs * bits <= NatBits + Byte THEN NatBits \div Byte
  ELSE (limbs * bits + Byte - 1) \div Byte

EncodingJson(t) ==
  CASE t.enc.e = "number" ->
         [e |-> "limbs", bytes |-> NaturalBytes(Leaves(t), t.enc.bits), bits |-> t.enc.bits]
    [] t.enc.e = "split" ->
         [e |-> "concat", sizes |-> t.enc.sizes, bytes |-> FoldFunction(+, 0, t.enc.sizes)]
    [] t.enc.e \in {"choice", "set"} -> [e |-> t.enc.e, enum |-> <<t.enc.v.name>>]
    [] OTHER -> t.enc

NamedJson(t) ==
  IF t.layout = "newtype"
  THEN [layout |-> "newtype", ty |-> SchemaType(t.ty), enc |-> EncodingJson(t)]
  ELSE [layout |-> "struct", enc |-> EncodingJson(t),
        fields |-> [i \in DOMAIN t.ms |->
          LET p == t.ms[i].at IN
          [name |-> t.ms[i].name, ty |-> SchemaType(t.ms[i].ty),
           packed |-> IF t.enc.e = "fields" /\ IsPacked(p) THEN <<p.offset, p.bits>> ELSE <<>>]]]

\* What each name stands for: a named type, or the enum a choice or a set names.
Claims(params) ==
  LET reached == UNION {Reached(params[i].ty) : i \in DOMAIN params} IN
  {[name |-> TypeName(t), what |-> <<"named", t>>] : t \in reached}
    \cup {[name |-> <<t.enc.v.name>>, what |-> <<"enum", t.enc.v>>]
            : t \in {t \in reached : t.enc.e \in {"choice", "set"}}}

\* One name for two meanings is refused: clients look types up by name.
NamesAreUnique(params) ==
  \A c, d \in Claims(params) : c.name = d.name => c.what[1] = d.what[1] /\ c.what[2] = d.what[2]

SchemaJson(params) ==
  LET reached == UNION {Reached(params[i].ty) : i \in DOMAIN params}
      public == SelectSeq(params, LAMBDA p : p.public)
  IN [inputs |-> [i \in DOMAIN params |->
        [name |-> params[i].name, public |-> params[i].public, ty |-> SchemaType(params[i].ty)]],
      types |-> [n \in {TypeName(t) : t \in reached} |->
                   NamedJson(CHOOSE t \in reached : TypeName(t) = n)],
      enums |-> [n \in {<<t.enc.v.name>> : t \in {t \in reached : t.enc.e \in {"choice", "set"}}} |->
                   (CHOOSE t \in reached : t.enc.e \in {"choice", "set"} /\ <<t.enc.v.name>> = n).enc.v.names],
      public_inputs |-> FlattenSeq([i \in DOMAIN public |-> LeafNames(public[i].ty, <<public[i].name>>)])]

--------------------------------------------------------------------------------
(* A circuit's parameters, bound in order, and the prover's leaves for them *)

\* What every input is bound to: all the parameters' leaves, in order.
BindAll(params, f) == ReadAll([i \in DOMAIN params |-> params[i].ty], f, 1)

CircuitLeaves(params) ==
  FlattenSeq([i \in DOMAIN params |-> LeafNames(params[i].ty, <<params[i].name>>)])
WriteAll(params, vs) == FlattenSeq([i \in DOMAIN params |-> Write(params[i].ty, vs[i])])

\* The (leaf name, value) pairs the host gives the prover.
HostLeaves(params, vs) ==
  LET names == CircuitLeaves(params)
      f == WriteAll(params, vs)
  IN [n \in ToSet(names) |-> f[CHOOSE i \in DOMAIN names : names[i] = n]]

--------------------------------------------------------------------------------
(* JSON values *)

Num(n) == [j |-> "num", n |-> n]
Dec(n) == [j |-> "dec", n |-> n]
Bool(b) == [j |-> "bool", is |-> b]
Hex(b) == [j |-> "hex", b |-> b]
Date(secs) == [j |-> "date", secs |-> secs]
Name(s) == [j |-> "name", s |-> s]
TextOf(b) == [j |-> "text", b |-> b]
Arr(xs) == [j |-> "arr", xs |-> xs]
Obj(m) == [j |-> "obj", m |-> m]
Placeholder == [j |-> "placeholder"]
IsString(v) == v.j \in {"dec", "hex", "date", "name", "text", "placeholder"}

camel(name) == IF name \in DOMAIN Camel THEN Camel[name] ELSE name

--------------------------------------------------------------------------------
(* Small values *)

Bad == [ok |-> FALSE]
Good(x) == [ok |-> TRUE, v |-> x]

\* The number whose digits, most significant first, are the bytes b.
FromBytesBE(b) == FoldLeft(LAMBDA n, x : n * (2 ^ Byte) + x, 0, b)
FromBytesLE(b) == FromBytesBE(Reverse(b))
ToBytesBE(n, len) == [i \in 1..len |-> Slice(n, Byte * (len - i), Byte)]
ToBytesLE(n, len) == Reverse(ToBytesBE(n, len))

integer(v) ==
  CASE v.j \in {"num", "dec"} /\ v.n >= 0 -> Good(v.n)
    [] v.j = "hex" /\ v.b # <<>> -> Good(FromBytesBE(v.b))
    [] OTHER -> Bad

signed(v) == IF v.j \in {"num", "dec"} THEN Good(v.n) ELSE integer(v)

\* n as a w-bit two's complement word, and back; never wrapped.
twos_complement(n, w) ==
  IF n < -(2 ^ (w - 1)) \/ n >= 2 ^ (w - 1) THEN Bad
  ELSE Good(IF n < 0 THEN n + 2 ^ w ELSE n)
from_twos_complement(word, w) == IF word >= 2 ^ w THEN Bad ELSE Good(Signed(w, word))

\* A field element is never reduced: a value that wraps would prove another number.
field(v) == LET n == integer(v) IN IF n.ok /\ n.v < P THEN n ELSE Bad

IsByte(x) == x.j = "num" /\ x.n \in 0..(2 ^ Byte - 1)
bytes(v) ==
  CASE v.j = "hex" -> Good(v.b)
    [] v.j = "arr" /\ (\A i \in DOMAIN v.xs : IsByte(v.xs[i])) -> Good([i \in DOMAIN v.xs |-> v.xs[i].n])
    [] OTHER -> Bad

\* A moment as JSON: a date, or its seconds where no date can be written.
Moment(secs) == IF secs \in Dated THEN Date(secs) ELSE Dec(secs)

moment(v) == IF v.j = "date" THEN Good(v.secs) ELSE signed(v)

\* The step of a time's range that holds a moment, rounded down.
steps(enc, secs) ==
  IF secs < enc.from \/ secs >= enc.to THEN Bad ELSE Good((secs - enc.from) \div enc.unit)

variant(names, v) ==
  IF v.j = "name" /\ v.s \in ToSet(names) THEN Good(CHOOSE i \in 1..Len(names) : names[i] = v.s) ELSE Bad

\* One variant: its name, or its position.
choice(names, v) ==
  LET i == variant(names, v)
      n == integer(v)
  IN IF IsString(v) THEN (IF i.ok THEN Good(i.v - 1) ELSE Bad)
     ELSE IF n.ok /\ n.v < Len(names) THEN n ELSE Bad

\* A set of variants: a list of names, one name, or the mask.
set(names, v) ==
  LET mask(xs) == IF \A x \in xs : variant(names, x).ok
                  THEN Good(SumSet({2 ^ (variant(names, x).v - 1) : x \in xs})) ELSE Bad
      n == integer(v)
  IN CASE v.j = "arr" -> mask(ToSet(v.xs))
       [] IsString(v) -> mask({v})
       [] OTHER -> IF n.ok /\ n.v < 2 ^ Len(names) THEN n ELSE Bad

--------------------------------------------------------------------------------
(* The calendar: days since 1970-01-01, and dates as callers write them. A date  *)
(* is its parts as integers; a time of day needs a zone, an offset from UTC.      *)

DaySeconds == 86400

days_from_civil(year, month, day) ==
  LET y == IF month <= 2 THEN year - 1 ELSE year
      era == y \div 400
      yoe == y - era * 400
      doy == (153 * (IF month > 2 THEN month - 3 ELSE month + 9) + 2) \div 5 + day - 1
      doe == yoe * 365 + (yoe \div 4) - (yoe \div 100) + doy
  IN era * 146097 + doe - 719468

civil_from_days(days) ==
  LET z == days + 719468
      era == z \div 146097
      doe == z - era * 146097
      yoe == (doe - (doe \div 1460) + (doe \div 36524) - (doe \div 146096)) \div 365
      doy == doe - (365 * yoe + (yoe \div 4) - (yoe \div 100))
      mp == (5 * doy + 2) \div 153
      month == IF mp < 10 THEN mp + 3 ELSE mp - 9
  IN [y |-> yoe + era * 400 + (IF month <= 2 THEN 1 ELSE 0), m |-> month,
      d |-> doy - ((153 * mp + 2) \div 5) + 1]

days_in_month(year, month) ==
  CASE month = 2 -> IF (year % 4 = 0 /\ year % 100 # 0) \/ year % 400 = 0 THEN 29 ELSE 28
    [] month \in {4, 6, 9, 11} -> 30
    [] OTHER -> 31

\* A date, or a date with a time of day and its zone, as a day and the second in it.
ParseDate(date) ==
  IF date.m \notin 1..12 THEN Bad
  ELSE IF date.d \notin 1..days_in_month(date.y, date.m) THEN Bad
  ELSE IF date.clock = <<>> THEN Good(<<days_from_civil(date.y, date.m, date.d), 0>>)
  ELSE IF \/ ~date.zoned \/ date.clock[1] > 23 \/ date.clock[2] > 59 \/ date.clock[3] > 59
  THEN Bad
  ELSE LET secs == date.clock[1] * 3600 + date.clock[2] * 60 + date.clock[3] - date.offset
       IN Good(<<days_from_civil(date.y, date.m, date.d) + (secs \div DaySeconds), secs % DaySeconds>>)

\* A day and a second in it, as a date in UTC, if its year can be written (see Moment).
FormatDate(days, secs, dateOnly) ==
  LET c == civil_from_days(days) IN
  IF c.y \notin 0..9999 THEN Bad
  ELSE Good([y |-> c.y, m |-> c.m, d |-> c.d, zoned |-> TRUE, offset |-> 0,
             clock |-> IF dateOnly THEN <<>> ELSE <<secs \div 3600, (secs \div 60) % 60, secs % 60>>])

--------------------------------------------------------------------------------
(* The schema's types: definitions, groups of packed fields, leaf names *)

IsRef(ty) == ty.k = "ref"
Def(S, ty) == S.types[ty.name]
Encoded(def) == def.enc.e # "fields"

\* a bug: a run is taken to go on while fields are packed
GroupAt_RunsOn(fields, i) ==
  LET more(j) == \A l \in (i + 1)..j : fields[l].packed # <<>>
  IN IF fields[i].packed = <<>> THEN <<i>>
     ELSE [n \in 1..(Max({j \in i..Len(fields) : more(j)}) - i + 1) |-> i + n - 1]

\* The fields that share the element that field i starts: up to the next field that
\* starts one or is not packed. <<i>> for a field that is not packed.
GroupAt(fields, i) ==
  LET more(j) == \A l \in (i + 1)..j : fields[l].packed # <<>> /\ fields[l].packed[1] # 0
  IN IF fields[i].packed = <<>> THEN <<i>>
     ELSE [n \in 1..(Max({j \in i..Len(fields) : more(j)}) - i + 1) |-> i + n - 1]

Starts(fields, i) == fields[i].packed = <<>> \/ fields[i].packed[1] = 0
Groups(fields) ==
  LET starts == SelectSeq([i \in DOMAIN fields |-> i], LAMBDA i : Starts(fields, i))
  IN [n \in DOMAIN starts |-> GroupAt(fields, starts[n])]

IsGroup(fields, g) == fields[g[1]].packed # <<>>
packed_name(prefix, fields, g) ==
  prefix \o <<".{">> \o [n \in DOMAIN g |-> fields[g[n]].name] \o <<"}">>

RECURSIVE leaf_names(_, _, _)
leaf_names(S, ty, prefix) ==
  CASE ty.k = "array" ->
         FlattenSeq([i \in 1..ty.n |-> leaf_names(S, ty.of, Append(prefix, Index(i - 1)))])
    [] ty.k = "tuple" ->
         FlattenSeq([i \in DOMAIN ty.ts |-> leaf_names(S, ty.ts[i], Append(prefix, Dot(ToString(i - 1))))])
    [] IsRef(ty) /\ Def(S, ty).layout = "struct" ->
         LET fields == Def(S, ty).fields
             gs == Groups(fields)
         IN FlattenSeq([n \in DOMAIN gs |->
              IF IsGroup(fields, gs[n]) THEN <<packed_name(prefix, fields, gs[n])>>
              ELSE LET f == fields[gs[n][1]] IN leaf_names(S, f.ty, Append(prefix, Dot(f.name)))])
    [] OTHER -> <<prefix>>

\* The type at an input path, or nothing. A path goes into structs and arrays.
TypeAt(S, path) ==
  LET roots == {i \in DOMAIN S.inputs : S.inputs[i].name = path[1]}
      none == [k |-> "none"]
      into(ty, token) ==
        IF ty.k = "array" /\ \E i \in 0..9 : token = Index(i) THEN ty.of
        ELSE IF IsRef(ty) /\ Def(S, ty).layout = "struct"
                /\ \E i \in DOMAIN Def(S, ty).fields :
                     token \in {Dot(Def(S, ty).fields[i].name), Dot(camel(Def(S, ty).fields[i].name))}
             THEN LET fs == Def(S, ty).fields IN
                  fs[CHOOSE i \in DOMAIN fs : token \in {Dot(fs[i].name), Dot(camel(fs[i].name))}].ty
        ELSE none
  IN IF roots = {} THEN none
     ELSE FoldLeft(into, S.inputs[CHOOSE i \in roots : TRUE].ty, Tail(path))

--------------------------------------------------------------------------------
(* Encoding: a value into the leaves under a name *)

Refused == [ok |-> FALSE, out |-> <<>>]
Put(at, r) == IF r.ok THEN [ok |-> TRUE, out |-> at :> r.v] ELSE Refused
Join(rs) ==
  IF \A i \in DOMAIN rs : rs[i].ok
  THEN [ok |-> TRUE, out |-> FoldLeft(LAMBDA out, r : r.out @@ out, <<>>, rs)]
  ELSE Refused

encode_number(S, ty, n, at) ==
  LET bits == Def(S, ty).enc.bits
      names == leaf_names(S, ty, at)
  IN IF n >= 2 ^ (bits * Len(names)) THEN Refused
     ELSE Join([i \in DOMAIN names |-> Put(names[i], Good(Slice(n, (i - 1) * bits, bits)))])

RECURSIVE encoded_len(_, _), concat_sizes(_, _)
encoded_len(S, ty) ==
  IF Def(S, ty).enc.e \in {"limbs", "concat"} THEN Def(S, ty).enc.bytes
  ELSE FoldFunction(+, 0, concat_sizes(S, ty))
concat_sizes(S, ty) ==
  IF Def(S, ty).enc.e = "concat" THEN Def(S, ty).enc.sizes
  ELSE [i \in DOMAIN Def(S, ty).fields |-> encoded_len(S, Def(S, ty).fields[i].ty)]

\* Where each field's bytes start.
Offset(sizes, i) == FoldFunction(+, 0, SubSeq(sizes, 1, i - 1))

RECURSIVE encode_bytes(_, _, _, _)
encode_bytes(S, ty, given, at) ==
  LET def == Def(S, ty)
      len == encoded_len(S, ty)
      sec1 == def.enc.e = "sec1" /\ Len(given) = len + 1 /\ given[1] = 2 ^ Byte - 1
      b == IF sec1 THEN Tail(given) ELSE given
      sizes == concat_sizes(S, ty)
      chunk(i) == SubSeq(b, Offset(sizes, i) + 1, Offset(sizes, i) + sizes[i])
      part(i) ==
        LET f == def.fields[i]
            leaf == Append(at, Dot(f.name))
        IN IF IsRef(f.ty) THEN encode_bytes(S, f.ty, chunk(i), leaf) ELSE Put(leaf, field(Hex(chunk(i))))
  IN IF Len(b) # len THEN Refused
     ELSE IF def.enc.e = "limbs" THEN encode_number(S, ty, FromBytesBE(b), at)
     ELSE Join([i \in DOMAIN def.fields |-> part(i)])

\* A value in a named type's own form.
encode_natural(S, ty, v, at) ==
  LET enc == Def(S, ty).enc
      m == moment(v)
  IN CASE enc.e = "timestamp" -> IF m.ok THEN Put(at, twos_complement(m.v, Def(S, ty).ty.w)) ELSE Refused
       [] enc.e = "time" -> IF m.ok THEN Put(at, steps(enc, m.v)) ELSE Refused
       [] enc.e = "text" ->
            IF v.j = "text" /\ Len(v.b) <= TextMax THEN Put(at, Good(FromBytesLE(v.b))) ELSE Refused
       [] enc.e = "choice" -> Put(at, choice(S.enums[enc.enum], v))
       [] enc.e = "set" -> Put(at, set(S.enums[enc.enum], v))
       [] enc.e = "limbs" ->
            LET n == IF v.j = "arr"
                     THEN (IF bytes(v).ok THEN Good(FromBytesLE(bytes(v).v)) ELSE Bad)
                     ELSE integer(v)
            IN IF n.ok THEN encode_number(S, ty, n.v, at) ELSE Refused
       [] OTHER -> IF bytes(v).ok THEN encode_bytes(S, ty, bytes(v).v, at) ELSE Refused

RECURSIVE encode(_, _, _, _)
\* A struct given as an object of its fields, by declared or camelCase name.
encode_struct(S, def, v, at) ==
  LET given(f) == {f.name, camel(f.name)} \cap DOMAIN v.m
      key(f) == IF f.name \in DOMAIN v.m THEN f.name ELSE camel(f.name)
      known == UNION {{def.fields[i].name, camel(def.fields[i].name)} : i \in DOMAIN def.fields}
  IN IF /\ v.j = "obj"
        /\ \A i \in DOMAIN def.fields : given(def.fields[i]) # {}
        /\ DOMAIN v.m \subseteq known
     THEN Join([i \in DOMAIN def.fields |->
            LET f == def.fields[i] IN encode(S, f.ty, v.m[key(f)], Append(at, Dot(f.name)))])
     ELSE Refused

encode(S, ty, v, at) ==
  CASE ty.k = "field" -> Put(at, field(v))
    [] ty.k = "bool" ->
         Put(at, IF v.j = "bool" THEN Good(IF v.is THEN 1 ELSE 0)
                 ELSE IF v.j = "num" /\ v.n \in {0, 1} THEN Good(v.n) ELSE Bad)
    [] ty.k = "uint" ->
         Put(at, IF integer(v).ok /\ integer(v).v < 2 ^ ty.w THEN integer(v) ELSE Bad)
    [] ty.k = "int" -> Put(at, IF signed(v).ok THEN twos_complement(signed(v).v, ty.w) ELSE Bad)
    [] ty.k = "array" ->
         LET raw == ty.of.k = "uint" /\ ty.of.w = Byte /\ IsString(v)
             ok == IF raw THEN bytes(v).ok ELSE v.j = "arr"
             items == IF raw THEN [i \in DOMAIN bytes(v).v |-> Num(bytes(v).v[i])] ELSE v.xs
         IN IF ~ok THEN Refused
            ELSE IF Len(items) # ty.n THEN Refused
            ELSE Join([i \in 1..ty.n |-> encode(S, ty.of, items[i], Append(at, Index(i - 1)))])
    [] ty.k = "tuple" ->
         IF v.j # "arr" THEN Refused
         ELSE IF Len(v.xs) # Len(ty.ts) THEN Refused
         ELSE Join([i \in DOMAIN ty.ts |-> encode(S, ty.ts[i], v.xs[i], Append(at, Dot(ToString(i - 1))))])
    [] IsRef(ty) ->
         (IF Encoded(Def(S, ty)) /\ v.j # "obj" THEN encode_natural(S, ty, v, at)
          ELSE IF Def(S, ty).layout = "newtype" THEN encode(S, Def(S, ty).ty, v, at)
          ELSE encode_struct(S, Def(S, ty), v, at))

\* The leaves of packed fields, each encoded at its own path, into their elements. An
\* element whose fields are not all given is left for the missing-leaf check.
RECURSIVE pack(_, _, _, _)
PackGroup(fields, g, prefix, out) ==
  LET at(n) == Append(prefix, Dot(fields[g[n]].name))
      paths == {at(n) : n \in DOMAIN g}
      x(n) == out[at(n)]
      fits == \A n \in DOMAIN g : x(n) < 2 ^ fields[g[n]].packed[2]
      sum == FoldFunction(+, 0, [n \in DOMAIN g |-> x(n) * (2 ^ fields[g[n]].packed[1])])
  IN IF ~(paths \subseteq DOMAIN out) THEN [ok |-> TRUE, out |-> out]
     ELSE IF ~fits THEN Refused
     ELSE [ok |-> TRUE, out |-> (packed_name(prefix, fields, g) :> sum)
                                  @@ [l \in DOMAIN out \ paths |-> out[l]]]

PackAll(S, parts, out) ==
  FoldLeft(LAMBDA acc, part : IF acc.ok THEN pack(S, part[1], part[2], acc.out) ELSE acc,
           [ok |-> TRUE, out |-> out], parts)
pack(S, ty, prefix, out) ==
  CASE ty.k = "array" ->
         PackAll(S, [i \in 1..ty.n |-> <<ty.of, Append(prefix, Index(i - 1))>>], out)
    [] ty.k = "tuple" ->
         PackAll(S, [i \in DOMAIN ty.ts |-> <<ty.ts[i], Append(prefix, Dot(ToString(i - 1)))>>], out)
    [] IsRef(ty) /\ Def(S, ty).layout = "struct" ->
         LET fields == Def(S, ty).fields IN
         FoldLeft(LAMBDA acc, g :
                    IF ~acc.ok THEN acc
                    ELSE IF IsGroup(fields, g) THEN PackGroup(fields, g, prefix, acc.out)
                    ELSE pack(S, fields[g[1]].ty, Append(prefix, Dot(fields[g[1]].name)), acc.out),
                  [ok |-> TRUE, out |-> out], Groups(fields))
    [] OTHER -> [ok |-> TRUE, out |-> out]

RECURSIVE HasPlaceholder(_)
HasPlaceholder(v) ==
  CASE v.j = "placeholder" -> TRUE
    [] v.j = "arr" -> \E i \in DOMAIN v.xs : HasPlaceholder(v.xs[i])
    [] v.j = "obj" -> \E n \in DOMAIN v.m : HasPlaceholder(v.m[n])
    [] OTHER -> FALSE

\* The leaves of a JSON object of inputs, given as its entries (a key is a path):
\* inputs by name first, then any other path; packed fields into their elements;
\* then every leaf of every wanted input must be there.
LeavesWhere(S, entries, publicOnly) ==
  LET wanted == SelectSeq(S.inputs, LAMBDA i : publicOnly => i.public)
      key(i) == {e \in DOMAIN entries : entries[e].key \in {<<i.name>>, <<camel(i.name)>>}}
      named == SelectSeq(wanted, LAMBDA i : key(i) # {})
      used == {Min(key(named[n])) : n \in DOMAIN named}
      rest == SelectSeq([e \in DOMAIN entries |-> e], LAMBDA e : e \notin used)
      first == Join([n \in DOMAIN named |->
                 encode(S, named[n].ty, entries[Min(key(named[n]))].v, <<named[n].name>>)])
      second == Join([n \in DOMAIN rest |->
                  LET e == entries[rest[n]]
                      ty == TypeAt(S, e.key)
                  IN IF ty.k = "none" THEN Refused ELSE encode(S, ty, e.v, e.key)])
      given == Join(<<first, second>>)
      packed == PackAll(S, [i \in DOMAIN wanted |-> <<wanted[i].ty, <<wanted[i].name>> >>], given.out)
      all == UNION {ToSet(leaf_names(S, wanted[i].ty, <<wanted[i].name>>)) : i \in DOMAIN wanted}
  IN IF (\E e \in DOMAIN entries : HasPlaceholder(entries[e].v)) \/ ~given.ok \/ ~packed.ok
     THEN Refused
     ELSE IF all \subseteq DOMAIN packed.out THEN packed ELSE Refused

PublicInputs(S, entries) ==
  LET r == LeavesWhere(S, entries, TRUE)
  IN IF r.ok /\ ToSet(S.public_inputs) \subseteq DOMAIN r.out
     THEN Good([i \in DOMAIN S.public_inputs |-> r.out[S.public_inputs[i]]]) ELSE Bad

\* A value of one named type as its field elements: what `to_fields` gives in Rust.
Fields(S, ty, v) ==
  LET e == encode(S, ty, v, <<"value">>)
      r == pack(S, ty, <<"value">>, e.out)
      names == leaf_names(S, ty, <<"value">>)
  IN IF e.ok /\ r.ok /\ ToSet(names) \subseteq DOMAIN r.out
     THEN Good([i \in DOMAIN names |-> r.out[names[i]]]) ELSE Bad

--------------------------------------------------------------------------------
(* Decoding: the public inputs f from position `at` on, into JSON *)

At(f, at) == IF at <= Len(f) THEN Good(f[at]) ELSE Bad
Decoded(ok, v, at) == [ok |-> ok, v |-> v, at |-> at]
NoValue(at) == Decoded(FALSE, Bool(FALSE), at)
Integral(w, n) == IF w <= JsonBits THEN Num(n) ELSE Dec(n)

\* The fewest bytes that hold a text's number.
TextBytes(n) == ToBytesLE(n, Min({len \in 0..BitLen(P) : n < 2 ^ (Byte * len)}))
IsUtf8(b) == ToSet(b) \cap NotUtf8 = {}

\* Bytes as a JSON text: those that are not UTF-8 are replaced.
Lossy(b) == FlattenSeq([i \in DOMAIN b |-> IF b[i] \in NotUtf8 THEN Replacement ELSE <<b[i]>>])

RECURSIVE decode_bytes(_, _, _, _)
decode_number(S, ty, f, at) ==
  LET bits == Def(S, ty).enc.bits
      count == Len(leaf_names(S, ty, <<>>))
  IN IF at + count - 1 > Len(f) THEN Bad
     ELSE Good(FoldFunction(LAMBDA l, n : l | n, 0,
                            [i \in 1..count |-> f[at + i - 1] * (2 ^ ((i - 1) * bits))]))

decode_bytes(S, ty, f, at) ==
  LET def == Def(S, ty)
      n == decode_number(S, ty, f, at)
      fixed(x, size) == IF x < 2 ^ (Byte * size) THEN Good(ToBytesBE(x, size)) ELSE Bad
      sizes == concat_sizes(S, ty)
      step(acc, i) ==
        LET fty == def.fields[i].ty
            inner == decode_bytes(S, fty, f, acc.at)
            own == IF At(f, acc.at).ok THEN fixed(f[acc.at], sizes[i]) ELSE Bad
        IN IF ~acc.ok THEN acc
           ELSE IF IsRef(fty)
                THEN (IF inner.ok THEN Decoded(TRUE, acc.v \o inner.v, inner.at) ELSE Decoded(FALSE, <<>>, acc.at))
           ELSE IF own.ok THEN Decoded(TRUE, acc.v \o own.v, acc.at + 1) ELSE Decoded(FALSE, <<>>, acc.at)
  IN IF def.enc.e = "limbs"
     THEN (IF n.ok /\ fixed(n.v, encoded_len(S, ty)).ok
           THEN Decoded(TRUE, fixed(n.v, encoded_len(S, ty)).v, at + Len(leaf_names(S, ty, <<>>)))
           ELSE Decoded(FALSE, <<>>, at))
     ELSE FoldLeftDomain(step, Decoded(TRUE, <<>>, at), def.fields)

RECURSIVE decode(_, _, _, _, _)
DecodeAll(S, ts, f, at, camelKeys) ==
  FoldLeft(LAMBDA acc, t :
             LET r == decode(S, t, f, acc.at, camelKeys)
             IN Decoded(acc.ok /\ r.ok, Append(acc.v, r.v), r.at),
           Decoded(TRUE, <<>>, at), ts)

DecodeStruct(S, fields, f, at, camelKeys) ==
  LET key(i) == IF camelKeys THEN camel(fields[i].name) ELSE fields[i].name
      shared(acc, g) ==
        LET x == f[acc.at]
            total == FoldFunction(+, 0, [n \in DOMAIN g |-> fields[g[n]].packed[2]])
            one(n) == decode(S, fields[g[n]].ty,
                             <<Slice(x, fields[g[n]].packed[1], fields[g[n]].packed[2])>>, 1, camelKeys)
        IN Decoded(x < 2 ^ total /\ \A n \in DOMAIN g : one(n).ok,
                   [k \in {key(g[n]) : n \in DOMAIN g} |->
                      one(CHOOSE n \in DOMAIN g : key(g[n]) = k).v] @@ acc.v,
                   acc.at + 1)
      alone(acc, i) ==
        LET r == decode(S, fields[i].ty, f, acc.at, camelKeys)
        IN Decoded(r.ok, (key(i) :> r.v) @@ acc.v, r.at)
      step(acc, g) ==
        IF ~acc.ok THEN acc
        ELSE IF ~IsGroup(fields, g) THEN alone(acc, g[1])
        ELSE IF acc.at > Len(f) THEN NoValue(acc.at) ELSE shared(acc, g)
      r == FoldLeft(step, Decoded(TRUE, <<>>, at), Groups(fields))
  IN IF r.ok THEN Decoded(TRUE, Obj(r.v), r.at) ELSE NoValue(r.at)

\* A named type's value in its own form, from one leaf.
DecodeOne(S, def, x) ==
  CASE def.enc.e = "timestamp" ->
         LET n == from_twos_complement(x, def.ty.w) IN IF n.ok THEN Good(Moment(n.v)) ELSE Bad
    [] def.enc.e = "time" -> Good(Moment(def.enc.from + x * def.enc.unit))
    [] def.enc.e = "text" -> Good(TextOf(Lossy(TextBytes(x))))
    [] def.enc.e = "choice" ->
         LET names == S.enums[def.enc.enum]
         IN IF x < Len(names) THEN Good(Name(names[x + 1])) ELSE Bad
    [] def.enc.e = "set" ->
         LET names == S.enums[def.enc.enum]
             on == SelectSeq([i \in DOMAIN names |-> i], LAMBDA i : Slice(x, i - 1, 1) = 1)
         IN Good(Arr([n \in DOMAIN on |-> Name(names[on[n]])]))

decode(S, ty, f, at, camelKeys) ==
  LET x == At(f, at)
      leaf(r) == IF x.ok /\ r.ok THEN Decoded(TRUE, r.v, at + 1) ELSE NoValue(at + 1)
      many(r) == IF r.ok THEN Decoded(TRUE, Arr(r.v), r.at) ELSE NoValue(r.at)
      def == Def(S, ty)
      n == decode_number(S, ty, f, at)
      b == decode_bytes(S, ty, f, at)
  IN CASE ~x.ok /\ ty.k \in {"field", "bool", "uint", "int"} -> NoValue(at)
       [] ty.k = "field" -> leaf(Good(Dec(x.v)))
       [] ty.k = "bool" -> leaf(IF x.v > 1 THEN Bad ELSE Good(Bool(x.v = 1)))
       [] ty.k = "uint" -> leaf(Good(Integral(ty.w, x.v)))
       [] ty.k = "int" ->
            LET s == from_twos_complement(x.v, ty.w) IN leaf(IF s.ok THEN Good(Integral(ty.w, s.v)) ELSE Bad)
       [] ty.k = "array" /\ ty.of.k = "uint" /\ ty.of.w = Byte ->
            IF at + ty.n - 1 > Len(f) THEN NoValue(at)
            ELSE Decoded(TRUE, Hex([i \in 1..ty.n |-> f[at + i - 1] % (2 ^ Byte)]), at + ty.n)
       [] ty.k = "array" /\ ~(ty.of.k = "uint" /\ ty.of.w = Byte) ->
            many(DecodeAll(S, [i \in 1..ty.n |-> ty.of], f, at, camelKeys))
       [] ty.k = "tuple" -> many(DecodeAll(S, ty.ts, f, at, camelKeys))
       [] IsRef(ty) /\ def.layout = "newtype" ->
            IF ~Encoded(def) THEN decode(S, def.ty, f, at, camelKeys)
            ELSE IF ~x.ok THEN NoValue(at) ELSE leaf(DecodeOne(S, def, x.v))
       [] IsRef(ty) /\ def.layout = "struct" ->
            (CASE def.enc.e = "limbs" ->
                    IF n.ok THEN Decoded(TRUE, Dec(n.v), at + Len(leaf_names(S, ty, <<>>))) ELSE NoValue(at)
               [] def.enc.e = "fields" -> DecodeStruct(S, def.fields, f, at, camelKeys)
               [] OTHER -> IF b.ok THEN Decoded(TRUE, Hex(b.v), b.at) ELSE NoValue(at))

\* The public inputs as an object, one entry per public input.
DecodePublic(S, f, camelKeys) ==
  LET public == SelectSeq(S.inputs, LAMBDA i : i.public)
      r == DecodeAll(S, [i \in DOMAIN public |-> public[i].ty], f, 1, camelKeys)
  IN IF r.ok /\ r.at > Len(f)
     THEN Good([i \in DOMAIN public |->
            [key |-> <<IF camelKeys THEN camel(public[i].name) ELSE public[i].name>>, v |-> r.v[i]]])
     ELSE Bad

--------------------------------------------------------------------------------
(* The inputs template: a placeholder wherever a value must be written *)

RECURSIVE Template(_, _)
Template(S, ty) ==
  CASE ty.k = "bool" -> Bool(FALSE)
    [] ty.k = "array" /\ ~(ty.of.k = "uint" /\ ty.of.w = Byte) -> Arr([i \in 1..ty.n |-> Template(S, ty.of)])
    [] ty.k = "tuple" -> Arr([i \in DOMAIN ty.ts |-> Template(S, ty.ts[i])])
    [] IsRef(ty) /\ ~Encoded(Def(S, ty)) /\ Def(S, ty).layout = "newtype" -> Template(S, Def(S, ty).ty)
    [] IsRef(ty) /\ ~Encoded(Def(S, ty)) /\ Def(S, ty).layout = "struct" ->
         LET fs == Def(S, ty).fields
         IN Obj([n \in {fs[i].name : i \in DOMAIN fs} |->
                   Template(S, fs[CHOOSE i \in DOMAIN fs : fs[i].name = n].ty)])
    [] OTHER -> Placeholder
================================================================================
