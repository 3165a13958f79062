------------------------------- MODULE Interp -------------------------------
(***************************************************************************)
(* The frontend's wasm machine with symbolic values                         *)
(* (crates/frontend/src/interp.rs).  Concrete values execute as wasm says; *)
(* a value derived from a witness is a wire, a select between two values   *)
(* on a {0,1} wire, or bytes mixed from several values.  A branch on a     *)
(* witness runs both arms under a guard, undoes their memory writes and    *)
(* merges the two states.                                                  *)
(*                                                                         *)
(* A wire is represented by its width and by what it evaluates to under    *)
(* each assignment of the witness inputs, and the constraints emitted so   *)
(* far by the set `sat' of the assignments that satisfy them, so that      *)
(* "the lowered circuit says what the program does" is a statement about   *)
(* finite sets.  Bytes have ByteBits bits, an i32 Half bytes and an i64    *)
(* 2*Half bytes, the granule of the symbolic-byte counters.                *)
(***************************************************************************)
EXTENDS Integers, Sequences, FiniteSets, SequencesExt, Bitwise

CONSTANTS Witness,      \* the assignments of the witness inputs
          InputWidth,   \* input k has InputWidth[k] bits
          InputOf,      \* InputOf[w][k]: input k under the assignment w
          ByteBits, Half, PageBytes, MaxPages,
          IndexBits,    \* a witness index of at most so many bits is a table lookup
          ProbeSteps, MaxPathDepth, MaxDepth, MaxSteps

Word == 2 * Half
Base == 2 ^ ByteBits
Reg(wide) == ByteBits * (IF wide THEN Word ELSE Half)
Mask(x, bits) == x % 2 ^ bits
Least(a, b) == IF a <= b THEN a ELSE b
Most(a, b) == IF a <= b THEN b ELSE a
DivCeil(a, b) == (a + b - 1) \div b

(***************************************************************************)
(* Values.  <<"c", n>> is concrete, <<"w", width, den>> a wire,            *)
(* <<"i", cond, t, e>> the select `cond ? t : e', <<"b", bytes>> mixed     *)
(* bytes.  A byte is <<n, None>> or <<0, <<v, k>>>>, byte k of v.          *)
(***************************************************************************)
None == <<>>
C(n) == <<"c", n>>
Wire(width, den) == <<"w", width, den>>
IsSym(v) == v[1] # "c"
IsWire(v) == v[1] = "w"
IsIte(v) == v[1] = "i"
Ite(c, t, e) == IF t = e THEN t ELSE <<"i", c, t, e>>

RECURSIVE Eval(_, _)
Eval(v, w) ==
  CASE v[1] = "c" -> v[2]
    [] v[1] = "w" -> v[3][w]
    [] v[1] = "i" -> IF v[2][3][w] = 1 THEN Eval(v[3], w) ELSE Eval(v[4], w)
    [] v[1] = "b" ->
         LET at(b) == IF b[2] = None THEN b[1]
                      ELSE (Eval(b[2][1], w) \div Base ^ b[2][2]) % Base
         IN FoldLeft(LAMBDA acc, i : acc + at(v[2][i]) * Base ^ (i - 1), 0,
                     [i \in 1 .. Len(v[2]) |-> i])
Den(v) == [w \in Witness |-> Eval(v, w)]

(* Byte k of v, concrete or a reference to a symbolic value's byte. *)
ByteOf(v, k) ==
  CASE v[1] = "c" -> <<(v[2] \div Base ^ k) % Base, None>>
    [] v[1] = "w" /\ k * ByteBits >= v[2] -> <<0, None>>
    [] v[1] = "b" -> IF k < Len(v[2]) THEN v[2][k + 1] ELSE <<0, None>>
    [] OTHER -> <<0, <<v, k>>>>

(* A value from its little-endian bytes: a concrete number; a select when  *)
(* a byte belongs to one; one whole wire in place; otherwise mixed bytes.  *)
RECURSIVE Assemble(_)
Assemble(bs) ==
  LET symbolic == {i \in DOMAIN bs : bs[i][2] # None}
      ites == {i \in symbolic : IsIte(bs[i][2][1])}
      first(S) == CHOOSE i \in S : \A j \in S : i <= j
  IN IF symbolic = {}
     THEN C(Eval(<<"b", bs>>, CHOOSE w \in Witness : TRUE))
     ELSE IF ites # {}
     THEN LET s == bs[first(ites)][2][1]
              arm(x) == [i \in DOMAIN bs |->
                           IF bs[i][2] # None /\ bs[i][2][1] = s
                           THEN ByteOf(x, bs[i][2][2]) ELSE bs[i]]
          IN Ite(s[2], Assemble(arm(s[3])), Assemble(arm(s[4])))
     ELSE LET s == bs[first(symbolic)][2][1]
              inPlace == \A i \in DOMAIN bs :
                           IF bs[i][2] = None THEN bs[i][1] = 0
                           ELSE bs[i][2] = <<s, i - 1>>
              need == DivCeil(s[2], ByteBits)
          IN IF /\ inPlace /\ bs[first(symbolic)][2][2] = 0
                /\ Len(bs) >= need /\ (1 .. need) \subseteq symbolic
             THEN s ELSE <<"b", bs>>

(* Bytes off .. off+len-1 of v as a value. *)
RECURSIVE Slice(_, _, _)
Slice(v, off, len) ==
  LET bytes == [i \in 1 .. len |-> ByteOf(v, off + i - 1)]
  IN CASE v[1] = "c" -> C(Mask(v[2] \div Base ^ off, ByteBits * len))
       [] v[1] = "i" -> Ite(v[2], Slice(v[3], off, len), Slice(v[4], off, len))
       [] v[1] = "w" -> IF off = 0 /\ ByteBits * len >= v[2] THEN v
                        ELSE IF ByteBits * off >= v[2] THEN C(0)
                        ELSE <<"b", bytes>>
       [] v[1] = "b" -> Assemble(bytes)

(***************************************************************************)
(* Concrete arithmetic on registers of `reg' bits.                          *)
(***************************************************************************)
Signed(x, reg) == IF x >= 2 ^ (reg - 1) THEN x - 2 ^ reg ELSE x
Abs(x) == IF x < 0 THEN -x ELSE x
BinTraps(o, x, y, reg) ==
  \/ o \in {"div_s", "div_u", "rem_s", "rem_u"} /\ y = 0
  \/ o = "div_s" /\ x = 2 ^ (reg - 1) /\ y = 2 ^ reg - 1
BinVal(o, x, y, reg) ==
  LET sx == Signed(x, reg)
      sy == Signed(y, reg)
      k == y % reg
      quo == IF y = 0 THEN 0 ELSE Abs(sx) \div Abs(sy)
      fill == IF sx < 0 THEN 2 ^ reg - 2 ^ (reg - k) ELSE 0
  IN Mask(CASE o = "add" -> x + y
            [] o = "sub" -> x + 2 ^ reg - y
            [] o = "mul" -> x * y
            [] o = "div_u" -> IF y = 0 THEN 0 ELSE x \div y
            [] o = "rem_u" -> IF y = 0 THEN 0 ELSE x % y
            [] o = "div_s" -> IF (sx < 0) = (sy < 0) THEN quo ELSE -quo
            [] o = "rem_s" -> IF sx < 0 THEN -(Abs(sx) - quo * Abs(sy))
                              ELSE sx - quo * Abs(sy)
            [] o = "and" -> x & y
            [] o = "or" -> x | y
            [] o = "xor" -> x ^^ y
            [] o = "shl" -> x * 2 ^ k
            [] o = "shr_u" -> x \div 2 ^ k
            [] o = "shr_s" -> (x \div 2 ^ k) + fill
            [] o = "rotl" -> x * 2 ^ k + x \div 2 ^ (reg - k)
            [] o = "rotr" -> (x \div 2 ^ k) + x * 2 ^ (reg - k), reg)
CmpVal(o, x, y, reg) ==
  LET sx == Signed(x, reg)
      sy == Signed(y, reg)
      holds == CASE o = "eq" -> x = y    [] o = "ne" -> x # y
                 [] o = "lt_u" -> x < y  [] o = "lt_s" -> sx < sy
                 [] o = "gt_u" -> x > y  [] o = "gt_s" -> sx > sy
                 [] o = "le_u" -> x <= y [] o = "le_s" -> sx <= sy
                 [] o = "ge_u" -> x >= y [] o = "ge_s" -> sx >= sy
  IN IF holds THEN 1 ELSE 0
Sext(x, bits, reg) == Mask(Signed(Mask(x, bits), bits), reg)

(***************************************************************************)
(* The machine: `st' is what an arm of a branch diverges in, memory is     *)
(* shared and journalled.  `err' is "" while running, "diverged" after a   *)
(* panic or a trap, "error" when the program is not supported.             *)
(***************************************************************************)
Fail(m, kind) == IF m.err = "" THEN [m EXCEPT !.err = kind] ELSE m
Size(m) == Cardinality(DOMAIN m.mem)
BytesAt(m, a, n) == [i \in 1 .. n |-> <<m.mem[a + i - 1], m.shadow[a + i - 1]>>]
Addrs(a, n) == [i \in 1 .. n |-> a + i - 1]

HasShadow(m, a, n) ==
  \E g \in (a \div Word) .. ((a + Most(n, 1) - 1) \div Word) : m.gran[g] # 0

(* A count raised again for a byte that was already symbolic. *)
SetShadowRecounted(m, a, sb) ==
  LET g == a \div Word
  IN IF sb # None
     THEN [m EXCEPT !.shadow[a] = sb, !.gran[g] = @ + 1]
     ELSE IF m.gran[g] # 0 /\ m.shadow[a] # None
     THEN [m EXCEPT !.shadow[a] = None, !.gran[g] = @ - 1]
     ELSE m
(* Set or clear byte a's symbolic content, keeping its granule's count. *)
SetShadow(m, a, sb) ==
  LET g == a \div Word
  IN IF sb # None
     THEN [m EXCEPT !.shadow[a] = sb,
                    !.gran[g] = IF m.shadow[a] = None THEN @ + 1 ELSE @]
     ELSE IF m.gran[g] # 0 /\ m.shadow[a] # None
     THEN [m EXCEPT !.shadow[a] = None, !.gran[g] = @ - 1]
     ELSE m
ClearShadow(m, a, n) == FoldLeft(LAMBDA x, b : SetShadow(x, b, None), m, Addrs(a, n))
PutByte(m, a, byte) == SetShadow([m EXCEPT !.mem[a] = byte[1]], a, byte[2])

(* Outside a branch nothing is recorded: there is no path to undo. *)
Journal(m, a, n) ==
  IF m.journals = <<>> THEN m
  ELSE [m EXCEPT !.journals[Len(m.journals)] =
                    Append(@, [addr |-> a, old |-> BytesAt(m, a, n)])]

Store(m, a, n, v) ==
  LET j == Journal(m, a, n)
      bytes == [i \in 1 .. n |-> ByteOf(v, i - 1)]
      put == [j EXCEPT !.mem = [b \in DOMAIN j.mem |->
                 IF b \in a .. a + n - 1 THEN bytes[b - a + 1][1] ELSE j.mem[b]]]
  IN IF ~IsSym(v)
     THEN IF HasShadow(put, a, n) THEN ClearShadow(put, a, n) ELSE put
     ELSE FoldLeft(LAMBDA x, b : SetShadow(x, b, bytes[b - a + 1][2]), put, Addrs(a, n))
Load(m, a, n) ==
  IF ~HasShadow(m, a, n)
  THEN Assemble([i \in 1 .. n |-> <<m.mem[a + i - 1], None>>])
  ELSE Assemble(BytesAt(m, a, n))
OutOfBounds(m, a, n) == a + n > Size(m)

(***************************************************************************)
(* The host, as the machine uses it (host.rs, modelled in module Host):    *)
(* the wire it answers with evaluates to the operation's result, a         *)
(* requirement binds only where the arms entered so far are taken, and     *)
(* nothing is emitted while probing.  Operations answer with the machine   *)
(* and a value.                                                            *)
(***************************************************************************)
Res(m, v) == [m |-> m, v |-> v]
Taken(m) == {w \in Witness : \A i \in DOMAIN m.guards : w \in m.guards[i]}
RequireUngated(m, ok) == IF m.err # "" THEN m ELSE [m EXCEPT !.sat = @ \cap ok]
Require(m, ok) ==
  IF m.err # "" THEN m ELSE [m EXCEPT !.sat = @ \ (Taken(m) \ ok)]
ProbeGuard(m) == IF m.probing THEN Fail(m, "error") ELSE m
RequireCond(m, c, value) ==
  Require(ProbeGuard(m), {w \in Witness : c[3][w] = value})

BitLen(n) == CHOOSE k \in 0 .. Reg(TRUE) : n < 2 ^ k /\ (k = 0 \/ n >= 2 ^ (k - 1))
RECURSIVE WidthOf(_)
WidthOf(v) == CASE v[1] = "c" -> BitLen(v[2])
                [] v[1] = "w" -> v[2]
                [] v[1] = "i" -> Most(WidthOf(v[3]), WidthOf(v[4]))
                [] OTHER -> ByteBits * Len(v[2])
HostNot(v) ==
  IF ~IsSym(v) THEN C(IF v[2] = 0 THEN 1 ELSE 0)
  ELSE Wire(1, [w \in Witness |-> 1 - Eval(v, w)])
HostBoolOp(m, o, a, b) ==
  Res(ProbeGuard(m),
      LET fold(x, y) == CASE o = "and" /\ y = 0 -> C(0)
                          [] o = "or" /\ y # 0 -> C(1)
                          [] o = "xor" /\ y # 0 -> HostNot(x)
                          [] OTHER -> x
      IN IF ~IsSym(b) THEN fold(a, b[2])
         ELSE IF ~IsSym(a) THEN fold(b, a[2])
         ELSE Wire(1, [w \in Witness |-> BinVal(o, Eval(a, w), Eval(b, w), 1)]))
(* An unsigned comparison the operands' ranges decide needs no wire. *)
Decided(o, a, b) ==
  LET lo(v) == IF IsSym(v) THEN 0 ELSE v[2]
      hi(v) == IF IsSym(v) THEN 2 ^ WidthOf(v) - 1 ELSE v[2]
      lt == hi(a) < lo(b)
      gt == lo(a) > hi(b)
  IN CASE lt /\ o \in {"lt_u", "le_u", "ne"} -> {1}
       [] lt /\ o \in {"gt_u", "ge_u", "eq"} -> {0}
       [] gt /\ o \in {"gt_u", "ge_u", "ne"} -> {1}
       [] gt /\ o \in {"lt_u", "le_u", "eq"} -> {0}
       [] o = "ge_u" /\ lo(a) >= hi(b) -> {1}
       [] o = "lt_u" /\ lo(a) >= hi(b) -> {0}
       [] o = "le_u" /\ hi(a) <= lo(b) -> {1}
       [] o = "gt_u" /\ hi(a) <= lo(b) -> {0}
       [] OTHER -> {}
HostIntCmp(m, o, wide, a, b) ==
  Res(ProbeGuard(m),
      IF Decided(o, a, b) # {} THEN C(CHOOSE v \in Decided(o, a, b) : TRUE)
      ELSE Wire(1, [w \in Witness |-> CmpVal(o, Eval(a, w), Eval(b, w), Reg(wide))]))
HostIntBin(m, o, wide, a, b) ==
  LET reg == Reg(wide)
      wa == WidthOf(a)
      wb == WidthOf(b)
      k == IF IsSym(b) THEN 0 ELSE b[2] % reg
      width == CASE o = "add" -> Most(wa, wb) + 1
                 [] o = "mul" -> wa + wb
                 [] o = "and" -> Least(wa, wb)
                 [] o \in {"or", "xor"} -> Most(wa, wb)
                 [] o = "shl" /\ ~IsSym(b) -> wa + k
                 [] o \in {"shr_u", "shr_s"} /\ wa < reg -> wa - k
                 [] o = "div_u" -> wa
                 [] o = "rem_u" -> wb
                 [] OTHER -> reg
      den == [w \in Witness |-> BinVal(o, Eval(a, w), Eval(b, w), reg)]
      p == ProbeGuard(m)
  IN CASE o \in {"div_s", "rem_s"} \/ (o \in {"shr_s", "rotl", "rotr"} /\ IsSym(b)) ->
            Res(Fail(p, "error"), C(0))
       [] o \in {"div_u", "rem_u"} /\ b = C(0) -> Res(Fail(p, "diverged"), C(0))
       [] o \in {"shr_u", "shr_s"} /\ wa < reg /\ k >= wa -> Res(p, C(0))
       [] OTHER ->
            Res(Require(p, {w \in Witness : ~BinTraps(o, Eval(a, w), Eval(b, w), reg)}),
                Wire(Least(reg, width), den))
HostIntTrunc(m, v, bits) ==
  Res(ProbeGuard(m),
      Wire(Least(WidthOf(v), bits), [w \in Witness |-> Mask(Eval(v, w), bits)]))
HostSignExtend(m, v, bits, reg) ==
  Res(ProbeGuard(m), Wire(reg, [w \in Witness |-> Sext(Eval(v, w), bits, reg)]))
(* A pointer that takes few values, as the list of them. *)
IndexForm(m, p) == ~m.probing /\ IsWire(p) /\ p[2] <= IndexBits
Offsets(p) == [i \in 1 .. 2 ^ p[2] |-> i - 1]

(***************************************************************************)
(* Loads and stores through witness pointers.                               *)
(***************************************************************************)
(* Sign extension: free for a wire that is non-negative at that width, arm *)
(* by arm for a select, and otherwise the host's (a load has no host).     *)
RECURSIVE SymSext(_, _, _, _, _)
SymSext(m, v, bits, reg, host) ==
  CASE v[1] = "w" /\ v[2] < bits -> Res(m, v)
    [] v[1] = "i" ->
         LET arm(x, u) == IF IsSym(u) THEN SymSext(x, u, bits, reg, host)
                          ELSE Res(x, C(Sext(u[2], bits, reg)))
             t == arm(m, v[3])
             e == arm(t.m, v[4])
         IN Res(e.m, Ite(v[2], t.v, e.v))
    [] OTHER ->
         IF ~host THEN Res(Fail(m, "error"), C(0))
         ELSE LET low == HostIntTrunc(m, v, bits)
              IN HostSignExtend(low.m, low.v, bits, reg)

(* The addresses a pointer may hold; {-1} marks one that is not bounded. *)
RECURSIVE PointerCandidates(_, _)
PointerCandidates(m, p) ==
  CASE ~IsSym(p) -> {Mask(p[2], Reg(FALSE))}
    [] IsIte(p) -> PointerCandidates(m, p[3]) \cup PointerCandidates(m, p[4])
    [] OTHER -> IF IndexForm(m, p) THEN ToSet(Offsets(p)) ELSE {-1}

(* An access through a select of pointers goes through each of them, so it *)
(* traps when one is out of bounds, whichever is meant: `split' remembers  *)
(* (for the properties) that some were and some were not.                  *)
ThroughEach(m, a, off, n) ==
  LET out == {OutOfBounds(m, p + off, n) : p \in PointerCandidates(m, a)}
  IN IF out = BOOLEAN THEN [m EXCEPT !.split = TRUE] ELSE m

(* kind: n bytes, sign-extended or not, into an i64 or an i32. *)
RECURSIVE LoadOp(_, _, _, _)
LoadOp(m, a, off, kind) ==
  CASE IsIte(a) -> LET t == LoadOp(ThroughEach(m, a, off, kind.n), a[3], off, kind)
                       e == LoadOp(t.m, a[4], off, kind)
                   IN Res(e.m, Ite(a[2], t.v, e.v))
    [] IsSym(a) /\ ~IsIte(a) -> Res(Fail(m, "error"), C(0))
    [] OTHER ->
         LET at == Mask(a[2], Reg(FALSE)) + off
             reg == Reg(kind.wide)
         IN IF OutOfBounds(m, at, kind.n) THEN Res(Fail(m, "diverged"), C(0))
            ELSE LET v == Load(m, at, kind.n)
                 IN IF ~kind.signed THEN Res(m, v)
                    ELSE IF IsSym(v) THEN SymSext(m, v, ByteBits * kind.n, reg, FALSE)
                    ELSE Res(m, C(Sext(v[2], ByteBits * kind.n, reg)))

RECURSIVE LoadAny(_, _, _, _)
LoadAny(m, a, off, kind) ==
  IF IsIte(a)
  THEN LET t == LoadAny(ThroughEach(m, a, off, kind.n), a[3], off, kind)
           e == LoadAny(t.m, a[4], off, kind)
       IN Res(e.m, Ite(a[2], t.v, e.v))
  ELSE IF IsWire(a) /\ IndexForm(m, a)
  THEN LET visit(acc, o) ==
             LET eq == HostIntCmp(acc.m, "eq", TRUE, a, C(o))
                 got == LoadOp(eq.m, C(o), off, kind)
             IN IF OutOfBounds(m, o + off, kind.n)
                THEN [acc EXCEPT !.m = IF IsSym(eq.v) THEN RequireCond(eq.m, eq.v, 0) ELSE eq.m]
                ELSE [m |-> got.m, vals |-> Append(acc.vals, <<eq.v, got.v>>)]
           all == FoldLeft(visit, [m |-> m, vals |-> <<>>], Offsets(a))
           select(r, p) == IF IsSym(p[1]) THEN Ite(p[1], p[2], r)
                           ELSE IF p[1][2] # 0 THEN p[2] ELSE r
       IN IF all.vals = <<>> THEN Res(Fail(all.m, "diverged"), C(0))
          ELSE Res(all.m, FoldLeft(select, Last(all.vals)[2], Reverse(Front(all.vals))))
  ELSE LoadOp(m, a, off, kind)

(* Every slot the pointer may name becomes `a = addr ? v : old'; one out   *)
(* of bounds is ruled out.                                                 *)
StoreEach(m, a, wide, addrs, off, n, v) ==
  LET visit(acc, addr) ==
        LET eq == HostIntCmp(acc.m, "eq", wide, a, C(addr))
            p == addr + off
        IN IF OutOfBounds(m, p, n)
           THEN [acc EXCEPT !.m = IF IsSym(eq.v) THEN RequireCond(eq.m, eq.v, 0) ELSE eq.m]
           ELSE [any |-> TRUE,
                 m |-> IF ~IsSym(eq.v)
                       THEN IF eq.v[2] # 0 THEN Store(eq.m, p, n, v) ELSE eq.m
                       ELSE Store(eq.m, p, n, Ite(eq.v, v, Load(eq.m, p, n)))]
      all == FoldLeft(visit, [m |-> m, any |-> FALSE], addrs)
  IN IF all.any THEN all.m ELSE Fail(all.m, "diverged")

StoreSelect(m, a, off, n, v) ==
  IF ~IsIte(a) THEN Fail(m, "error")
  ELSE IF IsSym(a[3]) \/ IsSym(a[4])
  THEN LET addrs == PointerCandidates(m, a)
       IN IF m.probing \/ -1 \in addrs THEN Fail(m, "error")
          ELSE StoreEach(m, a, FALSE, SetToSortSeq(addrs, <), off, n, v)
  ELSE LET pt == Mask(a[3][2], Reg(FALSE)) + off
           pe == Mask(a[4][2], Reg(FALSE)) + off
           first == Store(m, pt, n, Ite(a[2], v, Load(m, pt, n)))
       IN IF OutOfBounds(m, pt, n) \/ OutOfBounds(m, pe, n)
          THEN Fail(ThroughEach(m, a, off, n), "diverged")
          ELSE IF pt = pe THEN Store(m, pt, n, v)
          ELSE Store(first, pe, n, Ite(a[2], Load(first, pe, n), v))
StoreAny(m, a, off, n, v) ==
  IF IsWire(a) /\ IndexForm(m, a) THEN StoreEach(m, a, TRUE, Offsets(a), off, n, v)
  ELSE StoreSelect(m, a, off, n, v)
StoreOp(m, a, off, n, v) ==
  IF IsSym(a) THEN StoreAny(m, a, off, n, v)
  ELSE LET at == Mask(a[2], Reg(FALSE)) + off
       IN IF OutOfBounds(m, at, n) THEN Fail(m, "diverged") ELSE Store(m, at, n, v)

(* memory.copy: from a select of pointers every word is read before any is *)
(* written; otherwise bytes and their symbolic contents move together.     *)
WordsOf(n) ==
  [i \in 1 .. n \div Word |-> <<(i - 1) * Word, Word>>]
    \o (IF (n % Word) >= Half THEN <<<<(n \div Word) * Word, Half>>>> ELSE <<>>)
    \o [i \in 1 .. n % Half |-> <<(n \div Half) * Half + i - 1, 1>>]
Copy(m, d, s, n) ==
  IF n = 0 THEN m
  ELSE IF IsSym(s)
  THEN IF ~IsIte(s) THEN Fail(m, "error")
       ELSE LET read(acc, w) ==
                  LET r == LoadOp(acc.m, s, w[1],
                                  [n |-> w[2], signed |-> FALSE, wide |-> w[2] = Word])
                  IN [m |-> r.m, got |-> Append(acc.got, <<w[1], w[2], r.v>>)]
                all == FoldLeft(read, [m |-> m, got |-> <<>>], WordsOf(n))
            IN IF all.m.err # "" THEN all.m
               ELSE FoldLeft(LAMBDA x, w : Store(x, d + w[1], w[2], w[3]), all.m, all.got)
  ELSE IF OutOfBounds(m, s[2], n) \/ OutOfBounds(m, d, n) THEN Fail(m, "diverged")
  ELSE LET j == Journal(m, d, n)
           moved == [j EXCEPT !.mem = [b \in DOMAIN j.mem |->
                       IF b \in d .. d + n - 1 THEN j.mem[s[2] + b - d] ELSE j.mem[b]]]
           cleared == IF HasShadow(j, d, n) THEN ClearShadow(moved, d, n) ELSE moved
           carried == SelectSeq(Addrs(s[2], n), LAMBDA a : j.shadow[a] # None)
       IN IF ~HasShadow(j, s[2], n) THEN cleared
          ELSE FoldLeft(LAMBDA x, a : SetShadow(x, a - s[2] + d, j.shadow[a]), cleared, carried)

(***************************************************************************)
(* Operations on symbolic operands.                                         *)
(***************************************************************************)
RECURSIVE BoolLike(_)
BoolLike(v) == CASE v[1] = "c" -> v[2] <= 1
                 [] v[1] = "w" -> v[2] = 1
                 [] v[1] = "i" -> BoolLike(v[3]) /\ BoolLike(v[4])
                 [] OTHER -> FALSE

RECURSIVE EqzAny(_, _, _)
EqzAny(m, a, wide) ==
  CASE ~IsSym(a) -> Res(m, C(IF Mask(a[2], Reg(wide)) = 0 THEN 1 ELSE 0))
    [] IsIte(a) -> LET t == EqzAny(m, a[3], TRUE)
                       e == EqzAny(t.m, a[4], TRUE)
                   IN Res(e.m, Ite(a[2], t.v, e.v))
    [] OTHER -> IF BoolLike(a) THEN Res(m, HostNot(a))
                ELSE HostIntCmp(m, "eq", TRUE, a, C(0))
Truthy(m, a) ==
  IF ~IsSym(a) THEN Res(m, C(IF a[2] # 0 THEN 1 ELSE 0))
  ELSE IF BoolLike(a) THEN Res(m, a)
  ELSE LET z == EqzAny(m, a, TRUE) IN Res(z.m, HostNot(z.v))

(* A branch condition: known, or a {0,1} wire. *)
Known(b) == C(IF b THEN 1 ELSE 0)
RECURSIVE CondOf(_, _)
CondOf(m, c) ==
  CASE ~IsSym(c) -> Res(m, Known(Mask(c[2], Reg(FALSE)) # 0))
    [] IsWire(c) /\ c[2] = 1 -> Res(m, c)
    [] IsIte(c) ->
         LET t == CondOf(m, c[3])
             e == CondOf(t.m, c[4])
             fresh == ProbeGuard(e.m)
             tb == Truthy(fresh, c[3])
             eb == Truthy(tb.m, c[4])
             x == HostBoolOp(eb.m, "and", c[2], tb.v)
             y == HostBoolOp(x.m, "and", HostNot(c[2]), eb.v)
             o == HostBoolOp(y.m, "or", x.v, y.v)
         IN CASE e.m.err # "" -> e
              [] t.v = C(1) /\ e.v = C(0) -> Res(e.m, c[2])
              [] t.v = C(0) /\ e.v = C(1) -> Res(e.m, HostNot(c[2]))
              [] ~IsSym(t.v) /\ t.v = e.v -> e
              [] OTHER -> IF o.m.err # "" THEN o ELSE CondOf(o.m, o.v)
    [] OTHER -> LET nz == HostIntCmp(m, "ne", TRUE, c, C(0))
                IN IF nz.m.err # "" THEN nz ELSE CondOf(nz.m, nz.v)

(* Arithmetic: arm by arm through a select (never a select divisor that    *)
(* may be zero in the untaken arm), Boolean algebra, identities, the host. *)
RECURSIVE BinAny(_, _, _, _, _)
BinAny(m, o, wide, a, b) ==
  LET divides == /\ o \in {"div_u", "rem_u", "div_s", "rem_s"}
                 /\ ~ /\ IsIte(b) /\ ~IsSym(b[3]) /\ ~IsSym(b[4])
                      /\ b[3][2] # 0 /\ b[4][2] # 0
      through(x, y) == IsIte(x) /\ (~IsSym(y) \/ IsWire(y))
      both(x, f(_, _)) == LET t == f(m, x[3])
                              e == f(t.m, x[4])
                          IN Res(e.m, Ite(x[2], t.v, e.v))
      keeps(x, y) == /\ o = "and" /\ IsWire(x) /\ ~IsSym(y)
                     /\ Mask(y[2], x[2]) = 2 ^ x[2] - 1
      ident == /\ ~IsSym(b)
               /\ \/ o \in {"or", "xor", "add", "sub", "shl", "shr_u", "shr_s"} /\ b[2] = 0
                  \/ o = "mul" /\ b[2] = 1
  IN CASE ~IsSym(a) /\ ~IsSym(b) ->
            LET x == Mask(a[2], Reg(wide))
                y == Mask(b[2], Reg(wide))
            IN IF BinTraps(o, x, y, Reg(wide)) THEN Res(Fail(m, "diverged"), C(0))
               ELSE Res(m, C(BinVal(o, x, y, Reg(wide))))
       [] through(a, b) -> both(a, LAMBDA x, u : BinAny(x, o, wide, u, b))
       [] ~through(a, b) /\ through(b, a) /\ ~divides ->
            both(b, LAMBDA x, u : BinAny(x, o, wide, a, u))
       [] OTHER ->
            IF BoolLike(a) /\ BoolLike(b) /\ o \in {"and", "or"} THEN HostBoolOp(m, o, a, b)
            ELSE IF BoolLike(a) /\ BoolLike(b) /\ o = "xor"
            THEN IF IsSym(a) /\ IsSym(b) THEN HostBoolOp(m, o, a, b)
                 ELSE IF C(1) \in {a, b} THEN Res(m, HostNot(IF a = C(1) THEN b ELSE a))
                 ELSE Res(m, IF a = C(0) THEN b ELSE a)
            ELSE IF keeps(a, b) THEN Res(m, a)
            ELSE IF keeps(b, a) THEN Res(m, b)
            ELSE IF ident THEN Res(m, a)
            ELSE HostIntBin(m, o, wide, a, b)

Flip(o) == CASE o = "lt_u" -> "gt_u" [] o = "gt_u" -> "lt_u"
             [] o = "le_u" -> "ge_u" [] o = "ge_u" -> "le_u" [] OTHER -> o
RECURSIVE CmpAny(_, _, _, _, _)
CmpAny(m, o, wide, a, b) ==
  LET both(x, f(_, _)) == LET t == f(m, x[3])
                              e == f(t.m, x[4])
                          IN Res(e.m, Ite(x[2], t.v, e.v))
      one == ~IsSym(b) /\ b[2] = 1
  IN CASE ~IsSym(a) /\ ~IsSym(b) ->
            Res(m, C(CmpVal(o, Mask(a[2], Reg(wide)), Mask(b[2], Reg(wide)), Reg(wide))))
       [] IsIte(a) /\ ~IsSym(b) -> both(a, LAMBDA x, u : CmpAny(x, o, wide, u, b))
       [] IsIte(b) /\ ~IsSym(a) -> both(b, LAMBDA x, u : CmpAny(x, o, wide, a, u))
       [] OTHER ->
            IF BoolLike(a) /\ ~IsSym(b) /\ b[2] <= 1
            THEN CASE <<o, one>> \in {<<"eq", TRUE>>, <<"ne", FALSE>>,
                                      <<"gt_u", FALSE>>, <<"ge_u", TRUE>>} -> Res(m, a)
                   [] <<o, one>> \in {<<"eq", FALSE>>, <<"ne", TRUE>>,
                                      <<"lt_u", TRUE>>, <<"le_u", FALSE>>} -> Res(m, HostNot(a))
                   [] OTHER -> Res(Fail(m, "error"), C(0))
            ELSE IF BoolLike(b) /\ ~IsSym(a) /\ a[2] <= 1 THEN CmpAny(m, Flip(o), wide, b, a)
            ELSE HostIntCmp(m, o, wide, a, b)

(***************************************************************************)
(* Decoding: the `end' of a block and the `else' of an `if' are resolved   *)
(* to positions, then straight-line sequences are fused; the first op of a *)
(* fused sequence stands for it, the rest stay and are skipped.            *)
(***************************************************************************)
Opens(op) == op[1] \in {"block", "loop", "if"}
Nesting(ops, i, j) == Cardinality({k \in i .. j : Opens(ops[k])})
                        - Cardinality({k \in i .. j : ops[k][1] = "end"})
EndOf(ops, i) == CHOOSE j \in i .. Len(ops) :
                   Nesting(ops, i, j) = 0 /\ \A k \in i .. j - 1 : Nesting(ops, i, k) > 0
ElseOf(ops, i) ==
  LET S == {j \in i .. EndOf(ops, i) : ops[j][1] = "else" /\ Nesting(ops, i, j) = 1}
  IN IF S = {} THEN 0 ELSE CHOOSE j \in S : TRUE
OpenerOf(ops, j) == CHOOSE i \in 1 .. j : ops[i][1] = "if" /\ ElseOf(ops, i) = j
DecodeBody(ops) ==
  [i \in DOMAIN ops |->
     CASE ops[i][1] = "block" -> <<"block", EndOf(ops, i), ops[i][2], ops[i][3]>>
       [] ops[i][1] = "if" -> <<"if", ElseOf(ops, i), EndOf(ops, i), ops[i][2], ops[i][3]>>
       [] ops[i][1] = "else" -> <<"else", EndOf(ops, OpenerOf(ops, i))>>
       [] OTHER -> ops[i]]

OpAt(code, i) == IF i \in DOMAIN code THEN code[i] ELSE <<"none">>
IsOp(code, i, name) == OpAt(code, i)[1] = name
(* Calls whose arguments are locals, and stack-frame prologues. *)
FuseCall(code, i) ==
  LET gets == {k \in 0 .. 3 : k < i /\ \A j \in 1 .. k : IsOp(code, i - j, "get")}
      n == CHOOSE k \in gets : \A j \in gets : j <= k
      withCall == IF OpAt(code, i)[1] \in {"call", "import"} /\ n > 0
                  THEN [code EXCEPT ![i - n] =
                          <<"calll", code[i], n, [k \in 1 .. n |-> code[i - n + k - 1][2]]>>]
                  ELSE code
  IN IF /\ IsOp(withCall, i, "gget") /\ IsOp(withCall, i + 1, "const")
        /\ OpAt(withCall, i + 2) = <<"bin", "sub", FALSE>>
        /\ IsOp(withCall, i + 3, "tee") /\ OpAt(withCall, i + 4) = <<"gset", code[i][2]>>
     THEN [withCall EXCEPT ![i] = <<"spsub", code[i][2], code[i + 1][2], code[i + 3][2]>>]
     ELSE withCall
RECURSIVE FuseBasic(_, _)
FuseBasic(code, i) ==
  IF i > Len(code) THEN code
  ELSE LET x == OpAt(code, i)
           y == OpAt(code, i + 1)
           z == OpAt(code, i + 2)
           u == OpAt(code, i + 3)
           put(op, n) == FuseBasic([code EXCEPT ![i] = op], i + n)
       IN CASE x[1] = "get" /\ y[1] = "get" /\ z[1] = "load" /\ u[1] = "store" ->
                 put(<<"copyll", x[2], y[2], z[2], u[2], z[3], u[3]>>, 4)
            [] x[1] = "get" /\ y[1] = "get" /\ z[1] = "store" ->
                 put(<<"storell", x[2], y[2], z[2], z[3]>>, 3)
            [] x[1] = "get" /\ y[1] = "const" /\ z = <<"bin", "add", FALSE>> ->
                 put(<<"addlc", x[2], y[2]>>, 3)
            [] x[1] = "get" /\ y[1] = "load" -> put(<<"loadl", x[2], y[2], y[3]>>, 2)
            [] OTHER -> FuseBasic(code, i + 1)
I64 == [n |-> Word, signed |-> FALSE, wide |-> TRUE]
(* Runs of word copies between the same two pointers, ascending or descending. *)
RECURSIVE FuseCopies(_, _)
FuseCopies(code, i) ==
  IF i > Len(code) THEN code
  ELSE LET at(n) == OpAt(code, i + 4 * n)
           first == at(0)
           isCopy == first[1] = "copyll" /\ first[4] = I64 /\ first[5] = I64
           follows(n, step) == at(n) = <<"copyll", first[2], first[3], I64, I64,
                                         first[6] + step * n, first[7] + step * n>>
           run(step) == CHOOSE n \in 1 .. Len(code) :
                          /\ \A k \in 1 .. n - 1 : follows(k, step)
                          /\ ~follows(n, step)
           up == run(Word)
           down == run(-Word)
           n == Most(up, down)
       IN IF ~isCopy THEN FuseCopies(code, i + 1)
          ELSE FuseCopies(IF n = 1 THEN code
                          ELSE [code EXCEPT ![i] = <<"copyn", first[2], first[3], first[6],
                                                     first[7], n, down > up>>], i + 4 * n)
Fuse(code) ==
  FuseCopies(FuseBasic(FoldLeft(FuseCall, code, [i \in DOMAIN code |-> i]), 1), 1)

(***************************************************************************)
(* Control.  A frame is [f, pc, lb, cb]; a label [br, loop, h, ar].        *)
(***************************************************************************)
Top(m) == Last(m.st.frames)
Push(m, v) == [m EXCEPT !.st.stack = Append(@, v)]
Pop(m, n) == [m EXCEPT !.st.stack = SubSeq(@, 1, Len(@) - n)]
Arg(m, n) == m.st.stack[Len(m.st.stack) - n]
Local(m, i) == m.st.locals[Top(m).lb + i]
SetLocal(m, i, v) == [m EXCEPT !.st.locals[Top(m).lb + i] = v]
Jump(m, pc) == [m EXCEPT !.st.frames[Len(m.st.frames)].pc = pc]

(* Unwind to the label `depth' labels up and jump to it. *)
Branch(m, depth) ==
  LET idx == Len(m.st.ctl) - depth
      c == m.st.ctl[idx]
      s == m.st.stack
      unwound == [m EXCEPT !.st.stack = SubSeq(s, 1, c.h) \o SubSeq(s, Len(s) - c.ar + 1, Len(s)),
                           !.st.ctl = SubSeq(@, 1, IF c.loop THEN idx ELSE idx - 1)]
  IN Jump(unwound, IF c.loop THEN c.br ELSE c.br + 1)
(* The host hears of a return only outside branch exploration. *)
Ret(m, notify) ==
  [m EXCEPT !.st.locals = SubSeq(@, 1, Top(m).lb),
            !.st.frames = Front(@),
            !.regions = IF notify /\ m.depth = 0 THEN @ - 1 ELSE @]
ToReturn(m, depth) == Len(m.st.ctl) - depth = Top(m).cb + 1
TakeBranch(m, depth, notify) ==
  IF ToReturn(m, depth) THEN Ret(Branch(m, depth), notify) ELSE Branch(m, depth)

EnterFunc(m, f) ==
  LET fn == m.funcs[f]
      s == m.st.stack
      base == Len(s) - fn.params
  IN IF Len(m.st.frames) >= MaxDepth THEN Fail(m, "error")
     ELSE [m EXCEPT
             !.st.locals = @ \o SubSeq(s, base + 1, Len(s)) \o [i \in 1 .. fn.locals |-> C(0)],
             !.st.stack = SubSeq(s, 1, base),
             !.st.ctl = Append(@, [br |-> Len(fn.code), loop |-> FALSE,
                                   h |-> base, ar |-> fn.results]),
             !.st.frames = Append(@, [f |-> f, pc |-> 1, lb |-> Len(m.st.locals),
                                      cb |-> Len(m.st.ctl)]),
             !.regions = IF m.depth = 0 THEN @ + 1 ELSE @]

(* The host's imports: an input is a fresh wire, which an arm may not      *)
(* declare; `require' is a guarded constraint; a probe sees only panics.   *)
CallImport(m, name, k) ==
  IF m.probing /\ name \notin {"panic", "gadget_recording"} THEN Fail(m, "error")
  ELSE CASE name = "panic" -> Fail(m, "diverged")
         [] name = "gadget_recording" -> Push(m, C(0))
         [] name = "input" ->
              Push([m EXCEPT !.partial = @ + 1],
                   IF m.at # None THEN C(InputOf[m.at[1]][k])
                   ELSE Wire(InputWidth[k], [w \in Witness |-> InputOf[w][k]]))
         [] name = "require" ->
              Pop(Require(m, {w \in Witness : Eval(Arg(m, 0), w) = 1}), 1)

(***************************************************************************)
(* Branches on a witness.                                                   *)
(***************************************************************************)
RECURSIVE Run(_, _), Step(_), Fork(_, _, _, _, _)

NoWrites == [a \in {} |-> <<0, None>>]
Replay(m, writes) ==
  FoldLeft(LAMBDA x, a : PutByte(Journal(x, a, 1), a, writes[a]), m,
           SetToSortSeq(DOMAIN writes, <))
(* The restores of a byte written twice, applied oldest first. *)
UndoForward(m, journal) ==
  FoldLeft(LAMBDA x, j : FoldLeft(LAMBDA y, i : PutByte(y, j.addr + i - 1, j.old[i]), x,
                                  [i \in DOMAIN j.old |-> i]),
           m, journal)
Undo(m, journal) ==
  FoldLeft(LAMBDA x, j : FoldLeft(LAMBDA y, i : PutByte(y, j.addr + i - 1, j.old[i]), x,
                                  [i \in DOMAIN j.old |-> i]),
           m, Reverse(journal))

(* Run one path from st until at most `stop' labels are left, record and   *)
(* undo its memory writes: the paused state, the writes and how it ended.  *)
RunPath(m, st, apply, stop) ==
  LET r == Run(Replay([m EXCEPT !.st = st, !.journals = Append(@, <<>>),
                                !.depth = @ + 1], apply), stop)
      journal == Last(r.journals)
      touched == UNION {j.addr .. j.addr + Len(j.old) - 1 : j \in ToSet(journal)}
  IN [m |-> [Undo(r, journal) EXCEPT !.st = m.st, !.journals = m.journals,
                                     !.depth = m.depth, !.err = ""],
      st |-> r.st, err |-> r.err,
      writes |-> [a \in touched |-> <<r.mem[a], r.shadow[a]>>]]
RunArm(m, c, value, st, apply, stop) ==
  LET r == RunPath([m EXCEPT !.guards = Append(@, {w \in Witness : c[3][w] = value})],
                   st, apply, stop)
  IN [r EXCEPT !.m.guards = m.guards]
(* Does the path panic before it touches a witness or the host?  It is     *)
(* followed past the rejoin point, to the end of the program.              *)
Probe(m, st) ==
  LET r == RunPath([m EXCEPT !.probing = TRUE, !.psteps = 0], st, NoWrites, 0)
  IN [r EXCEPT !.m.probing = FALSE]

(* The functions the fork returned from, closed after it. *)
CloseCalls(m, before) ==
  IF m.depth # 0 \/ m.err # "" THEN m
  ELSE [m EXCEPT !.regions = @ - Most(0, before - Len(m.st.frames))]
(* Go on down one arm only. *)
GoOn(m, st, writes, stop, before) ==
  CloseCalls(Run(Replay([m EXCEPT !.st = st], writes), stop), before)

WordWith(m, a, n, writes) ==
  Load(FoldLeft(LAMBDA x, b : IF b \in DOMAIN writes THEN PutByte(x, b, writes[b]) ELSE x,
                m, Addrs(a, n)), a, n)
Merge(m, c, t, e) ==
  LET lastAt(st) == IF st.frames = <<>> THEN <<>>
                    ELSE <<Last(st.frames).f, Last(st.frames).pc>>
      shape(st) == <<Len(st.stack), Len(st.locals), Len(st.frames), lastAt(st)>>
      pick(x, y) == SubSeq([i \in DOMAIN x |-> Ite(c, x[i], y[i])], 1, Len(x))
      st == [t.st EXCEPT !.stack = pick(t.st.stack, e.st.stack),
                         !.locals = pick(t.st.locals, e.st.locals),
                         !.globals = pick(t.st.globals, e.st.globals)]
      words == {(a \div Word) * Word : a \in DOMAIN t.writes \cup DOMAIN e.writes}
      word(x, a) == LET n == Least(Word, Size(x) - a)
                    IN Store(x, a, n, Ite(c, WordWith(x, a, n, t.writes),
                                             WordWith(x, a, n, e.writes)))
  IN IF shape(t.st) # shape(e.st) THEN Fail(m, "error")
     ELSE FoldLeft(word, [m EXCEPT !.st = st], SetToSortSeq(words, <))

(* Resume the path that paused deeper until both are at the same point. *)
RECURSIVE Rejoin(_, _, _, _, _, _, _)
Rejoin(m, c, t, e, stop, partial, before) ==
  LET th == Len(t.st.ctl)
      eh == Len(e.st.ctl)
      thenDeeper == th > eh
      r == IF thenDeeper THEN RunArm(m, c, 1, t.st, t.writes, eh)
           ELSE RunArm(m, c, 0, e.st, e.writes, th)
  IN IF th = eh
     THEN IF m.partial # partial THEN Fail(m, "error")
          ELSE CloseCalls(Merge(m, c, t, e), before)
     ELSE CASE r.err = "" /\ thenDeeper -> Rejoin(r.m, c, r, e, stop, partial, before)
            [] r.err = "" /\ ~thenDeeper -> Rejoin(r.m, c, t, r, stop, partial, before)
            [] r.err = "error" -> Fail(r.m, "error")
            [] r.err = "diverged" ->
                 IF r.m.partial # partial THEN Fail(r.m, "error")
                 ELSE LET live == IF thenDeeper THEN e ELSE t
                      IN GoOn(RequireCond(r.m, c, IF thenDeeper THEN 0 ELSE 1),
                              live.st, live.writes, stop, before)

Fork(m, c, t, e, stop) ==
  IF m.probing
  THEN LET p == RunPath(m, t, NoWrites, 0)
           q == RunPath(p.m, e, NoWrites, 0)
       IN IF p.err # "diverged" THEN Fail(p.m, "error")
          ELSE Fail(q.m, IF q.err = "diverged" THEN "diverged" ELSE "error")
  ELSE IF m.depth >= MaxPathDepth THEN Fail(m, "error")
  ELSE
    LET before == Len(m.st.frames)
        tp == Probe(m, t)
        ep == Probe(tp.m, e)
        tPanics == tp.err = "diverged"
        ePanics == ep.err = "diverged"
        n == ep.m
        tr == RunArm(n, c, 1, t, NoWrites, stop)
        er == RunArm(tr.m, c, 0, e, NoWrites, stop)
        tDiv == tr.err = "diverged"
        eDiv == er.err = "diverged"
        live == IF tDiv THEN er ELSE tr
    IN CASE tPanics /\ ePanics -> Fail(n, "diverged")
         [] tPanics # ePanics ->
              GoOn(RequireCond(n, c, IF ePanics THEN 1 ELSE 0),
                   IF tPanics THEN e ELSE t, NoWrites, stop, before)
         [] ~tPanics /\ ~ePanics ->
              CASE tDiv /\ eDiv -> Fail(er.m, "diverged")
                [] tDiv # eDiv ->
                     IF er.m.partial # n.partial \/ live.err # "" THEN Fail(er.m, "error")
                     ELSE GoOn(RequireCond(er.m, c, IF eDiv THEN 1 ELSE 0),
                               live.st, live.writes, stop, before)
                [] ~tDiv /\ ~eDiv ->
                     IF tr.err # "" \/ er.err # "" THEN Fail(er.m, "error")
                     ELSE Rejoin(er.m, c, tr, er, stop, n.partial, before)

(***************************************************************************)
(* One instruction.                                                         *)
(***************************************************************************)
Label(m, br, loop, params, ar) ==
  [br |-> br, loop |-> loop, h |-> Len(m.st.stack) - params, ar |-> ar]
PushLabel(m, c) == [m EXCEPT !.st.ctl = Append(@, c)]

StepIf(m, op) ==
  LET c == CondOf(Pop(m, 1), Arg(m, 0))
      start == IF op[2] # 0 THEN op[2] + 1 ELSE op[3]
      inside == PushLabel(c.m, Label(c.m, op[3], FALSE, op[4], op[5]))
  IN CASE c.m.err # "" -> c.m
       [] c.v = C(1) -> inside
       [] c.v = C(0) -> Jump(inside, start)
       [] OTHER -> Fork(inside, c.v, inside.st, Jump(inside, start).st, Len(c.m.st.ctl))
StepBrIf(m, d) ==
  LET c == CondOf(Pop(m, 1), Arg(m, 0))
      idx == Len(c.m.st.ctl) - d
  IN CASE c.m.err # "" -> c.m
       [] c.v = C(1) -> TakeBranch(c.m, d, TRUE)
       [] c.v = C(0) -> c.m
       [] OTHER -> IF c.m.st.ctl[idx].loop THEN Fail(c.m, "error")
                   ELSE Fork(c.m, c.v, TakeBranch(c.m, d, FALSE).st, c.m.st, idx - 1)
(* A match on a witness: `c = 0 ? .. : c = 1 ? .. : default', every        *)
(* comparison made up front, the op re-run with the cases still open.      *)
StepBrTable(m, targets) ==
  LET v == Arg(m, 0)
      n == [Pop(m, 1) EXCEPT !.st.rest = None]
      case(acc, k) ==
        LET eq == HostIntCmp(acc.m, "eq", TRUE, v, C(k))
            c == CondOf(eq.m, eq.v)
        IN IF acc.forced # {} THEN acc
           ELSE IF IsSym(c.v) THEN [acc EXCEPT !.m = c.m, !.cases = Append(@, <<k, c.v>>)]
           ELSE [acc EXCEPT !.m = c.m, !.forced = IF c.v = C(1) THEN {k} ELSE {},
                            !.cases = IF c.v = C(1) THEN <<>> ELSE @]
      fresh == FoldLeft(case, [m |-> n, cases |-> <<>>, forced |-> {}],
                        [i \in 1 .. Len(targets) - 1 |-> i - 1])
      open == IF m.st.rest = None THEN fresh
              ELSE [m |-> n, cases |-> m.st.rest[1], forced |-> {}]
      k == Head(open.cases)[1]
      depth == targets[k + 1]
      idx == Len(n.st.ctl) - depth
      again == [Push(Jump(open.m, Top(m).pc - 1), v) EXCEPT !.st.rest = <<Tail(open.cases)>>]
      default == IF ~IsSym(v) THEN Least(Mask(v[2], Reg(FALSE)), Len(targets) - 1)
                 ELSE IF open.forced # {} THEN CHOOSE f \in open.forced : TRUE
                 ELSE Len(targets) - 1
  IN IF ~IsSym(v) THEN TakeBranch(n, targets[default + 1], TRUE)
     ELSE IF m.probing \/ open.m.err # "" THEN Fail(open.m, "error")
     ELSE IF open.cases = <<>> THEN TakeBranch(open.m, targets[default + 1], TRUE)
     ELSE IF n.st.ctl[idx].loop THEN Fail(open.m, "error")
     ELSE Fork(open.m, Head(open.cases)[2], TakeBranch(open.m, depth, FALSE).st,
               again.st, idx - 1)
StepEnd(m) ==
  LET n == [m EXCEPT !.st.ctl = Front(@)]
  IN IF Len(n.st.ctl) = Top(m).cb THEN Ret(n, TRUE) ELSE n
StepSelect(m) ==
  LET c == CondOf(m, Arg(m, 0))
      v == IF IsSym(c.v) THEN Ite(c.v, Arg(m, 2), Arg(m, 1))
           ELSE IF c.v = C(1) THEN Arg(m, 2) ELSE Arg(m, 1)
  IN Push(Pop(c.m, 3), v)
StepGrow(m) ==
  LET n == Arg(m, 0)
      old == Size(m) \div PageBytes
      size == (old + n[2]) * PageBytes
      at(f, a, d) == IF a \in DOMAIN f THEN f[a] ELSE d
  IN IF IsSym(n) THEN Fail(m, "error")
     ELSE IF old + n[2] > MaxPages THEN Push(Pop(m, 1), C(2 ^ Reg(FALSE) - 1))
     ELSE Push([Pop(m, 1) EXCEPT
                  !.mem = [a \in 0 .. size - 1 |-> at(m.mem, a, 0)],
                  !.shadow = [a \in 0 .. size - 1 |-> at(m.shadow, a, None)],
                  !.gran = [g \in 0 .. size \div Word |-> at(m.gran, g, 0)]], C(old))
StepFill(m) ==
  LET d == Arg(m, 2)
      v == Arg(m, 1)
      n == Arg(m, 0)
      j == Journal(Pop(m, 3), d[2], n[2])
      filled == [j EXCEPT !.mem = [b \in DOMAIN j.mem |->
                   IF b \in d[2] .. d[2] + n[2] - 1 THEN v[2] % Base ELSE j.mem[b]]]
  IN IF IsSym(d) \/ IsSym(v) \/ IsSym(n) THEN Fail(m, "error")
     ELSE IF OutOfBounds(m, d[2], n[2]) THEN Fail(m, "diverged")
     ELSE IF n[2] > 0 /\ HasShadow(filled, d[2], n[2])
     THEN ClearShadow(filled, d[2], n[2]) ELSE filled
(* A load then a store; the fused block copy does this word by word unless *)
(* it can move the bytes at once: concrete, disjoint, outside a branch.    *)
CopyLL(m, a, x, k1, k2, o1, o2) ==
  LET got == LoadAny(m, x, o1, k1)
  IN IF got.m.err # "" THEN got.m ELSE StoreOp(got.m, a, o2, k2.n, got.v)
StepCopyN(m, op) ==
  LET a == Local(m, op[2])
      x == Local(m, op[3])
      n == op[6]
      down == IF op[7] THEN Word * (n - 1) ELSE 0
      src == Mask(x[2], Reg(FALSE)) + op[4] - down
      dst == Mask(a[2], Reg(FALSE)) + op[5] - down
      len == Word * n
      step == IF op[7] THEN -Word ELSE Word
      after == Jump(m, Top(m).pc + 4 * n - 1)
  IN IF /\ ~IsSym(x) /\ ~IsSym(a) /\ m.journals = <<>>
        /\ ~OutOfBounds(m, src, len) /\ ~OutOfBounds(m, dst, len)
        /\ (src + len <= dst \/ dst + len <= src)
        /\ ~HasShadow(m, src, len) /\ ~HasShadow(m, dst, len)
     THEN [after EXCEPT !.mem = [b \in DOMAIN m.mem |->
             IF b \in dst .. dst + len - 1 THEN m.mem[src + b - dst] ELSE m.mem[b]]]
     ELSE FoldLeft(LAMBDA y, k : IF y.err # "" THEN y
                                 ELSE CopyLL(y, a, x, I64, I64, op[4] + step * k, op[5] + step * k),
                   after, [i \in 1 .. n |-> i - 1])
StepCall(m, op) ==
  IF op[1] = "import" THEN CallImport(m, op[2], op[3]) ELSE EnterFunc(m, op[2])
(* Through the table: a null entry or another signature traps. *)
StepCallIndirect(m, sig) ==
  LET i == Arg(m, 0)
      at == Mask(i[2], Reg(FALSE)) + 1
      f == IF at \in DOMAIN m.table THEN m.table[at] ELSE 0
  IN IF IsSym(i) THEN Fail(m, "error")
     ELSE IF f = 0 THEN Fail(m, "diverged")
     ELSE IF <<m.funcs[f].params, m.funcs[f].results>> # sig THEN Fail(m, "diverged")
     ELSE EnterFunc(Pop(m, 1), f)
(* Bit counts, of concrete values only. *)
StepUn(m, o, reg) ==
  LET x == Mask(Arg(m, 0)[2], reg)
      ones == {k \in 0 .. reg - 1 : (x \div 2 ^ k) % 2 = 1}
      v == CASE o = "popcnt" -> Cardinality(ones)
             [] o = "clz" -> IF x = 0 THEN reg ELSE reg - 1 - CHOOSE k \in ones : \A j \in ones : j <= k
             [] o = "ctz" -> IF x = 0 THEN reg ELSE CHOOSE k \in ones : \A j \in ones : k <= j
  IN IF IsSym(Arg(m, 0)) THEN Fail(m, "error") ELSE Push(Pop(m, 1), C(v))
StepWrap(m) ==
  LET a == Arg(m, 0)
      r == IF ~IsSym(a) THEN Res(m, C(Mask(a[2], Reg(FALSE))))
           ELSE IF IsWire(a) /\ a[2] > Reg(FALSE) THEN HostIntTrunc(m, a, Reg(FALSE))
           ELSE Res(m, Slice(a, 0, Half))
  IN Push(Pop(r.m, 1), r.v)
StepSext(m, bits, reg) ==
  LET a == Arg(m, 0)
      r == IF IsSym(a) THEN SymSext(m, a, bits, reg, TRUE)
           ELSE Res(m, C(Sext(a[2], bits, reg)))
  IN Push(Pop(r.m, 1), r.v)

Step(m) ==
  LET op == m.funcs[Top(m).f].code[Top(m).pc]
      n == [Jump(m, Top(m).pc + 1) EXCEPT !.steps = @ + 1,
                                          !.psteps = IF m.probing THEN @ + 1 ELSE @]
      skip(x, k) == IF x.err # "" THEN x ELSE Jump(x, Top(x).pc + k)
      put(r, k) == Push(Pop(r.m, k), r.v)
  IN CASE m.probing /\ n.psteps > ProbeSteps -> Fail(n, "error")
       [] n.steps > MaxSteps -> Fail(n, "error")
       [] op[1] = "unreachable" -> Fail(n, "diverged")
       [] op[1] = "nop" -> n
       [] op[1] = "block" -> PushLabel(n, Label(n, op[2], FALSE, op[3], op[4]))
       [] op[1] = "loop" -> PushLabel(n, Label(n, Top(n).pc, TRUE, op[2], op[2]))
       [] op[1] = "if" -> StepIf(n, op)
       [] op[1] = "else" -> Jump(n, op[2])
       [] op[1] = "end" -> StepEnd(n)
       [] op[1] = "br" -> TakeBranch(n, op[2], TRUE)
       [] op[1] = "br_if" -> StepBrIf(n, op[2])
       [] op[1] = "br_table" -> StepBrTable(n, op[2])
       [] op[1] = "return" -> TakeBranch(n, Len(n.st.ctl) - Top(n).cb - 1, TRUE)
       [] op[1] \in {"call", "import"} -> StepCall(n, op)
       [] op[1] = "calll" ->
            StepCall(FoldLeft(LAMBDA x, i : Push(x, Local(x, i)),
                              Jump(n, Top(n).pc + op[3]), op[4]), op[2])
       [] op[1] = "icall" -> StepCallIndirect(n, op[2])
       [] op[1] = "un" -> StepUn(n, op[2], Reg(op[3]))
       [] op[1] = "drop" -> Pop(n, 1)
       [] op[1] = "select" -> StepSelect(n)
       [] op[1] = "get" -> Push(n, Local(n, op[2]))
       [] op[1] = "set" -> SetLocal(Pop(n, 1), op[2], Arg(n, 0))
       [] op[1] = "tee" -> SetLocal(n, op[2], Arg(n, 0))
       [] op[1] = "gget" -> Push(n, n.st.globals[op[2]])
       [] op[1] = "gset" -> [Pop(n, 1) EXCEPT !.st.globals[op[2]] = Arg(n, 0)]
       [] op[1] = "const" -> Push(n, C(op[2]))
       [] op[1] = "load" -> put(LoadAny(n, Arg(n, 0), op[3], op[2]), 1)
       [] op[1] = "loadl" -> skip(put(LoadAny(n, Local(n, op[2]), op[4], op[3]), 0), 1)
       [] op[1] = "store" -> StoreOp(Pop(n, 2), Arg(n, 1), op[3], op[2].n, Arg(n, 0))
       [] op[1] = "storell" ->
            skip(StoreOp(n, Local(n, op[2]), op[5], op[4].n, Local(n, op[3])), 2)
       [] op[1] = "copyll" ->
            skip(CopyLL(n, Local(n, op[2]), Local(n, op[3]), op[4], op[5], op[6], op[7]), 3)
       [] op[1] = "copyn" -> StepCopyN(n, op)
       [] op[1] = "addlc" -> skip(put(BinAny(n, "add", FALSE, Local(n, op[2]), C(op[3])), 0), 2)
       [] op[1] = "spsub" ->
            LET r == BinAny(n, "sub", FALSE, n.st.globals[op[2]], C(op[3]))
            IN skip([SetLocal(r.m, op[4], r.v) EXCEPT !.st.globals[op[2]] = r.v], 4)
       [] op[1] = "msize" -> Push(n, C(Size(n) \div PageBytes))
       [] op[1] = "mgrow" -> StepGrow(n)
       [] op[1] = "mcopy" -> IF IsSym(Arg(n, 0)) \/ IsSym(Arg(n, 2)) THEN Fail(n, "error")
                             ELSE Copy(Pop(n, 3), Arg(n, 2)[2], Arg(n, 1), Arg(n, 0)[2])
       [] op[1] = "mfill" -> StepFill(n)
       [] op[1] = "eqz" -> put(EqzAny(n, Arg(n, 0), op[2]), 1)
       [] op[1] = "bin" -> put(BinAny(n, op[2], op[3], Arg(n, 1), Arg(n, 0)), 2)
       [] op[1] = "cmp" -> put(CmpAny(n, op[2], op[3], Arg(n, 1), Arg(n, 0)), 2)
       [] op[1] = "wrap" -> StepWrap(n)
       [] op[1] = "extend_u" -> IF IsSym(Arg(n, 0)) THEN n
                                ELSE Push(Pop(n, 1), C(Mask(Arg(n, 0)[2], Reg(FALSE))))
       [] op[1] = "sext" -> StepSext(n, op[2], op[3])

(* Run until at most `stop' labels are open or the call stack is empty. *)
Run(m, stop) ==
  IF m.err # "" \/ m.st.frames = <<>> \/ Len(m.st.ctl) <= stop THEN m
  ELSE Run(Step(m), stop)

(***************************************************************************)
(* A whole run: symbolic (at = None), or on the inputs of one assignment.  *)
(***************************************************************************)
Machine(funcs, table, pages, globals, at) ==
  [st |-> [stack |-> <<>>, locals |-> <<>>, ctl |-> <<>>, frames |-> <<>>,
           globals |-> globals, rest |-> None],
   mem |-> [a \in 0 .. pages * PageBytes - 1 |-> 0],
   shadow |-> [a \in 0 .. pages * PageBytes - 1 |-> None],
   gran |-> [g \in 0 .. (pages * PageBytes) \div Word |-> 0],
   journals |-> <<>>, guards |-> <<>>, sat |-> Witness, partial |-> 0,
   depth |-> 0, probing |-> FALSE, psteps |-> 0, steps |-> 0, regions |-> 0,
   split |-> FALSE, err |-> "", at |-> at, funcs |-> funcs, table |-> table]
RunExport(m) == Run(EnterFunc(m, 1), 0)
=============================================================================
