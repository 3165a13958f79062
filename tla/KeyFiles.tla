------------------------------ MODULE KeyFiles ------------------------------
(***************************************************************************)
(* The files a setup reads and writes: the header of a proving key and its *)
(* two readers, the chunked one of src/crates/groth16/src/pk.rs and the    *)
(* whole-file one of src/crates/backend/src/keys.rs, and the sections of a *)
(* powers-of-tau transcript (src/crates/backend/src/ptau.rs).              *)
(*                                                                         *)
(* A file is a sequence of numbers.  A header byte is one of them, and so  *)
(* is a u64 of the body, whatever its bytes; a point v is <<v>> compressed *)
(* and <<v, v>> not, in G2 <<v, 0>> and <<v, 0, v, 0>>.                    *)
(***************************************************************************)
EXTENDS Integers, Sequences, SequencesExt

BadFile == [error |-> TRUE]
Magic == <<88, 75, 80, 75>>          \* "XKPK"
MaxHeaderLen == 14

-----------------------------------------------------------------------------
(* KeyFormat.  domain 0 is None.                                           *)

HeaderOf(compressed, domain) ==
    Magic \o <<IF domain # 0 THEN 2 ELSE 1, IF compressed THEN 0 ELSE 1>>
          \o (IF domain # 0 THEN <<domain, 0, 0, 0, 0, 0, 0, 0>> ELSE << >>)

Undecided == [undecided |-> TRUE]
Legacy == [compressed |-> TRUE, domain |-> 0, headerLen |-> 0]

ParseHeader(b, atEof) ==
    IF Len(b) < 4 THEN IF atEof THEN Legacy ELSE Undecided
    ELSE IF SubSeq(b, 1, 4) # Magic THEN Legacy
    ELSE IF Len(b) > 4 /\ b[5] \notin {1, 2} THEN BadFile
    ELSE LET need == IF Len(b) > 4 /\ b[5] = 2 THEN MaxHeaderLen ELSE 6 IN
         IF Len(b) < need THEN IF atEof THEN BadFile ELSE Undecided
         ELSE IF b[6] \notin {0, 1} THEN BadFile
         ELSE [compressed |-> b[6] = 0, domain |-> IF need = MaxHeaderLen THEN b[7] ELSE 0,
               headerLen |-> need]

(* keys.rs pk_compression. *)
PkCompression(b) ==
    IF Len(b) >= 6 /\ SubSeq(b, 1, 4) = Magic
    THEN [compressed |-> b[6] # 1, headerLen |-> IF b[5] >= 2 THEN 14 ELSE 6]
    ELSE [compressed |-> TRUE, headerLen |-> 0]

-----------------------------------------------------------------------------
(* The body: vk, beta, delta and the five vectors, each after its length.  *)

G2Vector == 3
PointBytes(g2, compressed) == (IF g2 THEN 2 ELSE 1) * (IF compressed THEN 1 ELSE 2)
PointOf(v, g2, compressed) ==
    LET half == IF g2 THEN <<v, 0>> ELSE <<v>> IN IF compressed THEN half ELSE half \o half
VectorOf(vs, g2, compressed) ==
    <<Len(vs)>> \o FlattenSeq([i \in 1..Len(vs) |-> PointOf(vs[i], g2, compressed)])

(* A key is [alpha, beta2, gamma2, delta2, abc, beta, delta, vectors]. *)
WriteKey(k, compressed, domain) ==
    HeaderOf(compressed, domain)
        \o PointOf(k.alpha, FALSE, compressed) \o PointOf(k.beta2, TRUE, compressed)
        \o PointOf(k.gamma2, TRUE, compressed) \o PointOf(k.delta2, TRUE, compressed)
        \o VectorOf(k.abc, FALSE, compressed)
        \o PointOf(k.beta, FALSE, compressed) \o PointOf(k.delta, FALSE, compressed)
        \o FlattenSeq([i \in 1..5 |-> VectorOf(k.vectors[i], i = G2Vector, compressed)])

(* Reads return [ok, at, v]: at the next position, v what was read. *)
ReadPoints(f, at, n, g2, compressed) ==
    LET sz == PointBytes(g2, compressed) IN
    IF at + (n * sz) > Len(f) THEN [ok |-> FALSE, at |-> at, v |-> << >>]
    ELSE [ok |-> TRUE, at |-> at + (n * sz), v |-> [i \in 1..n |-> f[at + ((i - 1) * sz) + 1]]]
ReadLen(f, at) ==
    IF at + 1 > Len(f) THEN [ok |-> FALSE, at |-> at, v |-> 0]
    ELSE [ok |-> TRUE, at |-> at + 1, v |-> f[at + 1]]
ReadVector(f, at, g2, compressed) ==
    LET n == ReadLen(f, at) IN
    IF ~n.ok THEN [ok |-> FALSE, at |-> at, v |-> << >>] ELSE ReadPoints(f, n.at, n.v, g2, compressed)

(* The resident part: seven points and the vector abc among them. *)
ReadVk(f, at, c) ==
    LET alpha == ReadPoints(f, at, 1, FALSE, c)
        g2s == ReadPoints(f, alpha.at, 3, TRUE, c)
        abc == ReadVector(f, g2s.at, FALSE, c)
        two == ReadPoints(f, abc.at, 2, FALSE, c)
    IN  [ok |-> alpha.ok /\ g2s.ok /\ abc.ok /\ two.ok, at |-> two.at,
         v |-> <<alpha.v, g2s.v, abc.v, two.v>>]

(* SerializedPk::new: the offsets and lengths, seeking past the points. *)
SerializedPk(f) ==
    LET head == IF Len(f) < MaxHeaderLen THEN f ELSE SubSeq(f, 1, MaxHeaderLen)
        fmt == ParseHeader(head, TRUE)
    IN
    IF fmt = BadFile THEN BadFile
    ELSE LET c == fmt.compressed
             vk == ReadVk(f, fmt.headerLen, c)
             at[i \in 0..5] ==        \* where vector i + 1 begins, -1 after a short read
                 IF i = 0 THEN IF vk.ok THEN vk.at ELSE -1
                 ELSE LET before == at[i - 1]
                          n == ReadLen(f, before)
                      IN  IF before = -1 THEN -1
                          ELSE IF ~n.ok THEN -1
                          ELSE n.at + (n.v * PointBytes(i = G2Vector, c))
         IN  IF at[5] = -1 THEN BadFile
             ELSE [error |-> FALSE, compressed |-> c, domain |-> fmt.domain, vk |-> vk.v,
                   lens |-> [i \in 1..5 |-> f[at[i - 1] + 1]], offsets |-> [i \in 1..5 |-> at[i - 1] + 1]]

(* stream_bytes: chunk by chunk, BadFile at the first short one. *)
StreamBytes(f, pk, i, chunk) ==
    LET g2 == i = G2Vector
        sz == PointBytes(g2, pk.compressed)
        n == pk.lens[i]
        steps == (n + chunk - 1) \div chunk
        part(j) == ReadPoints(f, pk.offsets[i] + (j * chunk * sz),
                              IF (j + 1) * chunk > n THEN n - (j * chunk) ELSE chunk, g2, pk.compressed)
    IN  IF \A j \in 0..(steps - 1) : part(j).ok
        THEN [error |-> FALSE, v |-> FlattenSeq([j \in 1..steps |-> part(j - 1).v])]
        ELSE BadFile

ReadInChunks(f, chunk) ==
    LET pk == SerializedPk(f) IN
    IF pk.error \/ \E i \in 1..5 : StreamBytes(f, pk, i, chunk).error THEN BadFile
    ELSE [error |-> FALSE, vk |-> pk.vk, vectors |-> [i \in 1..5 |-> StreamBytes(f, pk, i, chunk).v]]

(* keys.rs read_proving_key_parallel: each length, then its points. *)
DecodeProvingKey(f) ==
    LET c == PkCompression(f).compressed
        vk == ReadVk(f, PkCompression(f).headerLen, c)
        vec[i \in 0..5] ==
            IF i = 0 THEN vk
            ELSE LET before == vec[i - 1]
                 IN  IF before.ok THEN ReadVector(f, before.at, i = G2Vector, c) ELSE before
    IN  IF \E i \in 0..5 : ~vec[i].ok THEN BadFile
        ELSE [error |-> FALSE, vk |-> vk.v, vectors |-> [i \in 1..5 |-> vec[i].v]]

(* transcode.rs: every point re-encoded, the header's domain kept. *)
TranscodeKey(f) ==
    LET pk == SerializedPk(f)
        v(i) == VectorOf(StreamBytes(f, pk, i, 1).v, i = G2Vector, FALSE)
        points(i, g2) == FlattenSeq([j \in 1..Len(pk.vk[i]) |-> PointOf(pk.vk[i][j], g2, FALSE)])
    IN  HeaderOf(FALSE, pk.domain) \o points(1, FALSE) \o points(2, TRUE)
            \o VectorOf(pk.vk[3], FALSE, FALSE) \o points(4, FALSE)
            \o v(1) \o v(2) \o v(3) \o v(4) \o v(5)

-----------------------------------------------------------------------------
(* A powers-of-tau file: [magic, version, count], then sections            *)
(* <<type, size>> and payload.  The header's payload is                    *)
(* <<n8, modulus, power>>; a point of a payload is one number.             *)

FieldBytes == 32
Modulus == 7
Sections == 1..6           \* header, tau_g1, tau_g2, alpha, beta, beta_g2
CountIn(ty, power) ==
    CASE ty = 2 -> (2 * (2 ^ power)) - 1
      [] ty \in {3, 4, 5} -> 2 ^ power
      [] ty = 6 -> 1

(* The sections in the file's order, or BadFile at a short one. *)
ReadSections(f) ==
    LET step[i \in 0..f.count] ==
            IF i = 0 THEN [ok |-> TRUE, at |-> 0, v |-> << >>]
            ELSE LET s == step[i - 1]
                     size == f.bytes[s.at + 2]
                 IN  IF ~s.ok \/ s.at + 2 > Len(f.bytes) THEN [s EXCEPT !.ok = FALSE]
                     ELSE IF s.at + 2 + size > Len(f.bytes) THEN [s EXCEPT !.ok = FALSE]
                     ELSE [ok |-> TRUE, at |-> s.at + 2 + size,
                           v |-> Append(s.v, [type |-> f.bytes[s.at + 1],
                                              payload |-> SubSeq(f.bytes, s.at + 3, s.at + 2 + size)])]
    IN  step[f.count]

ParsePtau(f) ==
    LET all == ReadSections(f)
        held(ty) == {i \in 1..Len(all.v) : all.v[i].type = ty}
        find(ty) == all.v[CHOOSE i \in held(ty) : \A j \in held(ty) : i <= j].payload
    IN  IF ~f.magic \/ f.version # 1 THEN BadFile
        ELSE IF ~all.ok \/ \E ty \in Sections : held(ty) = {} THEN BadFile
        ELSE IF Len(find(1)) < 3 \/ SubSeq(find(1), 1, 2) # <<FieldBytes, Modulus>> THEN BadFile
        ELSE IF find(1)[3] \notin 1..28 THEN BadFile
        ELSE IF \E ty \in 2..6 : Len(find(ty)) # CountIn(ty, find(1)[3]) THEN BadFile
        ELSE [error |-> FALSE, power |-> find(1)[3], points |-> [ty \in 2..6 |-> find(ty)]]

PtauSections(power, order) ==
    LET payload(ty) == IF ty = 1 THEN <<FieldBytes, Modulus, power>>
                       ELSE IF ty = 7 THEN <<1>>
                       ELSE [i \in 1..CountIn(ty, power) |-> (10 * ty) + i]
    IN  FlattenSeq([i \in 1..Len(order) |-> <<order[i], Len(payload(order[i]))>> \o payload(order[i])])

-----------------------------------------------------------------------------
(* The two readers, the transcoder and the header agree on a key file and  *)
(* on each prefix of one: a prefix is an error to both readers, and a      *)
(* header parsed before all of it came is the header or undecided (pk.rs   *)
(* parse and SerializedPk, keys.rs pk_compression, transcode.rs).          *)
KeyFilesAgree(k, compressed, domain, cut) ==
    LET f == WriteKey(k, compressed, domain)
        whole == [compressed |-> compressed, domain |-> domain,
                  headerLen |-> Len(HeaderOf(compressed, domain))]
        part == IF cut < Len(f) THEN SubSeq(f, 1, cut) ELSE f
    IN  /\ ParseHeader(part, FALSE) \in {Undecided, whole}
        /\ Len(part) >= MaxHeaderLen => ParseHeader(part, FALSE) = whole
        /\ PkCompression(f) = [compressed |-> compressed, headerLen |-> whole.headerLen]
        /\ \A chunk \in 1..2 :
            /\ ReadInChunks(f, chunk) = DecodeProvingKey(f)
            /\ ~ReadInChunks(f, chunk).error
            /\ ReadInChunks(f, chunk).vectors = k.vectors
            /\ cut < Len(f) => ReadInChunks(part, chunk).error
        /\ cut < Len(f) => DecodeProvingKey(part).error
        /\ TranscodeKey(f) = WriteKey(k, FALSE, domain)

(* A transcript is read whatever the order of its sections and whatever    *)
(* unknown ones it has, and a short one or one with a section missing is   *)
(* refused (ptau.rs parse_ptau).                                           *)
PtauFilesAgree(power, order, cut) ==
    LET bytes == PtauSections(power, order)
        file(b) == [magic |-> TRUE, version |-> 1, count |-> Len(order), bytes |-> b]
        read == ParsePtau(file(bytes))
        kept == {order[i] : i \in 1..Len(order)}
    IN  /\ read.error <=> ~(Sections \subseteq kept)
        /\ ~read.error => /\ read.power = power
                          /\ \A ty \in 2..6 : read.points[ty] =
                                 [i \in 1..CountIn(ty, power) |-> (10 * ty) + i]
        /\ cut < Len(bytes) => ParsePtau(file(SubSeq(bytes, 1, cut))).error
        \* a section too short or too long
        /\ \A i \in 1..Len(order) :
            order[i] \in 2..6 =>
                LET others == RemoveAt(order, i)
                    forged(n) == <<order[i], n>> \o [j \in 1..n |-> j] \o PtauSections(power, others)
                IN  \A n \in {0, CountIn(order[i], power) - 1, CountIn(order[i], power) + 1} :
                        ParsePtau(file(forged(n))).error
=============================================================================
