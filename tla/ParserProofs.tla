----------------------------- MODULE ParserProofs -----------------------------
(***************************************************************************)
(* Proofs about module Parser, for every base, every set of widths and     *)
(* every bound: what is parsed is what was unparsed.                       *)
(***************************************************************************)
EXTENDS Parser, Induction

\* The bytes.
Bytes == 0 .. Base - 1

\* A field that the writer may be given, and the bytes it is unparsed into.
Field == {f \in Widths \X Nat : f[2] < Power(Base, f[1])}
\* The bytes each field is unparsed into.
Code == [f \in Field |-> unparse_int(f[1], f[2])]

\* The width and the value of a field, and that its bytes are its digits.
LEMMA FieldFacts ==
  ASSUME NEW f \in Field
  PROVE  /\ f[1] \in Nat /\ f[1] \in Widths /\ f[1] # 0 /\ f[2] \in Nat /\ f[2] < Power(Base, f[1])
         /\ f = <<f[1], f[2]>>
         /\ Code[f] \in Seq(Bytes)
         /\ Len(Code[f]) = f[1]
         /\ \A i \in 1 .. f[1] : Code[f][i] = Leading(Base, f[1], f[2], i) % Base
<1>1. /\ f[1] \in Nat /\ f[1] \in Widths /\ f[1] # 0 /\ f[2] \in Nat /\ f[2] < Power(Base, f[1])
      /\ f = <<f[1], f[2]>>
  <2>1. f \in Widths \X Nat /\ f[2] < Power(Base, f[1])
    BY DEF Field
  <2>2. f[1] \in Widths /\ f[2] \in Nat /\ f = <<f[1], f[2]>>
    BY <2>1
  <2> QED BY <2>1, <2>2, ParserAssumptions, Zenon
<1> DEFINE k == f[1]
           n == f[2]
<1>2. Code[f] = unparse_int(k, n)
  BY DEF Code
<1>3. k \in Nat /\ n \in Nat /\ n < Power(Base, k) /\ Base \in Nat /\ Base # 0
  BY <1>1, ParserAssumptions
<1> HIDE DEF k, n
<1>4. \A i \in 1 .. k : Leading(Base, k, n, i) \in Nat
  BY <1>3, LeadingDigits
<1>5. ASSUME NEW i \in 1 .. k PROVE Leading(Base, k, n, i) % Base \in Bytes
  <2> DEFINE L == Leading(Base, k, n, i)
  <2>1. L \in Nat
    BY <1>4
  <2> HIDE DEF L
  <2>2. L % Base \in 0 .. Base - 1
    BY <1>3, <2>1
  <2> QED BY <2>2 DEF L, Bytes
<1>6. unparse_int(k, n) = [i \in 1 .. k |-> Leading(Base, k, n, i) % Base]
  BY DEF unparse_int, Leading
<1>7. /\ unparse_int(k, n) \in Seq(Bytes)
      /\ Len(unparse_int(k, n)) = k
      /\ \A i \in 1 .. k : unparse_int(k, n)[i] = Leading(Base, k, n, i) % Base
  BY <1>3, <1>5, <1>6
<1> QED BY <1>1, <1>2, <1>7 DEF k, n

\* Code gives bytes.
LEMMA CodeGives == Gives(Code, Field, Seq(Bytes))
<1>1. \A f \in Field : Code[f] \in Seq(Bytes)
  BY FieldFacts
<1> QED BY <1>1 DEF Gives, Code

\* _parse_int over the bytes of a field gives its value: the shifted value never
\* loses a bit.
LEMMA ParseUnparse ==
  ASSUME NEW f \in Field, NEW bytes \in Seq(Bytes), f[1] <= Len(bytes),
         \A i \in 1 .. f[1] : bytes[i] = Code[f][i]
  PROVE  parse_loop(bytes, f[1]) = f[2]
<1> DEFINE k == f[1]
           n == f[2]
           D(i) == Leading(Base, k, n, i)
           M == Power(Base, k)
<1>1. /\ k \in Nat /\ n \in Nat /\ n < M /\ Base \in Nat /\ Base # 0 /\ k <= Len(bytes)
      /\ \A i \in 1 .. k : bytes[i] = D(i) % Base /\ bytes[i] \in Nat
  <2>1. \A i \in 1 .. f[1] : bytes[i] \in Bytes
    <3>1. \A i \in 1 .. f[1] : i \in 1 .. Len(bytes)
      BY FieldFacts
    <3> QED BY <3>1
  <2> QED BY <2>1, FieldFacts, ParserAssumptions DEF Bytes
<1> HIDE DEF k, n
<1>2. /\ D(0) = 0 /\ D(k) = n
      /\ \A i \in 0 .. k : D(i) \in 0 .. n
      /\ \A i \in 1 .. k : D(i) = Base * D(i - 1) + (D(i) % Base)
  BY <1>1, LeadingDigits
<1>3. M \in Nat /\ M # 0
  BY <1>1, PowerFacts
<1> DEFINE Body(g) == [i \in 0 .. k |->
                         IF i = 0 THEN 0 ELSE ((g[i - 1] * Base) % Power(Base, k)) + bytes[i]]
           ret == CHOOSE g : g = Body(g)
           st == [i \in 1 .. k |-> [v \in Nat |-> ((v * Base) % M) + bytes[i]]]
<1>4. parse_loop(bytes, k) = ret[k]
  BY DEF parse_loop
<1>5. st \in [1 .. k -> [Nat -> Nat]] /\ \A i \in 1 .. k, v \in Nat : st[i][v] = ((v * Base) % M) + bytes[i]
  <2>1. ASSUME NEW i \in 1 .. k, NEW v \in Nat PROVE ((v * Base) % M) + bytes[i] \in Nat
    <3> DEFINE w == v * Base
    <3>1. w \in Nat
      BY <1>1
    <3> HIDE DEF w, M
    <3>2. w % M \in Nat
      BY <1>3, <3>1
    <3> QED BY <1>1, <3>2 DEF w
  <2> HIDE DEF M
  <2> QED BY <2>1, Zenon
<1> HIDE DEF st
<1>6. PICK g \in [0 .. k -> Nat] : IsLoop(g, k, 0, st)
  BY <1>1, <1>5, LoopExists, Zenon
<1>7. g = Body(g)
  <2>1. ASSUME NEW i \in 0 .. k
        PROVE  g[i] = IF i = 0 THEN 0 ELSE ((g[i - 1] * Base) % M) + bytes[i]
    <3>1. CASE i = 0
      BY <1>6, <3>1 DEF IsLoop
    <3>2. CASE i # 0
      <4>1. i \in 1 .. k /\ i - 1 \in 0 .. k /\ g[i] = st[i][g[i - 1]]
        BY <1>1, <1>6, <3>2 DEF IsLoop
      <4>2. g[i - 1] \in Nat
        BY <1>6, <4>1
      <4> QED BY <1>5, <3>2, <4>1, <4>2
    <3> QED BY <3>1, <3>2
  <2> QED BY <1>6, <2>1
<1>8. ret = Body(ret)
  BY <1>7, Zenon
<1> HIDE DEF ret
<1>9. ret[0] = 0 /\ \A i \in 1 .. k : ret[i] = ((ret[i - 1] * Base) % M) + bytes[i]
  <2>1. \A i \in 0 .. k : ret[i] = IF i = 0 THEN 0 ELSE ((ret[i - 1] * Base) % M) + bytes[i]
    BY <1>8, Zenon
  <2> QED BY <1>1, <2>1
<1> DEFINE T == {i \in 0 .. k : ret[i] = D(i)}
<1>10. 0 .. k \subseteq T
  <2>1. 0 \in T
    BY <1>1, <1>2, <1>9
  <2>2. ASSUME NEW i \in 1 .. k, i - 1 \in T PROVE i \in T
    <3> DEFINE d == D(i)
               c == D(i - 1)
               w == c * Base
    <3>1. ret[i - 1] = c /\ i - 1 \in 0 .. k /\ i \in 0 .. k
      BY <1>1, <2>2
    <3>2. c \in Nat /\ d \in Nat /\ d <= n /\ d = Base * c + (d % Base) /\ bytes[i] = d % Base
      <4>1. c \in 0 .. n /\ d \in 0 .. n
        BY <1>2, <3>1
      <4>2. d = Base * c + (d % Base)
        BY <1>2
      <4>3. bytes[i] = d % Base
        BY <1>1
      <4> HIDE DEF c, d
      <4> QED BY <1>1, <4>1, <4>2, <4>3
    <3>3. ret[i] = (w % M) + bytes[i]
      BY <1>9, <3>1
    <3> HIDE DEF c, d, M
    <3>4. w \in Nat /\ w = Base * c /\ d % Base \in Nat
      BY <1>1, <3>2, SMTT(30)
    <3>5. w < M
      BY <1>1, <1>3, <3>2, <3>4
    <3>6. w % M = w
      <4> HIDE DEF w
      <4> QED BY <1>3, <3>4, <3>5
    <3>7. ret[i] = d
      BY <3>2, <3>3, <3>4, <3>6
    <3> QED BY <3>1, <3>7 DEF d
  <2> HIDE DEF T
  <2> QED BY <1>1, <2>1, <2>2, UpTo, Zenon
<1>11. ret[k] = n
  BY <1>1, <1>2, <1>10
<1> QED BY <1>4, <1>11 DEF k, n

-----------------------------------------------------------------------------
(***************************************************************************)
(* The invariant: the string is what the fields are unparsed into, and     *)
(* the buffer is the beginning of what the fields not yet parsed are       *)
(* unparsed into.                                                          *)
(***************************************************************************)

\* The bytes of the fields behind the first k.
Behind(fs, k) == Join(Code, Drop(fs, k))

\* The inductive invariant: what was sent is the fields in a row, and what the
\* parser has left is, as far as it was not cut off, the bytes of the fields it
\* has not read.
ParserInv ==
  /\ fields \in Seq(Field)
  /\ sent = Join(Code, fields)
  /\ Len(sent) <= MaxBytes
  /\ buffer \in Seq(Bytes)
  /\ error \in Range(ParseResults)
  /\ parsed \in Seq(Widths \X Int)
  /\ Len(parsed) <= Len(fields)
  /\ RoundTrip
  /\ phase \in {"write", "parse"}
  /\ phase = "write" => error = "NoError" /\ parsed = <<>>
  /\ phase = "parse" => \E rest \in Seq(Bytes) : Behind(fields, Len(parsed)) = Glue(buffer, rest)

\* The first of the fields that are left, and the fields after it.
LEMMA DropNext ==
  ASSUME NEW P, NEW s \in Seq(P), NEW k \in Nat, k < Len(s)
  PROVE  /\ Drop(s, k) \in Seq(P) /\ Drop(s, k) # <<>>
         /\ Head(Drop(s, k)) = s[k + 1]
         /\ Tail(Drop(s, k)) = Drop(s, k + 1)
<1> DEFINE d == Drop(s, k)
<1>1. d \in Seq(P) /\ IsDrop(d, s, k) /\ Len(s) \in Nat
  BY DropIs
<1>2. Drop(s, k + 1) = Drop(d, 1)
  BY <1>1, DropDrop
<1>3. Len(d) = Len(s) - k /\ d[1] = s[k + 1]
  BY <1>1 DEF IsDrop
<1> HIDE DEF d
<1>4. d # <<>> /\ Head(d) = d[1] /\ Tail(d) = Drop(d, 1)
  <2>1. d # <<>> /\ Len(d) \in Nat /\ Len(d) >= 1
    BY <1>1, <1>3
  <2>2. Tail(d) \in Seq(P) /\ Len(Tail(d)) = Len(d) - 1 /\ \A i \in 1 .. Len(d) - 1 : Tail(d)[i] = d[i + 1]
    BY <1>1, <2>1
  <2>3. Drop(d, 1) \in Seq(P) /\ Len(Drop(d, 1)) = Len(d) - 1 /\ \A i \in 1 .. Len(d) - 1 : Drop(d, 1)[i] = d[1 + i]
    BY <1>1, <2>1, DropFacts
  <2> DEFINE a == Tail(d)
             b == Drop(d, 1)
  <2>4. a \in Seq(P) /\ b \in Seq(P) /\ Len(a) = Len(b) /\ \A i \in 1 .. Len(a) : a[i] = b[i]
    BY <2>1, <2>2, <2>3
  <2>5. a = b
    <3> HIDE DEF a, b
    <3> QED BY <2>4, SeqEqual
  <2> QED BY <2>1, <2>5
<1> QED BY <1>1, <1>2, <1>3, <1>4 DEF d

\* When the whole of the next field has arrived, the buffer begins with its bytes,
\* and what is behind them belongs to the fields after it.
LEMMA NextFieldArrives ==
  ASSUME NEW fs \in Seq(Field), NEW k \in Nat, k < Len(fs),
         NEW b \in Seq(Bytes), NEW rest \in Seq(Bytes), Behind(fs, k) = Glue(b, rest),
         fs[k + 1][1] <= Len(b)
  PROVE  /\ \A i \in 1 .. fs[k + 1][1] : b[i] = Code[fs[k + 1]][i]
         /\ Behind(fs, k + 1) = Glue(Drop(b, fs[k + 1][1]), rest)
<1> DEFINE d == Drop(fs, k)
           f == fs[k + 1]
           w == f[1]
           c == Code[f]
           r == Behind(fs, k + 1)
<1>1. f \in Field
  OBVIOUS
<1>2. d \in Seq(Field) /\ d # <<>> /\ Head(d) = f /\ Tail(d) = Drop(fs, k + 1)
  BY DropNext
<1>3. c \in Seq(Bytes) /\ Len(c) = w /\ w \in Nat /\ w <= Len(b)
  BY <1>1, FieldFacts
<1>4. r \in Seq(Bytes)
  <2>1. k + 1 \in Nat
    OBVIOUS
  <2>2. Drop(fs, k + 1) \in Seq(Field)
    BY <2>1, DropFacts
  <2> QED BY <2>2, CodeGives, JoinType DEF Behind
<1>5. Join(Code, d) = Glue(c, r)
  <2> HIDE DEF d
  <2>1. Join(Code, d) = Glue(Code[Head(d)], Join(Code, Tail(d)))
    BY <1>2, CodeGives, JoinHeadTail
  <2> QED BY <1>2, <2>1, Zenon DEF Behind
<1>6. Glue(c, r) = Glue(b, rest)
  BY <1>5 DEF Behind
<1> HIDE DEF c, r, w, f
<1>7. Drop(Glue(c, r), w) = r
  <2>1. w >= Len(c) /\ w - Len(c) = 0
    BY <1>3
  <2>2. Drop(Glue(c, r), w) = Drop(r, w - Len(c))
    BY <1>3, <1>4, <2>1, DropConcat
  <2>3. Drop(r, 0) = r
    BY <1>4, DropFacts
  <2> QED BY <2>1, <2>2, <2>3
<1>8. Drop(Glue(b, rest), w) = Glue(Drop(b, w), rest)
  BY <1>3, DropConcat
<1>9. ASSUME NEW i \in 1 .. w PROVE b[i] = c[i]
  <2>1. i \in 1 .. Len(b) /\ i \in 1 .. Len(c)
    BY <1>3
  <2>2. Glue(b, rest)[i] = b[i]
    BY <2>1 DEF Glue
  <2>3. Glue(c, r)[i] = c[i]
    BY <1>3, <1>4, <2>1 DEF Glue
  <2> QED BY <1>6, <2>2, <2>3
<1>10. r = Glue(Drop(b, w), rest)
  BY <1>6, <1>7, <1>8
<1> QED BY <1>9, <1>10 DEF c, r, w, f

\* The initial state.
LEMMA ParserInvInit == Init => ParserInv
<1> SUFFICES ASSUME Init PROVE ParserInv
  OBVIOUS
<1> USE DEF Init
<1>1. /\ fields \in Seq(Field) /\ buffer \in Seq(Bytes) /\ parsed \in Seq(Widths \X Int)
      /\ Len(parsed) <= Len(fields) /\ parsed = <<>>
  OBVIOUS
<1>2. sent = Join(Code, fields) /\ Len(sent) <= MaxBytes
  BY JoinEmpty, ParserAssumptions
<1>3. error \in Range(ParseResults) /\ phase = "write" /\ error = "NoError"
  <2>1. 1 \in DOMAIN ParseResults /\ ParseResults[1] = "NoError"
    BY DEF ParseResults
  <2> QED BY <2>1 DEF Range
<1>4. RoundTrip
  BY DEF RoundTrip
<1> QED BY <1>1, <1>2, <1>3, <1>4 DEF ParserInv

\* A call that unparses a field appends its bytes.
LEMMA UnparseKeeps ==
  ASSUME ParserInv, NEW len \in Widths, NEW val \in 0 .. Power(Base, len) - 1, Unparse(len, val)
  PROVE  ParserInv'
<1> DEFINE f == <<len, val>>
<1>1. f \in Field /\ f[1] = len /\ f[2] = val
  <2>1. len \in Nat /\ Base \in Nat /\ Base # 0
    BY ParserAssumptions
  <2>2. Power(Base, len) \in Nat
    BY <2>1, PowerFacts
  <2>3. val \in Nat /\ val < Power(Base, len)
    BY <2>2
  <2> QED BY <2>3 DEF Field
<1>2. Code[f] = unparse_int(len, val) /\ Len(Code[f]) = len /\ Code[f] \in Seq(Bytes)
  BY <1>1, FieldFacts DEF Code
<1>3. /\ fields' = Append(fields, f) /\ sent' = sent \o Code[f]
      /\ phase = "write" /\ Len(sent) + len <= MaxBytes
      /\ UNCHANGED <<buffer, error, parsed, phase>>
  BY <1>2 DEF Unparse
<1> HIDE DEF f
<1>4. fields' \in Seq(Field) /\ Len(fields') = Len(fields) + 1 /\ Len(fields) \in Nat
  BY <1>1, <1>3 DEF ParserInv
<1>5. sent' = Join(Code, fields')
  <2>0. fields \in Seq(Field)
    BY DEF ParserInv
  <2>1. Join(Code, Append(fields, f)) = Join(Code, fields) \o Code[f]
    BY <1>1, <2>0, CodeGives, JoinAppend
  <2> QED BY <1>3, <2>1 DEF ParserInv
<1>6. Len(sent') <= MaxBytes
  <2>1. sent \in Seq(Bytes)
    BY CodeGives, JoinType DEF ParserInv
  <2>2. Len(sent \o Code[f]) = Len(sent) + Len(Code[f])
    BY <1>2, <2>1
  <2> QED BY <1>2, <1>3, <2>2
<1>7. parsed = <<>> /\ parsed' = <<>>
  BY <1>3 DEF ParserInv
<1>8. RoundTrip'
  BY <1>7 DEF RoundTrip
<1> QED BY <1>3, <1>4, <1>5, <1>6, <1>7, <1>8 DEF ParserInv

\* The parser is given the beginning of the string.
LEMMA ConstructKeeps ==
  ASSUME ParserInv, NEW n \in 0 .. MaxBytes, Construct(n)
  PROVE  ParserInv'
<1>1. /\ phase = "write" /\ n <= Len(sent) /\ phase' = "parse" /\ buffer' = SubSeq(sent, 1, n)
      /\ UNCHANGED <<fields, sent, error, parsed>> /\ n \in Nat
  BY ParserAssumptions DEF Construct
<1>2. sent \in Seq(Bytes)
  BY CodeGives, JoinType DEF ParserInv
<1>3. buffer' \in Seq(Bytes) /\ buffer' \o Drop(sent, n) = sent
  BY <1>1, <1>2, SplitSeq, Zenon
<1>4. Drop(sent, n) \in Seq(Bytes)
  BY <1>1, <1>2, DropFacts
<1>5. parsed = <<>>
  BY <1>1 DEF ParserInv
<1>6. Behind(fields, Len(parsed)) = sent
  <2>1. Len(parsed) = 0
    BY <1>5
  <2>2. Drop(fields, 0) = fields
    BY DropFacts DEF ParserInv
  <2> QED BY <2>1, <2>2 DEF ParserInv, Behind
<1>7. Behind(fields', Len(parsed')) = Glue(buffer', Drop(sent, n))
  BY <1>1, <1>3, <1>6 DEF Glue
<1>8. RoundTrip'
  BY <1>1, <1>5 DEF RoundTrip
<1> QED BY <1>1, <1>3, <1>4, <1>7, <1>8 DEF ParserInv

\* A call that takes the next field off the buffer, with its value or none.
LEMMA TakeKeeps ==
  ASSUME ParserInv, Len(parsed) < Len(fields), NEW v, Take(NextWidth, v),
         NextWidth <= Len(buffer) => v \in {fields[Len(parsed) + 1][2], -1}
  PROVE  ParserInv'
<1> DEFINE k == Len(parsed)
           f == fields[k + 1]
           w == f[1]
<1>1. /\ phase = "parse" /\ error' = check_size(w) /\ NextWidth = w
      /\ IF error' = "NoError"
           THEN buffer' = Drop(buffer, w) /\ parsed' = Append(parsed, <<w, v>>)
           ELSE UNCHANGED <<buffer, parsed>>
      /\ UNCHANGED <<fields, sent, phase>>
  BY DEF Take, NextWidth, Drop
<1>2. /\ fields \in Seq(Field) /\ k \in Nat /\ k < Len(fields) /\ Len(fields) \in Nat
      /\ buffer \in Seq(Bytes) /\ Len(buffer) \in Nat /\ parsed \in Seq(Widths \X Int)
  BY DEF ParserInv
<1>3. f \in Field
  BY <1>2
<1>4. w \in Nat /\ w \in Widths /\ f[2] \in Nat
  BY <1>3, FieldFacts
<1> HIDE DEF w, f, k
<1>5. error' \in Range(ParseResults)
  <2>1. "PacketTooShort" \in Range(ParseResults)
    <3>1. 3 \in DOMAIN ParseResults /\ ParseResults[3] = "PacketTooShort"
      BY DEF ParseResults
    <3> QED BY <3>1 DEF Range
  <2> QED BY <1>1, <2>1 DEF check_size, ParserInv
<1>6. PICK rest \in Seq(Bytes) : Behind(fields, k) = Glue(buffer, rest)
  BY <1>1 DEF ParserInv, k
<1>7. CASE error' # "NoError"
  <2>1. UNCHANGED <<buffer, parsed, fields, sent, phase>>
    BY <1>1, <1>7
  <2>2. RoundTrip'
    BY <2>1 DEF ParserInv, RoundTrip
  <2> QED BY <1>1, <1>5, <2>1, <2>2 DEF ParserInv, Behind
<1>8. CASE error' = "NoError"
  <2> DEFINE p == <<w, v>>
  <2>1. w <= Len(buffer) /\ buffer' = Drop(buffer, w) /\ parsed' = Append(parsed, p)
    BY <1>1, <1>2, <1>4, <1>8 DEF check_size
  <2>2. v \in {f[2], -1}
    BY <1>1, <2>1 DEF f, k
  <2>3. p \in Widths \X Int /\ p[1] = w /\ p[2] = v
    BY <1>4, <2>2
  <2> HIDE DEF p
  <2>4. /\ parsed' \in Seq(Widths \X Int) /\ Len(parsed') = k + 1
        /\ parsed'[k + 1] = p /\ \A j \in 1 .. k : parsed'[j] = parsed[j]
    BY <1>2, <2>1, <2>3 DEF k
  <2>5. RoundTrip'
    <3> SUFFICES ASSUME NEW j \in 1 .. k + 1
                 PROVE  parsed'[j][1] = fields[j][1] /\ parsed'[j][2] \in {fields[j][2], -1}
      <4>1. DOMAIN parsed' = 1 .. k + 1
        BY <2>4
      <4> QED BY <1>1, <4>1 DEF RoundTrip
    <3>1. CASE j = k + 1
      BY <2>2, <2>3, <2>4, <3>1 DEF f, w
    <3>2. CASE j # k + 1
      <4>1. j \in 1 .. k /\ j \in DOMAIN parsed
        BY <1>2, <3>2, SMTT(30) DEF k
      <4>2. parsed[j][1] = fields[j][1] /\ parsed[j][2] \in {fields[j][2], -1}
        BY <4>1 DEF ParserInv, RoundTrip
      <4> QED BY <2>4, <4>1, <4>2
    <3> QED BY <3>1, <3>2
  <2>6. buffer' \in Seq(Bytes)
    BY <1>2, <1>4, <2>1, DropFacts
  <2>7. Behind(fields, k + 1) = Glue(buffer', rest)
    BY <1>2, <1>6, <2>1, NextFieldArrives DEF w, f
  <2>8. Behind(fields', Len(parsed')) = Glue(buffer', rest)
    BY <1>1, <2>4, <2>7
  <2>9. Len(parsed') <= Len(fields')
    BY <1>1, <1>2, <2>4
  <2> QED BY <1>1, <1>5, <1>6, <2>4, <2>5, <2>6, <2>8, <2>9 DEF ParserInv
<1> QED BY <1>7, <1>8

\* An integer that is parsed is the one that was unparsed.
LEMMA ParseIntKeeps ==
  ASSUME ParserInv, ParseInt
  PROVE  ParserInv'
<1> DEFINE k == Len(parsed)
           f == fields[k + 1]
           v == parse_loop(buffer, NextWidth)
<1>1. k < Len(fields) /\ Take(NextWidth, v) /\ phase = "parse" /\ NextWidth = f[1]
  BY DEF ParseInt, Take, NextWidth
<1>2. fields \in Seq(Field) /\ k \in Nat /\ buffer \in Seq(Bytes) /\ f \in Field
  BY <1>1 DEF ParserInv
<1>3. PICK rest \in Seq(Bytes) : Behind(fields, k) = Glue(buffer, rest)
  BY <1>1 DEF ParserInv
<1>4. ASSUME NextWidth <= Len(buffer) PROVE v = f[2]
  <2>1. \A i \in 1 .. f[1] : buffer[i] = Code[f][i]
    <3> HIDE DEF k
    <3> QED BY <1>1, <1>2, <1>3, <1>4, NextFieldArrives
  <2> HIDE DEF f
  <2>2. parse_loop(buffer, f[1]) = f[2]
    BY <1>1, <1>2, <1>4, <2>1, ParseUnparse
  <2> QED BY <1>1, <2>2
<1> HIDE DEF v
<1> QED BY <1>1, <1>4, TakeKeeps

\* Every step keeps the invariant.
LEMMA ParserInvNext == ParserInv /\ [Next]_vars => ParserInv'
<1> SUFFICES ASSUME ParserInv, [Next]_vars PROVE ParserInv'
  OBVIOUS
<1>1. CASE \E len \in Widths : \E val \in 0 .. Power(Base, len) - 1 : Unparse(len, val)
  BY <1>1, UnparseKeeps
<1>2. CASE \E n \in 0 .. MaxBytes : Construct(n)
  BY <1>2, ConstructKeeps
<1>3. CASE ParseInt
  BY <1>3, ParseIntKeeps
<1>4. CASE RemovePrefix
  <2>1. Len(parsed) < Len(fields) /\ Take(NextWidth, -1)
    BY <1>4 DEF RemovePrefix
  <2> QED BY <2>1, TakeKeeps
<1>5. ASSUME NEW e \in Range(ParseResults), SetError(e) PROVE ParserInv'
  <2>1. phase = "parse" /\ error' = e /\ UNCHANGED <<fields, sent, buffer, parsed, phase>>
    BY <1>5 DEF SetError
  <2>2. RoundTrip'
    BY <2>1 DEF ParserInv, RoundTrip
  <2> QED BY <2>1, <2>2 DEF ParserInv, Behind
<1>6. CASE UNCHANGED <<fields, sent, buffer, error, parsed, phase>>
  <2>1. RoundTrip'
    BY <1>6 DEF ParserInv, RoundTrip
  <2> QED BY <1>6, <2>1 DEF ParserInv, Behind
<1> QED BY <1>1, <1>2, <1>3, <1>4, <1>5, <1>6 DEF Next, Show, vars

\* The invariant holds whenever a string is unparsed, cut and parsed.
THEOREM ParserInvariant == Spec => []ParserInv
<1> QED BY ParserInvInit, ParserInvNext, PTL DEF Spec

\* What is parsed is what was unparsed, for every base and all widths, whatever is
\* cut off, skipped or set as an error.
THEOREM ParserRoundTrip == Spec => []RoundTrip
<1>1. ParserInv => RoundTrip
  BY DEF ParserInv
<1> QED BY <1>1, ParserInvariant, PTL

\* What is unparsed are bytes, and the error is a ParseResult.
THEOREM ParserTypes == Spec => []ParserTypeOK
<1>1. ParserInv => ParserTypeOK
  <2> SUFFICES ASSUME ParserInv PROVE ParserTypeOK
    OBVIOUS
  <2>1. sent \in Seq(Bytes)
    BY CodeGives, JoinType DEF ParserInv
  <2>2. \A i \in DOMAIN sent : sent[i] \in 0 .. Base - 1
    <3>1. \A i \in DOMAIN sent : sent[i] \in Bytes
      BY <2>1
    <3> QED BY <3>1 DEF Bytes
  <2> QED BY <2>2 DEF ParserInv, ParserTypeOK
<1> QED BY <1>1, ParserInvariant, PTL

\* The fields up to the next one take as many bytes as those before it and its own.
LEMMA TotalWidthNext ==
  ASSUME NEW fs \in Seq(Field), NEW k \in Nat, k < Len(fs)
  PROVE  /\ TotalWidth(fs, k) \in Nat
         /\ TotalWidth(fs, k + 1) = TotalWidth(fs, k) + fs[k + 1][1]
<1> DEFINE s == [i \in 1 .. k |-> fs[i][1]]
           t == [i \in 1 .. k + 1 |-> fs[i][1]]
           w == fs[k + 1][1]
<1>1. \A i \in 1 .. k + 1 : fs[i][1] \in Nat
  <2>1. \A i \in 1 .. k + 1 : fs[i] \in Field
    OBVIOUS
  <2> QED BY <2>1, FieldFacts
<1>2. s \in Seq(Nat) /\ w \in Nat /\ t = Append(s, w)
  BY <1>1
<1>3. SumSeq(s) \in Nat /\ SumSeq(t) = SumSeq(s) + w
  <2> HIDE DEF s, t, w
  <2> QED BY <1>2, SumSeqNat, SumSeqAppend
<1> QED BY <1>3 DEF TotalWidth

\* The bytes that arrived are those of the fields taken, and those left.
AllCounted == phase = "parse" => arrived = TotalWidth(fields, Len(parsed)) + Len(buffer)

\* A field that was called for, and the bytes up to its end.
LEMMA NextFieldEnds ==
  ASSUME ParserInv, AllCounted, phase = "parse", Len(parsed) < Len(fields)
  PROVE  /\ NextWidth \in Nat /\ NextWidth # 0 /\ Len(buffer) \in Nat /\ Len(parsed) \in Nat
         /\ TotalWidth(fields, Len(parsed)) \in Nat
         /\ TotalWidth(fields, Len(parsed) + 1) = TotalWidth(fields, Len(parsed)) + NextWidth
         /\ NextIsCut <=> NextWidth > Len(buffer)
<1> DEFINE k == Len(parsed)
<1>1. /\ fields \in Seq(Field) /\ k \in Nat /\ k < Len(fields)
      /\ buffer \in Seq(Bytes) /\ Len(buffer) \in Nat
  BY DEF ParserInv
<1>2. NextWidth = fields[k + 1][1] /\ arrived = TotalWidth(fields, k) + Len(buffer)
  BY Zenon DEF NextWidth, AllCounted
<1>3. NextIsCut <=> TotalWidth(fields, k + 1) > arrived
  BY Zenon DEF NextIsCut
<1> HIDE DEF k
<1>4. fields[k + 1] \in Field
  BY <1>1
<1>5. fields[k + 1][1] \in Nat /\ fields[k + 1][1] # 0
  BY <1>4, FieldFacts, Zenon
<1>6. TotalWidth(fields, k) \in Nat /\ TotalWidth(fields, k + 1) = TotalWidth(fields, k) + fields[k + 1][1]
  BY <1>1, TotalWidthNext, Zenon
<1>7. NextIsCut <=> NextWidth > Len(buffer)
  BY <1>1, <1>2, <1>3, <1>5, <1>6
<1> QED BY <1>1, <1>2, <1>5, <1>6, <1>7, Zenon DEF k

\* A call for a field takes it, bytes and all, exactly when it has arrived and no
\* error is set, and reports it when it has not.
LEMMA TakeExact ==
  ASSUME ParserInv, AllCounted, Len(parsed) < Len(fields), NEW v, Take(NextWidth, v)
  PROVE  /\ error' = IF NextIsCut THEN "PacketTooShort" ELSE error
         /\ IF ~NextIsCut /\ error = "NoError"
              THEN /\ Len(parsed') = Len(parsed) + 1
                   /\ Len(buffer') = Len(buffer) - NextWidth
              ELSE UNCHANGED <<buffer, parsed>>
<1>1. /\ phase = "parse" /\ error' = check_size(NextWidth)
      /\ IF error' = "NoError"
           THEN buffer' = Drop(buffer, NextWidth) /\ parsed' = Append(parsed, <<NextWidth, v>>)
           ELSE UNCHANGED <<buffer, parsed>>
  BY Zenon DEF Take, Drop
<1>2. NextWidth \in Nat /\ Len(buffer) \in Nat /\ (NextIsCut <=> NextWidth > Len(buffer))
  BY <1>1, NextFieldEnds, Zenon
<1>3. error' = IF NextIsCut THEN "PacketTooShort" ELSE error
  BY <1>1, <1>2, Zenon DEF check_size
<1>4. CASE ~NextIsCut /\ error = "NoError"
  <2>1. NextWidth <= Len(buffer) /\ buffer' = Drop(buffer, NextWidth) /\ parsed' = Append(parsed, <<NextWidth, v>>)
    BY <1>1, <1>2, <1>3, <1>4
  <2>2. Len(buffer') = Len(buffer) - NextWidth
    <3>1. buffer \in Seq(Bytes)
      BY Zenon DEF ParserInv
    <3> QED BY <1>2, <2>1, <3>1, DropFacts, Zenon
  <2>3. Len(parsed') = Len(parsed) + 1
    <3>1. parsed \in Seq(Widths \X Int)
      BY Zenon DEF ParserInv
    <3> QED BY <2>1, <3>1
  <2> QED BY <1>3, <1>4, <2>2, <2>3, Zenon
<1>5. CASE ~(~NextIsCut /\ error = "NoError")
  BY <1>1, <1>3, <1>5, Zenon
<1> QED BY <1>3, <1>4, <1>5, Zenon

\* No call loses count of the bytes.
LEMMA CountedNext == ParserInv /\ AllCounted /\ [Next]_vars => AllCounted'
<1> SUFFICES ASSUME ParserInv, AllCounted, [Next]_vars PROVE AllCounted'
  OBVIOUS
<1>1. ASSUME NEW n \in 0 .. MaxBytes, Construct(n) PROVE AllCounted'
  <2>1. /\ n <= Len(sent) /\ buffer' = SubSeq(sent, 1, n) /\ arrived' = n
        /\ fields' = fields /\ parsed' = <<>> /\ n \in Nat
    BY <1>1, ParserAssumptions DEF Construct, ParserInv
  <2>2. sent \in Seq(Bytes)
    BY CodeGives, JoinType DEF ParserInv
  <2>3. Len(buffer') = n /\ Len(parsed') = 0
    BY <2>1, <2>2
  <2>4. TotalWidth(fields', 0) = 0
    <3>1. [i \in 1 .. 0 |-> fields'[i][1]] = <<>>
      OBVIOUS
    <3> QED BY <3>1, SumSeqEmpty DEF TotalWidth
  <2> QED BY <2>1, <2>3, <2>4 DEF AllCounted
<1>2. ASSUME Len(parsed) < Len(fields), NEW v, Take(NextWidth, v) PROVE AllCounted'
  <2> DEFINE T(k) == TotalWidth(fields, k)
  <2>1. phase = "parse" /\ UNCHANGED <<phase, fields, arrived>>
    BY <1>2, Zenon DEF Take
  <2>2. arrived = T(Len(parsed)) + Len(buffer)
    BY <2>1, Zenon DEF AllCounted
  <2>3. CASE ~NextIsCut /\ error = "NoError"
    <3>1. Len(parsed') = Len(parsed) + 1 /\ Len(buffer') = Len(buffer) - NextWidth
      BY <1>2, <2>3, TakeExact, Zenon
    <3>2. /\ NextWidth \in Nat /\ Len(buffer) \in Nat /\ T(Len(parsed)) \in Nat
          /\ T(Len(parsed) + 1) = T(Len(parsed)) + NextWidth
      BY <1>2, <2>1, NextFieldEnds, Zenon
    <3>3. T(Len(parsed')) = T(Len(parsed)) + NextWidth
      BY <3>1, <3>2, Zenon
    <3> HIDE DEF T
    <3>4. arrived = T(Len(parsed')) + Len(buffer')
      BY <2>2, <3>1, <3>2, <3>3
    <3> QED BY <2>1, <3>4, Zenon DEF AllCounted, T
  <2>4. CASE ~(~NextIsCut /\ error = "NoError")
    <3>1. UNCHANGED <<buffer, parsed>>
      BY <1>2, <2>4, TakeExact, Zenon
    <3> QED BY <2>1, <3>1, Zenon DEF AllCounted
  <2> QED BY <2>3, <2>4, Zenon
<1>3. ParseInt \/ RemovePrefix => AllCounted'
  BY <1>2, Zenon DEF ParseInt, RemovePrefix
<1>4. CASE \E len \in Widths : \E val \in 0 .. Power(Base, len) - 1 : Unparse(len, val)
  BY <1>4 DEF Unparse, AllCounted
<1>5. CASE UNCHANGED <<fields, arrived, buffer, parsed, phase>>
  BY <1>5, Zenon DEF AllCounted
<1> QED BY <1>1, <1>3, <1>4, <1>5 DEF Next, SetError, Show, vars

\* No call loses count, in any behaviour.
LEMMA Counted == Spec => []AllCounted
<1>1. Init => AllCounted
  BY DEF Init, AllCounted
<1> QED BY <1>1, CountedNext, ParserInvariant, PTL DEF Spec

\* A field is parsed exactly when the whole of it arrived and no error is set, and
\* found too short exactly when it did not arrive, whatever calls came before.
THEOREM ParserTooShortExact == Spec => TooShortExact
<1>1. ASSUME ParserInv, AllCounted, ParseInt \/ RemovePrefix
      PROVE  /\ error' = "PacketTooShort" <=> NextIsCut \/ error = "PacketTooShort"
             /\ parsed' # parsed <=> ~NextIsCut /\ error = "NoError"
  <2>1. Len(parsed) < Len(fields) /\ \E v : Take(NextWidth, v)
    BY <1>1, Zenon DEF ParseInt, RemovePrefix
  <2>2. /\ error' = IF NextIsCut THEN "PacketTooShort" ELSE error
        /\ IF ~NextIsCut /\ error = "NoError" THEN Len(parsed') = Len(parsed) + 1
                                             ELSE parsed' = parsed
    BY <1>1, <2>1, TakeExact, Zenon
  <2>3. Len(parsed) \in Nat
    BY <1>1 DEF ParserInv
  <2>4. Len(parsed') = Len(parsed) + 1 => parsed' # parsed
    BY <2>3
  <2> QED BY <2>2, <2>4, Zenon
<1>2. ParserInv /\ AllCounted =>
        [ParseInt \/ RemovePrefix =>
           /\ error' = "PacketTooShort" <=> NextIsCut \/ error = "PacketTooShort"
           /\ parsed' # parsed <=> ~NextIsCut /\ error = "NoError"]_vars
  BY <1>1, Zenon
<1> QED BY <1>2, ParserInvariant, Counted, PTL DEF TooShortExact

\* While there is an error nothing is taken, and it gives way only to what the
\* reader sets or to a field that has not arrived.
THEOREM ParserErrorStops == Spec => ErrorStopsParsing
<1> DEFINE Stands == /\ UNCHANGED <<buffer, parsed>>
                     /\ \/ error' = error
                        \/ \E e \in Range(ParseResults) : SetError(e)
                        \/ error' = "PacketTooShort" /\ NextIsCut
<1>1. ASSUME ParserInv, AllCounted, [Next]_vars, error # "NoError"
      PROVE  Stands
  <2>1. phase # "write"
    BY <1>1, Zenon DEF ParserInv
  <2>2. CASE ParseInt \/ RemovePrefix
    <3>1. Len(parsed) < Len(fields) /\ \E v : Take(NextWidth, v)
      BY <2>2, Zenon DEF ParseInt, RemovePrefix
    <3>2. UNCHANGED <<buffer, parsed>> /\ error' = IF NextIsCut THEN "PacketTooShort" ELSE error
      BY <1>1, <3>1, TakeExact, Zenon
    <3> QED BY <3>2, Zenon
  <2>3. CASE \E e \in Range(ParseResults) : SetError(e)
    <3>1. UNCHANGED <<buffer, parsed>>
      BY <2>3, Zenon DEF SetError
    <3> QED BY <2>3, <3>1, Zenon
  <2>4. CASE UNCHANGED <<buffer, parsed, error>>
    BY <2>4, Zenon
  <2> QED BY <1>1, <2>1, <2>2, <2>3, <2>4, Zenon DEF Next, vars, Unparse, Construct, Show
<1>2. ParserInv /\ AllCounted /\ [Next]_vars => [error # "NoError" => Stands]_vars
  BY <1>1, Zenon
<1> QED BY <1>2, ParserInvariant, Counted, PTL DEF Spec, ErrorStopsParsing

===============================================================================
