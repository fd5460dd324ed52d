---------------------------- MODULE ChecksumProofs ----------------------------
(***************************************************************************)
(* Proofs about module Checksum, for bytes of any number of values and any *)
(* number of bytes that cannot overflow the sum.                           *)
(***************************************************************************)
EXTENDS Checksum, Induction

\* A word has at least four values, the sum more.
LEMMA Moduli ==
  /\ Base \in Nat /\ Base >= 2
  /\ WordModulus \in Nat /\ WordModulus >= 4 /\ WordModulus = Base * Base
  /\ SumModulus \in Nat /\ SumModulus # 0
<1>1. Base \in Nat /\ Base >= 2
  BY ChecksumAssumptions
<1>2. WordModulus \in Nat /\ WordModulus >= 4 /\ WordModulus = Base * Base
  BY <1>1 DEF WordModulus
<1>3. SumModulus \in Nat /\ SumModulus # 0
  <2>1. SumModulus = WordModulus * WordModulus
    BY DEF SumModulus
  <2> QED BY <1>2, <2>1
<1> QED BY <1>1, <1>2, <1>3

-----------------------------------------------------------------------------
(***************************************************************************)
(* The loop of value() computes the one's complement sum.                  *)
(***************************************************************************)

\* What is a multiple of d does not count modulo d.
LEMMA ModMultiple ==
  ASSUME NEW d \in Nat, d # 0, NEW a \in Nat, NEW q \in Nat
  PROVE  (d * q + a) % d = a % d
<1> DEFINE r == a % d
           e == a \div d
           n == d * q + a
<1>1. r \in Nat /\ r < d /\ e \in Nat /\ a = d * e + r
  OBVIOUS
<1> HIDE DEF r, e
<1>2. n \in Nat /\ q + e \in Nat
  BY <1>1
<1>3. n = d * (q + e) + r
  BY <1>1
<1> DEFINE m == q + e
<1> HIDE DEF n, m
<1>4. n = d * m + r /\ m \in Nat
  BY <1>2, <1>3 DEF m
<1>5. n % d = r
  BY <1>1, <1>2, <1>4
<1> QED BY <1>5 DEF n, r

\* A one's complement sum is a word; adding the carry to the word keeps it.
LEMMA OnesComplementTurn ==
  ASSUME NEW n \in Nat
  PROVE  /\ OnesComplement(n) \in 0 .. WordModulus - 1
         /\ n < WordModulus => OnesComplement(n) = n
         /\ n >= WordModulus =>
              /\ (n \div WordModulus) + (n % WordModulus) \in Nat
              /\ (n \div WordModulus) + (n % WordModulus) < n
              /\ OnesComplement(n) = OnesComplement((n \div WordModulus) + (n % WordModulus))
<1> DEFINE W == WordModulus
           d == W - 1
           q == n \div W
           m == n % W
<1>1. W \in Nat /\ W >= 4 /\ d \in Nat /\ d # 0 /\ d = W - 1
  BY Moduli
<1>2. n # 0 => OnesComplement(n) = 1 + ((n - 1) % d)
  BY DEF OnesComplement
<1>3. n = 0 => OnesComplement(n) = 0
  BY DEF OnesComplement
<1> HIDE DEF d
<1>4. OnesComplement(n) \in 0 .. W - 1
  <2>1. CASE n = 0
    BY <1>1, <1>3, <2>1
  <2>2. CASE n # 0
    <3>1. n - 1 \in Nat
      BY <2>2
    <3>2. (n - 1) % d \in 0 .. d - 1
      BY <1>1, <3>1
    <3> QED BY <1>1, <1>2, <2>2, <3>2
  <2> QED BY <2>1, <2>2
<1>5. ASSUME n < W PROVE OnesComplement(n) = n
  <2>1. CASE n = 0
    BY <1>3, <2>1
  <2>2. CASE n # 0
    <3>1. n - 1 \in Nat /\ n - 1 < d
      BY <1>1, <1>5, <2>2
    <3>2. (n - 1) % d = n - 1
      BY <1>1, <3>1
    <3> QED BY <1>2, <2>2, <3>2
  <2> QED BY <2>1, <2>2
<1>6. ASSUME n >= W
      PROVE  q + m \in Nat /\ q + m < n /\ OnesComplement(n) = OnesComplement(q + m)
  <2>1. W \in Nat /\ W # 0
    BY <1>1
  <2>2. q \in Nat /\ m \in Nat /\ m < W /\ n = W * q + m
    <3> HIDE DEF W
    <3> QED BY <2>1
  <2> HIDE DEF q, m, W
  <2>3. q # 0
    <3>1. ASSUME q = 0 PROVE FALSE
      <4>1. W * q = 0
        BY <2>1, <3>1
      <4> QED BY <1>6, <2>1, <2>2, <4>1
    <3> QED BY <3>1
  <2>4. W * q = d * q + q
    BY <1>1, <2>2
  <2>5. d * q \in Nat /\ d * q # 0
    BY <1>1, <2>2, <2>3
  <2> DEFINE x == d * q
             a == q + m - 1
  <2>6. n = x + q + m /\ x \in Nat /\ x # 0 /\ a \in Nat
    BY <2>2, <2>3, <2>4, <2>5
  <2>7. n - 1 = x + a /\ q + m < n /\ q + m # 0
    <3> HIDE DEF x
    <3> QED BY <2>2, <2>3, <2>6
  <2>8. (n - 1) % d = a % d
    <3> HIDE DEF a
    <3>1. (d * q + a) % d = a % d
      BY <1>1, <2>2, <2>6, ModMultiple, Zenon
    <3> QED BY <2>7, <3>1
  <2>9. OnesComplement(q + m) = 1 + (a % d)
    BY <2>2, <2>7 DEF OnesComplement, d, W
  <2>10. OnesComplement(n) = 1 + ((n - 1) % d)
    BY <1>2, <2>2, <2>6
  <2> QED BY <2>2, <2>7, <2>8, <2>9, <2>10
<1> QED BY <1>4, <1>5, <1>6

\* The loop of value() ends, with the one's complement sum.
LEMMA FoldIsOnesComplement ==
  ASSUME NEW ret \in Nat
  PROVE  fold(ret) = OnesComplement(ret)
<1> DEFINE W == WordModulus
           Carry(r) == (r \div WordModulus) + (r % WordModulus)
           Body(f) == [r \in Nat |->
                         IF r >= WordModulus
                           THEN f[(r \div WordModulus) + (r % WordModulus)] ELSE r]
           loop == CHOOSE f : f = Body(f)
           g == [r \in Nat |-> OnesComplement(r)]
<1>1. fold(ret) = loop[ret]
  BY DEF fold
<1>2. \A r \in Nat : /\ r < W => OnesComplement(r) = r
                     /\ r >= W => /\ Carry(r) \in Nat /\ Carry(r) < r
                                  /\ OnesComplement(r) = OnesComplement(Carry(r))
  BY OnesComplementTurn
<1>3. W \in Nat
  BY Moduli
<1>4. g = Body(g)
  <2> HIDE DEF Carry
  <2>1. ASSUME NEW r \in Nat PROVE g[r] = IF r >= W THEN g[Carry(r)] ELSE r
    BY <1>2, <1>3
  <2> HIDE DEF g
  <2>2. g = [r \in Nat |-> g[r]]
    BY DEF g
  <2>3. [r \in Nat |-> g[r]] = [r \in Nat |-> IF r >= W THEN g[Carry(r)] ELSE r]
    BY <2>1
  <2> QED BY <2>2, <2>3 DEF Carry
<1>5. loop = Body(loop)
  BY <1>4, Zenon
<1> HIDE DEF loop
<1>6. \A r \in Nat : loop[r] = IF r >= W THEN loop[Carry(r)] ELSE r
  BY <1>5
<1> HIDE DEF Carry, W
<1> DEFINE Wrong == {r \in Nat : loop[r] # OnesComplement(r)}
<1>7. Wrong = {}
  <2> SUFFICES ASSUME Wrong # {} PROVE FALSE
    OBVIOUS
  <2>1. Wrong \subseteq Nat
    OBVIOUS
  <2>2. PICK r \in Wrong : \A s \in Wrong : r <= s
    <3> HIDE DEF Wrong
    <3> QED BY <2>1, Least
  <2>3. r \in Nat /\ loop[r] # OnesComplement(r)
    OBVIOUS
  <2>4. CASE r < W
    BY <1>2, <1>3, <1>6, <2>3, <2>4
  <2>5. CASE r >= W
    <3>1. Carry(r) \in Nat /\ Carry(r) < r /\ OnesComplement(r) = OnesComplement(Carry(r))
      BY <1>2, <2>3, <2>5
    <3>2. Carry(r) \notin Wrong
      BY <2>2, <2>3, <3>1
    <3>3. loop[Carry(r)] = OnesComplement(Carry(r))
      BY <3>1, <3>2
    <3> QED BY <1>6, <2>3, <2>5, <3>1, <3>3
  <2> QED BY <1>3, <2>3, <2>4, <2>5
<1> QED BY <1>1, <1>7

-----------------------------------------------------------------------------
(***************************************************************************)
(* The loop of add() adds up the words, whatever calls the bytes come in.  *)
(***************************************************************************)

\* What the byte at place i adds to the sum, and the sum of them all.
Weight(i, byte) == IF i % 2 = 1 THEN byte * Base ELSE byte
\* The sum of the 16-bit words of the bytes d.
Words(d) == SumSeq([i \in DOMAIN d |-> Weight(i, d[i])])

\* The state of a checksum that began with the sum i0 and was given the bytes d.
StateOf(i0, d) == [sum |-> (i0 + Words(d)) % SumModulus, parity |-> Len(d) % 2 = 1]

\* One more byte adds what it weighs.
LEMMA WordsAppend ==
  ASSUME NEW d \in Seq(Byte), NEW byte \in Byte
  PROVE  /\ Words(d) \in Nat
         /\ Weight(Len(d) + 1, byte) \in Nat
         /\ Words(Append(d, byte)) = Words(d) + Weight(Len(d) + 1, byte)
<1> DEFINE s == [i \in DOMAIN d |-> Weight(i, d[i])]
           e == Append(d, byte)
           t == [i \in DOMAIN e |-> Weight(i, e[i])]
           w == Weight(Len(d) + 1, byte)
<1>1. \A x \in Byte : x \in Nat /\ x * Base \in Nat
  BY Moduli DEF Byte
<1>2. \A i, x \in Nat : x \in Byte => Weight(i, x) \in Nat
  BY <1>1 DEF Weight
<1>3. /\ Len(d) \in Nat /\ DOMAIN d = 1 .. Len(d) /\ DOMAIN e = 1 .. Len(d) + 1
      /\ \A i \in 1 .. Len(d) : d[i] \in Byte /\ e[i] = d[i]
      /\ e[Len(d) + 1] = byte
  OBVIOUS
<1> HIDE DEF e
<1>4. w \in Nat
  BY <1>1, <1>2, <1>3
<1>5. s \in Seq(Nat) /\ Len(s) = Len(d)
  <2>1. \A i \in 1 .. Len(d) : Weight(i, d[i]) \in Nat
    BY <1>1, <1>2, <1>3
  <2> QED BY <1>3, <2>1
<1>6. t = Append(s, w)
  <2>1. Append(s, w) = [i \in 1 .. Len(d) + 1 |-> IF i = Len(d) + 1 THEN w ELSE s[i]]
    BY <1>3, <1>4, <1>5
  <2>2. \A i \in 1 .. Len(d) + 1 : Weight(i, e[i]) = IF i = Len(d) + 1 THEN w ELSE s[i]
    BY <1>3
  <2> HIDE DEF s, w
  <2> QED BY <1>3, <2>1, <2>2
<1>7. SumSeq(s) \in Nat /\ SumSeq(Append(s, w)) = SumSeq(s) + w
  <2> HIDE DEF s, w
  <2> QED BY <1>4, <1>5, SumSeqNat, SumSeqAppend
<1> QED BY <1>4, <1>6, <1>7, Zenon DEF Words, e

\* One turn of the loop takes the state of d to that of d and one more byte.
LEMMA AddByte ==
  ASSUME NEW i0 \in Nat, NEW d \in Seq(Byte), NEW byte \in Byte
  PROVE  add_byte(StateOf(i0, d), byte) = StateOf(i0, Append(d, byte))
<1> DEFINE w == Weight(Len(d) + 1, byte)
           x == i0 + Words(d)
           S == SumModulus
<1>1. Words(d) \in Nat /\ w \in Nat /\ Words(Append(d, byte)) = Words(d) + w
  BY WordsAppend
<1>2. S \in Nat /\ S # 0 /\ x \in Nat
  BY <1>1, Moduli
<1>3. Len(d) \in Nat /\ Len(Append(d, byte)) = Len(d) + 1
  OBVIOUS
<1>4. (Len(d) + 1) % 2 = 1 <=> ~ (Len(d) % 2 = 1)
  BY <1>3
<1>5. w = IF Len(d) % 2 = 1 THEN byte ELSE byte * Base
  BY <1>4 DEF Weight
<1>6. ((x % S) + w) % S = (x + w) % S
  <2> DEFINE r == x % S
             q == x \div S
  <2>1. r \in Nat /\ q \in Nat /\ x = S * q + r
    <3> HIDE DEF x, S
    <3> QED BY <1>2
  <2> DEFINE a == r + w
  <2>2. a \in Nat /\ x + w = S * q + a
    <3> HIDE DEF x, w, r, q
    <3> DEFINE y == S * q
    <3>1. y \in Nat
      BY <1>2, <2>1
    <3>2. x = y + r
      BY <2>1
    <3> HIDE DEF y
    <3>3. x + w = y + a
      BY <1>1, <2>1, <3>1, <3>2
    <3> QED BY <1>1, <2>1, <3>3 DEF y
  <2> HIDE DEF x, w, S, q, a
  <2>3. (S * q + a) % S = a % S
    BY <1>2, <2>1, <2>2, ModMultiple, Zenon
  <2> QED BY <2>2, <2>3 DEF a
<1>7. i0 + Words(Append(d, byte)) = x + w
  BY <1>1
<1> HIDE DEF w
<1>8. StateOf(i0, Append(d, byte)) = [sum |-> (x + w) % S, parity |-> (Len(d) + 1) % 2 = 1]
  BY <1>3, <1>7 DEF StateOf
<1>9. add_byte(StateOf(i0, d), byte) = [sum |-> ((x % S) + w) % S, parity |-> ~ (Len(d) % 2 = 1)]
  BY <1>5, Zenon DEF StateOf, add_byte
<1> QED BY <1>4, <1>6, <1>8, <1>9

\* The loop takes the state of d to that of d and all the bytes of the call.
LEMMA AddBytes ==
  ASSUME NEW i0 \in Nat, NEW d \in Seq(Byte), NEW bytes \in Seq(Byte)
  PROVE  add_bytes(StateOf(i0, d), bytes) = StateOf(i0, d \o bytes)
<1> DEFINE N == Len(bytes)
           st == StateOf(i0, d)
           Before(i) == d \o SubSeq(bytes, 1, i)
           Body(f) == [i \in 0 .. Len(bytes) |-> IF i = 0 THEN st ELSE add_byte(f[i - 1], bytes[i])]
           loop == CHOOSE f : f = Body(f)
           g == [i \in 0 .. N |-> StateOf(i0, Before(i))]
<1>1. add_bytes(st, bytes) = loop[N]
  BY DEF add_bytes
<1>2. N \in Nat
  OBVIOUS
<1>3. \A i \in 0 .. N : Before(i) \in Seq(Byte)
  <2>1. \A i \in 0 .. N : SubSeq(bytes, 1, i) \in Seq(Byte)
    BY <1>2, SplitSeq
  <2> QED BY <2>1
<1>4. Before(0) = d /\ Before(N) = d \o bytes
  <2>1. SubSeq(bytes, 1, 0) = <<>> /\ SubSeq(bytes, 1, N) = bytes
    BY <1>2, SubSeqEmpty, SubSeqFull
  <2> QED BY <2>1, ConcatEmptySeq
<1>5. ASSUME NEW i \in 1 .. N PROVE i - 1 \in 0 .. N /\ bytes[i] \in Byte /\ Before(i) = Append(Before(i - 1), bytes[i])
  <2> DEFINE a == SubSeq(bytes, 1, i - 1)
             b == bytes[i]
  <2>1. i - 1 \in 0 .. N /\ b \in Byte /\ i \in Nat /\ i <= N
    BY <1>2
  <2>2. a \in Seq(Byte) /\ Len(a) = i - 1
    BY <2>1, SplitSeq
  <2>3. SubSeq(bytes, 1, i) = Append(a, b)
    BY <2>1
  <2> HIDE DEF a, b
  <2>4. d \o Append(a, b) = Append(d \o a, b)
    BY <2>1, <2>2
  <2> QED BY <2>1, <2>3, <2>4 DEF a, b
<1> HIDE DEF Before, st
<1>6. ASSUME NEW i \in 0 .. N PROVE g[i] = IF i = 0 THEN st ELSE add_byte(g[i - 1], bytes[i])
  <2>1. CASE i = 0
    BY <1>4, <2>1 DEF st
  <2>2. CASE i # 0
    <3>1. i \in 1 .. N /\ i - 1 \in 0 .. N
      BY <1>2, <2>2
    <3>2. Before(i - 1) \in Seq(Byte) /\ bytes[i] \in Byte /\ Before(i) = Append(Before(i - 1), bytes[i])
      BY <1>3, <1>5, <3>1
    <3>3. add_byte(StateOf(i0, Before(i - 1)), bytes[i]) = StateOf(i0, Append(Before(i - 1), bytes[i]))
      BY <3>2, AddByte
    <3> QED BY <2>2, <3>1, <3>2, <3>3, Zenon
  <2> QED BY <2>1, <2>2
<1>7. g = Body(g)
  <2>1. g = [i \in 0 .. N |-> g[i]]
    OBVIOUS
  <2> HIDE DEF g
  <2>2. [i \in 0 .. N |-> g[i]] = [i \in 0 .. N |-> IF i = 0 THEN st ELSE add_byte(g[i - 1], bytes[i])]
    BY <1>6
  <2> QED BY <2>1, <2>2, Zenon
<1>8. loop = Body(loop)
  BY <1>7, Zenon
<1> HIDE DEF loop, g
<1>9. \A i \in 0 .. N : loop[i] = IF i = 0 THEN st ELSE add_byte(loop[i - 1], bytes[i])
  BY <1>8, Zenon
<1> DEFINE T == {i \in 0 .. N : loop[i] = g[i]}
<1>10. 0 .. N \subseteq T
  <2>1. 0 \in T
    BY <1>2, <1>6, <1>9
  <2>2. ASSUME NEW i \in 1 .. N, i - 1 \in T PROVE i \in T
    <3>1. i \in 0 .. N /\ i # 0 /\ loop[i - 1] = g[i - 1]
      BY <1>2, <2>2
    <3>2. loop[i] = g[i]
      BY <1>6, <1>9, <3>1
    <3> QED BY <3>1, <3>2
  <2> HIDE DEF T, N
  <2> QED BY <1>2, <2>1, <2>2, UpTo, Zenon
<1>11. loop[N] = g[N]
  BY <1>2, <1>10
<1>12. g[N] = StateOf(i0, Before(N))
  BY <1>2 DEF g
<1>13. add_bytes(st, bytes) = StateOf(i0, d \o bytes)
  BY <1>1, <1>4, <1>11, <1>12
<1> QED BY <1>13 DEF st

-----------------------------------------------------------------------------
(***************************************************************************)
(* The bytes weigh at most all ones for every word begun.                  *)
(***************************************************************************)

\* The most that n bytes weigh.
MostWords(n) == (n \div 2) * (WordModulus - 1) + (IF n % 2 = 1 THEN (Base - 1) * Base ELSE 0)

\* One more byte weighs no more than the bound gains.
LEMMA MostWordsNext ==
  ASSUME NEW n \in Nat, NEW byte \in Byte
  PROVE  /\ MostWords(n) \in Nat
         /\ MostWords(n) + Weight(n + 1, byte) <= MostWords(n + 1)
<1> DEFINE h == n \div 2
           W1 == WordModulus - 1
           B1 == (Base - 1) * Base
<1>1. Base \in Nat /\ Base >= 2 /\ byte \in Nat /\ byte <= Base - 1
  BY Moduli DEF Byte
<1>2. B1 \in Nat /\ W1 \in Nat /\ W1 = B1 + (Base - 1)
  <2>1. WordModulus = Base * Base
    BY Moduli
  <2> QED BY <1>1, <2>1
<1>3. h \in Nat /\ h * W1 \in Nat /\ (h + 1) * W1 = h * W1 + W1
  <2>1. h \in Nat
    OBVIOUS
  <2> HIDE DEF h, W1
  <2> QED BY <1>2, <2>1
<1>4. byte * Base <= B1 /\ byte * Base \in Nat
  BY <1>1
<1> DEFINE w == byte * Base
           x == h * W1
<1>5. CASE n % 2 = 0
  <2>1. (n + 1) % 2 = 1 /\ (n + 1) \div 2 = h
    BY <1>5
  <2>2. MostWords(n) = x /\ MostWords(n + 1) = x + B1 /\ Weight(n + 1, byte) = w
    <3>1. MostWords(n) = x + 0
      BY <1>5 DEF MostWords
    <3>2. MostWords(n + 1) = x + B1
      BY <2>1 DEF MostWords
    <3>3. Weight(n + 1, byte) = w
      BY <2>1 DEF Weight
    <3> HIDE DEF x, w, B1
    <3> QED BY <1>3, <3>1, <3>2, <3>3 DEF x
  <2> HIDE DEF x, w, B1, W1, h
  <2> QED BY <1>2, <1>3, <1>4, <2>2 DEF x, w
<1>6. CASE n % 2 = 1
  <2>1. (n + 1) % 2 = 0 /\ (n + 1) \div 2 = h + 1
    BY <1>6
  <2>2. MostWords(n) = x + B1 /\ MostWords(n + 1) = x + W1 + 0 /\ Weight(n + 1, byte) = byte
    <3>1. MostWords(n) = x + B1
      BY <1>6 DEF MostWords
    <3>2. MostWords(n + 1) = (h + 1) * W1 + 0
      BY <2>1 DEF MostWords
    <3>3. Weight(n + 1, byte) = byte
      BY <2>1 DEF Weight
    <3> HIDE DEF B1, W1, h
    <3> QED BY <1>3, <3>1, <3>2, <3>3
  <2> HIDE DEF B1, W1, h
  <2>3. x \in Nat
    BY <1>3
  <2> HIDE DEF x
  <2> QED BY <1>1, <1>2, <2>2, <2>3
<1>7. n % 2 = 0 \/ n % 2 = 1
  OBVIOUS
<1> QED BY <1>5, <1>6, <1>7

\* The bytes weigh no more than the most.
LEMMA WordsBound ==
  ASSUME NEW d \in Seq(Byte)
  PROVE  Words(d) \in Nat /\ Words(d) <= MostWords(Len(d))
<1> DEFINE T == {u \in Seq(Byte) : Words(u) \in Nat /\ Words(u) <= MostWords(Len(u))}
<1>1. <<>> \in T
  <2>1. Words(<<>>) = 0
    <3>1. [i \in DOMAIN <<>> |-> Weight(i, <<>>[i])] = <<>>
      OBVIOUS
    <3> QED BY <3>1, SumSeqEmpty DEF Words
  <2>2. 0 \in Byte
    BY Moduli DEF Byte
  <2>3. MostWords(0) \in Nat
    BY <2>2, MostWordsNext
  <2> QED BY <2>1, <2>3
<1>2. ASSUME NEW u \in Seq(Byte), NEW byte \in Byte, u \in T PROVE Append(u, byte) \in T
  <2> DEFINE v == Append(u, byte)
             n == Len(u)
             w == Weight(n + 1, byte)
  <2>1. v \in Seq(Byte) /\ Len(v) = n + 1 /\ n \in Nat
    OBVIOUS
  <2>2. Words(u) \in Nat /\ w \in Nat /\ Words(v) = Words(u) + w
    BY WordsAppend
  <2>3. Words(u) <= MostWords(n)
    BY <1>2
  <2> HIDE DEF v, n, w
  <2>4. MostWords(n) \in Nat /\ MostWords(n) + w <= MostWords(n + 1)
    BY <2>1, MostWordsNext, Zenon DEF w
  <2>5. MostWords(n + 1) \in Nat
    BY <2>1, MostWordsNext
  <2>6. Words(v) \in Nat /\ Words(v) <= MostWords(Len(v))
    BY <2>1, <2>2, <2>3, <2>4, <2>5
  <2>7. v \in T
    BY <2>1, <2>6
  <2> QED BY <2>7 DEF v
<1> HIDE DEF T
<1>3. Seq(Byte) \subseteq T
  BY <1>1, <1>2, SeqInduction
<1> QED BY <1>3 DEF T

\* When the bytes cannot overflow the sum, it is exact.
LEMMA SumIsExact ==
  ASSUME NoOverflow, NEW i0 \in InitialSums, NEW d \in Seq(Byte), Len(d) <= MaxBytes
  PROVE  i0 + Words(d) \in Nat /\ StateOf(i0, d).sum = i0 + Words(d)
<1> DEFINE n == Len(d)
           h == (n + 1) \div 2
           H == (MaxBytes + 1) \div 2
           W1 == WordModulus - 1
           B1 == (Base - 1) * Base
<1>1. n \in Nat /\ MaxBytes \in Nat /\ n <= MaxBytes /\ i0 \in Nat
  BY ChecksumAssumptions, Moduli
<1>2. h \in Nat /\ H \in Nat /\ h <= H
  BY <1>1
<1>3. W1 \in Nat /\ B1 \in Nat /\ B1 <= W1
  <2>1. Base \in Nat /\ Base >= 2 /\ WordModulus = Base * Base
    BY Moduli
  <2> QED BY <2>1
<1>4. h * W1 \in Nat /\ H * W1 \in Nat /\ h * W1 <= H * W1
  <2> HIDE DEF h, H, W1
  <2>1. h * W1 <= H * W1
    BY <1>2, <1>3
  <2> QED BY <1>2, <1>3, <2>1
<1>5. MostWords(n) <= h * W1
  <2>1. CASE n % 2 = 0
    <3>1. n \div 2 = h
      BY <1>1, <2>1
    <3>2. MostWords(n) = h * W1 + 0
      BY <2>1, <3>1 DEF MostWords
    <3> HIDE DEF h, W1
    <3> QED BY <1>4, <3>2
  <2>2. CASE n % 2 = 1
    <3> DEFINE k == n \div 2
    <3>1. k \in Nat /\ h = k + 1
      BY <1>1, <2>2
    <3>2. MostWords(n) = k * W1 + B1
      BY <2>2 DEF MostWords
    <3> HIDE DEF k, h, W1, B1
    <3>3. h * W1 = k * W1 + W1 /\ k * W1 \in Nat
      BY <1>3, <3>1
    <3> DEFINE x == k * W1
    <3>4. h * W1 = x + W1 /\ x \in Nat /\ MostWords(n) = x + B1
      BY <3>2, <3>3
    <3> HIDE DEF x
    <3> QED BY <1>3, <3>4
  <2>3. n % 2 = 0 \/ n % 2 = 1
    BY <1>1
  <2> QED BY <2>1, <2>2, <2>3
<1>6. Words(d) \in Nat /\ Words(d) <= MostWords(n) /\ MostWords(n) \in Nat
  <2>1. 0 \in Byte
    BY Moduli DEF Byte
  <2> QED BY <1>1, <2>1, WordsBound, MostWordsNext
<1>7. i0 + H * W1 < SumModulus
  BY DEF NoOverflow
<1> DEFINE x == i0 + Words(d)
<1>8. x \in Nat /\ x < SumModulus /\ SumModulus \in Nat
  <2> DEFINE y == h * W1
             z == H * W1
  <2>1. y \in Nat /\ z \in Nat /\ y <= z /\ MostWords(n) <= y /\ i0 + z < SumModulus /\ SumModulus \in Nat
    BY <1>4, <1>5, <1>7, Moduli
  <2> HIDE DEF y, z, n
  <2> QED BY <1>1, <1>6, <2>1
<1> HIDE DEF x
<1>9. x % SumModulus = x
  BY <1>8
<1> QED BY <1>8, <1>9 DEF StateOf, x

-----------------------------------------------------------------------------
(***************************************************************************)
(* The invariant, and what value() returns.                                *)
(***************************************************************************)

\* The inductive invariant: the sum and the parity are those of all bytes added
\* so far, however they were split.
ChecksumInv ==
  /\ initial \in InitialSums
  /\ data \in Seq(Byte)
  /\ Len(data) <= MaxBytes
  /\ [sum |-> sum, parity |-> parity] = StateOf(initial, data)

\* The initial state.
LEMMA ChecksumInvInit == Init => ChecksumInv
<1> SUFFICES ASSUME Init PROVE ChecksumInv
  OBVIOUS
<1>1. initial \in InitialSums /\ sum = initial /\ parity = FALSE /\ data = <<>>
  BY DEF Init
<1>2. data \in Seq(Byte) /\ Len(data) = 0 /\ MaxBytes \in Nat
  BY <1>1, ChecksumAssumptions
<1>3. initial \in Nat /\ initial < SumModulus /\ SumModulus \in Nat
  BY <1>1, ChecksumAssumptions, Moduli
<1>4. Words(data) = 0
  <2>1. [i \in DOMAIN data |-> Weight(i, data[i])] = <<>>
    BY <1>1
  <2> QED BY <2>1, SumSeqEmpty DEF Words
<1>5. (initial + Words(data)) % SumModulus = initial
  <2>1. initial + 0 = initial /\ initial % SumModulus = initial
    BY <1>3
  <2> QED BY <1>4, <2>1
<1>6. (Len(data) % 2 = 1) = FALSE
  BY <1>2
<1>7. [sum |-> sum, parity |-> parity] = StateOf(initial, data)
  BY ONLY <1>1, <1>5, <1>6, Zenon DEF StateOf
<1>8. 0 <= MaxBytes
  BY <1>2
<1> QED BY <1>1, <1>2, <1>7, <1>8 DEF ChecksumInv

\* Every call of add() keeps the invariant.
LEMMA ChecksumInvNext == ChecksumInv /\ [Next]_vars => ChecksumInv'
<1> SUFFICES ASSUME ChecksumInv, [Next]_vars PROVE ChecksumInv'
  OBVIOUS
<1>1. CASE UNCHANGED vars
  BY <1>1 DEF ChecksumInv, vars
<1>2. ASSUME NEW n \in 1 .. MaxChunk, NEW bytes \in [1 .. n -> Byte], Add(bytes)
      PROVE  ChecksumInv'
  <2> DEFINE s == add_bytes([sum |-> sum, parity |-> parity], bytes)
             t == StateOf(initial, data \o bytes)
  <2>1. bytes \in Seq(Byte)
    BY ChecksumAssumptions
  <2>2. initial \in Nat /\ data \in Seq(Byte)
    BY ChecksumAssumptions, Moduli DEF ChecksumInv
  <2>3. s = t
    BY <2>1, <2>2, AddBytes DEF ChecksumInv
  <2>4. /\ sum' = s.sum /\ parity' = s.parity /\ data' = data \o bytes /\ initial' = initial
        /\ Len(data) + Len(bytes) <= MaxBytes
    BY <1>2 DEF Add
  <2>5. data' \in Seq(Byte) /\ Len(data') <= MaxBytes
    BY <2>1, <2>2, <2>4
  <2>6. t = [sum |-> t.sum, parity |-> t.parity]
    BY DEF StateOf
  <2>7. [sum |-> sum', parity |-> parity'] = StateOf(initial', data')
    <3> HIDE DEF s
    <3>1. t = StateOf(initial', data')
      BY <2>4
    <3> HIDE DEF t
    <3> QED BY <2>3, <2>4, <2>6, <3>1
  <2> QED BY <2>4, <2>5, <2>7 DEF ChecksumInv
<1> QED BY <1>1, <1>2 DEF Next

\* However the bytes are split into calls, _sum is the sum of the words up to its
\* width and _parity tells whether a word is half full.
THEOREM ChecksumInvariant == Spec => []ChecksumInv
<1> QED BY ChecksumInvInit, ChecksumInvNext, PTL DEF Spec

\* The sum of the invariant is the reference's.
LEMMA ExactSumIs == ExactSum(data) = initial + Words(data)
BY DEF ExactSum, Words, Weight

\* A sum and the complement of its one's complement sum have the one's complement
\* sum all ones.
LEMMA ComplementCompletes ==
  ASSUME NEW E \in Nat, NEW c \in Nat, c = WordModulus - 1 - OnesComplement(E)
  PROVE  OnesComplement(E + c) = WordModulus - 1
<1> DEFINE W == WordModulus
           d == W - 1
<1>1. W \in Nat /\ W >= 4 /\ d \in Nat /\ d >= 3 /\ W = d + 1
  BY Moduli
<1> HIDE DEF d
<1>2. CASE E = 0
  <2>1. OnesComplement(E) = 0
    BY <1>2 DEF OnesComplement
  <2>2. E + c = W - 1 /\ W - 1 \in Nat /\ W - 1 < W
    BY <1>1, <1>2, <2>1
  <2> QED BY <2>2, OnesComplementTurn
<1>3. CASE E # 0
  <2> DEFINE m == (E - 1) % d
             q == (E - 1) \div d
  <2>1. OnesComplement(E) = 1 + m
    BY <1>3 DEF OnesComplement, d
  <2>2. E - 1 \in Nat
    BY <1>3
  <2>3. m \in Nat /\ q \in Nat /\ E - 1 = d * q + m
    BY <1>1, <2>2
  <2> HIDE DEF m, q
  <2> DEFINE x == d * q
             a == d - 1
  <2>4. x \in Nat /\ a \in Nat /\ a < d
    BY <1>1, <2>3
  <2>5. c = d - (1 + m)
    BY <1>1, <2>1 DEF W
  <2>6. E + c = x + d /\ (E + c) - 1 = x + a /\ E + c # 0
    <3>1. E - 1 = x + m
      BY <2>3
    <3> HIDE DEF x
    <3> QED BY <1>1, <2>3, <2>4, <2>5, <3>1
  <2>7. ((E + c) - 1) % d = a
    <3> HIDE DEF a
    <3>1. (d * q + a) % d = a % d
      BY <1>1, <2>3, <2>4, ModMultiple
    <3>2. a % d = a
      BY <1>1, <2>4
    <3> QED BY <2>6, <3>1, <3>2
  <2>8. OnesComplement(E + c) = 1 + (((E + c) - 1) % d)
    BY <2>6 DEF OnesComplement, d
  <2> QED BY <1>1, <2>4, <2>7, <2>8
<1> QED BY <1>2, <1>3

\* With no more bytes than the sum can hold, value() is the Internet checksum of the
\* bytes, however they are split into calls of add().
THEOREM ChecksumCorrect ==
  ASSUME NoOverflow
  PROVE  Spec => []ValueIsInternetChecksum
<1>1. ASSUME ChecksumInv PROVE ValueIsInternetChecksum
  <2> DEFINE E == initial + Words(data)
  <2>1. E \in Nat /\ sum = E
    <3>1. E \in Nat /\ StateOf(initial, data).sum = E
      BY <1>1, SumIsExact DEF ChecksumInv
    <3>2. [sum |-> sum, parity |-> parity].sum = StateOf(initial, data).sum
      BY <1>1 DEF ChecksumInv
    <3> QED BY <3>1, <3>2
  <2>2. fold(sum) = OnesComplement(E)
    BY <2>1, FoldIsOnesComplement
  <2> QED BY <2>2, ExactSumIs DEF ValueIsInternetChecksum, value
<1>2. ChecksumInv => ValueIsInternetChecksum
  BY <1>1
<1> QED BY <1>2, ChecksumInvariant, PTL

\* With no more bytes than the sum can hold, a segment that carries its checksum has
\* the value zero.
THEOREM ChecksumVerifies ==
  ASSUME NoOverflow
  PROVE  Spec => []CorrectSegmentGivesZero
<1>1. ASSUME ChecksumInv, Len(data) % 2 = 0, Len(data) + 2 <= MaxBytes
      PROVE  LET c == value(sum)
                 s == add_bytes([sum |-> sum, parity |-> parity], <<c \div Base, c % Base>>)
             IN  value(s.sum) = 0
  <2> DEFINE E == initial + Words(data)
             c == value(sum)
             hi == c \div Base
             lo == c % Base
             w == <<hi, lo>>
             d1 == Append(data, hi)
             d2 == Append(d1, lo)
             s == add_bytes([sum |-> sum, parity |-> parity], w)
  <2>1. initial \in InitialSums /\ initial \in Nat /\ data \in Seq(Byte) /\ MaxBytes \in Nat /\ Len(data) \in Nat
    BY <1>1, ChecksumAssumptions, Moduli DEF ChecksumInv
  <2>2. E \in Nat /\ sum = E
    <3>1. E \in Nat /\ StateOf(initial, data).sum = E
      BY <1>1, SumIsExact DEF ChecksumInv
    <3>2. [sum |-> sum, parity |-> parity].sum = StateOf(initial, data).sum
      BY <1>1 DEF ChecksumInv
    <3> QED BY <3>1, <3>2
  <2>3. c = WordModulus - 1 - OnesComplement(E) /\ c \in Nat /\ c < Base * Base
    <3>1. OnesComplement(E) \in 0 .. WordModulus - 1 /\ fold(sum) = OnesComplement(E)
      BY <2>2, FoldIsOnesComplement, OnesComplementTurn
    <3> QED BY <3>1, Moduli DEF value
  <2> HIDE DEF c, E
  <2>4. hi \in Byte /\ lo \in Byte /\ hi * Base + lo = c
    <3>1. Base \in Nat /\ Base >= 2
      BY Moduli
    <3>2. hi \in Nat /\ lo \in 0 .. Base - 1 /\ c = Base * hi + lo
      <4>1. c \in Nat /\ Base # 0
        BY <2>3, <3>1
      <4> QED BY ONLY <3>1, <4>1
    <3> HIDE DEF hi, lo
    <3>3. hi < Base
      <4>1. ASSUME hi >= Base PROVE FALSE
        <5>1. Base * hi >= Base * Base
          BY <3>1, <3>2, <4>1
        <5> QED BY <2>3, <3>1, <3>2, <5>1
      <4> QED BY <3>1, <3>2, <4>1
    <3>4. hi * Base = Base * hi
      BY <3>1, <3>2
    <3> QED BY <3>1, <3>2, <3>3, <3>4 DEF Byte
  <2> HIDE DEF hi, lo
  <2>5. w \in Seq(Byte) /\ d1 \in Seq(Byte) /\ Len(d1) = Len(data) + 1 /\ d2 \in Seq(Byte)
        /\ Len(d2) = Len(data) + 2 /\ data \o w = d2
    BY <2>1, <2>4
  <2>6. Words(d2) = Words(data) + c /\ Words(data) \in Nat
    <3>1. Words(d1) = Words(data) + Weight(Len(data) + 1, hi) /\ Words(data) \in Nat
      BY <2>1, <2>4, WordsAppend
    <3>2. Words(d2) = Words(d1) + Weight(Len(d1) + 1, lo)
      <4> HIDE DEF d1
      <4> QED BY <2>4, <2>5, WordsAppend
    <3>3. (Len(data) + 1) % 2 = 1 /\ (Len(d1) + 1) % 2 = 0
      BY <1>1, <2>1, <2>5
    <3>4. Weight(Len(data) + 1, hi) = hi * Base /\ Weight(Len(d1) + 1, lo) = lo
      BY <3>3 DEF Weight
    <3>5. hi * Base \in Nat /\ lo \in Nat
      BY <2>4, Moduli DEF Byte
    <3> HIDE DEF d1, d2
    <3> QED BY <2>4, <3>1, <3>2, <3>4, <3>5
  <2>7. s.sum = E + c
    <3>1. s = StateOf(initial, data \o w)
      <4> HIDE DEF w
      <4>1. add_bytes(StateOf(initial, data), w) = StateOf(initial, data \o w)
        BY <2>1, <2>5, AddBytes, Zenon
      <4>2. [sum |-> sum, parity |-> parity] = StateOf(initial, data)
        BY <1>1 DEF ChecksumInv
      <4> QED BY ONLY <4>1, <4>2
    <3>2. s.sum = StateOf(initial, d2).sum
      BY <2>5, <3>1, Zenon
    <3> HIDE DEF d2, s
    <3>3. StateOf(initial, d2).sum = initial + Words(d2)
      BY <1>1, <2>1, <2>5, SumIsExact
    <3> QED BY <2>1, <2>3, <2>6, <3>2, <3>3 DEF E
  <2>8. fold(E + c) = WordModulus - 1
    <3>1. E + c \in Nat
      BY <2>2, <2>3
    <3> QED BY <2>2, <2>3, <3>1, FoldIsOnesComplement, ComplementCompletes
  <2>9. value(s.sum) = 0
    <3> HIDE DEF s
    <3>1. (WordModulus - 1) - (WordModulus - 1) = 0
      BY Moduli
    <3> QED BY <2>7, <2>8, <3>1 DEF value
  <2> QED BY <2>9 DEF c, hi, lo
<1>2. ChecksumInv => CorrectSegmentGivesZero
  BY <1>1 DEF CorrectSegmentGivesZero
<1> QED BY <1>2, ChecksumInvariant, PTL

===============================================================================
