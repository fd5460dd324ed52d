------------------------------ MODULE Induction ------------------------------
(***************************************************************************)
(* Induction over the naturals and over sequences, and what the recursive  *)
(* functions that model the loops of the code compute.                     *)
(*                                                                         *)
(* Induction is stated with sets, and recursion with functions, in the     *)
(* place of predicates and operators: a set that contains 0 and is closed  *)
(* under successor contains every natural number.  Both rest on the fact   *)
(* that < is well founded on Nat.                                          *)
(***************************************************************************)
EXTENDS Loops, SequenceTheorems, WellFoundedInduction, TLAPS

\* Every set of naturals that is not empty has a least element.
LEMMA Least ==
  ASSUME NEW T \in SUBSET Nat, T # {}
  PROVE  \E x \in T : \A y \in T : x <= y
<1> DEFINE R == OpToRel(<, Nat)
<1>1. IsWellFoundedOn(R, Nat)
  BY NatLessThanWellFounded, Zenon
<1> HIDE DEF R
<1>2. PICK x \in T : \A y \in T : ~ (<<y, x>> \in R)
  BY <1>1, WFMin, Zenon
<1>3. \A y \in Nat : y < x => <<y, x>> \in R
  BY DEF R, OpToRel
<1>4. \A y \in T : ~ (y < x)
  BY <1>2, <1>3, Zenon
<1>5. \A y \in T : x <= y
  BY <1>4
<1> QED
  BY <1>5

\* Induction over the naturals.
LEMMA SetInduction ==
  ASSUME NEW T, 0 \in T, \A n \in Nat : n \in T => n + 1 \in T
  PROVE  Nat \subseteq T
<1> DEFINE U == Nat \ T
<1>1. SUFFICES ASSUME U # {} PROVE FALSE
  OBVIOUS
<1>2. PICK x \in U : \A y \in U : x <= y
  BY <1>1, Least, Zenon
<1>3. x \in Nat /\ x # 0
  OBVIOUS
<1>4. x - 1 \in Nat /\ x - 1 \notin U /\ (x - 1) + 1 = x
  BY <1>2, <1>3
<1> QED
  BY <1>4, <1>2

\* f[n] is what n applications of the steps st make of a.
Iterates(f, a, st) == f[0] = a /\ \A n \in Nat : f[n + 1] = st[n][f[n]]

\* A function on the naturals may be defined by its first value and by each
\* next value in terms of the one before.
LEMMA Recursion ==
  ASSUME NEW V, NEW a \in V, NEW st \in [Nat -> [V -> V]]
  PROVE  \E f \in [Nat -> V] : Iterates(f, a, st)
<1> DEFINE
   Upto(n, f) == f \in [0 .. n -> V] /\ f[0] = a /\ \A i \in 0 .. n - 1 : f[i + 1] = st[i][f[i]]
   T == {n \in Nat : \E f : Upto(n, f)}
<1>1. 0 \in T
  <2>1. Upto(0, [i \in 0 .. 0 |-> a])
    OBVIOUS
  <2> QED BY <2>1, Zenon
<1>2. ASSUME NEW n \in Nat, n \in T PROVE n + 1 \in T
  <2>1. PICK f : Upto(n, f)
    BY <1>2
  <2> DEFINE g == [i \in 0 .. n + 1 |-> IF i = n + 1 THEN st[n][f[n]] ELSE f[i]]
  <2>2. Upto(n + 1, g)
    BY <2>1
  <2> HIDE DEF Upto, g
  <2> QED BY <2>2
<1>3. Nat \subseteq T
  <2> HIDE DEF T
  <2> QED BY <1>1, <1>2, SetInduction
<1>4. ASSUME NEW m \in Nat, NEW n \in Nat, NEW f, NEW g, Upto(m, f), Upto(n, g), m <= n
      PROVE  \A i \in 0 .. m : f[i] = g[i]
  <2> DEFINE U == {i \in Nat : i <= m => f[i] = g[i]}
  <2>1. 0 \in U
    BY <1>4
  <2>2. \A i \in Nat : i \in U => i + 1 \in U
    BY <1>4
  <2>3. Nat \subseteq U
    <3> HIDE DEF U
    <3> QED BY <2>1, <2>2, SetInduction
  <2> QED BY <2>3
<1> DEFINE F == [n \in Nat |-> CHOOSE f : Upto(n, f)]
<1>5. \A n \in Nat : Upto(n, F[n])
  <2> SUFFICES ASSUME NEW n \in Nat PROVE Upto(n, F[n])
    BY Zenon
  <2>1. \E f : Upto(n, f)
    BY <1>3
  <2> HIDE DEF Upto
  <2> QED BY <2>1
<1> DEFINE f == [n \in Nat |-> F[n][n]]
<1>6. f \in [Nat -> V] /\ f[0] = a
  <2> HIDE DEF F
  <2> QED BY <1>5
<1>7. ASSUME NEW n \in Nat PROVE f[n + 1] = st[n][f[n]]
  <2>1. Upto(n, F[n]) /\ Upto(n + 1, F[n + 1])
    <3> HIDE DEF Upto, F
    <3> QED BY <1>5
  <2>2. F[n][n] = F[n + 1][n]
    <3> HIDE DEF Upto, F
    <3> QED BY <1>4, <2>1
  <2>3. F[n + 1][n + 1] = st[n][F[n + 1][n]]
    <3> HIDE DEF F
    <3> QED BY <2>1
  <2> HIDE DEF F
  <2> QED BY <2>2, <2>3
<1> QED BY <1>6, <1>7, Zenon DEF Iterates

\* f[i] is the state of a loop that starts from a after i turns, turn i doing
\* st[i].
IsLoop(f, N, a, st) == f[0] = a /\ \A i \in 1 .. N : f[i] = st[i][f[i - 1]]

\* The same for the turns of a loop: f[i] is its state after i turns.
LEMMA LoopExists ==
  ASSUME NEW V, NEW a \in V, NEW N \in Nat, NEW st \in [1 .. N -> [V -> V]]
  PROVE  \E f \in [0 .. N -> V] : IsLoop(f, N, a, st)
<1> DEFINE step == [n \in Nat |-> IF n + 1 \in 1 .. N THEN st[n + 1] ELSE [v \in V |-> v]]
<1>1. step \in [Nat -> [V -> V]]
  OBVIOUS
<1>2. PICK g \in [Nat -> V] : Iterates(g, a, step)
  <2> HIDE DEF step
  <2> QED BY <1>1, Recursion, Zenon
<1> DEFINE f == [i \in 0 .. N |-> g[i]]
<1>3. ASSUME NEW i \in 0 .. N PROVE f[i] = IF i = 0 THEN a ELSE st[i][f[i - 1]]
  <2>1. CASE i = 0
    BY <1>2, <2>1 DEF Iterates
  <2>2. CASE i # 0
    <3>1. i - 1 \in Nat /\ (i - 1) + 1 = i /\ i - 1 \in 0 .. N
      BY <2>2
    <3>2. step[i - 1] = st[i]
      BY <2>2, <3>1
    <3>3. g[(i - 1) + 1] = step[i - 1][g[i - 1]]
      BY <1>2, <3>1, Zenon DEF Iterates
    <3> QED BY <2>2, <3>1, <3>2, <3>3
  <2> QED BY <2>1, <2>2
<1>4. f \in [0 .. N -> V]
  OBVIOUS
<1>5. f[0] = a /\ \A i \in 1 .. N : f[i] = st[i][f[i - 1]]
  <2> HIDE DEF f
  <2> QED BY <1>3
<1> QED BY <1>4, <1>5, Zenon DEF IsLoop

\* Induction up to a bound.
LEMMA UpTo ==
  ASSUME NEW N \in Nat, NEW T, 0 \in T, \A i \in 1 .. N : i - 1 \in T => i \in T
  PROVE  0 .. N \subseteq T
<1> DEFINE U == {i \in Nat : i <= N => i \in T}
<1>1. 0 \in U
  OBVIOUS
<1>2. ASSUME NEW i \in Nat, i \in U PROVE i + 1 \in U
  <2>1. CASE i + 1 <= N
    <3>1. i + 1 \in 1 .. N /\ (i + 1) - 1 = i /\ i \in T
      BY <1>2, <2>1
    <3> QED BY <3>1
  <2> QED BY <2>1
<1>3. Nat \subseteq U
  <2> HIDE DEF U
  <2> QED BY <1>1, <1>2, SetInduction
<1> QED BY <1>3

\* Induction over sequences.
LEMMA SeqInduction ==
  ASSUME NEW S, NEW T, <<>> \in T, \A s \in Seq(S) : \A x \in S : s \in T => Append(s, x) \in T
  PROVE  Seq(S) \subseteq T
<1> DEFINE U == {n \in Nat : \A s \in Seq(S) : Len(s) = n => s \in T}
<1>1. 0 \in U
  OBVIOUS
<1>2. ASSUME NEW n \in Nat, n \in U PROVE n + 1 \in U
  <2>1. SUFFICES ASSUME NEW s \in Seq(S), Len(s) = n + 1 PROVE s \in T
    OBVIOUS
  <2>2. PICK t \in Seq(S), x \in S : s = Append(t, x)
    BY <2>1, SequenceEmptyOrAppend
  <2>3. Len(t) = n
    BY <2>1, <2>2
  <2> QED BY <1>2, <2>2, <2>3
<1>3. Nat \subseteq U
  <2> HIDE DEF U
  <2> QED BY <1>1, <1>2, SetInduction
<1> QED BY <1>3

-----------------------------------------------------------------------------
(***************************************************************************)
(* SumSeq.                                                                 *)
(***************************************************************************)

\* ret[i] is the sum of the first i.
LEMMA SumSeqLoop ==
  ASSUME NEW s \in Seq(Nat)
  PROVE  \E f \in [0 .. Len(s) -> Nat] :
           /\ SumSeq(s) = f[Len(s)]
           /\ f[0] = 0
           /\ \A i \in 1 .. Len(s) : f[i] = f[i - 1] + s[i]
<1> DEFINE
  N == Len(s)
  st == [i \in 1 .. N |-> [v \in Nat |-> v + s[i]]]
  Body(f) == [i \in 0 .. N |-> IF i = 0 THEN 0 ELSE f[i - 1] + s[i]]
  ret == CHOOSE f : f = Body(f)
<1>1. N \in Nat /\ \A i \in 1 .. N : s[i] \in Nat
  OBVIOUS
<1>2. SumSeq(s) = ret[N]
  BY DEF SumSeq
<1> HIDE DEF N
<1>3. \E f : f = Body(f)
  <2>1. st \in [1 .. N -> [Nat -> Nat]]
    BY <1>1
  <2>2. PICK f \in [0 .. N -> Nat] : IsLoop(f, N, 0, st)
    <3> HIDE DEF st
    <3> QED BY <1>1, <2>1, LoopExists, Zenon
  <2>3. ASSUME NEW i \in 1 .. N PROVE st[i][f[i - 1]] = f[i - 1] + s[i]
    <3>1. f[i - 1] \in Nat
      BY <1>1
    <3> QED BY <3>1
  <2> HIDE DEF st
  <2>4. \A i \in 0 .. N : f[i] = IF i = 0 THEN 0 ELSE f[i - 1] + s[i]
    BY <1>1, <2>2, <2>3 DEF IsLoop
  <2>5. f = Body(f)
    BY <2>4
  <2> QED BY <2>5, Zenon
<1>4. ret = Body(ret)
  <2> HIDE DEF Body
  <2> QED BY <1>3
<1> HIDE DEF ret
<1>5. DOMAIN ret = 0 .. N /\ ret = [i \in DOMAIN ret |-> ret[i]]
  BY <1>4
<1>6. \A i \in 0 .. N : ret[i] = IF i = 0 THEN 0 ELSE ret[i - 1] + s[i]
  <2>1. \A i \in 0 .. N : ret[i] = Body(ret)[i]
    <3> HIDE DEF Body
    <3> QED BY <1>4
  <2> QED BY <2>1
<1> HIDE DEF Body
<1>7. ret \in [0 .. N -> Nat]
  <2> DEFINE T == {i \in 0 .. N : ret[i] \in Nat}
  <2>1. 0 \in T
    BY <1>1, <1>6
  <2>2. ASSUME NEW i \in 1 .. N, i - 1 \in T PROVE i \in T
    BY <1>1, <1>6, <2>2
  <2>3. 0 .. N \subseteq T
    <3> HIDE DEF T
    <3> QED BY <1>1, <2>1, <2>2, UpTo, Zenon
  <2> QED BY <1>5, <2>3
<1>8. /\ ret[0] = 0
      /\ \A i \in 1 .. N : ret[i] = ret[i - 1] + s[i]
  BY <1>1, <1>6
<1> QED BY <1>2, <1>7, <1>8, Zenon DEF N

\* The sum of numbers is a number.
LEMMA SumSeqNat ==
  ASSUME NEW s \in Seq(Nat)
  PROVE  SumSeq(s) \in Nat
<1>1. PICK f \in [0 .. Len(s) -> Nat] : SumSeq(s) = f[Len(s)]
  BY SumSeqLoop
<1>2. Len(s) \in 0 .. Len(s)
  OBVIOUS
<1> QED BY <1>1, <1>2

\* The sum of nothing is zero.
LEMMA SumSeqEmpty == SumSeq(<<>>) = 0
<1>1. <<>> \in Seq(Nat) /\ Len(<<>>) = 0
  OBVIOUS
<1>2. PICK f : SumSeq(<<>>) = f[Len(<<>>)] /\ f[0] = 0
  BY <1>1, SumSeqLoop, Zenon
<1> QED BY <1>1, <1>2

\* An element at the end adds itself to the sum.
LEMMA SumSeqAppend ==
  ASSUME NEW s \in Seq(Nat), NEW x \in Nat
  PROVE  SumSeq(Append(s, x)) = SumSeq(s) + x
<1> DEFINE t == Append(s, x)
<1>1. t \in Seq(Nat) /\ Len(t) = Len(s) + 1 /\ t[Len(s) + 1] = x /\ Len(s) \in Nat
  OBVIOUS
<1>2. \A i \in 1 .. Len(s) : t[i] = s[i]
  OBVIOUS
<1> HIDE DEF t
<1>3. PICK f \in [0 .. Len(s) -> Nat] :
        SumSeq(s) = f[Len(s)] /\ f[0] = 0 /\ \A i \in 1 .. Len(s) : f[i] = f[i - 1] + s[i]
  BY SumSeqLoop
<1>4. PICK g \in [0 .. Len(t) -> Nat] :
        SumSeq(t) = g[Len(t)] /\ g[0] = 0 /\ \A i \in 1 .. Len(t) : g[i] = g[i - 1] + t[i]
  BY <1>1, SumSeqLoop
<1> DEFINE T == {i \in 0 .. Len(s) : g[i] = f[i]}
<1>5. 0 \in T
  BY <1>1, <1>3, <1>4
<1>6. ASSUME NEW i \in 1 .. Len(s), i - 1 \in T PROVE i \in T
  <2>1. i \in 1 .. Len(t) /\ t[i] = s[i]
    BY <1>1, <1>2
  <2> QED BY <1>3, <1>4, <1>6, <2>1
<1>7. 0 .. Len(s) \subseteq T
  <2> HIDE DEF T
  <2> QED BY <1>1, <1>5, <1>6, UpTo, Zenon
<1>8. g[Len(s)] = f[Len(s)]
  <2>1. Len(s) \in 0 .. Len(s)
    BY <1>1
  <2> QED BY <1>7, <2>1, Zenon
<1>9. g[Len(t)] = g[Len(s)] + x
  <2>1. Len(t) \in 1 .. Len(t) /\ Len(t) - 1 = Len(s) /\ t[Len(t)] = x
    BY <1>1
  <2> QED BY <1>4, <2>1
<1> QED BY <1>3, <1>4, <1>8, <1>9 DEF t

\* The sum over two sequences in a row is the sum of their sums.
LEMMA SumSeqConcat ==
  ASSUME NEW s \in Seq(Nat), NEW t \in Seq(Nat)
  PROVE  SumSeq(s \o t) = SumSeq(s) + SumSeq(t)
<1> DEFINE T == {u \in Seq(Nat) : SumSeq(s \o u) = SumSeq(s) + SumSeq(u)}
<1>1. <<>> \in T
  BY SumSeqNat, SumSeqEmpty, ConcatEmptySeq
<1>2. ASSUME NEW u \in Seq(Nat), NEW x \in Nat, u \in T PROVE Append(u, x) \in T
  <2>1. s \o Append(u, x) = Append(s \o u, x) /\ s \o u \in Seq(Nat) /\ Append(u, x) \in Seq(Nat)
    OBVIOUS
  <2>2. SumSeq(Append(s \o u, x)) = SumSeq(s \o u) + x
    BY <2>1, SumSeqAppend, Zenon
  <2>3. SumSeq(Append(u, x)) = SumSeq(u) + x
    BY SumSeqAppend
  <2>4. SumSeq(s) \in Nat /\ SumSeq(u) \in Nat
    BY SumSeqNat
  <2>5. SumSeq(s \o u) = SumSeq(s) + SumSeq(u)
    BY <1>2
  <2>6. SumSeq(s \o Append(u, x)) = SumSeq(s) + SumSeq(Append(u, x))
    BY <2>1, <2>2, <2>3, <2>4, <2>5
  <2> QED BY <2>1, <2>6, Zenon
<1>3. Seq(Nat) \subseteq T
  <2> HIDE DEF T
  <2> QED BY <1>1, <1>2, SeqInduction, Zenon
<1> QED BY <1>3

\* The sum of one number is that number.
LEMMA SumSeqOne ==
  ASSUME NEW x \in Nat
  PROVE  SumSeq(<<x>>) = x
<1>1. PICK e \in Seq(Nat) : e = <<>>
  BY EmptySeq, Zenon
<1>2. SumSeq(Append(e, x)) = SumSeq(e) + x
  BY SumSeqAppend
<1>3. Append(e, x) = <<x>>
  BY <1>1
<1> QED BY <1>1, <1>2, <1>3, SumSeqEmpty

-----------------------------------------------------------------------------
(***************************************************************************)
(* ConcatSeq.                                                              *)
(***************************************************************************)

\* One turn of the loop of ConcatSeq, and the loop over the first N of s.  The
\* turn is an operator of its own so that the lemmas on the loop do not look
\* into it.
Glue(a, b) == a \o b
\* What the recursive function of ConcatSeq says of its values.
ConcatBody(f, N, s) == [i \in 0 .. N |-> IF i = 0 THEN <<>> ELSE Glue(f[i - 1], s[i])]

\* f[i] is the concatenation of the first i members of s, all in V.
IsConcatLoop(f, N, V, s) ==
  /\ f \in [0 .. N -> V]
  /\ f[0] = <<>>
  /\ \A i \in 1 .. N : f[i] = Glue(f[i - 1], s[i])
\* f computes ConcatSeq(s).
ConcatsBy(s, f, V) == IsConcatLoop(f, Len(s), V, s) /\ ConcatSeq(s) = f[Len(s)]
\* Some function does.
HasConcatLoop(s, V) == \E f : ConcatsBy(s, f, V)

\* The recursion of ConcatSeq defines a function.
LEMMA ConcatLoopExists ==
  ASSUME NEW V, <<>> \in V, \A v, w \in V : Glue(v, w) \in V,
         NEW N \in Nat, NEW s, \A i \in 1 .. N : s[i] \in V
  PROVE  \E f : f = ConcatBody(f, N, s)
<1> DEFINE st == [i \in 1 .. N |-> [v \in V |-> Glue(v, s[i])]]
<1>1. st \in [1 .. N -> [V -> V]]
  OBVIOUS
<1>2. PICK f \in [0 .. N -> V] : IsLoop(f, N, <<>>, st)
  <2> HIDE DEF st
  <2> QED BY <1>1, LoopExists
<1>3. ASSUME NEW i \in 1 .. N PROVE st[i][f[i - 1]] = Glue(f[i - 1], s[i])
  OBVIOUS
<1> HIDE DEF st
<1>4. \A i \in 0 .. N : f[i] = IF i = 0 THEN <<>> ELSE Glue(f[i - 1], s[i])
  BY <1>2, <1>3 DEF IsLoop
<1>5. f = ConcatBody(f, N, s)
  BY <1>4 DEF ConcatBody
<1> QED BY <1>5

\* The function the recursion defines is the loop one reads it as.
LEMMA ConcatLoopType ==
  ASSUME NEW V, <<>> \in V, \A v, w \in V : Glue(v, w) \in V,
         NEW N \in Nat, NEW s, \A i \in 1 .. N : s[i] \in V,
         NEW f, f = ConcatBody(f, N, s)
  PROVE  IsConcatLoop(f, N, V, s)
<1>1. DOMAIN f = 0 .. N /\ f = [i \in DOMAIN f |-> f[i]]
  BY ONLY f = ConcatBody(f, N, s) DEF ConcatBody
<1>2. \A i \in 0 .. N : f[i] = IF i = 0 THEN <<>> ELSE Glue(f[i - 1], s[i])
  BY ONLY f = ConcatBody(f, N, s) DEF ConcatBody
<1>3. f[0] = <<>> /\ \A i \in 1 .. N : f[i] = Glue(f[i - 1], s[i])
  BY <1>2
<1> DEFINE T == {i \in 0 .. N : f[i] \in V}
<1>4. 0 \in T
  BY <1>3
<1>5. ASSUME NEW i \in 1 .. N, i - 1 \in T PROVE i \in T
  BY <1>3, <1>5
<1>6. 0 .. N \subseteq T
  <2> HIDE DEF T
  <2> QED BY <1>4, <1>5, UpTo, Zenon
<1> QED BY <1>1, <1>3, <1>6 DEF IsConcatLoop

\* ret[i] is the concatenation of the first i.
LEMMA ConcatSeqLoop ==
  ASSUME NEW C, NEW s \in Seq(Seq(C))
  PROVE  HasConcatLoop(s, Seq(C))
<1> DEFINE
  N == Len(s)
  V == Seq(C)
  ret == CHOOSE f : f = ConcatBody(f, N, s)
<1>1. <<>> \in V /\ \A v, w \in V : Glue(v, w) \in V
  BY DEF Glue
<1>2. N \in Nat /\ \A i \in 1 .. N : s[i] \in V
  OBVIOUS
<1>3. ConcatSeq(s) = ret[N]
  BY DEF ConcatSeq, ConcatBody, Glue
<1>4. ret = ConcatBody(ret, N, s)
  <2> HIDE DEF V, N
  <2>1. \E f : f = ConcatBody(f, N, s)
    BY <1>1, <1>2, ConcatLoopExists
  <2> QED BY <2>1
<1> HIDE DEF N, V, ret
<1>5. IsConcatLoop(ret, N, V, s)
  BY <1>1, <1>2, <1>4, ConcatLoopType, Zenon
<1>6. ConcatsBy(s, ret, V)
  BY <1>3, <1>5 DEF N, ConcatsBy
<1> QED BY <1>6 DEF V, HasConcatLoop

\* The concatenation of strings is a string.
LEMMA ConcatSeqType ==
  ASSUME NEW C, NEW s \in Seq(Seq(C))
  PROVE  ConcatSeq(s) \in Seq(C)
<1>1. PICK f : ConcatsBy(s, f, Seq(C))
  BY ConcatSeqLoop DEF HasConcatLoop
<1>2. Len(s) \in 0 .. Len(s)
  OBVIOUS
<1> QED BY <1>1, <1>2 DEF ConcatsBy, IsConcatLoop

\* The concatenation of nothing is empty.
LEMMA ConcatSeqEmpty == ConcatSeq(<<>>) = <<>>
<1> DEFINE C == {}
           e == <<>>
<1>1. e \in Seq(Seq(C)) /\ Len(e) = 0
  OBVIOUS
<1> HIDE DEF C, e
<1>2. HasConcatLoop(e, Seq(C))
  BY <1>1, ConcatSeqLoop, Zenon
<1>3. PICK f : ConcatsBy(e, f, Seq(C))
  BY <1>2 DEF HasConcatLoop
<1> QED BY <1>1, <1>3 DEF e, ConcatsBy, IsConcatLoop

\* A string at the end is appended to the concatenation.
LEMMA ConcatSeqAppend ==
  ASSUME NEW C, NEW s \in Seq(Seq(C)), NEW x \in Seq(C)
  PROVE  ConcatSeq(Append(s, x)) = ConcatSeq(s) \o x
<1> DEFINE V == Seq(C)
           t == Append(s, x)
<1>1. t \in Seq(V) /\ Len(t) = Len(s) + 1 /\ t[Len(s) + 1] = x /\ Len(s) \in Nat
  BY AppendProperties
<1>2. \A i \in 1 .. Len(s) : t[i] = s[i]
  OBVIOUS
<1> HIDE DEF t
<1>3. PICK f :
        /\ f \in [0 .. Len(s) -> V]
        /\ ConcatSeq(s) = f[Len(s)]
        /\ f[0] = <<>>
        /\ \A i \in 1 .. Len(s) : f[i] = Glue(f[i - 1], s[i])
  <2>1. HasConcatLoop(s, V)
    BY ConcatSeqLoop
  <2> HIDE DEF V
  <2> QED BY <2>1, Zenon DEF HasConcatLoop, ConcatsBy, IsConcatLoop
<1>4. PICK g :
        /\ g \in [0 .. Len(t) -> V]
        /\ ConcatSeq(t) = g[Len(t)]
        /\ g[0] = <<>>
        /\ \A i \in 1 .. Len(t) : g[i] = Glue(g[i - 1], t[i])
  <2>1. HasConcatLoop(t, V)
    BY <1>1, ConcatSeqLoop
  <2> HIDE DEF V
  <2> QED BY <2>1, Zenon DEF HasConcatLoop, ConcatsBy, IsConcatLoop
<1> HIDE DEF V
<1> DEFINE T == {i \in 0 .. Len(s) : g[i] = f[i]}
<1>5. 0 \in T
  BY <1>1, <1>3, <1>4
<1>6. ASSUME NEW i \in 1 .. Len(s), i - 1 \in T PROVE i \in T
  <2>1. i \in 1 .. Len(t) /\ t[i] = s[i]
    BY <1>1, <1>2
  <2>2. g[i] = Glue(g[i - 1], t[i]) /\ f[i] = Glue(f[i - 1], s[i])
    BY <1>3, <1>4, <2>1
  <2>3. g[i] = f[i]
    BY <1>6, <2>1, <2>2
  <2> QED BY <2>3
<1>7. 0 .. Len(s) \subseteq T
  <2> HIDE DEF T
  <2> QED BY <1>1, <1>5, <1>6, UpTo, Zenon
<1>8. g[Len(s)] = f[Len(s)]
  <2>1. Len(s) \in 0 .. Len(s)
    BY <1>1
  <2> QED BY <1>7, <2>1, Zenon
<1>9. g[Len(t)] = Glue(g[Len(s)], x)
  <2>1. Len(t) \in 1 .. Len(t) /\ Len(t) - 1 = Len(s) /\ t[Len(t)] = x
    BY <1>1
  <2> QED BY <1>4, <2>1
<1> QED BY <1>3, <1>4, <1>8, <1>9 DEF t, Glue

\* Concatenation is associative, in a form the provers do not rewrite with.
IsAssociativeOn(V) == \A a, b, c \in V : (a \o b) \o c = a \o (b \o c)

\* Concatenation of strings over any alphabet is associative.
LEMMA ConcatAssoc ==
  ASSUME NEW C
  PROVE  IsAssociativeOn(Seq(C))
BY ConcatAssociative DEF IsAssociativeOn

\* Appending to the second of two sequences is appending to both in a row.
LEMMA ConcatAppend ==
  ASSUME NEW V, NEW s \in Seq(V), NEW u \in Seq(V), NEW x \in V
  PROVE  /\ s \o u \in Seq(V)
         /\ Append(u, x) \in Seq(V)
         /\ s \o Append(u, x) = Append(s \o u, x)
OBVIOUS

\* The concatenation of two sequences of strings in a row.
LEMMA ConcatSeqConcat ==
  ASSUME NEW C, NEW s \in Seq(Seq(C)), NEW t \in Seq(Seq(C))
  PROVE  ConcatSeq(s \o t) = ConcatSeq(s) \o ConcatSeq(t)
<1>1. IsAssociativeOn(Seq(C))
  BY ConcatAssoc
<1> DEFINE V == Seq(C)
           T == {u \in Seq(V) : ConcatSeq(s \o u) = ConcatSeq(s) \o ConcatSeq(u)}
<1>2. <<>> \in T
  <2>1. ConcatSeq(s) \o <<>> = ConcatSeq(s) /\ s \o <<>> = s
    BY ConcatSeqType, ConcatEmptySeq
  <2> QED BY <2>1, ConcatSeqEmpty, EmptySeq, Zenon
<1>3. ASSUME NEW u \in Seq(V), NEW x \in V, u \in T PROVE Append(u, x) \in T
  <2>1. s \o Append(u, x) = Append(s \o u, x) /\ s \o u \in Seq(V) /\ Append(u, x) \in Seq(V)
    <3>1. s \in Seq(V)
      OBVIOUS
    <3> HIDE DEF V, T
    <3> QED BY <3>1, ConcatAppend
  <2>2. ConcatSeq(Append(s \o u, x)) = ConcatSeq(s \o u) \o x
    BY <2>1, ConcatSeqAppend, Zenon
  <2>3. ConcatSeq(Append(u, x)) = ConcatSeq(u) \o x
    BY ConcatSeqAppend
  <2>4. ConcatSeq(s) \in V /\ ConcatSeq(u) \in V
    BY ConcatSeqType
  <2>5. ConcatSeq(s \o u) = ConcatSeq(s) \o ConcatSeq(u)
    BY <1>3
  <2>6. (ConcatSeq(s) \o ConcatSeq(u)) \o x = ConcatSeq(s) \o (ConcatSeq(u) \o x)
    <3>1. IsAssociativeOn(V)
      BY <1>1
    <3> HIDE DEF V, T
    <3> QED BY <2>4, <3>1, Zenon DEF IsAssociativeOn
  <2>7. ConcatSeq(s \o Append(u, x)) = ConcatSeq(s) \o ConcatSeq(Append(u, x))
    BY <2>1, <2>2, <2>3, <2>5, <2>6
  <2> QED BY <2>1, <2>7, Zenon
<1>4. Seq(V) \subseteq T
  <2> HIDE DEF T, V
  <2> QED BY <1>2, <1>3, SeqInduction, Zenon
<1> QED BY <1>4

\* The concatenation of one string is that string.
LEMMA ConcatSeqOne ==
  ASSUME NEW C, NEW x \in Seq(C)
  PROVE  ConcatSeq(<<x>>) = x
<1>1. <<>> \in Seq(Seq(C)) /\ Append(<<>>, x) = <<x>> /\ <<>> \o x = x
  BY EmptySeq, ConcatEmptySeq
<1>2. ConcatSeq(Append(<<>>, x)) = ConcatSeq(<<>>) \o x
  BY <1>1, ConcatSeqAppend, Zenon
<1> QED BY <1>1, <1>2, ConcatSeqEmpty

\* F gives every member of P a value of V; opaque, so that F stays a function
\* the provers do not expand.
Gives(F, P, V) == F \in [P -> V]

\* As IsLoop, all turns doing the same.
IsTurnLoop(f, N, a, st) == f[0] = a /\ \A i \in 1 .. N : f[i] = st[f[i - 1]]

\* A loop of N turns, each of which does the same.
LEMMA TurnLoop ==
  ASSUME NEW V, NEW a \in V, NEW N \in Nat, NEW st, Gives(st, V, V)
  PROVE  \E f : f \in [0 .. N -> V] /\ IsTurnLoop(f, N, a, st)
<1> DEFINE steps == [i \in 1 .. N |-> st]
<1>1. steps \in [1 .. N -> [V -> V]] /\ \A i \in 1 .. N : steps[i] = st
  BY DEF Gives
<1> HIDE DEF steps
<1>2. PICK f \in [0 .. N -> V] : IsLoop(f, N, a, steps)
  BY <1>1, LoopExists
<1>3. IsTurnLoop(f, N, a, st)
  BY <1>1, <1>2 DEF IsLoop, IsTurnLoop
<1> QED BY <1>2, <1>3

-----------------------------------------------------------------------------
(***************************************************************************)
(* Lists of pieces, each of which stands for a string: F gives the string  *)
(* of a piece, and Join the string of a list.                              *)
(***************************************************************************)

\* The values that F gives the members of s.
MapSeq(F, s) == [i \in DOMAIN s |-> F[s[i]]]

\* The strings that F gives the members of s, in a row.
Join(F, s) == ConcatSeq(MapSeq(F, s))

\* MapSeq is a sequence of values, as long as s.
LEMMA MapSeqType ==
  ASSUME NEW P, NEW V, NEW F, Gives(F, P, V), NEW s \in Seq(P)
  PROVE  /\ MapSeq(F, s) \in Seq(V)
         /\ Len(MapSeq(F, s)) = Len(s)
         /\ \A i \in 1 .. Len(s) : MapSeq(F, s)[i] = F[s[i]]
BY DEF MapSeq, Gives

\* c has the elements of a and then those of b.
IsConcat(c, a, b) ==
  /\ Len(c) = Len(a) + Len(b)
  /\ \A i \in 1 .. Len(a) : c[i] = a[i]
  /\ \A i \in 1 .. Len(b) : c[Len(a) + i] = b[i]

\* Concatenation is characterised by its elements.
LEMMA ConcatByIndex ==
  ASSUME NEW V, NEW a \in Seq(V), NEW b \in Seq(V), NEW c \in Seq(V), IsConcat(c, a, b)
  PROVE  c = a \o b
<1> USE DEF IsConcat
<1>1. a \o b \in Seq(V) /\ Len(a \o b) = Len(c)
  OBVIOUS
<1>2. ASSUME NEW i \in 1 .. Len(c) PROVE c[i] = (a \o b)[i]
  <2>1. CASE i <= Len(a)
    BY <2>1
  <2>2. CASE i > Len(a)
    <3>1. i - Len(a) \in 1 .. Len(b) /\ Len(a) + (i - Len(a)) = i
      BY <2>2
    <3> QED BY <2>2, <3>1
  <2> QED BY <2>1, <2>2
<1> QED BY <1>1, <1>2, SeqEqual

\* MapSeq distributes over concatenation.
LEMMA MapSeqConcat ==
  ASSUME NEW P, NEW V, NEW F, Gives(F, P, V), NEW s \in Seq(P), NEW t \in Seq(P)
  PROVE  MapSeq(F, s \o t) = MapSeq(F, s) \o MapSeq(F, t)
<1> DEFINE u == s \o t
<1>1. /\ u \in Seq(P) /\ Len(u) = Len(s) + Len(t)
      /\ Len(s) \in Nat /\ Len(t) \in Nat
      /\ \A i \in 1 .. Len(s) : u[i] = s[i]
      /\ \A i \in 1 .. Len(t) : u[Len(s) + i] = t[i]
  OBVIOUS
<1> HIDE DEF u
<1> DEFINE a == MapSeq(F, s)
           b == MapSeq(F, t)
           c == MapSeq(F, u)
<1>2. a \in Seq(V) /\ Len(a) = Len(s) /\ \A i \in 1 .. Len(s) : a[i] = F[s[i]]
  BY MapSeqType
<1>3. b \in Seq(V) /\ Len(b) = Len(t) /\ \A i \in 1 .. Len(t) : b[i] = F[t[i]]
  BY MapSeqType
<1>4. c \in Seq(V) /\ Len(c) = Len(u) /\ \A i \in 1 .. Len(u) : c[i] = F[u[i]]
  BY <1>1, MapSeqType
<1> HIDE DEF a, b, c
<1>5. \A i \in 1 .. Len(a) : c[i] = a[i]
  BY <1>1, <1>2, <1>4
<1>6. \A i \in 1 .. Len(b) : c[Len(a) + i] = b[i]
  <2> SUFFICES ASSUME NEW i \in 1 .. Len(b) PROVE c[Len(a) + i] = b[i]
    OBVIOUS
  <2>1. Len(s) + i \in 1 .. Len(u) /\ i \in 1 .. Len(t) /\ Len(a) = Len(s)
    BY <1>1, <1>2, <1>3
  <2>2. c[Len(s) + i] = F[u[Len(s) + i]] /\ b[i] = F[t[i]] /\ u[Len(s) + i] = t[i]
    BY <1>1, <1>3, <1>4, <2>1
  <2> QED BY <2>1, <2>2
<1>7. Len(c) = Len(a) + Len(b)
  BY <1>1, <1>2, <1>3, <1>4
<1>8. IsConcat(c, a, b)
  BY <1>5, <1>6, <1>7 DEF IsConcat
<1>9. a \in Seq(V) /\ b \in Seq(V) /\ c \in Seq(V)
  BY <1>2, <1>3, <1>4
<1>10. c = a \o b
  BY ONLY <1>8, <1>9, ConcatByIndex
<1> QED BY <1>10 DEF a, b, c, u

\* A join is a string.
LEMMA JoinType ==
  ASSUME NEW P, NEW C, NEW F, Gives(F, P, Seq(C)), NEW s \in Seq(P)
  PROVE  Join(F, s) \in Seq(C)
<1>1. MapSeq(F, s) \in Seq(Seq(C))
  BY MapSeqType
<1> QED BY <1>1, ConcatSeqType DEF Join

\* The join of nothing is empty.
LEMMA JoinEmpty ==
  ASSUME NEW F
  PROVE  Join(F, <<>>) = <<>>
<1>1. MapSeq(F, <<>>) = <<>>
  BY DEF MapSeq
<1> QED BY <1>1, ConcatSeqEmpty DEF Join

\* The join of one member is its string.
LEMMA JoinOne ==
  ASSUME NEW P, NEW C, NEW F, Gives(F, P, Seq(C)), NEW p \in P
  PROVE  Join(F, <<p>>) = F[p]
<1>1. MapSeq(F, <<p>>) = <<F[p]>>
  BY DEF MapSeq
<1>2. F[p] \in Seq(C)
  BY DEF Gives
<1> QED BY <1>1, <1>2, ConcatSeqOne DEF Join

\* The join of two sequences in a row is their joins in a row.
LEMMA JoinConcat ==
  ASSUME NEW P, NEW C, NEW F, Gives(F, P, Seq(C)), NEW s \in Seq(P), NEW t \in Seq(P)
  PROVE  Join(F, s \o t) = Join(F, s) \o Join(F, t)
<1>1. MapSeq(F, s) \in Seq(Seq(C)) /\ MapSeq(F, t) \in Seq(Seq(C))
  BY MapSeqType
<1>2. MapSeq(F, s \o t) = MapSeq(F, s) \o MapSeq(F, t)
  BY MapSeqConcat
<1> QED BY <1>1, <1>2, ConcatSeqConcat DEF Join

\* A member at the end appends its string to the join.
LEMMA JoinAppend ==
  ASSUME NEW P, NEW C, NEW F, Gives(F, P, Seq(C)), NEW s \in Seq(P), NEW p \in P
  PROVE  Join(F, Append(s, p)) = Join(F, s) \o F[p]
<1> DEFINE q == <<p>>
<1>1. Append(s, p) = s \o q /\ q \in Seq(P)
  BY AppendIsConcat
<1>2. Join(F, q) = F[p]
  BY JoinOne
<1> HIDE DEF q
<1>3. Join(F, s \o q) = Join(F, s) \o Join(F, q)
  BY <1>1, JoinConcat
<1> QED BY <1>1, <1>2, <1>3

\* A member at the end adds its measure to the sum.
LEMMA SumMapAppend ==
  ASSUME NEW P, NEW G, Gives(G, P, Nat), NEW s \in Seq(P), NEW p \in P
  PROVE  SumSeq(MapSeq(G, Append(s, p))) = SumSeq(MapSeq(G, s)) + G[p]
<1> DEFINE q == <<p>>
<1>1. Append(s, p) = s \o q /\ q \in Seq(P)
  BY AppendIsConcat
<1>2. MapSeq(G, q) = <<G[p]>>
  BY DEF MapSeq
<1>3. G[p] \in Nat
  BY DEF Gives
<1>4. SumSeq(MapSeq(G, q)) = G[p]
  BY <1>2, <1>3, SumSeqOne
<1> HIDE DEF q
<1>5. MapSeq(G, s \o q) = MapSeq(G, s) \o MapSeq(G, q)
  BY <1>1, MapSeqConcat
<1>6. MapSeq(G, s) \in Seq(Nat) /\ MapSeq(G, q) \in Seq(Nat)
  BY <1>1, MapSeqType
<1> QED BY <1>1, <1>4, <1>5, <1>6, SumSeqConcat

\* The sum of the lengths of the pieces is the length of the whole.
Measures(G, F, P) == Gives(G, P, Nat) /\ \A p \in P : G[p] = Len(F[p])

\* The sum of the lengths is the length of the join.
LEMMA JoinLen ==
  ASSUME NEW P, NEW C, NEW F, Gives(F, P, Seq(C)), NEW G, Measures(G, F, P),
         NEW s \in Seq(P)
  PROVE  SumSeq(MapSeq(G, s)) = Len(Join(F, s))
<1> DEFINE T == {u \in Seq(P) : SumSeq(MapSeq(G, u)) = Len(Join(F, u))}
<1>1. <<>> \in T
  <2>1. MapSeq(G, <<>>) = <<>>
    BY DEF MapSeq
  <2> QED BY <2>1, SumSeqEmpty, JoinEmpty
<1>2. ASSUME NEW u \in Seq(P), NEW p \in P, u \in T PROVE Append(u, p) \in T
  <2>1. SumSeq(MapSeq(G, u)) = Len(Join(F, u))
    BY <1>2
  <2> HIDE DEF T
  <2>2. Join(F, Append(u, p)) = Join(F, u) \o F[p]
    BY JoinAppend
  <2>3. SumSeq(MapSeq(G, Append(u, p))) = SumSeq(MapSeq(G, u)) + G[p]
    BY SumMapAppend DEF Measures
  <2>4. Join(F, u) \in Seq(C) /\ F[p] \in Seq(C)
    BY JoinType, Zenon DEF Gives
  <2>5. Len(Join(F, u) \o F[p]) = Len(Join(F, u)) + Len(F[p])
    BY <2>4, ConcatProperties
  <2>6. SumSeq(MapSeq(G, Append(u, p))) = Len(Join(F, Append(u, p)))
    BY <2>1, <2>2, <2>3, <2>5, Zenon DEF Measures
  <2> QED BY <2>6, AppendProperties DEF T
<1>3. Seq(P) \subseteq T
  <2> HIDE DEF T
  <2> QED BY <1>1, <1>2, SeqInduction
<1> QED BY <1>3

-----------------------------------------------------------------------------
(***************************************************************************)
(* Removing bytes from the front of a list of pieces, piece by piece.      *)
(***************************************************************************)

\* s without its first n elements.
Drop(s, n) == SubSeq(s, n + 1, Len(s))

\* What remains has the elements behind the first n; all remain of n = 0, none
\* of n >= Len(s).
LEMMA DropFacts ==
  ASSUME NEW C, NEW s \in Seq(C), NEW n \in Nat
  PROVE  /\ Drop(s, n) \in Seq(C)
         /\ Drop(s, 0) = s
         /\ Drop(<<>>, n) = <<>>
         /\ n <= Len(s) => Len(Drop(s, n)) = Len(s) - n
         /\ n >= Len(s) => Drop(s, n) = <<>>
         /\ \A i \in 1 .. Len(s) - n : Drop(s, n)[i] = s[n + i]
<1>1. Drop(s, 0) = s
  BY SubSeqFull DEF Drop
<1>2. Drop(<<>>, n) = <<>>
  BY SubSeqEmpty DEF Drop
<1>3. n >= Len(s) => Drop(s, n) = <<>>
  BY SubSeqEmpty DEF Drop
<1>4. \A i \in n + 1 .. Len(s) : s[i] \in C
  OBVIOUS
<1>5. /\ SubSeq(s, n + 1, Len(s)) \in Seq(C)
      /\ n <= Len(s) => Len(SubSeq(s, n + 1, Len(s))) = Len(s) - n
      /\ \A i \in 1 .. Len(s) - n : SubSeq(s, n + 1, Len(s))[i] = s[n + i]
  BY <1>4, SubSeqProperties
<1> QED BY ONLY <1>1, <1>2, <1>3, <1>5, Zenon DEF Drop

\* The first n elements and the rest are s.
LEMMA SplitSeq ==
  ASSUME NEW C, NEW s \in Seq(C), NEW n \in Nat, n <= Len(s)
  PROVE  /\ SubSeq(s, 1, n) \in Seq(C)
         /\ Len(SubSeq(s, 1, n)) = n
         /\ SubSeq(s, 1, n) \o Drop(s, n) = s
         /\ n = 0 => SubSeq(s, 1, n) = <<>>
<1>1. \A i \in 1 .. n : s[i] \in C
  OBVIOUS
<1>2. SubSeq(s, 1, n) \in Seq(C) /\ Len(SubSeq(s, 1, n)) = n
  BY <1>1, SubSeqProperties
<1>3. n = 0 => SubSeq(s, 1, n) = <<>>
  BY SubSeqEmpty
<1>4. 1 \in 1 .. Len(s) + 1 /\ n \in 1 - 1 .. Len(s) /\ Len(s) \in n .. Len(s)
  OBVIOUS
<1>5. SubSeq(s, 1, n) \o SubSeq(s, n + 1, Len(s)) = SubSeq(s, 1, Len(s))
  BY <1>4, ConcatAdjacentSubSeq, Zenon
<1>6. SubSeq(s, 1, Len(s)) = s
  BY SubSeqFull
<1> QED BY <1>2, <1>3, <1>5, <1>6, Zenon DEF Drop

\* d has the elements of s behind the first n.
IsDrop(d, s, n) == Len(d) = Len(s) - n /\ \A i \in 1 .. Len(s) - n : d[i] = s[n + i]

\* Drop is characterised by its elements.
LEMMA DropIs ==
  ASSUME NEW C, NEW s \in Seq(C), NEW n \in Nat, n <= Len(s)
  PROVE  Drop(s, n) \in Seq(C) /\ IsDrop(Drop(s, n), s, n)
BY DropFacts DEF IsDrop

\* Dropping in two goes.
LEMMA DropDrop ==
  ASSUME NEW C, NEW s \in Seq(C), NEW m \in Nat, NEW n \in Nat, m + n <= Len(s)
  PROVE  Drop(s, m + n) = Drop(Drop(s, m), n)
<1> DEFINE d == Drop(s, m)
           e == Drop(d, n)
           f == Drop(s, m + n)
<1>1. d \in Seq(C) /\ IsDrop(d, s, m)
  <2>1. m <= Len(s)
    OBVIOUS
  <2> QED BY <2>1, DropIs
<1>2. f \in Seq(C) /\ IsDrop(f, s, m + n)
  <2>1. m + n \in Nat
    OBVIOUS
  <2> QED BY <2>1, DropIs
<1> HIDE DEF d, f
<1>3. n <= Len(d)
  BY <1>1 DEF IsDrop
<1>4. e \in Seq(C) /\ IsDrop(e, d, n)
  BY <1>1, <1>3, DropIs
<1> HIDE DEF e
<1>5. Len(e) = Len(f)
  BY <1>1, <1>2, <1>4 DEF IsDrop
<1>6. ASSUME NEW i \in 1 .. Len(e) PROVE e[i] = f[i]
  <2>1. i \in 1 .. Len(d) - n /\ n + i \in 1 .. Len(s) - m /\ m + (n + i) = (m + n) + i
        /\ i \in 1 .. Len(s) - (m + n)
    BY <1>1, <1>2, <1>4 DEF IsDrop
  <2>2. e[i] = d[n + i]
    BY <1>4, <2>1 DEF IsDrop
  <2>3. d[n + i] = s[m + (n + i)]
    BY <1>1, <2>1 DEF IsDrop
  <2>4. f[i] = s[(m + n) + i]
    BY <1>2, <2>1 DEF IsDrop
  <2> QED BY <2>1, <2>2, <2>3, <2>4
<1> QED BY <1>2, <1>4, <1>5, <1>6, SeqEqual DEF d, e, f

\* Dropping from two strings in a row takes from the first one first.
LEMMA DropConcat ==
  ASSUME NEW C, NEW s \in Seq(C), NEW t \in Seq(C), NEW n \in Nat
  PROVE  /\ n <= Len(s) => Drop(Glue(s, t), n) = Glue(Drop(s, n), t)
         /\ n >= Len(s) => Drop(Glue(s, t), n) = Drop(t, n - Len(s))
<1> DEFINE u == s \o t
           d == Drop(u, n)
<1>1. /\ u \in Seq(C) /\ Len(u) = Len(s) + Len(t)
      /\ Len(s) \in Nat /\ Len(t) \in Nat
      /\ \A i \in 1 .. Len(s) : u[i] = s[i]
      /\ \A i \in 1 .. Len(t) : u[Len(s) + i] = t[i]
  OBVIOUS
<1> HIDE DEF u
<1>2. d \in Seq(C) /\ (n <= Len(u) => Len(d) = Len(u) - n)
      /\ \A i \in 1 .. Len(u) - n : d[i] = u[n + i]
  <2>1. u \in Seq(C)
    BY <1>1
  <2> QED BY ONLY <2>1, n \in Nat, DropFacts, Zenon
<1>3. ASSUME n <= Len(s) PROVE d = Drop(s, n) \o t
  <2> DEFINE a == Drop(s, n)
  <2>1. a \in Seq(C) /\ Len(a) = Len(s) - n /\ \A i \in 1 .. Len(a) : a[i] = s[n + i]
    BY <1>3, DropFacts
  <2> HIDE DEF a, d
  <2>2. Len(d) = Len(a) + Len(t)
    BY <1>1, <1>2, <1>3, <2>1
  <2>3. ASSUME NEW i \in 1 .. Len(a) PROVE d[i] = a[i]
    <3>1. i \in 1 .. Len(u) - n /\ n + i \in 1 .. Len(s)
      BY <1>1, <1>3, <2>1
    <3> QED BY <1>1, <1>2, <2>1, <3>1, Zenon
  <2>4. ASSUME NEW i \in 1 .. Len(t) PROVE d[Len(a) + i] = t[i]
    <3>1. Len(a) + i \in 1 .. Len(u) - n /\ n + (Len(a) + i) = Len(s) + i
      BY <1>1, <1>3, <2>1
    <3>2. d[Len(a) + i] = u[n + (Len(a) + i)]
      BY <1>2, <3>1, Zenon
    <3> QED BY <1>1, <3>1, <3>2
  <2>5. IsConcat(d, a, t)
    BY <2>2, <2>3, <2>4 DEF IsConcat
  <2>6. a \in Seq(C) /\ d \in Seq(C)
    BY <1>2, <2>1
  <2>7. d = a \o t
    BY <2>5, <2>6, ConcatByIndex
  <2> QED BY <2>7 DEF a
<1>4. ASSUME n >= Len(s) PROVE d = Drop(t, n - Len(s))
  <2> DEFINE b == Drop(t, n - Len(s))
  <2>0. n - Len(s) \in Nat
    BY <1>1, <1>4
  <2>1. CASE n >= Len(u)
    <3>1. n - Len(s) >= Len(t)
      BY <1>1, <2>1
    <3>2. d = <<>>
      BY <1>1, <2>1, DropFacts
    <3>3. b = <<>>
      BY <2>0, <3>1, DropFacts
    <3> QED BY <3>2, <3>3
  <2>2. CASE n < Len(u)
    <3>1. n - Len(s) <= Len(t)
      BY <1>1, <2>2
    <3>2. b \in Seq(C) /\ Len(b) = Len(t) - (n - Len(s))
          /\ \A i \in 1 .. Len(t) - (n - Len(s)) : b[i] = t[(n - Len(s)) + i]
      BY <2>0, <3>1, DropFacts, Zenon
    <3> HIDE DEF b, d
    <3>3. Len(d) = Len(b) /\ Len(b) = Len(u) - n
      BY <1>1, <1>2, <2>2, <3>2
    <3>4. ASSUME NEW i \in 1 .. Len(d) PROVE d[i] = b[i]
      <4>1. i \in 1 .. Len(u) - n /\ (n - Len(s)) + i \in 1 .. Len(t)
            /\ Len(s) + ((n - Len(s)) + i) = n + i
            /\ i \in 1 .. Len(t) - (n - Len(s))
        BY <1>1, <1>4, <2>2, <3>2, <3>3
      <4>2. u[Len(s) + ((n - Len(s)) + i)] = t[(n - Len(s)) + i]
        BY <1>1, <4>1
      <4>3. d[i] = u[n + i] /\ b[i] = t[(n - Len(s)) + i]
        BY <1>2, <3>2, <4>1
      <4> QED BY <4>1, <4>2, <4>3
    <3>5. d \in Seq(C) /\ b \in Seq(C)
      BY <1>2, <3>2
    <3>6. d = b
      BY <3>3, <3>4, <3>5, SeqEqual, Zenon
    <3> QED BY <3>6 DEF b
  <2>3. n >= Len(u) \/ n < Len(u)
    BY <1>1
  <2> QED BY <2>1, <2>2, <2>3
<1> QED BY <1>3, <1>4 DEF u, Glue

\* q in front of s.
Push(q, s) == <<q>> \o s

\* A turn of a loop that removes n bytes from the front of the strings F gives
\* s: nothing is left to do, or the first member is replaced by one with fewer
\* bytes, or it goes and what it had is subtracted.
RemovalTurn(F, P, s, n, s2, n2) ==
  IF n = 0 \/ s = <<>>
    THEN s2 = s /\ n2 = n
    ELSE IF n < Len(F[Head(s)])
           THEN n2 = 0 /\ \E q \in P : F[q] = Drop(F[Head(s)], n) /\ s2 = Push(q, Tail(s))
           ELSE s2 = Tail(s) /\ n2 = n - Len(F[Head(s)])

\* A member at the front puts its string in front of the join.
LEMMA JoinHead ==
  ASSUME NEW P, NEW C, NEW F, Gives(F, P, Seq(C)), NEW q \in P, NEW s \in Seq(P)
  PROVE  Push(q, s) \in Seq(P) /\ Join(F, Push(q, s)) = Glue(F[q], Join(F, s))
<1> DEFINE h == <<q>>
<1>1. h \in Seq(P)
  OBVIOUS
<1>2. Join(F, h) = F[q]
  BY JoinOne
<1> HIDE DEF h
<1>3. Join(F, h \o s) = Join(F, h) \o Join(F, s)
  BY <1>1, JoinConcat
<1>4. h \o s \in Seq(P)
  BY <1>1, ConcatProperties
<1> QED BY <1>2, <1>3, <1>4, Zenon DEF h, Push, Glue

\* A join begins with the string of the first member.
LEMMA JoinHeadTail ==
  ASSUME NEW P, NEW C, NEW F, Gives(F, P, Seq(C)), NEW s \in Seq(P), s # <<>>
  PROVE  Head(s) \in P /\ Tail(s) \in Seq(P) /\ Join(F, s) = Glue(F[Head(s)], Join(F, Tail(s)))
<1> DEFINE h == Head(s)
           t == Tail(s)
<1>1. h \in P /\ t \in Seq(P) /\ s = Push(h, t)
  BY DEF Push
<1> HIDE DEF h, t
<1>2. Join(F, Push(h, t)) = Glue(F[h], Join(F, t))
  BY <1>1, JoinHead
<1> QED BY <1>1, <1>2 DEF h, t

\* A turn removes nothing but bytes from the front, and counts them.
LEMMA RemovalTurnDrops ==
  ASSUME NEW P, NEW C, NEW F, Gives(F, P, Seq(C)), NEW s \in Seq(P), NEW n \in Nat,
         NEW s2, NEW n2, RemovalTurn(F, P, s, n, s2, n2)
  PROVE  /\ s2 \in Seq(P) /\ n2 \in Nat
         /\ Drop(Join(F, s2), n2) = Drop(Join(F, s), n)
         /\ n2 = 0 \/ Len(s2) = 0 \/ Len(s2) = Len(s) - 1
         /\ n = 0 => n2 = 0
<1>1. CASE n = 0 \/ s = <<>>
  BY <1>1 DEF RemovalTurn
<1>2. CASE n # 0 /\ s # <<>>
  <2> DEFINE h == Head(s)
             t == Tail(s)
  <2>1. h \in P /\ t \in Seq(P) /\ Join(F, s) = Glue(F[h], Join(F, t)) /\ Len(t) = Len(s) - 1
    BY <1>2, JoinHeadTail
  <2>2. F[h] \in Seq(C) /\ Join(F, t) \in Seq(C) /\ Len(F[h]) \in Nat
    <3> HIDE DEF h, t
    <3>1. F[h] \in Seq(C)
      BY <2>1 DEF Gives
    <3>2. Join(F, t) \in Seq(C)
      BY <2>1, JoinType
    <3> QED BY <3>1, <3>2
  <2> HIDE DEF h, t
  <2>3. CASE n < Len(F[h])
    <3>1. PICK q \in P : n2 = 0 /\ F[q] = Drop(F[h], n) /\ s2 = Push(q, t)
      BY <1>2, <2>3 DEF RemovalTurn, h, t
    <3>2. s2 \in Seq(P)
      BY <2>1, <3>1, JoinHead
    <3>3. Join(F, s2) = Glue(F[q], Join(F, t))
      BY <2>1, <3>1, JoinHead
    <3>4. Drop(Glue(F[h], Join(F, t)), n) = Glue(Drop(F[h], n), Join(F, t))
      BY <2>2, <2>3, DropConcat
    <3>5. Join(F, s2) \in Seq(C)
      BY <3>2, JoinType
    <3>6. Drop(Join(F, s2), 0) = Join(F, s2)
      BY <3>5, DropFacts
    <3> QED BY <2>1, <3>1, <3>2, <3>3, <3>4, <3>6
  <2>4. CASE n >= Len(F[h])
    <3>1. s2 = t /\ n2 = n - Len(F[h])
      BY <1>2, <2>2, <2>4 DEF RemovalTurn, h, t
    <3>2. Drop(Glue(F[h], Join(F, t)), n) = Drop(Join(F, t), n - Len(F[h]))
      BY <2>2, <2>4, DropConcat, Zenon
    <3> QED BY <2>1, <2>2, <2>4, <3>1, <3>2
  <2> QED BY <2>2, <2>3, <2>4
<1> QED BY <1>1, <1>2

\* The removal loop over s: p[i] and m[i] are what is left of the members and
\* of n after i turns.
IsRemoval(F, P, s, n, p, m) ==
  /\ p[0] = s /\ m[0] = n
  /\ \A i \in 1 .. Len(s) : RemovalTurn(F, P, p[i - 1], m[i - 1], p[i], m[i])

\* As many turns as there are pieces remove n bytes, or all there are.
LEMMA RemovalLoop ==
  ASSUME NEW P, NEW C, NEW F, Gives(F, P, Seq(C)), NEW s \in Seq(P), NEW n \in Nat,
         NEW p, NEW m, IsRemoval(F, P, s, n, p, m)
  PROVE  p[Len(s)] \in Seq(P) /\ Join(F, p[Len(s)]) = Drop(Join(F, s), n)
<1> DEFINE
  N == Len(s)
  whole == Drop(Join(F, s), n)
  Inv(i) == /\ p[i] \in Seq(P) /\ m[i] \in Nat
            /\ Drop(Join(F, p[i]), m[i]) = whole
            /\ m[i] = 0 \/ Len(p[i]) <= N - i
  T == {i \in 0 .. N : Inv(i)}
<1>1. N \in Nat /\ N \in 0 .. N
  OBVIOUS
<1>2. 0 \in T
  BY <1>1 DEF IsRemoval
<1>3. ASSUME NEW i \in 1 .. N, i - 1 \in T PROVE i \in T
  <2>1. Inv(i - 1)
    BY <1>3
  <2>2. RemovalTurn(F, P, p[i - 1], m[i - 1], p[i], m[i])
    BY DEF IsRemoval
  <2> HIDE DEF whole
  <2>3. /\ p[i] \in Seq(P) /\ m[i] \in Nat
        /\ Drop(Join(F, p[i]), m[i]) = Drop(Join(F, p[i - 1]), m[i - 1])
        /\ m[i] = 0 \/ Len(p[i]) = 0 \/ Len(p[i]) = Len(p[i - 1]) - 1
        /\ m[i - 1] = 0 => m[i] = 0
    <3>1. p[i - 1] \in Seq(P) /\ m[i - 1] \in Nat
      BY <2>1
    <3> QED BY ONLY Gives(F, P, Seq(C)), <2>2, <3>1, RemovalTurnDrops
  <2>4. m[i] = 0 \/ Len(p[i]) <= N - i
    BY <1>1, <2>1, <2>3
  <2>5. Inv(i)
    BY <2>1, <2>3, <2>4
  <2> QED BY <2>5
<1>4. 0 .. N \subseteq T
  <2> HIDE DEF T, N
  <2> QED BY <1>1, <1>2, <1>3, UpTo, Zenon
<1>5. Inv(N)
  BY <1>1, <1>4
<1> HIDE DEF whole, T
<1>6. Join(F, p[N]) \in Seq(C)
  BY <1>5, JoinType
<1>7. CASE m[N] = 0
  BY <1>5, <1>6, <1>7, DropFacts DEF whole
<1>8. CASE m[N] # 0
  <2>1. p[N] = <<>>
    BY <1>1, <1>5, <1>8
  <2>2. Join(F, p[N]) = <<>>
    BY <2>1, JoinEmpty
  <2>3. Drop(<<>>, m[N]) = <<>>
    BY <1>5, <1>6, DropFacts, Zenon
  <2> QED BY <1>5, <2>2, <2>3 DEF whole
<1> QED BY <1>7, <1>8


-----------------------------------------------------------------------------
(***************************************************************************)
(* Powers, and the digits of a number.                                     *)
(***************************************************************************)

\* Power is b * b * ... * b.
LEMMA PowerLoop ==
  ASSUME NEW b \in Nat
  PROVE  \E p \in [Nat -> Nat] : /\ \A k : Power(b, k) = p[k]
                                 /\ p[0] = 1
                                 /\ \A k \in Nat : p[k + 1] = b * p[k]
<1> DEFINE Body(f) == [i \in Nat |-> IF i = 0 THEN 1 ELSE b * f[i - 1]]
           p == CHOOSE f : f = Body(f)
           st == [n \in Nat |-> [v \in Nat |-> b * v]]
<1>1. \A k : Power(b, k) = p[k]
  BY DEF Power
<1>2. st \in [Nat -> [Nat -> Nat]] /\ \A n, v \in Nat : st[n][v] = b * v
  OBVIOUS
<1> HIDE DEF st
<1>3. PICK f \in [Nat -> Nat] : Iterates(f, 1, st)
  BY <1>2, Recursion, Zenon
<1>4. f[0] = 1 /\ \A n \in Nat : f[n + 1] = b * f[n]
  BY <1>2, <1>3, Zenon DEF Iterates
<1>5. \A i \in Nat : f[i] = IF i = 0 THEN 1 ELSE b * f[i - 1]
  <2> SUFFICES ASSUME NEW i \in Nat, i # 0 PROVE f[i] = b * f[i - 1]
    BY <1>4
  <2>1. i - 1 \in Nat /\ (i - 1) + 1 = i
    OBVIOUS
  <2> QED BY <1>4, <2>1
<1>6. f = Body(f)
  BY <1>5
<1>7. p = Body(p)
  BY <1>6
<1> HIDE DEF p
<1>8. DOMAIN p = Nat /\ p = [i \in DOMAIN p |-> p[i]]
  BY <1>7
<1>9. p[0] = 1 /\ \A n \in Nat : p[n + 1] = b * p[n]
  <2>1. \A i \in Nat : p[i] = IF i = 0 THEN 1 ELSE b * p[i - 1]
    BY <1>7
  <2>2. ASSUME NEW n \in Nat PROVE p[n + 1] = b * p[n]
    <3>1. n + 1 \in Nat /\ n + 1 # 0 /\ (n + 1) - 1 = n
      OBVIOUS
    <3>2. p[n + 1] = b * p[(n + 1) - 1]
      BY <2>1, <3>1
    <3> QED BY <3>1, <3>2
  <2> QED BY <2>1, <2>2
<1> DEFINE T == {n \in Nat : p[n] \in Nat}
<1>10. Nat \subseteq T
  <2>1. 0 \in T
    BY <1>9
  <2>2. ASSUME NEW n \in Nat, n \in T PROVE n + 1 \in T
    BY <1>9, <2>2
  <2> HIDE DEF T
  <2> QED BY <2>1, <2>2, SetInduction
<1>11. p \in [Nat -> Nat]
  BY <1>8, <1>10
<1> QED BY <1>1, <1>9, <1>11, Zenon

\* A power of a positive number is positive.
LEMMA PowerFacts ==
  ASSUME NEW b \in Nat, b # 0
  PROVE  /\ Power(b, 0) = 1
         /\ \A k \in Nat : Power(b, k) \in Nat /\ Power(b, k) # 0 /\ Power(b, k + 1) = b * Power(b, k)
<1>1. PICK p \in [Nat -> Nat] : /\ \A k : Power(b, k) = p[k]
                                /\ p[0] = 1
                                /\ \A k \in Nat : p[k + 1] = b * p[k]
  BY PowerLoop, Zenon
<1> DEFINE T == {n \in Nat : p[n] # 0}
<1>2. Nat \subseteq T
  <2>1. 0 \in T
    BY <1>1
  <2>2. ASSUME NEW n \in Nat, n \in T PROVE n + 1 \in T
    <3>1. p[n + 1] = b * p[n] /\ p[n] \in Nat /\ p[n] # 0
      BY <1>1, <2>2
    <3>2. b * p[n] # 0
      BY <3>1
    <3> QED BY <3>1, <3>2
  <2> HIDE DEF T
  <2> QED BY <2>1, <2>2, SetInduction
<1> QED BY <1>1, <1>2, Zenon

\* Shifting by one more byte is shifting what was shifted.
LEMMA DivDiv ==
  ASSUME NEW n \in Nat, NEW b \in Nat, b # 0, NEW P \in Nat, P # 0
  PROVE  n \div (b * P) = (n \div P) \div b
<1> DEFINE q == n \div P
           r == n % P
           q2 == q \div b
           r2 == q % b
<1>1. q \in Nat /\ r \in Nat /\ r < P /\ n = P * q + r
  OBVIOUS
<1>2. q2 \in Nat /\ r2 \in Nat /\ r2 < b /\ q = b * q2 + r2
  BY <1>1
<1> HIDE DEF q, r, q2, r2
<1>3. P * q = P * (b * q2) + P * r2
  BY <1>1, <1>2
<1>4. P * (b * q2) = (b * P) * q2
  BY <1>1, <1>2
<1>5. P * (r2 + 1) <= P * b
  BY <1>1, <1>2
<1>6. P * (r2 + 1) = P * r2 + P /\ P * b = b * P
  BY <1>1, <1>2
<1> DEFINE m == b * P
           x == P * r2 + r
<1>7. P * r2 \in Nat /\ m \in Nat /\ m # 0
  BY <1>2
<1>8. x \in Nat /\ x < m
  BY <1>1, <1>5, <1>6, <1>7
<1>9. n = m * q2 + x
  <2> DEFINE A == (b * P) * q2
             B == P * r2
  <2>1. A \in Nat /\ B \in Nat
    BY <1>2
  <2>2. P * q = A + B
    BY <1>3, <1>4
  <2>3. n = A + (B + r)
    <3> DEFINE C == P * q
    <3>1. C = A + B /\ n = C + r
      BY <1>1, <2>2
    <3> HIDE DEF A, B, C
    <3> QED BY <1>1, <2>1, <3>1
  <2> QED BY <2>3
<1> HIDE DEF m, x
<1>10. n \div m = q2
  BY <1>2, <1>7, <1>8, <1>9
<1> QED BY <1>10 DEF m, q2, q

\* The first i of the k digits of n, in base b.
Leading(b, k, n, i) == n \div Power(b, k - i)

\* Every digit is what its predecessors leave when they are shifted by one.
LEMMA LeadingDigits ==
  ASSUME NEW b \in Nat, b # 0, NEW k \in Nat, NEW n \in Nat, n < Power(b, k)
  PROVE  /\ Leading(b, k, n, 0) = 0
         /\ Leading(b, k, n, k) = n
         /\ \A i \in 0 .. k : Leading(b, k, n, i) \in 0 .. n
         /\ \A i \in 1 .. k : Leading(b, k, n, i)
                                = b * Leading(b, k, n, i - 1) + (Leading(b, k, n, i) % b)
<1>1. \A i \in 0 .. k : Power(b, k - i) \in Nat /\ Power(b, k - i) # 0
  <2>1. \A i \in 0 .. k : k - i \in Nat
    OBVIOUS
  <2> QED BY <2>1, PowerFacts, Zenon
<1>2. Leading(b, k, n, 0) = 0
  <2>1. k - 0 = k /\ Power(b, k) \in Nat /\ Power(b, k) # 0
    BY PowerFacts
  <2> QED BY <2>1 DEF Leading
<1>3. Leading(b, k, n, k) = n
  <2>1. k - k = 0 /\ Power(b, 0) = 1
    BY PowerFacts
  <2> QED BY <2>1 DEF Leading
<1>4. ASSUME NEW i \in 0 .. k PROVE Leading(b, k, n, i) \in 0 .. n
  <2> DEFINE P == Power(b, k - i)
  <2>1. P \in Nat /\ P # 0
    BY <1>1
  <2> HIDE DEF P
  <2>2. n \div P \in 0 .. n
    BY <2>1
  <2> QED BY <2>2 DEF Leading, P
<1>5. ASSUME NEW i \in 1 .. k
      PROVE  Leading(b, k, n, i) = b * Leading(b, k, n, i - 1) + (Leading(b, k, n, i) % b)
  <2> DEFINE P == Power(b, k - i)
             L == n \div P
  <2>1. P \in Nat /\ P # 0 /\ k - i \in Nat /\ k - (i - 1) = (k - i) + 1
    BY <1>1
  <2>2. Power(b, k - (i - 1)) = b * P
    BY <2>1, PowerFacts
  <2>3. n \div (b * P) = L \div b
    <3> HIDE DEF P
    <3> QED BY <2>1, DivDiv
  <2>4. L \in Nat
    <3> HIDE DEF P
    <3> QED BY <2>1
  <2> HIDE DEF L
  <2>5. L = b * (L \div b) + (L % b)
    BY <2>4
  <2> QED BY <2>2, <2>3, <2>5 DEF Leading, L
<1> QED BY <1>2, <1>3, <1>4, <1>5

=============================================================================
