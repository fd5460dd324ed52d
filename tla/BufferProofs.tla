----------------------------- MODULE BufferProofs -----------------------------
(***************************************************************************)
(* Proofs about Buffer and WriteLoop, for any lists, blocks, strings and   *)
(* bounds.                                                                 *)
(***************************************************************************)
EXTENDS WriteLoop, Induction

\* Every byte of some string.
Bytes == UNION {Range(s) : s \in Strings}

\* Strings are sequences of bytes of bounded length.
LEMMA StringsAreSeqs ==
  ASSUME NEW s \in Strings
  PROVE  s \in Seq(Bytes) /\ Len(s) \in 0 .. MaxLength
<1>1. s \in Seq(Range(s)) /\ Len(s) <= MaxLength /\ MaxLength \in Nat
  BY BufferAssumptions, Zenon
<1>2. Range(s) \subseteq Bytes
  BY Zenon DEF Bytes
<1>3. \A i \in 1 .. Len(s) : s[i] \in Bytes
  BY <1>1, <1>2
<1> QED BY <1>1, <1>3

-----------------------------------------------------------------------------
(***************************************************************************)
(* Buffers over a heap h.  A good one points at a string that is there and *)
(* has bytes of it left, unless the string is empty.                       *)
(***************************************************************************)

\* h is a heap.
IsHeap(h) == h \in [Blocks -> Strings \cup {Freed}]

\* Buffer::str as a function of the heap.
StrIn(h, b) ==
  IF b.storage = Null
    THEN <<>>
    ELSE SubSeq(h[b.storage], b.starting_offset + 1, Len(h[b.storage]))

\* b has bytes left in storage that is alive, or is the whole of an empty
\* string.
HasBytes(h, b) ==
  /\ h[b.storage] # Freed
  /\ b.starting_offset < Len(h[b.storage]) \/ (b.starting_offset = 0 /\ Len(h[b.storage]) = 0)

\* The Buffers that the code makes over the heap h.
Good(h) ==
  {b \in [storage : Blocks \cup {Null}, starting_offset : 0 .. MaxLength] :
     b.storage # Null => HasBytes(h, b)}

\* The string of each of them.
StrOf(h) == [b \in Good(h) |-> StrIn(h, b)]

\* The string of a Buffer, and its length.
LEMMA StrFacts ==
  ASSUME NEW h, IsHeap(h), NEW b \in Good(h)
  PROVE  /\ StrIn(h, b) \in Seq(Bytes)
         /\ b.storage = Null => StrIn(h, b) = <<>>
         /\ b.storage # Null =>
              /\ b.storage \in Blocks
              /\ h[b.storage] \in Strings
              /\ h[b.storage] \in Seq(Bytes)
              /\ Len(h[b.storage]) \in 0 .. MaxLength
              /\ StrIn(h, b) = Drop(h[b.storage], b.starting_offset)
              /\ Len(StrIn(h, b)) = Len(h[b.storage]) - b.starting_offset
              /\ b.starting_offset <= Len(h[b.storage])
         /\ b.starting_offset \in 0 .. MaxLength
<1>1. CASE b.storage = Null
  BY <1>1 DEF StrIn, Good
<1>2. CASE b.storage # Null
  <2> DEFINE s == h[b.storage]
             o == b.starting_offset
  <2>1. b.storage \in Blocks /\ o \in 0 .. MaxLength /\ s # Freed
        /\ (o < Len(s) \/ (o = 0 /\ Len(s) = 0))
    BY <1>2, Zenon DEF Good, HasBytes
  <2>2. s \in Strings
    BY <2>1, Zenon DEF IsHeap
  <2>3. s \in Seq(Bytes) /\ Len(s) \in 0 .. MaxLength
    BY <2>2, StringsAreSeqs, Zenon
  <2>4. StrIn(h, b) = Drop(s, o)
    BY <1>2, Zenon DEF StrIn, Drop
  <2> HIDE DEF s, o
  <2>5. o \in Nat /\ o <= Len(s) /\ MaxLength \in Nat
    BY <2>1, <2>3, BufferAssumptions
  <2>6. Drop(s, o) \in Seq(Bytes) /\ Len(Drop(s, o)) = Len(s) - o
    BY <2>3, <2>5, DropFacts, Zenon
  <2> QED BY <1>2, <2>1, <2>2, <2>3, <2>4, <2>5, <2>6, Zenon DEF s, o
<1> QED BY <1>1, <1>2, Zenon

\* StrOf gives every good Buffer a string.
LEMMA StrOfGives ==
  ASSUME NEW h, IsHeap(h)
  PROVE  Gives(StrOf(h), Good(h), Seq(Bytes))
<1>1. \A b \in Good(h) : StrIn(h, b) \in Seq(Bytes)
  BY StrFacts, Zenon
<1> QED BY <1>1, Zenon DEF StrOf, Gives

\* Buffer::remove_prefix takes n bytes off the front, and leaves a good Buffer.
LEMMA BufferRemovePrefixDrops ==
  ASSUME IsHeap(heap), NEW b \in Good(heap), NEW n \in Nat, n <= Len(StrIn(heap, b))
  PROVE  /\ BufferRemovePrefix(b, n) \in Good(heap)
         /\ StrIn(heap, BufferRemovePrefix(b, n)) = Drop(StrIn(heap, b), n)
<1> DEFINE o == b.starting_offset
           c == BufferRemovePrefix(b, n)
<1>1. o \in 0 .. MaxLength /\ MaxLength \in Nat
  BY StrFacts, BufferAssumptions, Zenon
<1>2. b \in [storage : Blocks \cup {Null}, starting_offset : 0 .. MaxLength]
  BY Zenon DEF Good
<1>3. CASE b.storage = Null
  <2>1. StrIn(heap, b) = <<>> /\ n = 0
    BY <1>3, StrFacts
  <2>2. c = b
    BY <1>1, <1>2, <1>3, <2>1 DEF BufferRemovePrefix
  <2>3. Drop(<<>>, 0) = <<>>
    BY StrFacts, <2>1, DropFacts, Zenon
  <2> QED BY <2>1, <2>2, <2>3, Zenon
<1>4. CASE b.storage # Null
  <2> DEFINE s == heap[b.storage]
  <2>1. /\ b.storage \in Blocks /\ s \in Seq(Bytes) /\ Len(s) \in 0 .. MaxLength
        /\ StrIn(heap, b) = Drop(s, o) /\ Len(StrIn(heap, b)) = Len(s) - o /\ o <= Len(s)
        /\ s # Freed
    BY <1>4, StrFacts, Zenon DEF Good, HasBytes
  <2> HIDE DEF s
  <2>2. CASE o + n = Len(s)
    <3>1. c = [storage |-> Null, starting_offset |-> o + n]
      BY <1>4, <2>2, Zenon DEF BufferRemovePrefix, s
    <3>2. c \in Good(heap) /\ StrIn(heap, c) = <<>>
      BY <1>1, <2>1, <2>2, <3>1 DEF Good, StrIn
    <3>3. StrIn(heap, b) \in Seq(Bytes) /\ n >= Len(StrIn(heap, b))
      BY <1>1, <2>1, <2>2, StrFacts
    <3>4. Drop(StrIn(heap, b), n) = <<>>
      BY <3>3, DropFacts, Zenon
    <3> QED BY <3>2, <3>4, Zenon
  <2>3. CASE o + n # Len(s)
    <3>1. c = [b EXCEPT !.starting_offset = o + n]
      BY <1>4, <2>3, Zenon DEF BufferRemovePrefix, s
    <3>2. o + n \in 0 .. MaxLength /\ o + n < Len(s)
      BY <1>1, <2>1, <2>3
    <3>3. c.storage = b.storage /\ c.starting_offset = o + n
          /\ c \in [storage : Blocks \cup {Null}, starting_offset : 0 .. MaxLength]
      BY <1>2, <3>1, <3>2, Zenon
    <3>4. c \in Good(heap)
      BY <2>1, <3>2, <3>3, Zenon DEF Good, HasBytes, s
    <3>5. StrIn(heap, c) = Drop(s, o + n)
      BY <1>4, <3>3, Zenon DEF StrIn, Drop, s
    <3>6. Drop(s, o + n) = Drop(Drop(s, o), n)
      BY <1>1, <2>1, <3>2, DropDrop
    <3> QED BY <2>1, <3>4, <3>5, <3>6, Zenon
  <2> QED BY <2>2, <2>3, Zenon
<1> QED BY <1>3, <1>4, Zenon

\* The states of the loop of BufferList::remove_prefix.
States(P) == [bufs : Seq(P), n : Nat]

\* A turn of BufferList::remove_prefix is a turn of the removal of Induction.
LEMMA RemoveTurnIs ==
  ASSUME IsHeap(heap), NEW r \in States(Good(heap))
  PROVE  /\ RemoveTurn(r) \in States(Good(heap))
         /\ RemovalTurn(StrOf(heap), Good(heap), r.bufs, r.n, RemoveTurn(r).bufs, RemoveTurn(r).n)
<1> DEFINE P == Good(heap)
           F == StrOf(heap)
           q == RemoveTurn(r)
<1>1. r.bufs \in Seq(P) /\ r.n \in Nat
  BY Zenon DEF States
<1>2. CASE r.n = 0 \/ r.bufs = <<>>
  BY <1>2, Zenon DEF RemoveTurn, RemovalTurn
<1>3. CASE r.n # 0 /\ r.bufs # <<>>
  <2> DEFINE h == Head(r.bufs)
             t == Tail(r.bufs)
  <2>1. h \in P /\ t \in Seq(P)
    BY <1>1, <1>3, HeadTailProperties, Zenon
  <2>2. F[h] = StrIn(heap, h) /\ str(h) = StrIn(heap, h)
    BY <2>1, Zenon DEF StrOf, str, StrIn
  <2>3. Len(F[h]) \in Nat
    <3>1. F[h] \in Seq(Bytes)
      BY <2>1, <2>2, StrFacts, Zenon
    <3> QED BY <3>1
  <2> HIDE DEF P, F
  <2>4. CASE r.n < Len(F[h])
    <3> DEFINE c == BufferRemovePrefix(h, r.n)
    <3>1. c \in P /\ StrIn(heap, c) = Drop(StrIn(heap, h), r.n)
      BY <1>1, <2>1, <2>2, <2>3, <2>4, BufferRemovePrefixDrops DEF P
    <3>2. F[c] = Drop(F[h], r.n)
      BY <2>2, <3>1, Zenon DEF F, StrOf, P
    <3>3. q = [bufs |-> Push(c, t), n |-> 0]
      BY <1>3, <2>2, <2>4, Zenon DEF RemoveTurn, Push
    <3> HIDE DEF c, h, t, q
    <3>4. Push(c, t) \in Seq(P)
      BY <2>1, <3>1 DEF Push
    <3>5. q \in States(P) /\ q.bufs = Push(c, t) /\ q.n = 0
      BY <3>3, <3>4, Zenon DEF States
    <3>6. RemovalTurn(F, P, r.bufs, r.n, q.bufs, q.n)
      BY <1>3, <2>4, <3>1, <3>2, <3>5, Zenon DEF RemovalTurn, h, t
    <3> QED BY <3>5, <3>6, Zenon DEF P, F, q
  <2>5. CASE r.n >= Len(F[h])
    <3>1. q = [bufs |-> t, n |-> r.n - Len(F[h])]
      <4>1. ~(r.n < Len(F[h])) /\ str(h) = F[h]
        BY <1>1, <2>2, <2>3, <2>5
      <4> QED BY <1>3, <4>1, Zenon DEF RemoveTurn
    <3> HIDE DEF h, t, q
    <3>2. q \in States(P) /\ q.bufs = t /\ q.n = r.n - Len(F[h])
      BY <1>1, <2>1, <2>3, <2>5, <3>1 DEF States
    <3>3. RemovalTurn(F, P, r.bufs, r.n, q.bufs, q.n)
      BY <1>1, <1>3, <2>3, <2>5, <3>2 DEF RemovalTurn, h, t
    <3> QED BY <3>2, <3>3, Zenon DEF P, F, q
  <2> QED BY <1>1, <2>3, <2>4, <2>5
<1> QED BY <1>2, <1>3, Zenon

\* BufferList::remove_prefix discards the first n bytes, or everything.
LEMMA ListRemovePrefixDrops ==
  ASSUME IsHeap(heap), NEW bufs \in Seq(Good(heap)), NEW n \in Nat
  PROVE  /\ ListRemovePrefix(bufs, n) \in Seq(Good(heap))
         /\ Join(StrOf(heap), ListRemovePrefix(bufs, n)) = Drop(Join(StrOf(heap), bufs), n)
<1> DEFINE
  P == Good(heap)
  F == StrOf(heap)
  N == Len(bufs)
  a == [bufs |-> bufs, n |-> n]
  Body(f) == [i \in 0 .. N |-> IF i = 0 THEN a ELSE RemoveTurn(f[i - 1])]
  loop == CHOOSE f : f = Body(f)
  st == [r \in States(P) |-> RemoveTurn(r)]
<1>1. ListRemovePrefix(bufs, n) = loop[N].bufs
  BY Zenon DEF ListRemovePrefix
<1>2. N \in Nat /\ a \in States(P) /\ a.bufs = bufs /\ a.n = n
  BY DEF States
<1>3. \A r \in States(P) : /\ RemoveTurn(r) \in States(P)
                           /\ RemovalTurn(F, P, r.bufs, r.n, RemoveTurn(r).bufs, RemoveTurn(r).n)
  BY RemoveTurnIs, Zenon
<1> HIDE DEF P, F, a, N
<1>4. Gives(st, States(P), States(P))
  BY <1>3, Zenon DEF Gives
<1>5. \E f : f = Body(f)
  <2> HIDE DEF st
  <2>1. PICK f : f \in [0 .. N -> States(P)] /\ IsTurnLoop(f, N, a, st)
    BY <1>2, <1>4, TurnLoop, Zenon
  <2>2. \A i \in 1 .. N : f[i] = RemoveTurn(f[i - 1])
    <3>1. \A i \in 1 .. N : f[i - 1] \in States(P)
      BY <1>2, <2>1
    <3>2. \A i \in 1 .. N : f[i] = st[f[i - 1]]
      BY <2>1, Zenon DEF IsTurnLoop
    <3> QED BY <3>1, <3>2, Zenon DEF st
  <2>3. f = Body(f)
    BY <1>2, <2>1, <2>2 DEF IsTurnLoop
  <2> QED BY <2>3, Zenon
<1>6. loop = Body(loop)
  BY <1>5, Zenon
<1> HIDE DEF loop
<1>7. loop[0] = a /\ \A i \in 1 .. N : loop[i] = RemoveTurn(loop[i - 1])
  BY <1>2, <1>6
<1> DEFINE T == {i \in 0 .. N : loop[i] \in States(P)}
<1>8. 0 .. N \subseteq T
  <2>1. 0 \in T
    BY <1>2, <1>7
  <2>2. ASSUME NEW i \in 1 .. N, i - 1 \in T PROVE i \in T
    BY <1>3, <1>7, <2>2
  <2> HIDE DEF T
  <2> QED BY <1>2, <2>1, <2>2, UpTo, Zenon
<1> DEFINE p == [i \in 0 .. N |-> loop[i].bufs]
           m == [i \in 0 .. N |-> loop[i].n]
<1>9. IsRemoval(F, P, bufs, n, p, m)
  <2>1. p[0] = bufs /\ m[0] = n
    BY <1>2, <1>7
  <2>2. ASSUME NEW i \in 1 .. N PROVE RemovalTurn(F, P, p[i - 1], m[i - 1], p[i], m[i])
    <3>1. i - 1 \in 0 .. N /\ i \in 0 .. N
      BY <1>2
    <3>2. p[i - 1] = loop[i - 1].bufs /\ m[i - 1] = loop[i - 1].n /\ p[i] = loop[i].bufs /\ m[i] = loop[i].n
      BY <3>1, Zenon
    <3>3. loop[i - 1] \in States(P) /\ loop[i] = RemoveTurn(loop[i - 1])
      BY <1>7, <1>8, <3>1, Zenon
    <3> QED BY <1>3, <3>2, <3>3, Zenon
  <2> QED BY <2>1, <2>2, Zenon DEF IsRemoval, N
<1>10. p[N] = ListRemovePrefix(bufs, n)
  BY <1>1, <1>2
<1>11. Gives(F, P, Seq(Bytes))
  BY StrOfGives, Zenon DEF F, P
<1> HIDE DEF p, m
<1>12. p[N] \in Seq(P) /\ Join(F, p[N]) = Drop(Join(F, bufs), n)
  BY <1>9, <1>11, RemovalLoop DEF N, P
<1> QED BY <1>10, <1>12, Zenon DEF P, F

-----------------------------------------------------------------------------
(***************************************************************************)
(* The inductive invariant: every Buffer is good, every string is in use,  *)
(* and no list is longer than MaxLength.                                   *)
(***************************************************************************)

\* concatenate as a function of the heap.
TextIn(h, bufs) == ConcatSeq([i \in DOMAIN bufs |-> StrIn(h, bufs[i])])

\* The inductive invariant: lists hold good Buffers only, storage that is alive
\* is referenced, and no list is longer than a string may be.
BufInv(h, bs) ==
  /\ IsHeap(h)
  /\ bs \in [Lists -> Seq(Good(h))]
  /\ \A k \in Blocks : h[k] # Freed => k \in Referenced(bs)
  /\ \A l \in Lists : Len(TextIn(h, bs[l])) <= MaxLength

\* It holds of the heap and the lists.
BufferInv == BufInv(heap, buffers)

\* concatenate is a join.
LEMMA TextIsJoin ==
  ASSUME NEW h, IsHeap(h), NEW bufs \in Seq(Good(h))
  PROVE  TextIn(h, bufs) = Join(StrOf(h), bufs) /\ TextIn(h, bufs) \in Seq(Bytes)
<1>1. \A i \in DOMAIN bufs : bufs[i] \in Good(h)
  OBVIOUS
<1>2. \A i \in DOMAIN bufs : StrIn(h, bufs[i]) = StrOf(h)[bufs[i]]
  BY <1>1, Zenon DEF StrOf
<1>3. [i \in DOMAIN bufs |-> StrIn(h, bufs[i])] = MapSeq(StrOf(h), bufs)
  BY <1>2, Zenon DEF MapSeq
<1>4. Join(StrOf(h), bufs) \in Seq(Bytes)
  BY StrOfGives, JoinType, Zenon
<1> QED BY <1>3, <1>4, Zenon DEF TextIn, Join

\* BufferList::size is the number of bytes of concatenate.
LEMMA SizeIsLen ==
  ASSUME IsHeap(heap), NEW bufs \in Seq(Good(heap))
  PROVE  size(bufs) = Len(TextIn(heap, bufs))
<1> DEFINE G == [b \in Good(heap) |-> Len(StrIn(heap, b))]
<1>1. \A b \in Good(heap) : Len(StrIn(heap, b)) \in Nat
  <2> SUFFICES ASSUME NEW b \in Good(heap) PROVE Len(StrIn(heap, b)) \in Nat
    BY Zenon
  <2>1. StrIn(heap, b) \in Seq(Bytes)
    BY StrFacts, Zenon
  <2> QED BY <2>1
<1>2. Measures(G, StrOf(heap), Good(heap))
  BY <1>1, Zenon DEF Measures, Gives, StrOf
<1>3. \A i \in DOMAIN bufs : bufs[i] \in Good(heap)
  OBVIOUS
<1>4. [i \in DOMAIN bufs |-> Len(str(bufs[i]))] = MapSeq(G, bufs)
  BY <1>3, Zenon DEF MapSeq, str, StrIn
<1> HIDE DEF G
<1>5. SumSeq(MapSeq(G, bufs)) = Len(Join(StrOf(heap), bufs))
  BY <1>2, StrOfGives, JoinLen, Zenon
<1> QED BY <1>4, <1>5, TextIsJoin, Zenon DEF size

\* The heap once the blocks that no Buffer of bs points at are freed.
Kept(h, bs) == [b \in Blocks |-> IF b \in Referenced(bs) THEN h[b] ELSE Freed]

\* Freeing what nothing points at changes no Buffer and no text.
LEMMA FreeingKeeps ==
  ASSUME NEW h, IsHeap(h), NEW bs \in [Lists -> Seq(Good(h))],
         \A l \in Lists : Len(TextIn(h, bs[l])) <= MaxLength,
         NEW h2, h2 = Kept(h, bs)
  PROVE  /\ BufInv(h2, bs)
         /\ \A l \in Lists : TextIn(h2, bs[l]) = TextIn(h, bs[l])
<1>1. IsHeap(h2)
  BY Zenon DEF IsHeap, Kept
<1>2. ASSUME NEW l \in Lists, NEW i \in DOMAIN bs[l]
      PROVE  bs[l][i] \in Good(h2) /\ StrIn(h2, bs[l][i]) = StrIn(h, bs[l][i])
  <2> DEFINE b == bs[l][i]
  <2>1. b \in Good(h)
    OBVIOUS
  <2>2. b.storage \in Referenced(bs)
    BY DEF Referenced, Range
  <2> HIDE DEF b
  <2>3. b.storage # Null => b.storage \in Blocks /\ h2[b.storage] = h[b.storage]
    BY <2>1, <2>2, StrFacts, Zenon DEF Kept
  <2>4. b \in Good(h2)
    BY <2>1, <2>3, Zenon DEF Good, HasBytes
  <2>5. StrIn(h2, b) = StrIn(h, b)
    BY <2>3, Zenon DEF StrIn
  <2> QED BY <2>4, <2>5, Zenon DEF b
<1>3. \A l \in Lists : TextIn(h2, bs[l]) = TextIn(h, bs[l])
  <2> SUFFICES ASSUME NEW l \in Lists PROVE TextIn(h2, bs[l]) = TextIn(h, bs[l])
    BY Zenon
  <2>1. [i \in DOMAIN bs[l] |-> StrIn(h2, bs[l][i])] = [i \in DOMAIN bs[l] |-> StrIn(h, bs[l][i])]
    BY <1>2, Zenon
  <2> QED BY <2>1, Zenon DEF TextIn
<1>4. bs \in [Lists -> Seq(Good(h2))]
  <2> SUFFICES ASSUME NEW l \in Lists PROVE bs[l] \in Seq(Good(h2))
    BY Zenon
  <2> DEFINE s == bs[l]
  <2>1. s \in Seq(Good(h)) /\ \A i \in DOMAIN s : s[i] \in Good(h2)
    BY <1>2, Zenon
  <2> HIDE DEF s
  <2>2. s \in Seq(Good(h2))
    BY <2>1
  <2> QED BY <2>2, Zenon DEF s
<1>5. \A k \in Blocks : h2[k] # Freed => k \in Referenced(bs)
  BY Zenon DEF Kept
<1> QED BY <1>1, <1>3, <1>4, <1>5, Zenon DEF BufInv

\* The text of every list.
Texts(h, bs) == [l \in Lists |-> TextIn(h, bs[l])]

\* The list l gets new Buffers over a heap that has all that was there.
LEMMA UpdateKeeps ==
  ASSUME BufferInv, NEW l \in Lists, NEW h, IsHeap(h),
         \A k \in Blocks : heap[k] # Freed => h[k] = heap[k],
         NEW bufs \in Seq(Good(h)), Len(TextIn(h, bufs)) <= MaxLength,
         Update(l, bufs, h)
  PROVE  /\ BufferInv'
         /\ Texts(heap', buffers') = [Texts(heap, buffers) EXCEPT ![l] = TextIn(h, bufs)]
<1>1. IsHeap(heap) /\ buffers \in [Lists -> Seq(Good(heap))]
      /\ \A k \in Lists : Len(TextIn(heap, buffers[k])) <= MaxLength
  BY Zenon DEF BufferInv, BufInv
<1>2. Good(heap) \subseteq Good(h) /\ \A b \in Good(heap) : StrIn(h, b) = StrIn(heap, b)
  <2> SUFFICES ASSUME NEW b \in Good(heap) PROVE b \in Good(h) /\ StrIn(h, b) = StrIn(heap, b)
    BY Zenon
  <2>1. b.storage # Null => b.storage \in Blocks /\ h[b.storage] = heap[b.storage]
    BY <1>1, StrFacts, Zenon DEF Good, HasBytes
  <2> QED BY <2>1, Zenon DEF Good, HasBytes, StrIn
<1>3. ASSUME NEW k \in Lists
      PROVE  buffers[k] \in Seq(Good(h)) /\ TextIn(h, buffers[k]) = TextIn(heap, buffers[k])
  <2> DEFINE s == buffers[k]
  <2>1. s \in Seq(Good(heap))
    BY <1>1, Zenon
  <2> HIDE DEF s
  <2>2. \A i \in DOMAIN s : s[i] \in Good(heap)
    BY <2>1
  <2>3. s \in Seq(Good(h))
    BY <1>2, <2>1
  <2>4. [i \in DOMAIN s |-> StrIn(h, s[i])] = [i \in DOMAIN s |-> StrIn(heap, s[i])]
    BY <1>2, <2>2, Zenon
  <2> QED BY <2>3, <2>4, Zenon DEF s, TextIn
<1> DEFINE bs == [buffers EXCEPT ![l] = bufs]
           h2 == [b \in Blocks |-> IF b \in Referenced(bs) THEN h[b] ELSE Freed]
<1>4. buffers' = bs /\ heap' = h2
  BY Zenon DEF Update
<1>5. DOMAIN bs = Lists /\ bs[l] = bufs /\ \A k \in Lists : k # l => bs[k] = buffers[k]
  BY <1>1, Zenon
<1>6. bs \in [Lists -> Seq(Good(h))]
  BY <1>1, <1>3, Zenon
<1> HIDE DEF bs
<1>7. \A k \in Lists : Len(TextIn(h, bs[k])) <= MaxLength
  BY <1>1, <1>3, <1>5, Zenon
<1>8. BufInv(h2, bs) /\ \A k \in Lists : TextIn(h2, bs[k]) = TextIn(h, bs[k])
  <2> HIDE DEF h2
  <2>1. h2 = Kept(h, bs)
    BY Zenon DEF h2, Kept
  <2> QED BY ONLY IsHeap(h), <1>6, <1>7, <2>1, FreeingKeeps, Zenon
<1> HIDE DEF h2
<1>9. BufferInv'
  BY <1>4, <1>8, Zenon DEF BufferInv
<1>10. Texts(h2, bs) = [Texts(heap, buffers) EXCEPT ![l] = TextIn(h, bufs)]
  <2>1. TextIn(h2, bs[l]) = TextIn(h, bufs)
    BY <1>5, <1>8, Zenon
  <2>2. \A k \in Lists : k # l => TextIn(h2, bs[k]) = TextIn(heap, buffers[k])
    BY <1>3, <1>5, <1>8, Zenon
  <2> QED BY ONLY l \in Lists, <2>1, <2>2, Zenon DEF Texts
<1> QED BY <1>4, <1>9, <1>10, Zenon

\* What each operation does to the invariant and to the texts of the lists.
Becomes(l, text) == Texts(heap', buffers') = [Texts(heap, buffers) EXCEPT ![l] = text]

\* What the invariant says of one list.
LEMMA ListTexts ==
  ASSUME BufferInv, NEW l \in Lists
  PROVE  /\ IsHeap(heap)
         /\ buffers[l] \in Seq(Good(heap))
         /\ TextIn(heap, buffers[l]) \in Seq(Bytes)
         /\ Len(TextIn(heap, buffers[l])) \in 0 .. MaxLength
         /\ Texts(heap, buffers)[l] = TextIn(heap, buffers[l])
<1>1. IsHeap(heap) /\ buffers[l] \in Seq(Good(heap)) /\ Len(TextIn(heap, buffers[l])) <= MaxLength
  BY Zenon DEF BufferInv, BufInv
<1>2. TextIn(heap, buffers[l]) \in Seq(Bytes)
  BY <1>1, TextIsJoin, Zenon
<1> QED BY <1>1, <1>2, BufferAssumptions DEF Texts

\* Buffers over the heap as it is.
LEMMA UpdateInPlace ==
  ASSUME BufferInv, NEW l \in Lists, NEW bufs \in Seq(Good(heap)),
         Len(TextIn(heap, bufs)) <= MaxLength, Update(l, bufs, heap)
  PROVE  BufferInv' /\ Becomes(l, TextIn(heap, bufs))
<1>1. IsHeap(heap)
  BY Zenon DEF BufferInv, BufInv
<1> QED BY <1>1, UpdateKeeps, Zenon DEF Becomes

\* A list made from a string has that text.
LEMMA FromStringKeeps ==
  ASSUME BufferInv, NEW l \in Lists, NEW s \in Strings, FromString(l, s)
  PROVE  BufferInv' /\ Becomes(l, s)
<1>1. PICK k \in Blocks : heap[k] = Freed /\ Update(l, <<BufferOf(k)>>, [heap EXCEPT ![k] = s])
  BY Zenon DEF FromString
<1> DEFINE h == [heap EXCEPT ![k] = s]
           b == BufferOf(k)
           bufs == <<b>>
<1>2. IsHeap(heap)
  BY Zenon DEF BufferInv, BufInv
<1>3. IsHeap(h) /\ h[k] = s /\ \A j \in Blocks : heap[j] # Freed => h[j] = heap[j]
  BY <1>1, <1>2, Zenon DEF IsHeap
<1>4. b.storage = k /\ b.starting_offset = 0 /\ k # Null /\ MaxLength \in Nat /\ s # Freed
      /\ b = [storage |-> k, starting_offset |-> 0]
  BY BufferAssumptions, Zenon DEF BufferOf
<1>5. s \in Seq(Bytes) /\ Len(s) \in 0 .. MaxLength
  BY StringsAreSeqs, Zenon
<1> HIDE DEF h, b
<1>6. b \in Good(h)
  <2>1. b \in [storage : Blocks \cup {Null}, starting_offset : 0 .. MaxLength]
    BY <1>4
  <2>2. HasBytes(h, b)
    BY <1>3, <1>4, <1>5 DEF HasBytes
  <2> QED BY <2>1, <2>2, Zenon DEF Good
<1>7. StrIn(h, b) = s
  BY <1>3, <1>4, <1>5, SubSeqFull DEF StrIn
<1>8. bufs \in Seq(Good(h))
  BY <1>6
<1>9. TextIn(h, bufs) = s
  <2>1. Join(StrOf(h), bufs) = StrOf(h)[b]
    BY <1>3, <1>6, StrOfGives, JoinOne
  <2>2. StrOf(h)[b] = s
    BY <1>6, <1>7, Zenon DEF StrOf
  <2> QED BY <1>3, <1>8, <2>1, <2>2, TextIsJoin, Zenon
<1>10. Update(l, bufs, h)
  BY <1>1, Zenon DEF h, b
<1> HIDE DEF bufs
<1>11. Len(TextIn(h, bufs)) <= MaxLength
  BY <1>5, <1>9
<1>12. BufferInv' /\ Texts(heap', buffers') = [Texts(heap, buffers) EXCEPT ![l] = TextIn(h, bufs)]
  BY ONLY BufferInv, <1>3, <1>8, <1>10, <1>11, UpdateKeeps, Zenon
<1> QED BY <1>9, <1>12, Zenon DEF Becomes

\* BufferList::append gives a list the text of both.
LEMMA ListAppendKeeps ==
  ASSUME BufferInv, NEW l \in Lists, NEW m \in Lists, ListAppend(l, m)
  PROVE  BufferInv' /\ Becomes(l, TextIn(heap, buffers[l]) \o TextIn(heap, buffers[m]))
<1> DEFINE a == buffers[l]
           b == buffers[m]
           c == a \o b
<1>1. IsHeap(heap) /\ a \in Seq(Good(heap)) /\ b \in Seq(Good(heap))
      /\ TextIn(heap, a) \in Seq(Bytes) /\ TextIn(heap, b) \in Seq(Bytes)
  BY ListTexts, Zenon
<1>2. size(a) + size(b) <= MaxLength /\ Update(l, c, heap)
  BY Zenon DEF ListAppend
<1> HIDE DEF a, b
<1>3. c \in Seq(Good(heap))
  BY <1>1, ConcatProperties, Zenon
<1>4. Join(StrOf(heap), c) = Join(StrOf(heap), a) \o Join(StrOf(heap), b)
  BY <1>1, StrOfGives, JoinConcat
<1> HIDE DEF c
<1>5. TextIn(heap, c) = TextIn(heap, a) \o TextIn(heap, b)
  BY <1>1, <1>3, <1>4, TextIsJoin, Zenon
<1>6. Len(TextIn(heap, a) \o TextIn(heap, b)) = Len(TextIn(heap, a)) + Len(TextIn(heap, b))
  BY <1>1, ConcatProperties, Zenon
<1>7. Len(TextIn(heap, c)) <= MaxLength
  BY <1>1, <1>2, <1>5, <1>6, SizeIsLen, Zenon
<1>8. BufferInv' /\ Becomes(l, TextIn(heap, c))
  BY <1>2, <1>3, <1>7, UpdateInPlace, Zenon
<1> QED BY <1>5, <1>8, Zenon DEF a, b

\* A copy has the text of the original.
LEMMA ListCopyKeeps ==
  ASSUME BufferInv, NEW l \in Lists, NEW m \in Lists, ListCopy(l, m)
  PROVE  BufferInv' /\ Becomes(l, TextIn(heap, buffers[m]))
<1>1. Update(l, buffers[m], heap)
  BY Zenon DEF ListCopy
<1>2. buffers[m] \in Seq(Good(heap)) /\ Len(TextIn(heap, buffers[m])) <= MaxLength
  BY ListTexts, BufferAssumptions
<1> QED BY <1>1, <1>2, UpdateInPlace, Zenon

\* The text of a list of one Buffer.
LEMMA TextOfOne ==
  ASSUME IsHeap(heap), NEW b \in Good(heap)
  PROVE  <<b>> \in Seq(Good(heap)) /\ TextIn(heap, <<b>>) = StrIn(heap, b)
<1> DEFINE q == <<b>>
<1>1. q \in Seq(Good(heap))
  OBVIOUS
<1>2. Join(StrOf(heap), q) = StrOf(heap)[b]
  BY StrOfGives, JoinOne, Zenon
<1> HIDE DEF q
<1>3. StrOf(heap)[b] = StrIn(heap, b)
  BY Zenon DEF StrOf
<1>4. TextIn(heap, q) = StrIn(heap, b)
  BY <1>1, <1>2, <1>3, TextIsJoin, Zenon
<1> QED BY <1>1, <1>4, Zenon DEF q

\* The conversion to a Buffer and back keeps the text, whether it shares the
\* storage or copies the bytes.
LEMMA ViaBufferKeeps ==
  ASSUME BufferInv, NEW l \in Lists, NEW m \in Lists, ViaBuffer(l, m)
  PROVE  BufferInv' /\ Becomes(l, TextIn(heap, buffers[m]))
<1>1. CASE Len(buffers[m]) = 1 /\ Update(l, buffers[m], heap)
  BY <1>1, ListCopyKeeps, Zenon DEF ListCopy
<1>2. CASE buffers[m] = <<>> /\ Update(l, <<BufferOf(Null)>>, heap)
  <2> DEFINE b == BufferOf(Null)
             bufs == <<b>>
  <2>1. b \in Good(heap) /\ StrIn(heap, b) = <<>>
    BY BufferAssumptions DEF BufferOf, Good, StrIn
  <2>2. IsHeap(heap)
    BY Zenon DEF BufferInv, BufInv
  <2> HIDE DEF b
  <2>3. bufs \in Seq(Good(heap)) /\ TextIn(heap, bufs) = <<>>
    BY <2>1, <2>2, TextOfOne, Zenon
  <2>4. TextIn(heap, buffers[m]) = <<>>
    <3>1. buffers[m] \in Seq(Good(heap))
      BY ListTexts, Zenon
    <3>2. Join(StrOf(heap), <<>>) = <<>>
      BY JoinEmpty, Zenon
    <3> QED BY <1>2, <2>2, <3>1, <3>2, TextIsJoin, Zenon
  <2>5. Update(l, bufs, heap)
    BY <1>2, Zenon DEF b
  <2> HIDE DEF bufs
  <2>6. Len(TextIn(heap, bufs)) <= MaxLength
    BY <2>3, BufferAssumptions
  <2> QED BY <2>3, <2>4, <2>5, <2>6, UpdateInPlace, Zenon
<1> QED BY <1>1, <1>2, Zenon DEF ViaBuffer

\* Dropping does not make a string longer.
LEMMA DropShorter ==
  ASSUME NEW C, NEW s \in Seq(C), NEW n \in Nat
  PROVE  Len(Drop(s, n)) <= Len(s)
<1>1. CASE n <= Len(s)
  BY <1>1, DropFacts
<1>2. CASE n >= Len(s)
  BY <1>2, DropFacts
<1> QED BY <1>1, <1>2

\* BufferList::remove_prefix drops the first n bytes of the text.
LEMMA RemovePrefixKeeps ==
  ASSUME BufferInv, NEW l \in Lists, NEW n \in Nat, RemovePrefix(l, n)
  PROVE  BufferInv' /\ Becomes(l, Drop(TextIn(heap, buffers[l]), n))
<1> DEFINE a == buffers[l]
           c == ListRemovePrefix(a, n)
<1>1. IsHeap(heap) /\ a \in Seq(Good(heap)) /\ TextIn(heap, a) \in Seq(Bytes)
      /\ Len(TextIn(heap, a)) <= MaxLength /\ MaxLength \in Nat
  BY ListTexts, BufferAssumptions
<1>2. Update(l, c, heap)
  BY Zenon DEF RemovePrefix
<1> HIDE DEF a
<1>3. c \in Seq(Good(heap)) /\ Join(StrOf(heap), c) = Drop(Join(StrOf(heap), a), n)
  BY <1>1, ListRemovePrefixDrops, Zenon
<1> HIDE DEF c
<1>4. TextIn(heap, c) = Drop(TextIn(heap, a), n)
  BY <1>1, <1>3, TextIsJoin, Zenon
<1>5. Len(Drop(TextIn(heap, a), n)) <= Len(TextIn(heap, a))
  BY <1>1, DropShorter, Zenon
<1>6. Len(TextIn(heap, c)) \in Nat /\ Len(TextIn(heap, a)) \in Nat
  BY <1>1, <1>3, TextIsJoin
<1>7. Len(TextIn(heap, c)) <= MaxLength
  BY <1>1, <1>4, <1>5, <1>6
<1>8. BufferInv' /\ Becomes(l, TextIn(heap, c))
  BY <1>2, <1>3, <1>7, UpdateInPlace, Zenon
<1> QED BY <1>4, <1>8, Zenon DEF a

\* A sequence of length one is its element.
LEMMA SeqOfOne ==
  ASSUME NEW S, NEW a \in Seq(S), Len(a) = 1
  PROVE  a[1] \in S /\ a = <<a[1]>>
<1>1. a[1] \in S
  OBVIOUS
<1> DEFINE q == <<a[1]>>
<1>2. q \in Seq(S) /\ Len(q) = 1 /\ q[1] = a[1]
  BY <1>1
<1> HIDE DEF q
<1>3. a = q
  <2>1. \A i \in 1 .. Len(a) : a[i] = q[i]
    BY <1>2
  <2> QED BY <1>2, <2>1, SeqEqual, Zenon
<1> QED BY <1>1, <1>3, Zenon DEF q

\* Buffer::remove_prefix drops the first n bytes of its string.
LEMMA RemovePrefixOfBufferKeeps ==
  ASSUME BufferInv, NEW l \in Lists, NEW n \in Nat, RemovePrefixOfBuffer(l, n)
  PROVE  BufferInv' /\ Becomes(l, Drop(TextIn(heap, buffers[l]), n))
<1> DEFINE a == buffers[l]
           b == a[1]
           c == BufferRemovePrefix(b, n)
           bufs == <<c>>
<1>1. IsHeap(heap) /\ a \in Seq(Good(heap)) /\ TextIn(heap, a) \in Seq(Bytes)
      /\ Len(TextIn(heap, a)) <= MaxLength /\ MaxLength \in Nat
  BY ListTexts, BufferAssumptions
<1>2. Len(a) = 1 /\ n <= Len(str(b)) /\ Update(l, bufs, heap)
  BY Zenon DEF RemovePrefixOfBuffer
<1> HIDE DEF a
<1>3. b \in Good(heap) /\ a = <<b>>
  BY ONLY <1>1, <1>2, SeqOfOne, Zenon
<1>4. str(b) = StrIn(heap, b)
  BY Zenon DEF str, StrIn
<1> HIDE DEF b
<1>5. c \in Good(heap) /\ StrIn(heap, c) = Drop(StrIn(heap, b), n)
  BY <1>1, <1>2, <1>3, <1>4, BufferRemovePrefixDrops, Zenon
<1>6. TextIn(heap, a) = StrIn(heap, b)
  BY <1>1, <1>3, TextOfOne, Zenon
<1> HIDE DEF c
<1>7. bufs \in Seq(Good(heap)) /\ TextIn(heap, bufs) = Drop(TextIn(heap, a), n)
  BY <1>1, <1>5, <1>6, TextOfOne, Zenon
<1>8. Len(Drop(TextIn(heap, a), n)) <= Len(TextIn(heap, a))
  BY <1>1, DropShorter, Zenon
<1> HIDE DEF bufs
<1>9. Len(TextIn(heap, bufs)) \in Nat /\ Len(TextIn(heap, a)) \in Nat
  BY <1>1, <1>7, TextIsJoin
<1>10. Len(TextIn(heap, bufs)) <= MaxLength
  BY <1>1, <1>7, <1>8, <1>9
<1>11. BufferInv' /\ Becomes(l, TextIn(heap, bufs))
  BY <1>2, <1>7, <1>10, UpdateInPlace, Zenon
<1> QED BY <1>7, <1>11, Zenon DEF a

-----------------------------------------------------------------------------
(***************************************************************************)
(* The theorems about Buffer.                                              *)
(***************************************************************************)

\* The invariant holds at first.
LEMMA BufferInvInit == Init => BufferInv
<1> SUFFICES ASSUME Init PROVE BufInv(heap, buffers)
  BY Zenon DEF BufferInv
<1>1. heap = [b \in Blocks |-> Freed] /\ buffers = [l \in Lists |-> <<>>]
  BY Zenon DEF Init
<1>2. IsHeap(heap) /\ \A k \in Blocks : heap[k] = Freed
  BY <1>1, Zenon DEF IsHeap
<1>3. buffers \in [Lists -> Seq(Good(heap))] /\ \A l \in Lists : buffers[l] = <<>>
  BY <1>1
<1>4. \A l \in Lists : TextIn(heap, buffers[l]) = <<>>
  <2>1. <<>> \in Seq(Good(heap)) /\ Join(StrOf(heap), <<>>) = <<>>
    BY JoinEmpty
  <2>2. TextIn(heap, <<>>) = <<>>
    BY <1>2, <2>1, TextIsJoin, Zenon
  <2> QED BY <1>3, <2>2, Zenon
<1>5. \A l \in Lists : Len(TextIn(heap, buffers[l])) <= MaxLength
  BY <1>4, BufferAssumptions
<1> QED BY <1>2, <1>3, <1>5, Zenon DEF BufInv

\* Every operation keeps it.
LEMMA BufferInvNext == BufferInv /\ [BufferNext]_bufvars => BufferInv'
<1> SUFFICES ASSUME BufferInv, [BufferNext]_bufvars PROVE BufferInv'
  BY Zenon
<1>0. \A n \in 0 .. MaxLength + 1 : n \in Nat
  BY BufferAssumptions
<1>1. ASSUME NEW l \in Lists, NEW s \in Strings, FromString(l, s) PROVE BufferInv'
  BY <1>1, FromStringKeeps, Zenon
<1>2. ASSUME NEW l \in Lists, NEW m \in Lists, ListAppend(l, m) PROVE BufferInv'
  BY <1>2, ListAppendKeeps, Zenon
<1>3. ASSUME NEW l \in Lists, NEW m \in Lists, ListCopy(l, m) PROVE BufferInv'
  BY <1>3, ListCopyKeeps, Zenon
<1>4. ASSUME NEW l \in Lists, NEW m \in Lists, ViaBuffer(l, m) PROVE BufferInv'
  BY <1>4, ViaBufferKeeps, Zenon
<1>5. ASSUME NEW l \in Lists, NEW n \in 0 .. MaxLength + 1, RemovePrefix(l, n) PROVE BufferInv'
  BY <1>0, <1>5, RemovePrefixKeeps, Zenon
<1>6. ASSUME NEW l \in Lists, NEW n \in 0 .. MaxLength + 1, RemovePrefixOfBuffer(l, n)
      PROVE  BufferInv'
  BY <1>0, <1>6, RemovePrefixOfBufferKeeps, Zenon
<1>7. CASE UNCHANGED bufvars
  BY <1>7, Zenon DEF bufvars, BufferInv
<1> QED BY <1>1, <1>2, <1>3, <1>4, <1>5, <1>6, <1>7, Zenon DEF BufferNext

\* It implies what the runs check.
LEMMA BufferInvImplies == BufferInv => BufferTypeOK /\ StorageLifetime
<1> SUFFICES ASSUME BufferInv PROVE BufferTypeOK /\ StorageLifetime
  BY Zenon
<1>1. IsHeap(heap) /\ \A k \in Blocks : heap[k] # Freed => k \in Referenced(buffers)
  BY Zenon DEF BufferInv, BufInv
<1>2. ASSUME NEW l \in Lists, NEW i \in DOMAIN buffers[l]
      PROVE  buffers[l][i] \in Good(heap)
  <2> DEFINE s == buffers[l]
  <2>1. s \in Seq(Good(heap))
    BY ListTexts, Zenon
  <2> QED BY <2>1
<1>3. BufferTypeOK
  <2>1. ASSUME NEW l \in Lists, NEW i \in DOMAIN buffers[l]
        PROVE  LET b == buffers[l][i] IN
               /\ b.storage \in Blocks \cup {Null}
               /\ b.starting_offset \in 0 .. MaxLength
               /\ b.storage # Null => b.starting_offset <= Len(heap[b.storage])
    BY <1>1, <1>2, StrFacts, Zenon
  <2> QED BY <1>1, <2>1, Zenon DEF BufferTypeOK, IsHeap
<1>4. ASSUME NEW l \in Lists, NEW i \in DOMAIN buffers[l], buffers[l][i].storage # Null
      PROVE  heap[buffers[l][i].storage] # Freed
  BY <1>2, <1>4, Zenon DEF Good, HasBytes
<1>5. ASSUME NEW k \in Blocks, heap[k] \notin {Freed, <<>>}
      PROVE  \E l \in Lists : \E i \in DOMAIN buffers[l] :
               buffers[l][i].storage = k /\ str(buffers[l][i]) # <<>>
  <2>0. PICK l \in Lists : \E i \in DOMAIN buffers[l] : buffers[l][i].storage = k
    BY <1>1, <1>5 DEF Referenced, Range
  <2>1. PICK i \in DOMAIN buffers[l] : buffers[l][i].storage = k
    BY <2>0, Zenon
  <2> DEFINE b == buffers[l][i]
  <2>2. b \in Good(heap) /\ b.storage = k /\ k # Null
    BY <1>2, <2>1, BufferAssumptions, Zenon
  <2> HIDE DEF b
  <2>3. heap[k] \in Seq(Bytes) /\ b.starting_offset \in 0 .. MaxLength
        /\ Len(StrIn(heap, b)) = Len(heap[k]) - b.starting_offset
        /\ StrIn(heap, b) \in Seq(Bytes)
    BY <1>1, <2>2, StrFacts, Zenon
  <2>4. Len(heap[k]) # 0
    BY <1>5, <2>3
  <2>5. Len(StrIn(heap, b)) # 0
    BY <2>2, <2>3, <2>4, BufferAssumptions DEF Good, HasBytes
  <2>6. str(b) # <<>>
    <3>1. str(b) = StrIn(heap, b)
      BY Zenon DEF str, StrIn
    <3> QED BY <2>5, <3>1
  <2> QED BY <2>1, <2>6, Zenon DEF b
<1> QED BY <1>3, <1>4, <1>5, Zenon DEF StorageLifetime

\* The inductive invariant holds in every behaviour of BufferLists.
THEOREM BufferInvariant == BufferSpec => []BufferInv
BY BufferInvInit, BufferInvNext, PTL DEF BufferSpec

\* The mapping to ByteStrings is Texts, before and after a step.
LEMMA TextsAreStrings ==
  /\ [l \in Lists |-> concatenate(buffers[l])] = Texts(heap, buffers)
  /\ [l \in Lists |-> concatenate(buffers[l])]' = Texts(heap', buffers')
BY Zenon DEF Texts, TextIn, StrIn, concatenate, str

\* What each operation does to the strings that the lists stand for.
LEMMA BufferSteps ==
  ASSUME BufferInv
  PROVE  /\ \A l \in Lists, s \in Strings : FromString(l, s) => Abstract!BSSet(l, s)
         /\ \A l, m \in Lists :
              /\ ListAppend(l, m) => Abstract!BSAppend(l, m)
              /\ ListCopy(l, m) \/ ViaBuffer(l, m) => Abstract!BSCopy(l, m)
         /\ \A l \in Lists, n \in 0 .. MaxLength + 1 :
              RemovePrefix(l, n) \/ RemovePrefixOfBuffer(l, n) => Abstract!BSRemovePrefix(l, n)
<1> DEFINE str0 == [l \in Lists |-> concatenate(buffers[l])]
           str1 == [l \in Lists |-> concatenate(buffers[l])]'
<1>0. str0 = Texts(heap, buffers) /\ str1 = Texts(heap', buffers')
  BY TextsAreStrings, Zenon
<1>1. ASSUME NEW l \in Lists, NEW s \in Strings, FromString(l, s) PROVE Abstract!BSSet(l, s)
  <2>1. str1 = [str0 EXCEPT ![l] = s]
    BY <1>0, <1>1, FromStringKeeps, Zenon DEF Becomes
  <2> QED BY <2>1, Zenon DEF Abstract!BSSet
<1>2. ASSUME NEW l \in Lists, NEW m \in Lists, ListAppend(l, m) PROVE Abstract!BSAppend(l, m)
  <2>1. Becomes(l, TextIn(heap, buffers[l]) \o TextIn(heap, buffers[m]))
    BY <1>2, ListAppendKeeps, Zenon
  <2>2. str0[l] = TextIn(heap, buffers[l]) /\ str0[m] = TextIn(heap, buffers[m])
    BY <1>0, Zenon DEF Texts
  <2>3. str1 = [str0 EXCEPT ![l] = str0[l] \o str0[m]]
    BY <1>0, <2>1, <2>2, Zenon DEF Becomes
  <2> QED BY <2>3, Zenon DEF Abstract!BSAppend
<1>3. ASSUME NEW l \in Lists, NEW m \in Lists, ListCopy(l, m) \/ ViaBuffer(l, m)
      PROVE  Abstract!BSCopy(l, m)
  <2>1. Becomes(l, TextIn(heap, buffers[m]))
    BY <1>3, ListCopyKeeps, ViaBufferKeeps, Zenon
  <2>2. str0[m] = TextIn(heap, buffers[m])
    BY <1>0, Zenon DEF Texts
  <2>3. str1 = [str0 EXCEPT ![l] = str0[m]]
    BY <1>0, <2>1, <2>2, Zenon DEF Becomes
  <2> QED BY <2>3, Zenon DEF Abstract!BSCopy
<1>4. ASSUME NEW l \in Lists, NEW n \in 0 .. MaxLength + 1,
             RemovePrefix(l, n) \/ RemovePrefixOfBuffer(l, n)
      PROVE  Abstract!BSRemovePrefix(l, n)
  <2>1. n \in Nat
    BY BufferAssumptions
  <2>2. Becomes(l, Drop(TextIn(heap, buffers[l]), n))
    BY <1>4, <2>1, RemovePrefixKeeps, RemovePrefixOfBufferKeeps, Zenon
  <2>3. str0[l] = TextIn(heap, buffers[l])
    BY <1>0, Zenon DEF Texts
  <2>4. str1 = [str0 EXCEPT ![l] = Drop(str0[l], n)]
    BY <1>0, <2>2, <2>3, Zenon DEF Becomes
  <2> QED BY <2>4, Zenon DEF Abstract!BSRemovePrefix, Abstract!DropFirst, Drop
<1> QED BY <1>1, <1>2, <1>3, <1>4, Zenon

\* BufferLists that share storage behave as byte strings of their own, and each
\* operation does to its list what it promises.
THEOREM BufferImplementsByteStrings == BufferSpec => ImplementsByteStrings
<1> DEFINE Steps ==
  /\ \A l \in Lists, s \in Strings : FromString(l, s) => Abstract!BSSet(l, s)
  /\ \A l, m \in Lists :
       /\ ListAppend(l, m) => Abstract!BSAppend(l, m)
       /\ ListCopy(l, m) \/ ViaBuffer(l, m) => Abstract!BSCopy(l, m)
  /\ \A l \in Lists, n \in 0 .. MaxLength + 1 :
       RemovePrefix(l, n) \/ RemovePrefixOfBuffer(l, n) => Abstract!BSRemovePrefix(l, n)
<1>1. Init => Abstract!BSInit
  <2> SUFFICES ASSUME Init PROVE Abstract!BSInit
    BY Zenon
  <2>1. buffers = [l \in Lists |-> <<>>]
    BY Zenon DEF Init
  <2>2. concatenate(<<>>) = <<>>
    <3>1. [i \in DOMAIN <<>> |-> str(<<>>[i])] = <<>>
      OBVIOUS
    <3> QED BY <3>1, ConcatSeqEmpty, Zenon DEF concatenate
  <2> QED BY <2>1, <2>2, Zenon DEF Abstract!BSInit
<1>2. BufferInv => Steps
  BY BufferSteps, Zenon
<1>3. Steps /\ [BufferNext]_bufvars => [Abstract!BSNext]_([l \in Lists |-> concatenate(buffers[l])])
  <2> SUFFICES ASSUME Steps, [BufferNext]_bufvars
               PROVE  [Abstract!BSNext]_([l \in Lists |-> concatenate(buffers[l])])
    BY Zenon
  <2>1. CASE UNCHANGED bufvars
    <3>1. UNCHANGED [l \in Lists |-> concatenate(buffers[l])]
      BY <2>1, Zenon DEF bufvars, concatenate, str
    <3> QED BY <3>1, Zenon
  <2>2. CASE BufferNext
    BY <2>2, Zenon DEF BufferNext, Abstract!BSNext
  <2> QED BY <2>1, <2>2, Zenon
<1>4. Steps => [UNCHANGED bufvars \/ Steps]_bufvars
  BY Zenon
<1> QED
  BY <1>1, <1>2, <1>3, <1>4, BufferInvariant, PTL DEF BufferSpec, ImplementsByteStrings, Abstract!BSSpec

\* Every Buffer of a list has an offset inside its string, or no string at all.
THEOREM BufferTypes == BufferSpec => []BufferTypeOK
BY BufferInvariant, BufferInvImplies, PTL

\* A string is there while a Buffer points at it, and gone as soon as no Buffer
\* has bytes of it left.
THEOREM BufferStorageLifetime == BufferSpec => []StorageLifetime
BY BufferInvariant, BufferInvImplies, PTL

-----------------------------------------------------------------------------
(***************************************************************************)
(* Views over a heap h, and their removal loop.                            *)
(***************************************************************************)

\* The bytes of a view, as a function of the heap.
ViewIn(h, v) ==
  IF v.block = Null THEN <<>> ELSE SubSeq(h[v.block], v.first, v.first + v.size - 1)

\* A view lies inside storage that is alive.
Inside(h, v) ==
  IF v.block = Null
    THEN v.size = 0
    ELSE h[v.block] # Freed /\ v.first >= 1 /\ v.first + v.size - 1 <= Len(h[v.block])

\* Such views.
GoodViews(h) ==
  {v \in [block : Blocks \cup {Null}, first : Nat, size : Nat] : Inside(h, v)}

\* The bytes of each of them.
BytesOf(h) == [v \in GoodViews(h) |-> ViewIn(h, v)]

\* as_iovecs as a function of the heap.
ViewText(h, vs) == ConcatSeq([i \in DOMAIN vs |-> ViewIn(h, vs[i])])

\* The bytes of a view, and their number.
LEMMA ViewFacts ==
  ASSUME NEW h, IsHeap(h), NEW v \in GoodViews(h)
  PROVE  /\ v.size \in Nat /\ v.first \in Nat
         /\ ViewIn(h, v) \in Seq(Bytes)
         /\ Len(ViewIn(h, v)) = v.size
         /\ v.block # Null =>
              /\ h[v.block] \in Seq(Bytes)
              /\ \A i \in 1 .. v.size : ViewIn(h, v)[i] = h[v.block][v.first + i - 1]
<1>1. v \in [block : Blocks \cup {Null}, first : Nat, size : Nat] /\ Inside(h, v)
  BY Zenon DEF GoodViews
<1>2. v.size \in Nat /\ v.first \in Nat /\ v.block \in Blocks \cup {Null}
  BY <1>1, Zenon
<1>3. CASE v.block = Null
  BY <1>1, <1>2, <1>3 DEF ViewIn, Inside
<1>4. CASE v.block # Null
  <2> DEFINE s == h[v.block]
             f == v.first
             k == v.size
  <2>1. s \in Strings /\ f >= 1 /\ f + k - 1 <= Len(s)
    BY <1>1, <1>2, <1>4, Zenon DEF Inside, IsHeap
  <2>2. s \in Seq(Bytes)
    BY <2>1, StringsAreSeqs, Zenon
  <2>3. ViewIn(h, v) = SubSeq(s, f, f + k - 1)
    BY <1>4, Zenon DEF ViewIn
  <2>4. f \in Nat /\ k \in Nat
    BY <1>2, Zenon
  <2> HIDE DEF s, f, k
  <2>5. \A i \in f .. f + k - 1 : s[i] \in Bytes
    BY <2>1, <2>2, <2>4
  <2>6. /\ SubSeq(s, f, f + k - 1) \in Seq(Bytes)
        /\ Len(SubSeq(s, f, f + k - 1)) = k
        /\ \A i \in 1 .. k : SubSeq(s, f, f + k - 1)[i] = s[f + i - 1]
    BY <2>2, <2>4, <2>5, SubSeqProperties
  <2> QED BY <2>2, <2>3, <2>4, <2>6, Zenon DEF s, f, k
<1> QED BY <1>3, <1>4, Zenon

\* BytesOf gives every good view a string.
LEMMA BytesOfGives ==
  ASSUME NEW h, IsHeap(h)
  PROVE  Gives(BytesOf(h), GoodViews(h), Seq(Bytes))
<1>1. \A v \in GoodViews(h) : ViewIn(h, v) \in Seq(Bytes)
  BY ViewFacts, Zenon
<1> QED BY <1>1, Zenon DEF BytesOf, Gives

\* as_iovecs is a join.
LEMMA ViewTextIsJoin ==
  ASSUME NEW h, IsHeap(h), NEW vs \in Seq(GoodViews(h))
  PROVE  ViewText(h, vs) = Join(BytesOf(h), vs) /\ ViewText(h, vs) \in Seq(Bytes)
<1>1. \A i \in DOMAIN vs : vs[i] \in GoodViews(h)
  OBVIOUS
<1>2. \A i \in DOMAIN vs : ViewIn(h, vs[i]) = BytesOf(h)[vs[i]]
  BY <1>1, Zenon DEF BytesOf
<1>3. [i \in DOMAIN vs |-> ViewIn(h, vs[i])] = MapSeq(BytesOf(h), vs)
  BY <1>2, Zenon DEF MapSeq
<1>4. Join(BytesOf(h), vs) \in Seq(Bytes)
  BY BytesOfGives, JoinType, Zenon
<1> QED BY <1>3, <1>4, Zenon DEF ViewText, Join

\* BufferViewList::size is the number of bytes that the iovecs describe.
LEMMA ViewsSizeIsLen ==
  ASSUME NEW h, IsHeap(h), NEW vs \in Seq(GoodViews(h))
  PROVE  ViewsSize(vs) = Len(ViewText(h, vs))
<1> DEFINE G == [v \in GoodViews(h) |-> v.size]
<1>1. \A v \in GoodViews(h) : v.size \in Nat /\ v.size = Len(ViewIn(h, v))
  BY ViewFacts, Zenon
<1>2. Measures(G, BytesOf(h), GoodViews(h))
  BY <1>1, Zenon DEF Measures, Gives, BytesOf
<1>3. \A i \in DOMAIN vs : vs[i] \in GoodViews(h)
  OBVIOUS
<1>4. [i \in DOMAIN vs |-> vs[i].size] = MapSeq(G, vs)
  BY <1>3, Zenon DEF MapSeq
<1> HIDE DEF G
<1>5. SumSeq(MapSeq(G, vs)) = Len(Join(BytesOf(h), vs))
  BY <1>2, BytesOfGives, JoinLen, Zenon
<1> QED BY <1>4, <1>5, ViewTextIsJoin, Zenon DEF ViewsSize

\* string_view::remove_prefix takes n bytes off the front.
LEMMA ViewRemovePrefixDrops ==
  ASSUME NEW h, IsHeap(h), NEW v \in GoodViews(h), NEW n \in Nat, n < v.size
  PROVE  /\ ViewRemovePrefix(v, n) \in GoodViews(h)
         /\ ViewIn(h, ViewRemovePrefix(v, n)) = Drop(ViewIn(h, v), n)
<1> DEFINE c == ViewRemovePrefix(v, n)
<1>1. v \in [block : Blocks \cup {Null}, first : Nat, size : Nat] /\ Inside(h, v)
      /\ v.size \in Nat /\ v.first \in Nat
  BY Zenon DEF GoodViews
<1>2. v.block # Null
  BY <1>1 DEF Inside
<1>3. c.block = v.block /\ c.first = v.first + n /\ c.size = v.size - n
      /\ c \in [block : Blocks \cup {Null}, first : Nat, size : Nat]
  <2> DEFINE f == v.first + n
             k == v.size - n
  <2>1. f \in Nat /\ k \in Nat
    BY <1>1
  <2>2. c = [v EXCEPT !.first = f, !.size = k]
    BY Zenon DEF ViewRemovePrefix
  <2> HIDE DEF f, k, c
  <2>3. c.block = v.block /\ c.first = f /\ c.size = k
        /\ c \in [block : Blocks \cup {Null}, first : Nat, size : Nat]
    BY <1>1, <2>1, <2>2, Zenon
  <2> QED BY <2>3, Zenon DEF f, k
<1> HIDE DEF c
<1>4. c \in GoodViews(h)
  BY <1>1, <1>2, <1>3 DEF GoodViews, Inside
<1> DEFINE s == h[v.block]
           t == ViewIn(h, v)
           u == ViewIn(h, c)
           d == Drop(t, n)
<1>5. t \in Seq(Bytes) /\ Len(t) = v.size /\ \A i \in 1 .. v.size : t[i] = s[v.first + i - 1]
  BY <1>2, ViewFacts, Zenon
<1>6. u \in Seq(Bytes) /\ Len(u) = c.size /\ \A i \in 1 .. c.size : u[i] = s[c.first + i - 1]
  <2>1. u \in Seq(Bytes) /\ Len(u) = c.size
        /\ \A i \in 1 .. c.size : u[i] = h[c.block][c.first + i - 1]
    <3>1. c.block # Null
      BY <1>2, <1>3, Zenon
    <3> QED BY <1>4, <3>1, ViewFacts, Zenon
  <2>2. h[c.block] = s
    BY <1>3, Zenon
  <2> HIDE DEF s, u
  <2> QED BY <2>1, <2>2, Zenon
<1> HIDE DEF s, t, u
<1>7. d \in Seq(Bytes) /\ IsDrop(d, t, n)
  <2>1. n <= Len(t)
    BY <1>1, <1>5
  <2> QED BY <1>5, <2>1, DropIs, Zenon
<1> HIDE DEF d
<1>8. Len(u) = Len(d)
  BY <1>3, <1>5, <1>6, <1>7, Zenon DEF IsDrop
<1>9. ASSUME NEW i \in 1 .. Len(u) PROVE u[i] = d[i]
  <2>1. i \in 1 .. c.size /\ i \in 1 .. Len(t) - n /\ n + i \in 1 .. v.size
        /\ v.first + (n + i) - 1 = c.first + i - 1
    BY <1>1, <1>3, <1>5, <1>6
  <2>2. d[i] = t[n + i]
    BY <1>7, <2>1, Zenon DEF IsDrop
  <2>3. t[n + i] = s[v.first + (n + i) - 1] /\ u[i] = s[c.first + i - 1]
    BY <1>5, <1>6, <2>1, Zenon
  <2> QED BY <2>1, <2>2, <2>3, Zenon
<1>10. u = d
  BY <1>6, <1>7, <1>8, <1>9, SeqEqual, Zenon
<1> QED BY <1>4, <1>10, Zenon DEF u, d, t, c

\* The states of the loop of BufferViewList::remove_prefix.
ViewStates(P) == [vs : Seq(P), n : Nat]

\* A turn of BufferViewList::remove_prefix is a turn of the removal of
\* Induction.
LEMMA ViewsTurnIs ==
  ASSUME NEW h, IsHeap(h), NEW r \in ViewStates(GoodViews(h))
  PROVE  /\ ViewsTurn(r) \in ViewStates(GoodViews(h))
         /\ RemovalTurn(BytesOf(h), GoodViews(h), r.vs, r.n, ViewsTurn(r).vs, ViewsTurn(r).n)
<1> DEFINE P == GoodViews(h)
           F == BytesOf(h)
           q == ViewsTurn(r)
<1>1. r.vs \in Seq(P) /\ r.n \in Nat
  BY Zenon DEF ViewStates
<1>2. CASE r.n = 0 \/ r.vs = <<>>
  BY <1>2, Zenon DEF ViewsTurn, RemovalTurn
<1>3. CASE r.n # 0 /\ r.vs # <<>>
  <2> DEFINE v == Head(r.vs)
             t == Tail(r.vs)
  <2>1. v \in P /\ t \in Seq(P)
    BY <1>1, <1>3, HeadTailProperties, Zenon
  <2>2. F[v] = ViewIn(h, v)
    BY <2>1, Zenon DEF BytesOf
  <2>3. v.size \in Nat /\ Len(F[v]) = v.size
    BY <2>1, <2>2, ViewFacts, Zenon
  <2> HIDE DEF P, F
  <2>4. CASE r.n < v.size
    <3> DEFINE c == ViewRemovePrefix(v, r.n)
    <3>1. c \in P /\ ViewIn(h, c) = Drop(ViewIn(h, v), r.n)
      BY <1>1, <2>1, <2>4, ViewRemovePrefixDrops, Zenon DEF P
    <3>2. F[c] = Drop(F[v], r.n)
      BY <2>2, <3>1, Zenon DEF F, BytesOf, P
    <3>3. q = [vs |-> Push(c, t), n |-> 0]
      BY <1>3, <2>4, Zenon DEF ViewsTurn, Push
    <3> HIDE DEF c, v, t, q
    <3>4. Push(c, t) \in Seq(P)
      BY <2>1, <3>1 DEF Push
    <3>5. q \in ViewStates(P) /\ q.vs = Push(c, t) /\ q.n = 0
      BY <3>3, <3>4, Zenon DEF ViewStates
    <3>6. RemovalTurn(F, P, r.vs, r.n, q.vs, q.n)
      BY <1>3, <2>3, <2>4, <3>1, <3>2, <3>5, Zenon DEF RemovalTurn, v, t
    <3> QED BY <3>5, <3>6, Zenon DEF P, F, q
  <2>5. CASE r.n >= v.size
    <3>1. q = [vs |-> t, n |-> r.n - v.size]
      <4>1. ~(r.n < v.size)
        BY <1>1, <2>3, <2>5
      <4> QED BY <1>3, <4>1, Zenon DEF ViewsTurn
    <3> HIDE DEF v, t, q
    <3>2. q \in ViewStates(P) /\ q.vs = t /\ q.n = r.n - v.size
      <4>1. r.n - v.size \in Nat
        BY <1>1, <2>3, <2>5
      <4>2. t \in Seq(P)
        BY <2>1, Zenon
      <4> QED BY ONLY <3>1, <4>1, <4>2, Zenon DEF ViewStates
    <3>3. RemovalTurn(F, P, r.vs, r.n, q.vs, q.n)
      BY <1>1, <1>3, <2>3, <2>5, <3>2, SMTT(30) DEF RemovalTurn, v, t
    <3> QED BY <3>2, <3>3, Zenon DEF P, F, q
  <2> QED BY <1>1, <2>3, <2>4, <2>5
<1> QED BY <1>2, <1>3, Zenon

\* BufferViewList::remove_prefix discards the first n bytes, or everything.
LEMMA ViewsRemovePrefixDrops ==
  ASSUME NEW h, IsHeap(h), NEW vs \in Seq(GoodViews(h)), NEW n \in Nat
  PROVE  /\ ViewsRemovePrefix(vs, n) \in Seq(GoodViews(h))
         /\ ViewText(h, ViewsRemovePrefix(vs, n)) = Drop(ViewText(h, vs), n)
<1> DEFINE
  P == GoodViews(h)
  F == BytesOf(h)
  N == Len(vs)
  a == [vs |-> vs, n |-> n]
  Body(f) == [i \in 0 .. N |-> IF i = 0 THEN a ELSE ViewsTurn(f[i - 1])]
  loop == CHOOSE f : f = Body(f)
  st == [r \in ViewStates(P) |-> ViewsTurn(r)]
<1>1. ViewsRemovePrefix(vs, n) = loop[N].vs
  BY Zenon DEF ViewsRemovePrefix
<1>2. N \in Nat /\ a \in ViewStates(P) /\ a.vs = vs /\ a.n = n
  BY SMTT(30) DEF ViewStates
<1>3. \A r \in ViewStates(P) : /\ ViewsTurn(r) \in ViewStates(P)
                               /\ RemovalTurn(F, P, r.vs, r.n, ViewsTurn(r).vs, ViewsTurn(r).n)
  BY ViewsTurnIs, Zenon
<1> HIDE DEF P, F, a, N
<1>4. Gives(st, ViewStates(P), ViewStates(P))
  BY <1>3, Zenon DEF Gives
<1>5. \E f : f = Body(f)
  <2> HIDE DEF st
  <2>1. PICK f : f \in [0 .. N -> ViewStates(P)] /\ IsTurnLoop(f, N, a, st)
    BY <1>2, <1>4, TurnLoop, Zenon
  <2>2. \A i \in 1 .. N : f[i] = ViewsTurn(f[i - 1])
    <3>1. \A i \in 1 .. N : f[i - 1] \in ViewStates(P)
      BY <1>2, <2>1
    <3>2. \A i \in 1 .. N : f[i] = st[f[i - 1]]
      BY <2>1, Zenon DEF IsTurnLoop
    <3> QED BY <3>1, <3>2, Zenon DEF st
  <2>3. f = Body(f)
    BY <1>2, <2>1, <2>2 DEF IsTurnLoop
  <2> QED BY <2>3, Zenon
<1>6. loop = Body(loop)
  BY <1>5, Zenon
<1> HIDE DEF loop
<1>7. loop[0] = a /\ \A i \in 1 .. N : loop[i] = ViewsTurn(loop[i - 1])
  BY <1>2, <1>6
<1> DEFINE T == {i \in 0 .. N : loop[i] \in ViewStates(P)}
<1>8. 0 .. N \subseteq T
  <2>1. 0 \in T
    BY <1>2, <1>7
  <2>2. ASSUME NEW i \in 1 .. N, i - 1 \in T PROVE i \in T
    BY <1>3, <1>7, <2>2
  <2> HIDE DEF T
  <2> QED BY <1>2, <2>1, <2>2, UpTo, Zenon
<1> DEFINE p == [i \in 0 .. N |-> loop[i].vs]
           m == [i \in 0 .. N |-> loop[i].n]
<1>9. IsRemoval(F, P, vs, n, p, m)
  <2>1. p[0] = vs /\ m[0] = n
    BY <1>2, <1>7, SMTT(30)
  <2>2. ASSUME NEW i \in 1 .. N PROVE RemovalTurn(F, P, p[i - 1], m[i - 1], p[i], m[i])
    <3>1. i - 1 \in 0 .. N /\ i \in 0 .. N
      BY <1>2
    <3>2. p[i - 1] = loop[i - 1].vs /\ m[i - 1] = loop[i - 1].n /\ p[i] = loop[i].vs /\ m[i] = loop[i].n
      BY <3>1, Zenon
    <3>3. loop[i - 1] \in ViewStates(P) /\ loop[i] = ViewsTurn(loop[i - 1])
      BY <1>7, <1>8, <3>1, Zenon
    <3> QED BY <1>3, <3>2, <3>3, Zenon
  <2> QED BY <2>1, <2>2, Zenon DEF IsRemoval, N
<1>10. p[N] = ViewsRemovePrefix(vs, n)
  BY <1>1, <1>2
<1>11. Gives(F, P, Seq(Bytes))
  BY BytesOfGives, Zenon DEF F, P
<1> HIDE DEF p, m
<1>12. p[N] \in Seq(P) /\ Join(F, p[N]) = Drop(Join(F, vs), n)
  BY <1>9, <1>11, RemovalLoop DEF N, P
<1> DEFINE rest == ViewsRemovePrefix(vs, n)
<1>13. rest \in Seq(GoodViews(h)) /\ Join(BytesOf(h), rest) = Drop(Join(BytesOf(h), vs), n)
  BY <1>10, <1>12, Zenon DEF P, F
<1> HIDE DEF rest
<1>14. ViewText(h, rest) = Join(BytesOf(h), rest) /\ ViewText(h, vs) = Join(BytesOf(h), vs)
  BY <1>13, ViewTextIsJoin, Zenon
<1> QED BY <1>13, <1>14, Zenon DEF rest

-----------------------------------------------------------------------------
(***************************************************************************)
(* The theorems about WriteLoop.                                           *)
(*                                                                         *)
(* The invariant of the loop: what the kernel has taken and what the views *)
(* show make up the input.  Every turn but the last takes a byte, so that  *)
(* the count of turns stays below the number of bytes and cannot come      *)
(* round to 0.                                                             *)
(***************************************************************************)

\* Between calls of write() nothing is left of the last one.
Idle ==
  /\ views = <<>> /\ output = <<>> /\ input = <<>>
  /\ total_bytes_written = 0 /\ write_count = 0 /\ outcome = "none"

\* In the loop: what was handed over and what the views still show is the
\* input, and the bytes are counted.
Writing ==
  /\ output \in Seq(Bytes)
  /\ views \in Seq(GoodViews(heap))
  /\ output \o ViewText(heap, views) = input
  /\ total_bytes_written = Len(output)
  /\ Len(input) <= MaxLength
  /\ outcome \in {"none", "returned", "threw"}
  /\ outcome = "none" => write_count \in 0 .. total_bytes_written
  /\ outcome = "returned" =>
       /\ write_count \in 1 .. total_bytes_written + 1
       /\ write_all => ViewText(heap, views) = <<>>

\* The inductive invariant of the writev loop.
WriteInv ==
  /\ BufferInv
  /\ pc \in {"client", "writev"}
  /\ pc = "client" => Idle
  /\ pc = "writev" => Writing

\* It holds at first.
LEMMA WriteInvInit == WLInit => WriteInv
BY BufferInvInit, Zenon DEF WLInit, WriteInv, Idle

\* The views of a call show the text of its list.
LEMMA CallKeeps ==
  ASSUME WriteInv, NEW l \in Lists, NEW all \in BOOLEAN, Call(l, all)
  PROVE  WriteInv'
<1> DEFINE s == buffers[l]
           vs == [i \in DOMAIN s |-> ViewOf(s[i])]
<1>1. BufferInv /\ Idle /\ heap' = heap /\ buffers' = buffers /\ pc' = "writev"
      /\ views' = vs /\ input' = concatenate(s) /\ outcome' = "none"
      /\ total_bytes_written' = total_bytes_written /\ write_count' = write_count /\ output' = output
  BY Zenon DEF Call, WriteInv, bufvars
<1>2. IsHeap(heap) /\ s \in Seq(Good(heap)) /\ TextIn(heap, s) \in Seq(Bytes)
      /\ Len(TextIn(heap, s)) <= MaxLength
  <2>1. BufferInv /\ MaxLength \in Nat
    BY <1>1, BufferAssumptions, Zenon
  <2> QED BY ONLY l \in Lists, <2>1, ListTexts
<1>3. BufferInv'
  BY <1>1, Zenon DEF BufferInv
<1> HIDE DEF s
<1>4. ASSUME NEW b \in Good(heap)
      PROVE  ViewOf(b) \in GoodViews(heap) /\ ViewIn(heap, ViewOf(b)) = StrIn(heap, b)
  <2> DEFINE v == ViewOf(b)
             o == b.starting_offset
             k == Len(StrIn(heap, b))
  <2>1. StrIn(heap, b) \in Seq(Bytes) /\ o \in 0 .. MaxLength /\ MaxLength \in Nat
    BY <1>2, StrFacts, BufferAssumptions, Zenon
  <2>2. str(b) = StrIn(heap, b) /\ b.storage \in Blocks \cup {Null}
    BY Zenon DEF str, StrIn, Good
  <2>3. k \in Nat /\ o + 1 \in Nat
    BY <2>1
  <2>4. v.block = b.storage /\ v.first = o + 1 /\ v.size = k
        /\ v \in [block : Blocks \cup {Null}, first : Nat, size : Nat]
    BY <2>2, <2>3, Zenon DEF ViewOf
  <2> HIDE DEF v
  <2>5. CASE b.storage = Null
    <3>1. k = 0 /\ StrIn(heap, b) = <<>>
      BY <1>2, <2>5, StrFacts
    <3> QED BY <2>4, <2>5, <3>1, Zenon DEF GoodViews, Inside, ViewIn, v
  <2>6. CASE b.storage # Null
    <3>1. k = Len(heap[b.storage]) - o /\ heap[b.storage] # Freed
          /\ Len(heap[b.storage]) \in 0 .. MaxLength
      BY <1>2, <2>6, StrFacts, Zenon DEF Good, HasBytes
    <3>2. v.first >= 1 /\ v.first + v.size - 1 = Len(heap[b.storage])
      <4> DEFINE L == Len(heap[b.storage])
      <4>1. k = L - o /\ L \in 0 .. MaxLength /\ o \in 0 .. MaxLength /\ MaxLength \in Nat
        BY <2>1, <3>1, Zenon
      <4> HIDE DEF o, k, L
      <4>2. v.first >= 1 /\ v.first + v.size - 1 = L
        BY <2>4, <4>1
      <4> QED BY <4>2, Zenon DEF L
    <3>3. Inside(heap, v)
      <4>1. v.first + v.size - 1 <= Len(heap[b.storage])
        <5> DEFINE L == Len(heap[b.storage])
                   x == v.first + v.size - 1
        <5>1. x = L /\ L \in 0 .. MaxLength /\ MaxLength \in Nat
          BY <2>1, <3>1, <3>2, Zenon
        <5> HIDE DEF x, L
        <5>2. x <= L
          BY ONLY <5>1
        <5> QED BY <5>2, Zenon DEF x, L
      <4> QED BY ONLY <2>4, <2>6, <3>1, <3>2, <4>1, Zenon DEF Inside
    <3>4. ViewIn(heap, v) = StrIn(heap, b)
      BY <2>4, <2>6, <3>2, Zenon DEF ViewIn, StrIn
    <3> QED BY <2>4, <3>3, <3>4, Zenon DEF GoodViews, v
  <2> QED BY <2>5, <2>6, Zenon
<1>5. \A i \in DOMAIN s : s[i] \in Good(heap)
  BY <1>2
<1>6. vs \in Seq(GoodViews(heap))
  BY <1>2, <1>4, <1>5
<1>7. ViewText(heap, vs) = TextIn(heap, s)
  <2>1. [i \in DOMAIN vs |-> ViewIn(heap, vs[i])] = [i \in DOMAIN s |-> StrIn(heap, s[i])]
    BY <1>4, <1>5, Zenon
  <2> QED BY <2>1, Zenon DEF ViewText, TextIn
<1> HIDE DEF vs
<1>8. concatenate(s) = TextIn(heap, s)
  BY Zenon DEF concatenate, TextIn, str, StrIn
<1>9. <<>> \o TextIn(heap, s) = TextIn(heap, s)
  BY <1>2, ConcatEmptySeq, Zenon
<1>10. Writing'
  BY <1>1, <1>2, <1>6, <1>7, <1>8, <1>9 DEF Writing, Idle
<1> QED BY <1>1, <1>3, <1>10, Zenon DEF WriteInv

\* A writev(2) that takes m bytes.
LEMMA WritevKeeps ==
  ASSUME WriteInv, NEW m \in 0 .. MaxLength, Writev(m)
  PROVE  WriteInv'
<1> DEFINE t == ViewText(heap, views)
           taken == SubSeq(t, 1, m)
           rest == ViewsRemovePrefix(views, m)
           n == ViewsSize(views)
<1>1. BufferInv /\ Writing /\ outcome = "none" /\ pc = "writev" /\ pc' = "writev"
      /\ heap' = heap /\ buffers' = buffers /\ write_all' = write_all /\ input' = input
      /\ m <= n
  BY Zenon DEF Writev, WriteInv, bufvars
<1>2. output' = output \o taken
  BY Zenon DEF Writev, as_iovecs, ViewText, ViewBytes, ViewIn
<1>3. IsHeap(heap) /\ views \in Seq(GoodViews(heap)) /\ output \in Seq(Bytes)
      /\ output \o t = input /\ total_bytes_written = Len(output) /\ Len(input) <= MaxLength
      /\ write_count \in 0 .. total_bytes_written
  BY <1>1, Zenon DEF BufferInv, BufInv, Writing
<1>4. m \in Nat /\ MaxLength \in Nat /\ CountModulus \in Nat /\ MaxLength + 1 < CountModulus
  BY BufferAssumptions, WriteLoopAssumptions
<1>5. t \in Seq(Bytes) /\ n = Len(t)
  BY <1>3, ViewTextIsJoin, ViewsSizeIsLen, Zenon
<1>6. rest \in Seq(GoodViews(heap)) /\ ViewText(heap, rest) = Drop(t, m)
  BY <1>3, <1>4, ViewsRemovePrefixDrops, Zenon
<1>7. BufferInv'
  BY <1>1, Zenon DEF BufferInv
<1>8. ZeroWrite(m, n) => m = 0 /\ outcome' = "threw" /\ views' = views
                         /\ total_bytes_written' = total_bytes_written
  BY Zenon DEF Writev, ZeroWrite
<1>9. ~ZeroWrite(m, n) =>
        /\ views' = rest /\ total_bytes_written' = total_bytes_written + m
        /\ write_count' = (write_count + 1) % CountModulus
        /\ outcome' = IF write_all /\ ViewsSize(rest) > 0 THEN "none" ELSE "returned"
  BY Zenon DEF Writev, Add, Again
<1>10. ViewsSize(rest) = Len(Drop(t, m)) /\ Len(Drop(t, m)) = Len(t) - m
       /\ Drop(t, m) \in Seq(Bytes)
  <2>1. ViewsSize(rest) = Len(ViewText(heap, rest))
    BY <1>3, <1>6, ViewsSizeIsLen, Zenon
  <2>2. m <= Len(t)
    BY <1>1, <1>5, Zenon
  <2> HIDE DEF rest, t
  <2> QED BY <1>4, <1>5, <1>6, <2>1, <2>2, DropFacts, Zenon
<1> HIDE DEF t, rest, n
<1>11. /\ taken \in Seq(Bytes) /\ Len(taken) = m
       /\ taken \o Drop(t, m) = t
       /\ m = 0 => taken = <<>>
  <2>1. m <= Len(t)
    BY <1>1, <1>5, Zenon
  <2> QED BY <1>4, <1>5, <2>1, SplitSeq, Zenon
<1> HIDE DEF taken
<1>12. output \o taken \in Seq(Bytes) /\ Len(output \o taken) = Len(output) + m
       /\ Len(output) \in Nat /\ Len(t) \in Nat /\ Len(input) = Len(output) + Len(t)
  <2>1. Len(output \o t) = Len(output) + Len(t)
    BY <1>3, <1>5, ConcatProperties, Zenon
  <2>2. output \in Seq(Bytes) /\ taken \in Seq(Bytes) /\ Len(taken) = m
    BY <1>3, <1>11, Zenon
  <2>3. output \o taken \in Seq(Bytes) /\ Len(output \o taken) = Len(output) + m
    BY ONLY <2>2, ConcatProperties, Zenon
  <2>4. Len(output) \in Nat /\ Len(t) \in Nat
    BY <1>3, <1>5
  <2> QED BY <1>3, <2>1, <2>3, <2>4, Zenon
<1>13. CASE ZeroWrite(m, n)
  <2>1. output' = output
    BY <1>2, <1>3, <1>8, <1>11, <1>13, ConcatEmptySeq, Zenon
  <2>2. Writing'
    BY <1>1, <1>3, <1>8, <1>13, <2>1, Zenon DEF Writing, t
  <2> QED BY <1>1, <1>7, <2>2, Zenon DEF WriteInv
<1>14. CASE ~ZeroWrite(m, n)
  <2>1. m = 0 => n = 0
    BY <1>5, <1>12, <1>14, <1>4 DEF ZeroWrite
  <2>2. total_bytes_written' = Len(output') /\ output' \in Seq(Bytes)
    BY <1>2, <1>3, <1>9, <1>12, <1>14, Zenon
  <2>3. output' \o Drop(t, m) = input
    <3>1. (output \o taken) \o Drop(t, m) = output \o (taken \o Drop(t, m))
      <4> DEFINE d == Drop(t, m)
      <4>1. output \in Seq(Bytes) /\ taken \in Seq(Bytes) /\ d \in Seq(Bytes)
        BY <1>3, <1>10, <1>11, Zenon
      <4> HIDE DEF d
      <4>2. IsAssociativeOn(Seq(Bytes))
        BY ConcatAssoc, Zenon
      <4>3. (output \o taken) \o d = output \o (taken \o d)
        BY ONLY <4>1, <4>2, Zenon DEF IsAssociativeOn
      <4> QED BY <4>3, Zenon DEF d
    <3> QED BY <1>2, <1>3, <1>11, <3>1, Zenon
  <2>4. write_count + 1 < CountModulus /\ write_count \in Nat /\ total_bytes_written \in Nat
    BY <1>3, <1>4, <1>12
  <2>5. write_count' = write_count + 1
    BY <1>4, <1>9, <1>14, <2>4
  <2>6. outcome' = "none" => write_all /\ m > 0
    BY <1>4, <1>5, <1>9, <1>10, <1>12, <1>14, <2>1
  <2>7. outcome' = "none" => write_count' \in 0 .. total_bytes_written'
    BY <1>3, <1>4, <1>9, <1>14, <2>4, <2>5, <2>6
  <2>8. write_count' \in 1 .. total_bytes_written' + 1
    BY <1>3, <1>4, <1>9, <1>14, <2>4, <2>5
  <2>9. outcome' = "returned" /\ write_all => Drop(t, m) = <<>>
    <3>1. outcome' = "returned" /\ write_all => ~(ViewsSize(rest) > 0)
      BY <1>9, <1>14, Zenon
    <3>2. Len(Drop(t, m)) \in Nat
      BY <1>10
    <3>3. outcome' = "returned" /\ write_all => Len(Drop(t, m)) = 0
      BY <1>10, <3>1, <3>2
    <3> QED BY <1>10, <3>3
  <2>10. views' = rest
    BY <1>9, <1>14, Zenon
  <2>11. outcome' \in {"none", "returned", "threw"}
    BY <1>9, <1>14, Zenon
  <2>12. Writing'
    BY <1>1, <1>3, <1>6, <2>2, <2>3, <2>7, <2>8, <2>9, <2>10, <2>11, Zenon DEF Writing
  <2> QED BY <1>1, <1>7, <2>12, Zenon DEF WriteInv
<1> QED BY <1>13, <1>14, Zenon

\* Every step keeps it.
LEMMA WriteInvNext == WriteInv /\ [WLNext]_vars => WriteInv'
<1> SUFFICES ASSUME WriteInv, [WLNext]_vars PROVE WriteInv'
  BY Zenon
<1>1. ASSUME NEW l \in Lists, NEW all \in BOOLEAN, Call(l, all) PROVE WriteInv'
  BY <1>1, CallKeeps, Zenon
<1>2. ASSUME NEW m \in 0 .. MaxLength, Writev(m) PROVE WriteInv'
  BY <1>2, WritevKeeps, Zenon
<1>3. CASE WritevFails
  <2>1. BufferInv' /\ pc' = "writev" /\ outcome' = "threw"
    BY <1>3, Zenon DEF WritevFails, WriteInv, BufferInv, bufvars
  <2>2. Writing'
    BY <1>3, <2>1, Zenon DEF WritevFails, WriteInv, Writing, bufvars
  <2> QED BY <2>1, <2>2, Zenon DEF WriteInv
<1>4. CASE Leave
  <2>1. BufferInv'
    BY <1>4, Zenon DEF Leave, WriteInv, BufferInv, bufvars
  <2> QED BY <1>4, <2>1, Zenon DEF Leave, WriteInv, Idle
<1>5. CASE Prepare
  <2>1. BufferInv'
    BY <1>5, BufferInvNext, Zenon DEF Prepare, WriteInv
  <2> QED BY <1>5, <2>1, Zenon DEF Prepare, WriteInv, Idle, loopvars
<1>6. CASE UNCHANGED vars
  <2>1. BufferInv'
    BY <1>6, Zenon DEF vars, bufvars, WriteInv, BufferInv
  <2> QED BY <1>6, <2>1, Zenon DEF vars, bufvars, loopvars, WriteInv, Idle, Writing
<1> QED BY <1>1, <1>2, <1>3, <1>4, <1>5, <1>6, Zenon DEF WLNext

\* It implies what the runs check.
LEMMA WriteInvImplies == WriteInv => NothingLostOrRepeated /\ ReturnedIsWritten
<1> SUFFICES ASSUME WriteInv PROVE NothingLostOrRepeated /\ ReturnedIsWritten
  BY Zenon
<1>1. as_iovecs(views) = ViewText(heap, views)
  BY Zenon DEF as_iovecs, ViewText, ViewBytes, ViewIn
<1>2. NothingLostOrRepeated
  BY <1>1, Zenon DEF NothingLostOrRepeated, WriteInv, Writing
<1>3. ASSUME outcome = "returned", pc = "writev"
      PROVE  total_bytes_written = Len(output) /\ (write_all => output = input) /\ write_count # 0
  <2>1. Writing
    BY <1>3, Zenon DEF WriteInv
  <2>2. total_bytes_written = Len(output) /\ write_count # 0
    BY <1>3, <2>1 DEF Writing
  <2>3. output \o <<>> = output
    BY <2>1, ConcatEmptySeq, Zenon DEF Writing
  <2>4. write_all => output = input
    BY <1>3, <2>1, <2>3, Zenon DEF Writing
  <2> QED BY <2>2, <2>4, Zenon
<1> QED BY <1>2, <1>3, Zenon DEF ReturnedIsWritten

\* The inductive invariant of the write loop holds in every behaviour.
THEOREM WriteInvariant == WLSpec => []WriteInv
BY WriteInvInit, WriteInvNext, PTL DEF WLSpec

\* However writev(2) cuts the bytes up, no byte is lost, repeated or moved.
THEOREM WriteNothingLost == WLSpec => []NothingLostOrRepeated
BY WriteInvariant, WriteInvImplies, PTL

\* What write() returns is the number of bytes written, and with write_all these
\* are all the bytes.
THEOREM WriteReturnsWritten == WLSpec => []ReturnedIsWritten
BY WriteInvariant, WriteInvImplies, PTL

\* A program that also writes its lists uses them as Buffer allows.
THEOREM WriteUsesBuffer == WLSpec => BufferSpec
<1>1. WLInit => Init
  BY Zenon DEF WLInit
<1>2. [WLNext]_vars => [BufferNext]_bufvars
  BY Zenon DEF WLNext, Call, Writev, WritevFails, Leave, Prepare, vars, bufvars
<1> QED BY <1>1, <1>2, PTL DEF WLSpec, BufferSpec

\* So the lists that are written keep the promises of Buffer.
THEOREM WriteKeepsBuffers ==
  WLSpec => [](BufferTypeOK /\ StorageLifetime) /\ ImplementsByteStrings
BY WriteUsesBuffer, BufferTypes, BufferStorageLifetime, BufferImplementsByteStrings, PTL

-----------------------------------------------------------------------------
(***************************************************************************)
(* WriteLoop implements WriteContract.  The bytes left are those that the  *)
(* views show; that a turn takes them from the front is a fact about       *)
(* remove_prefix, and that the count is exact one about its bound.         *)
(***************************************************************************)

\* Without views there are no bytes.
LEMMA NoViewsNoBytes ==
  ASSUME NEW h
  PROVE  ViewText(h, <<>>) = <<>>
<1>1. [i \in DOMAIN <<>> |-> ViewIn(h, <<>>[i])] = <<>>
  OBVIOUS
<1> QED BY <1>1, ConcatSeqEmpty, Zenon DEF ViewText

\* The iovecs, before and after a step, as functions of the heap.
LEMMA IovecsAre ==
  /\ as_iovecs(views) = ViewText(heap, views)
  /\ as_iovecs(views)' = ViewText(heap', views')
BY Zenon DEF as_iovecs, ViewText, ViewBytes, ViewIn

\* A turn that does not throw takes m bytes from the front, at least one if
\* there are any, counts once, and ends the loop when it should.
LEMMA WritevTakes ==
  ASSUME WriteInv, NEW m \in 0 .. MaxLength, Writev(m), ~ZeroWrite(m, ViewsSize(views))
  PROVE  LET t == ViewText(heap, views) IN
         /\ m \in 0 .. Len(t)
         /\ m = 0 => t = <<>>
         /\ output' = output \o SubSeq(t, 1, m)
         /\ ViewText(heap', views') = SubSeq(t, m + 1, Len(t))
         /\ write_count' = write_count + 1
         /\ total_bytes_written' = Len(output')
         /\ outcome' = IF write_all /\ ViewText(heap', views') # <<>> THEN "none" ELSE "returned"
<1> DEFINE t == ViewText(heap, views)
           rest == ViewsRemovePrefix(views, m)
           n == ViewsSize(views)
<1>1. BufferInv /\ Writing /\ outcome = "none" /\ pc' = "writev" /\ heap' = heap /\ m <= n
  BY Zenon DEF Writev, WriteInv, bufvars
<1>2. output' = output \o SubSeq(t, 1, m)
  BY Zenon DEF Writev, as_iovecs, ViewText, ViewBytes, ViewIn
<1>3. IsHeap(heap) /\ views \in Seq(GoodViews(heap)) /\ output \in Seq(Bytes)
      /\ output \o t = input /\ total_bytes_written = Len(output) /\ Len(input) <= MaxLength
      /\ write_count \in 0 .. total_bytes_written
  BY <1>1, Zenon DEF BufferInv, BufInv, Writing
<1>4. m \in Nat /\ MaxLength \in Nat /\ CountModulus \in Nat /\ MaxLength + 1 < CountModulus
  BY BufferAssumptions, WriteLoopAssumptions
<1>5. t \in Seq(Bytes) /\ n = Len(t)
  BY <1>3, ViewTextIsJoin, ViewsSizeIsLen, Zenon
<1>6. rest \in Seq(GoodViews(heap)) /\ ViewText(heap, rest) = Drop(t, m)
  BY <1>3, <1>4, ViewsRemovePrefixDrops, Zenon
<1>7. /\ views' = rest
      /\ write_count' = (write_count + 1) % CountModulus
      /\ outcome' = IF write_all /\ ViewsSize(rest) > 0 THEN "none" ELSE "returned"
  BY Zenon DEF Writev, Again
<1>8. ViewsSize(rest) = Len(Drop(t, m)) /\ Drop(t, m) \in Seq(Bytes)
  <2>1. ViewsSize(rest) = Len(ViewText(heap, rest))
    BY <1>3, <1>6, ViewsSizeIsLen, Zenon
  <2> QED BY <1>4, <1>5, <1>6, <2>1, DropFacts, Zenon
<1>9. Len(output) \in Nat /\ Len(t) \in Nat /\ Len(input) = Len(output) + Len(t)
  <2>1. Len(output \o t) = Len(output) + Len(t)
    BY <1>3, <1>5, ConcatProperties, Zenon
  <2>2. Len(output) \in Nat /\ Len(t) \in Nat
    BY <1>3, <1>5, LenProperties, Zenon
  <2> QED BY <1>3, <2>1, <2>2, Zenon
<1>10. total_bytes_written' = Len(output')
  <2>1. WriteInv'
    BY WritevKeeps, Zenon
  <2> QED BY <1>1, <2>1, Zenon DEF WriteInv, Writing
<1> HIDE DEF t, rest, n
<1>11. m \in 0 .. Len(t)
  BY <1>1, <1>4, <1>5, <1>9
<1>12. m = 0 => t = <<>>
  <2>1. m = 0 => Len(t) = 0
    BY <1>5, <1>9 DEF ZeroWrite, n
  <2> QED BY <1>5, <2>1, EmptySeq, Zenon
<1>13. write_count' = write_count + 1
  <2>1. write_count + 1 < CountModulus /\ write_count + 1 \in Nat
    BY <1>3, <1>4, <1>9
  <2> QED BY <1>4, <1>7, <2>1
<1>14. ViewsSize(rest) > 0 <=> Drop(t, m) # <<>>
  BY <1>8
<1>15. outcome' = IF write_all /\ Drop(t, m) # <<>> THEN "none" ELSE "returned"
  BY <1>7, <1>14, Zenon
<1>16. ViewText(heap', views') = Drop(t, m)
  BY <1>1, <1>6, <1>7, Zenon
<1> QED BY <1>2, <1>10, <1>11, <1>12, <1>13, <1>15, <1>16, Zenon DEF t, Drop

\* Every step is a step of the contract, or leaves what it speaks of alone.
LEMMA WriteSteps ==
  ASSUME WriteInv, [WLNext]_vars
  PROVE  [Contract!WCNext]_(Contract!wcvars)
<1>1. as_iovecs(views) = ViewText(heap, views) /\ as_iovecs(views)' = ViewText(heap', views')
  BY IovecsAre, Zenon
<1>2. ASSUME NEW l \in Lists, NEW a \in BOOLEAN, Call(l, a) PROVE Contract!Begin
  <2>1. Idle /\ pc = "client" /\ pc' = "writev" /\ outcome' = "none" /\ write_all' \in BOOLEAN
        /\ output' = output /\ write_count' = write_count
    BY <1>2, Zenon DEF Call, WriteInv
  <2>2. CallStatus = "idle" /\ CallStatus' = "writing" /\ CallValue = 0 /\ CallValue' = 0
    BY <2>1, Zenon DEF CallStatus, CallValue, Idle
  <2>3. WriteInv'
    BY <1>2, CallKeeps, Zenon
  <2>4. ViewText(heap', views') \in Seq(Bytes)
    <3>1. IsHeap(heap') /\ views' \in Seq(GoodViews(heap'))
      BY <2>1, <2>3, Zenon DEF WriteInv, Writing, BufferInv, BufInv
    <3> QED BY <3>1, ViewTextIsJoin, Zenon
  <2> QED BY <1>1, <2>1, <2>2, <2>4, Zenon DEF Contract!Begin, Bytes
<1>3. ASSUME NEW m \in 0 .. MaxLength, Writev(m) PROVE Contract!WCNext
  <2>1. pc = "writev" /\ pc' = "writev" /\ outcome = "none" /\ write_all' = write_all
        /\ heap' = heap /\ Writing
    BY <1>3, Zenon DEF Writev, WriteInv, bufvars
  <2>2. CallStatus = "writing" /\ CallValue = 0
    BY <2>1, Zenon DEF CallStatus, CallValue
  <2>3. CASE ZeroWrite(m, ViewsSize(views))
    <3>1. m = 0 /\ outcome' = "threw" /\ views' = views /\ write_count' = write_count
          /\ output' = output \o SubSeq(as_iovecs(views), 1, m)
      BY <1>3, <2>3, Zenon DEF Writev, ZeroWrite
    <3>2. ViewText(heap, views) \in Seq(Bytes) /\ output \in Seq(Bytes)
      <4>1. IsHeap(heap) /\ views \in Seq(GoodViews(heap)) /\ output \in Seq(Bytes)
        BY <2>1, Zenon DEF WriteInv, Writing, BufferInv, BufInv
      <4> QED BY <4>1, ViewTextIsJoin, Zenon
    <3>3. SubSeq(ViewText(heap, views), 1, 0) = <<>>
      BY <3>2
    <3>4. output' = output
      BY <1>1, <3>1, <3>2, <3>3, ConcatEmptySeq, Zenon
    <3>5. CallStatus' = "threw" /\ CallValue' = 0
      BY <2>1, <3>1, Zenon DEF CallStatus, CallValue
    <3>6. Contract!Throw
      BY <1>1, <2>1, <2>2, <3>1, <3>4, <3>5, Zenon DEF Contract!Throw
    <3> QED BY <3>6, Zenon DEF Contract!WCNext
  <2>4. CASE ~ZeroWrite(m, ViewsSize(views))
    <3> DEFINE t == ViewText(heap, views)
               u == ViewText(heap', views')
    <3>1. /\ m \in 0 .. Len(t)
          /\ m = 0 => t = <<>>
          /\ output' = output \o SubSeq(t, 1, m)
          /\ u = SubSeq(t, m + 1, Len(t))
          /\ write_count' = write_count + 1
          /\ total_bytes_written' = Len(output')
          /\ outcome' = IF write_all /\ u # <<>> THEN "none" ELSE "returned"
      BY <1>3, <2>4, WritevTakes, Zenon
    <3> HIDE DEF t, u
    <3>2. IF write_all /\ u # <<>>
            THEN CallStatus' = CallStatus /\ CallValue' = CallValue
            ELSE CallStatus' = "returned" /\ CallValue' = Len(output')
      BY <2>1, <2>2, <3>1, Zenon DEF CallStatus, CallValue
    <3>3. Contract!Take(m)
      BY <1>1, <2>1, <2>2, <3>1, <3>2, Zenon DEF Contract!Take, t, u
    <3> QED BY <1>1, <3>1, <3>3, Zenon DEF Contract!WCNext, t
  <2> QED BY <2>3, <2>4, Zenon
<1>4. CASE WritevFails
  <2>1. pc = "writev" /\ pc' = "writev" /\ outcome = "none" /\ outcome' = "threw"
        /\ write_all' = write_all /\ heap' = heap /\ views' = views /\ output' = output
        /\ write_count' = write_count
    BY <1>4, Zenon DEF WritevFails, bufvars
  <2>2. CallStatus = "writing" /\ CallStatus' = "threw" /\ CallValue = 0 /\ CallValue' = 0
    BY <2>1, Zenon DEF CallStatus, CallValue
  <2>3. Contract!Throw
    BY <1>1, <2>1, <2>2, Zenon DEF Contract!Throw
  <2> QED BY <2>3, Zenon DEF Contract!WCNext
<1>5. CASE Leave
  <2>1. pc = "writev" /\ pc' = "client" /\ outcome \in {"returned", "threw"} /\ outcome' = "none"
        /\ write_all' = FALSE /\ views' = <<>> /\ output' = <<>> /\ write_count' = 0
    BY <1>5, Zenon DEF Leave, WriteInv, Writing
  <2>2. CallStatus \in {"returned", "threw"} /\ CallStatus' = "idle" /\ CallValue' = 0
    BY <2>1, Zenon DEF CallStatus, CallValue
  <2>3. as_iovecs(views)' = <<>>
    BY <1>1, <2>1, NoViewsNoBytes, Zenon
  <2>4. Contract!End
    BY <2>1, <2>2, <2>3, Zenon DEF Contract!End, Contract!NoCall
  <2> QED BY <2>4, Zenon DEF Contract!WCNext
<1>6. CASE Prepare
  <2>1. views = <<>> /\ UNCHANGED loopvars
    BY <1>6, Zenon DEF Prepare, WriteInv, Idle
  <2>2. as_iovecs(views)' = as_iovecs(views)
    BY <1>1, <2>1, NoViewsNoBytes, Zenon DEF loopvars
  <2> QED BY <2>1, <2>2, Zenon DEF loopvars, Contract!wcvars, CallStatus, CallValue
<1>7. CASE UNCHANGED vars
  <2>1. as_iovecs(views)' = as_iovecs(views)
    BY <1>1, <1>7, Zenon DEF vars, bufvars, loopvars
  <2> QED BY <1>7, <2>1, Zenon DEF vars, loopvars, Contract!wcvars, CallStatus, CallValue
<1> QED BY <1>2, <1>3, <1>4, <1>5, <1>6, <1>7, Zenon DEF WLNext, Contract!WCNext

\* write() keeps its contract: seen from outside, its loop over views is a loop
\* over a plain string of bytes, of which every turn takes some from the front,
\* and which ends as write_all says.
THEOREM WriteKeepsContract == WLSpec => KeepsContract
<1>1. WLInit => Contract!NoCall
  <2> SUFFICES ASSUME WLInit PROVE Contract!NoCall
    BY Zenon
  <2>1. as_iovecs(views) = <<>>
    BY IovecsAre, NoViewsNoBytes, Zenon DEF WLInit
  <2> QED BY <2>1, Zenon DEF WLInit, Contract!NoCall, CallStatus, CallValue
<1>2. WriteInv /\ [WLNext]_vars => [Contract!WCNext]_(Contract!wcvars)
  BY WriteSteps, Zenon
<1> QED BY <1>1, <1>2, WriteInvariant, PTL DEF WLSpec, KeepsContract, Contract!WCSpec

=============================================================================
