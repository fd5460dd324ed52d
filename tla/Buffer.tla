-------------------------------- MODULE Buffer --------------------------------
(***************************************************************************)
(* Buffer and BufferList (libsponge/util/buffer.{hh,cc}).                  *)
(*                                                                         *)
(* A Buffer is a shared_ptr to a string and an offset into it; copying one *)
(* shares the string.  A BufferList is a deque of Buffers.  `heap' holds   *)
(* the shared strings; a string is freed as soon as no Buffer points at it *)
(* any more.                                                               *)
(***************************************************************************)
EXTENDS Loops, Functions

CONSTANTS
  Lists,      \* BufferList objects
  Blocks,     \* places for strings on the heap
  Null,       \* the null _storage
  Freed,      \* the content of a block that is not in use
  Strings,    \* the strings that clients put in
  MaxLength,  \* bound on the length of a list
  MaxBuffers  \* bound on the number of Buffers in a list

ASSUME BufferAssumptions ==
  /\ Null \notin Blocks
  /\ Freed \notin Strings
  /\ \A s \in Strings : s \in Seq(Range(s)) /\ Len(s) <= MaxLength
  /\ MaxLength \in Nat
  /\ MaxBuffers \in Nat

VARIABLES
  heap,      \* the string in every block
  buffers    \* _buffers of every list

bufvars == <<heap, buffers>>

BufferOf(b) == [storage |-> b, starting_offset |-> 0]

\* Buffer::str.
str(b) ==
  IF b.storage = Null
    THEN <<>>
    ELSE SubSeq(heap[b.storage], b.starting_offset + 1, Len(heap[b.storage]))

\* BufferList::concatenate, and the bytes that as_iovecs describes.
concatenate(bufs) == ConcatSeq([i \in DOMAIN bufs |-> str(bufs[i])])

\* BufferList::size.
size(bufs) == SumSeq([i \in DOMAIN bufs |-> Len(str(bufs[i]))])

-----------------------------------------------------------------------------
\* Mutant: the storage is kept when the offset reaches its end.
BufferRemovePrefixKeeps(b, n) == [b EXCEPT !.starting_offset = @ + n]

\* Mutant: the offset is set, not advanced.
BufferRemovePrefixSets(b, n) ==
  IF n = Len(str(b))
    THEN [storage |-> Null, starting_offset |-> n]
    ELSE [b EXCEPT !.starting_offset = n]

\* Buffer::remove_prefix, for n <= size(): the storage goes when the offset
\* reaches its end.
BufferRemovePrefix(b, n) ==
  LET offset == b.starting_offset + n IN
  IF b.storage # Null /\ offset = Len(heap[b.storage])
    THEN [storage |-> Null, starting_offset |-> offset]
    ELSE [b EXCEPT !.starting_offset = offset]

\* Mutant: only the first Buffer is asked to remove bytes.
ListRemovePrefixFirst(bufs, n) ==
  IF n = 0 \/ bufs = <<>>
    THEN bufs
    ELSE <<BufferRemovePrefix(Head(bufs), n)>> \o Tail(bufs)

\* One turn of the loop of BufferList::remove_prefix: it ends the loop, by
\* return or because the list has run out, or pops a Buffer.
RemoveTurn(r) ==
  IF r.n = 0 \/ r.bufs = <<>>
    THEN r
    ELSE LET front == str(Head(r.bufs)) IN
         IF r.n < Len(front)
           THEN [bufs |-> <<BufferRemovePrefix(Head(r.bufs), r.n)>> \o Tail(r.bufs), n |-> 0]
           ELSE [bufs |-> Tail(r.bufs), n |-> r.n - Len(front)]

\* BufferList::remove_prefix: as many turns as there are Buffers are enough.
\* When the list runs out the loop throws, and what it has popped by then
\* stays popped: the list is empty.
ListRemovePrefix(bufs, n) ==
  LET loop[i \in 0 .. Len(bufs)] ==
        IF i = 0 THEN [bufs |-> bufs, n |-> n] ELSE RemoveTurn(loop[i - 1])
  IN  loop[Len(bufs)].bufs

-----------------------------------------------------------------------------
\* The blocks that Buffers of bs point at.
Referenced(bs) == {b.storage : b \in UNION {Range(bs[l]) : l \in Lists}}

\* List l becomes bufs over heap h; what nothing points at any more is freed.
Update(l, bufs, h) ==
  /\ buffers' = [buffers EXCEPT ![l] = bufs]
  /\ heap' = [b \in Blocks |-> IF b \in Referenced(buffers') THEN h[b] ELSE Freed]

Init ==
  /\ heap = [b \in Blocks |-> Freed]
  /\ buffers = [l \in Lists |-> <<>>]

\* BufferList(string &&).
FromString(l, s) ==
  \E b \in Blocks :
    /\ heap[b] = Freed
    /\ Update(l, <<BufferOf(b)>>, [heap EXCEPT ![b] = s])

\* BufferList::append.  Appending a list to itself would push to the deque
\* that is being walked; nothing in the code does it.
ListAppend(l, m) ==
  /\ l # m
  /\ size(buffers[l]) + size(buffers[m]) <= MaxLength
  /\ Len(buffers[l]) + Len(buffers[m]) <= MaxBuffers
  /\ Update(l, buffers[l] \o buffers[m], heap)

\* Copy construction or assignment.
ListCopy(l, m) == Update(l, buffers[m], heap)

\* BufferList(Buffer) of operator Buffer.  An empty list becomes one default
\* Buffer; a list of several Buffers throws.
ViaBuffer(l, m) ==
  \/ /\ buffers[m] = <<>>
     /\ Update(l, <<BufferOf(Null)>>, heap)
  \/ /\ Len(buffers[m]) = 1
     /\ Update(l, buffers[m], heap)

RemovePrefix(l, n) == Update(l, ListRemovePrefix(buffers[l], n), heap)

\* Buffer::remove_prefix on the only Buffer of a list; too long a prefix
\* throws before anything is assigned.
RemovePrefixOfBuffer(l, n) ==
  /\ Len(buffers[l]) = 1
  /\ n <= Len(str(buffers[l][1]))
  /\ Update(l, <<BufferRemovePrefix(buffers[l][1], n)>>, heap)

BufferNext ==
  \/ \E l \in Lists, s \in Strings : FromString(l, s)
  \/ \E l, m \in Lists : ListAppend(l, m) \/ ListCopy(l, m) \/ ViaBuffer(l, m)
  \/ \E l \in Lists, n \in 0 .. MaxLength + 1 :
       RemovePrefix(l, n) \/ RemovePrefixOfBuffer(l, n)

BufferSpec == Init /\ [][BufferNext]_bufvars

-----------------------------------------------------------------------------
(***************************************************************************)
(* Properties.                                                             *)
(***************************************************************************)

\* The shapes of the state; an offset never passes the end of its string.
BufferTypeOK ==
  /\ heap \in [Blocks -> Strings \cup {Freed}]
  /\ \A l \in Lists : \A i \in DOMAIN buffers[l] :
       LET b == buffers[l][i] IN
       /\ b.storage \in Blocks \cup {Null}
       /\ b.starting_offset \in 0 .. MaxLength
       /\ b.storage # Null => b.starting_offset <= Len(heap[b.storage])

\* "Doesn't free any memory until the whole string has been discarded in all
\* copies of the Buffer": the string a Buffer points at is there, and one that
\* no Buffer has bytes left of is not kept, unless it was empty to begin with.
StorageLifetime ==
  /\ \A l \in Lists : \A i \in DOMAIN buffers[l] :
       LET b == buffers[l][i] IN b.storage # Null => heap[b.storage] # Freed
  /\ \A k \in Blocks : heap[k] \notin {Freed, <<>>} =>
       \E l \in Lists : \E i \in DOMAIN buffers[l] :
         buffers[l][i].storage = k /\ str(buffers[l][i]) # <<>>

\* A BufferList behaves as a byte string of its own: no operation on one list
\* shows in another, however they share storage, and each operation does to its
\* list what it promises; remove_prefix discards exactly the first n bytes, or
\* everything when there are fewer.
Abstract == INSTANCE ByteStrings WITH strings <- [l \in Lists |-> concatenate(buffers[l])]
ImplementsByteStrings ==
  /\ Abstract!BSSpec
  /\ [][UNCHANGED bufvars \/
       (/\ \A l \in Lists, s \in Strings : FromString(l, s) => Abstract!BSSet(l, s)
        /\ \A l, m \in Lists :
             /\ ListAppend(l, m) => Abstract!BSAppend(l, m)
             /\ ListCopy(l, m) \/ ViaBuffer(l, m) => Abstract!BSCopy(l, m)
        /\ \A l \in Lists, n \in 0 .. MaxLength + 1 :
             RemovePrefix(l, n) \/ RemovePrefixOfBuffer(l, n) => Abstract!BSRemovePrefix(l, n))
       ]_bufvars

=============================================================================
