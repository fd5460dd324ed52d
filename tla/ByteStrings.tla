------------------------------ MODULE ByteStrings ------------------------------
(***************************************************************************)
(* What BufferList promises (libsponge/util/buffer.hh): every list is a    *)
(* byte string of its own, which can be appended to and can discard bytes  *)
(* from the front.  Nothing is said of how the bytes are stored or shared. *)
(* Asking to discard more than there is leaves the empty string behind.    *)
(***************************************************************************)
EXTENDS Integers, Sequences

CONSTANTS
  Lists,      \* BufferList objects
  Strings,    \* the strings that clients put in
  MaxLength   \* bound on the length of a list

VARIABLE strings

DropFirst(s, n) == SubSeq(s, n + 1, Len(s))

BSInit == strings = [l \in Lists |-> <<>>]

\* A list is constructed from a string.
BSSet(l, s) == strings' = [strings EXCEPT ![l] = s]

BSAppend(l, m) == strings' = [strings EXCEPT ![l] = @ \o strings[m]]

BSCopy(l, m) == strings' = [strings EXCEPT ![l] = strings[m]]

BSRemovePrefix(l, n) == strings' = [strings EXCEPT ![l] = DropFirst(@, n)]

BSNext ==
  \/ \E l \in Lists, s \in Strings : BSSet(l, s)
  \/ \E l, m \in Lists : BSAppend(l, m) \/ BSCopy(l, m)
  \/ \E l \in Lists, n \in 0 .. MaxLength + 1 : BSRemovePrefix(l, n)

BSSpec == BSInit /\ [][BSNext]_strings

=============================================================================
