-------------------------------- MODULE Loops --------------------------------
(***************************************************************************)
(* What the code computes in loops over a sequence: a sum, a concatenation *)
(* and shifts by whole bytes.  The loops are recursive functions of the    *)
(* number of turns; module Induction proves what they compute.             *)
(***************************************************************************)
EXTENDS Integers, Sequences

\* The loop of BufferList::size and BufferViewList::size over the sizes s.
SumSeq(s) ==
  LET ret[i \in 0 .. Len(s)] == IF i = 0 THEN 0 ELSE ret[i - 1] + s[i]
  IN  ret[Len(s)]

\* The loop of BufferList::concatenate over the strings s.
ConcatSeq(s) ==
  LET ret[i \in 0 .. Len(s)] == IF i = 0 THEN <<>> ELSE ret[i - 1] \o s[i]
  IN  ret[Len(s)]

\* What a shift by k bytes multiplies by, for bytes of b values.
Power(b, k) ==
  LET p[i \in Nat] == IF i = 0 THEN 1 ELSE b * p[i - 1]
  IN  p[k]

=============================================================================
