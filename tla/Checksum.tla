------------------------------- MODULE Checksum -------------------------------
(***************************************************************************)
(* InternetChecksum (libsponge/util/util.{hh,cc}): a sum of 16-bit words,  *)
(* kept in a uint32_t, of the bytes given to it in calls of add() of any   *)
(* length.  A byte has Base values, so a word has Base^2 and the sum wraps *)
(* at Base^4.                                                              *)
(***************************************************************************)
EXTENDS Loops

CONSTANTS
  Base,        \* 256: the number of values of a byte
  InitialSums, \* initial_sum of the constructor (a pseudo-header's sum, say)
  MaxChunk,    \* bound on the length of the string of one add()
  MaxBytes     \* bound on the number of bytes added

Byte == 0 .. Base - 1
WordModulus == Base * Base
SumModulus == WordModulus * WordModulus

ASSUME ChecksumAssumptions ==
  /\ Base \in Nat \ {0, 1}
  /\ InitialSums \subseteq 0 .. SumModulus - 1
  /\ MaxChunk \in Nat
  /\ MaxBytes \in Nat

VARIABLES
  sum,      \* _sum
  parity,   \* _parity
  initial,  \* history: the argument of the constructor
  data      \* history: the bytes added

vars == <<sum, parity, initial, data>>

\* One turn of the loop of InternetChecksum::add: a byte is the high one of its
\* word when _parity is false.
add_byte(s, byte) ==
  [sum |-> (s.sum + (IF s.parity THEN byte ELSE byte * Base)) % SumModulus,
   parity |-> ~s.parity]

\* Mutant: every call of add() starts a new word.
add_bytes_restart(state, bytes) ==
  LET loop[i \in 0 .. Len(bytes)] ==
        IF i = 0 THEN [state EXCEPT !.parity = FALSE] ELSE add_byte(loop[i - 1], bytes[i])
  IN  loop[Len(bytes)]

\* The loop of InternetChecksum::add.
add_bytes(state, bytes) ==
  LET loop[i \in 0 .. Len(bytes)] ==
        IF i = 0 THEN state ELSE add_byte(loop[i - 1], bytes[i])
  IN  loop[Len(bytes)]

\* Mutant: the carry is added once only.
fold_once(ret) ==
  IF ret >= WordModulus
    THEN ((ret \div WordModulus) + (ret % WordModulus)) % WordModulus
    ELSE ret

\* The loop of InternetChecksum::value.
fold(ret) ==
  LET loop[r \in Nat] ==
        IF r >= WordModulus THEN loop[(r \div WordModulus) + (r % WordModulus)] ELSE r
  IN  loop[ret]

\* InternetChecksum::value: ~ret, cut to 16 bits.
value(s) == WordModulus - 1 - fold(s)

Init ==
  /\ initial \in InitialSums
  /\ sum = initial
  /\ parity = FALSE
  /\ data = <<>>

\* InternetChecksum::add.
Add(bytes) ==
  /\ Len(data) + Len(bytes) <= MaxBytes
  /\ LET s == add_bytes([sum |-> sum, parity |-> parity], bytes) IN
     /\ sum' = s.sum
     /\ parity' = s.parity
  /\ data' = data \o bytes
  /\ UNCHANGED initial

Next == \E n \in 1 .. MaxChunk : \E bytes \in [1 .. n -> Byte] : Add(bytes)

Spec == Init /\ [][Next]_vars

-----------------------------------------------------------------------------
(***************************************************************************)
(* The one's complement sum of RFC 1071, without a loop: the exact sum of  *)
(* the words, an odd last byte being a high one, reduced modulo all ones,  *)
(* where only a sum of zero is zero.                                       *)
(***************************************************************************)
ExactSum(bytes) ==
  initial + SumSeq([i \in DOMAIN bytes |-> IF i % 2 = 1 THEN bytes[i] * Base ELSE bytes[i]])

OnesComplement(n) == IF n = 0 THEN 0 ELSE 1 + ((n - 1) % (WordModulus - 1))

\* The bytes that may be added cannot overflow the sum: an initial sum of up to
\* 65535 and up to 131072 bytes, say, in the program's widths.
NoOverflow ==
  \A i \in InitialSums : i + ((MaxBytes + 1) \div 2) * (WordModulus - 1) < SumModulus

\* Properties.

\* However the bytes are split into calls of add(), value() is the complement
\* of the one's complement sum of all of them.
ValueIsInternetChecksum ==
  value(sum) = WordModulus - 1 - OnesComplement(ExactSum(data))

\* "if you read a correct TCP segment off the wire and pass it untouched to
\* inet_cksum(), the return value will be 0": with the checksum appended as a
\* word of its own the value is zero.
CorrectSegmentGivesZero ==
  Len(data) % 2 = 0 /\ Len(data) + 2 <= MaxBytes =>
    LET c == value(sum)
        s == add_bytes([sum |-> sum, parity |-> parity], <<c \div Base, c % Base>>)
    IN  value(s.sum) = 0

=============================================================================
