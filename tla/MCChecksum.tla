------------------------------ MODULE MCChecksum ------------------------------
(***************************************************************************)
(* Bytes of two values: a word has 4 values and the sum wraps at 16.  An   *)
(* initial sum of up to one word and four words of data (8 bytes) are the  *)
(* most that cannot overflow it, as 65536 words of data (131072 bytes) are *)
(* for the real widths.                                                    *)
(***************************************************************************)
EXTENDS Checksum

MCOneWord == 0 .. 3

\* The hypothesis of the theorems of ChecksumProofs.
ASSUME SumDoesNotOverflow == NoOverflow

=============================================================================
