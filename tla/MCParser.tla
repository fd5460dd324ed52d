------------------------------- MODULE MCParser -------------------------------
(***************************************************************************)
(* Integers of one, two and four bytes over bytes of two values: what      *)
(* matters of a byte is that a shift by one byte does not overlap it.      *)
(***************************************************************************)
EXTENDS Parser

MCWidths == {1, 2, 4}

=============================================================================
