----------------------------- MODULE MCWriteLoop -----------------------------
(***************************************************************************)
(* Two BufferLists of up to four bytes in up to two Buffers, and writes    *)
(* of either.  The bytes of a string are told apart, so that an order or   *)
(* an offset that is wrong shows.                                          *)
(***************************************************************************)
EXTENDS WriteLoop

MCStrings == {<<>>, <<"a">>, <<"b", "c">>}

=============================================================================
