------------------------------- MODULE MCSocket -------------------------------
(***************************************************************************)
(* Socket on three objects, two wrappers and two numbers.  Objects and     *)
(* wrappers are interchangeable, so both are symmetry sets.                *)
(***************************************************************************)
EXTENDS Socket, TLC

MCFdNumbers == 0 .. 1

\* A file, a UDP socket, a TCP socket and one end of a socketpair.
MCObtainable ==
  {Nothing,
   [kind |-> Expected("UDPSocket"), state |-> "idle"],
   [kind |-> Expected("TCPSocket"), state |-> "idle"],
   [kind |-> Expected("LocalStreamSocket"), state |-> "connected"]}

MCSymmetry == Permutations(Handles) \cup Permutations(Wrappers)

=============================================================================
