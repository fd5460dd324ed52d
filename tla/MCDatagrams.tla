----------------------------- MODULE MCDatagrams -----------------------------
(***************************************************************************)
(* Two sockets on a machine with one address and two ports.  Written down  *)
(* are an endpoint of it and a port on 0.0.0.0; the bytes of the host part *)
(* differ, so that their order shows.                                      *)
(***************************************************************************)
EXTENDS Datagrams, TLC

MCTyped == {[ip |-> 5, port |-> 1], [ip |-> 0, port |-> 2]}

MCNames == {"server", "nowhere"}
MCAnswer ==
  [n \in MCNames |->
     IF n = "server" THEN <<sockaddr_in([ip |-> 5, port |-> 1]), sockaddr_in([ip |-> 7, port |-> 1])>>
     ELSE <<>>]

\* An empty datagram, one byte in one view, two bytes in two.
MCPayloads == {<<>>, <<<<"a">>>>, <<<<"b">>, <<"c">>>>}

MCSymmetry == Permutations(Sockets)

=============================================================================
