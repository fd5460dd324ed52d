------------------------------ MODULE Datagrams ------------------------------
(***************************************************************************)
(* UDPSocket's recv, sendto and send, with bind, connect and the address   *)
(* queries of Socket (libsponge/util/socket.{hh,cc}), over a network that  *)
(* loses, duplicates and reorders datagrams.                               *)
(*                                                                         *)
(* recv fills a received_datagram that belongs to the caller and that the  *)
(* caller hands in again for the next one; what an earlier call, also one  *)
(* that threw, has left in it is still there.                              *)
(*                                                                         *)
(* External: the kernel's socket (its addresses and its receive queue) and *)
(* the network.  All sockets are on one machine.  A call whose system call *)
(* fails is a stuttering step, unless an action below says otherwise.      *)
(***************************************************************************)
EXTENDS Address, Bags, Functions

CONSTANTS
  Sockets,
  Hosts,        \* the machine's IP addresses
  Ports,        \* the ports its sockets may have
  NoEndpoint,
  Typed,        \* the addresses that are written down in the program
  Names,        \* host and service names
  Answer,       \* what getaddrinfo(3) answers for a name
  Chars,        \* the values of a char; "0" is a zero byte
  Payloads,     \* BufferViewLists to send: sequences of strings
  Mtus,         \* values of the parameter `mtu'
  MaxSends,     \* bound on the datagrams sent, copies included
  MaxCopies,    \* bound on the copies the network makes of one
  MaxQueue      \* the room in a receive queue

\* 0.0.0.0, the address of a socket that was given none: any of Hosts.
INADDR_ANY == 0

\* What a socket may be named by, and what its datagrams come from.
Locals == [ip : Hosts \cup {INADDR_ANY}, port : Ports]
Endpoints == [ip : Hosts, port : Ports]

\* What a datagram carries.
Data == {ConcatSeq(p) : p \in Payloads}

ASSUME DatagramAssumptions ==
  /\ Hosts \subseteq 1 .. Power(Base, IpBytes) - 1
  /\ Ports \subseteq 1 .. Power(Base, PortBytes) - 1
  /\ Typed \subseteq Endpoint
  /\ NoEndpoint \notin Endpoint
  /\ Data \subseteq Seq(Chars)
  /\ "0" \in Chars
  /\ Mtus \subseteq Nat
  /\ MaxQueue \in Nat
  /\ \A n \in Names : Answer[n] \in Seq({sockaddr_in(e) : e \in Endpoint})

VARIABLES
  local,      \* kernel: the address of every socket, if it has one
  peer,       \* kernel: the address it is connected to
  queue,      \* kernel: its receive queue
  wire,       \* the network: a bag of datagrams
  sends,      \* how many have been sent, copies included
  datagram,   \* the received_datagram of every socket's owner
  taken       \* history: the datagram that recv took, if it returned

kernelvars == <<local, peer, queue>>
vars == <<kernelvars, wire, sends, datagram, taken>>

\* A datagram, and the socket that sent it (history).
Message == [by : Sockets, from : Endpoints, to : Endpoint, data : Data]

\* received_datagram ret{{nullptr, 0}, ""}.
NewDatagram == [source_address |-> MakeAddress(<<>>, 0), payload |-> <<>>]

NoMessage == [by |-> NoEndpoint, from |-> NoEndpoint, to |-> NoEndpoint, data |-> <<>>]

Init ==
  /\ local = [s \in Sockets |-> NoEndpoint]
  /\ peer = [s \in Sockets |-> NoEndpoint]
  /\ queue = [s \in Sockets |-> <<>>]
  /\ wire = EmptyBag
  /\ sends = 0
  /\ datagram = [s \in Sockets |-> NewDatagram]
  /\ taken = [s \in Sockets |-> NoMessage]

-----------------------------------------------------------------------------
(***************************************************************************)
(* Addresses of sockets.                                                   *)
(***************************************************************************)

\* Socket::get_address: what getsockname(2) or getpeername(2) stores.
get_address(e) == MakeAddress(sockaddr_in(e), SockaddrInSize)

\* Addresses that are written down in the program, or looked up.
Written ==
  {FromIpPort(e) : e \in Typed}
    \cup {Resolve(Answer[n]) : n \in {n \in Names : Resolves(Answer[n])}}

\* The addresses a client of s has at hand: these, the local_address() and
\* peer_address() of the sockets, and the source of what it has received.
Known(s) ==
  Written
    \cup {get_address(e) : e \in (Range(local) \cup Range(peer)) \ {NoEndpoint}}
    \cup {datagram[s].source_address}

\* The endpoints that e stands for.
Concrete(e) == IF e.ip = INADDR_ANY THEN {[e EXCEPT !.ip = h] : h \in Hosts} ELSE {e}

\* The names bind(2) may give to a socket that asks for e: port 0 asks for any
\* port, and no endpoint may belong to two sockets.
Available(e) ==
  {f \in Locals :
     /\ f.ip = e.ip
     /\ e.port \in {0, f.port}
     /\ \A t \in Sockets : local[t] # NoEndpoint => Concrete(f) \cap Concrete(local[t]) = {}}

\* The name of s, or the one it gets when it needs one and was not bound.
Named(s) ==
  IF local[s] = NoEndpoint THEN Available([ip |-> INADDR_ANY, port |-> 0]) ELSE {local[s]}

\* Socket::bind; bind(2) refuses an address that is not there or is taken.
Bind(s, a) ==
  /\ IsIpv4(a)
  /\ local[s] = NoEndpoint
  /\ \E e \in Available(ip_port(a)) : local' = [local EXCEPT ![s] = e]
  /\ UNCHANGED <<peer, queue, wire, sends, datagram, taken>>

\* Socket::connect of a datagram socket, which also settles what its own
\* address is; what is in its queue stays there.
Connect(s, a) ==
  /\ IsIpv4(a)
  /\ \E name \in Named(s) : \E here \in Concrete(name) : local' = [local EXCEPT ![s] = here]
  /\ \E there \in Concrete(ip_port(a)) : peer' = [peer EXCEPT ![s] = there]
  /\ UNCHANGED <<queue, wire, sends, datagram, taken>>

-----------------------------------------------------------------------------
(***************************************************************************)
(* Sending.                                                                *)
(***************************************************************************)

\* Mutant: only the first view is sent.
GatherFirst(payload) == IF payload = <<>> THEN <<>> ELSE Head(payload)

\* BufferViewList::as_iovecs, and sendmsg(2) gathering what they point at.
Gather(payload) == ConcatSeq(payload)

\* sendmsg_helper: the whole payload goes into one datagram, or sendmsg(2)
\* fails (EMSGSIZE).  The datagram comes from a concrete endpoint also when
\* the socket's own address is 0.0.0.0.  The network makes some number of
\* copies of it, any of which may never arrive.
sendmsg_helper(s, to, payload) ==
  /\ \E name \in Named(s), there \in Concrete(to), copies \in 1 .. MaxCopies :
       /\ local' = [local EXCEPT ![s] = name]
       /\ \E here \in Concrete(name) :
            LET m == [by |-> s, from |-> here, to |-> there, data |-> Gather(payload)] IN
            wire' = wire (+) [x \in {m} |-> copies]
       /\ sends + copies <= MaxSends
       /\ sends' = sends + copies
  /\ UNCHANGED <<peer, queue, datagram, taken>>

\* UDPSocket::sendto; sendmsg(2) fails for port 0.
SendTo(s, destination, payload) ==
  /\ IsIpv4(destination)
  /\ ip_port(destination).port # 0
  /\ sendmsg_helper(s, ip_port(destination), payload)

\* UDPSocket::send: "must call connect() first", or sendmsg(2) fails.
Send(s, payload) == peer[s] # NoEndpoint /\ sendmsg_helper(s, peer[s], payload)

-----------------------------------------------------------------------------
(***************************************************************************)
(* The network and the receive queues.                                     *)
(***************************************************************************)

\* The socket that m is for: a connected socket hears its peer only.
Hears(s, m) ==
  local[s] # NoEndpoint /\ m.to \in Concrete(local[s]) /\ peer[s] \in {NoEndpoint, m.from}

\* m arrives.  It is dropped when nobody hears it or the queue is full.
Arrive(m) ==
  /\ BagIn(m, wire)
  /\ wire' = wire (-) SetToBag({m})
  /\ queue' = [s \in Sockets |->
                 IF Hears(s, m) /\ Len(queue[s]) < MaxQueue THEN Append(queue[s], m) ELSE queue[s]]
  /\ UNCHANGED <<local, peer, sends, datagram, taken>>

-----------------------------------------------------------------------------
(***************************************************************************)
(* Receiving.                                                              *)
(***************************************************************************)

\* string::resize.
resize(str, n) == [i \in 1 .. n |-> IF i <= Len(str) THEN str[i] ELSE "0"]

\* recvfrom(2) copies as much of data as fits over the start of str.
Fill(str, data) == [i \in 1 .. Len(str) |-> IF i <= Len(data) THEN data[i] ELSE str[i]]

\* Mutant: without MSG_TRUNC, recv_len is what was copied.
ReceivedCut(data, mtu) == IF Len(data) > mtu THEN mtu ELSE Len(data)

\* recv_len: with MSG_TRUNC, the real length of the datagram.
Received(data, mtu) == Len(data)

\* Mutant: a datagram that just fits is refused.
OversizedOrFull(length, mtu) == length >= mtu

\* The test for which recv throws.
Oversized(length, mtu) == length > mtu

\* Mutant: the source address is left as it was.
AcceptedKeepsSource(ret, m, payload, length) ==
  [source_address |-> IF ret.source_address.size = 0 THEN get_address(m.from) ELSE ret.source_address,
   payload |-> resize(payload, length)]

\* What recv makes of the received_datagram when it does not throw.
Accepted(ret, m, payload, length) ==
  [source_address |-> get_address(m.from), payload |-> resize(payload, length)]

\* UDPSocket::recv into the caller's datagram (reuse), or into a new one that
\* is returned.  recvfrom(2) takes the datagram, also when it does not fit; the
\* exception then leaves the caller's datagram with the payload overwritten and
\* the old source address, and a new one is lost.
Recv(s, mtu, reuse) ==
  LET m       == Head(queue[s])
      ret     == IF reuse THEN datagram[s] ELSE NewDatagram
      payload == Fill(resize(ret.payload, mtu), m.data)
      length  == Received(m.data, mtu)
  IN
  /\ queue[s] # <<>>
  /\ queue' = [queue EXCEPT ![s] = Tail(@)]
  /\ \/ /\ Oversized(length, mtu)
        /\ taken' = [taken EXCEPT ![s] = NoMessage]
        /\ datagram' = IF reuse THEN [datagram EXCEPT ![s].payload = payload] ELSE datagram
     \/ /\ ~Oversized(length, mtu)
        /\ taken' = [taken EXCEPT ![s] = m]
        /\ datagram' = [datagram EXCEPT ![s] = Accepted(ret, m, payload, length)]
  /\ UNCHANGED <<local, peer, wire, sends>>

\* recvfrom(2) fails: nothing there on a non-blocking socket, or the error that
\* an earlier datagram of a connected socket has met.
RecvFails(s, mtu) ==
  /\ queue[s] = <<>> \/ peer[s] # NoEndpoint
  /\ taken' = [taken EXCEPT ![s] = NoMessage]
  /\ datagram' = [datagram EXCEPT ![s].payload = resize(@, mtu)]
  /\ UNCHANGED <<kernelvars, wire, sends>>

Next ==
  \/ \E m \in BagToSet(wire) : Arrive(m)
  \/ \E s \in Sockets :
    \/ \E a \in Known(s) : Bind(s, a) \/ Connect(s, a) \/ \E p \in Payloads : SendTo(s, a, p)
    \/ \E p \in Payloads : Send(s, p)
    \/ \E mtu \in Mtus : RecvFails(s, mtu) \/ \E reuse \in BOOLEAN : Recv(s, mtu, reuse)

Spec == Init /\ [][Next]_vars

-----------------------------------------------------------------------------
(***************************************************************************)
(* Properties.                                                             *)
(***************************************************************************)

\* The shapes of the state.
DgTypeOK ==
  /\ local \in [Sockets -> Locals \cup {NoEndpoint}]
  /\ peer \in [Sockets -> Endpoint \cup {NoEndpoint}]
  /\ \A s \in Sockets :
       /\ Len(queue[s]) <= MaxQueue
       /\ \A i \in DOMAIN queue[s] : queue[s][i].data \in Data
       /\ Fits(datagram[s].source_address.size)
       /\ Len(datagram[s].source_address.storage) = StorageSize
       /\ taken[s] \in Message \cup {NoMessage}

\* What recv returns is one whole datagram that was sent to this socket, with
\* its own sender: nothing of it is cut off, nothing of an earlier datagram is
\* left, though the object may be one in which earlier calls have left theirs
\* or thrown half way.
ReturnedIsOneDatagram ==
  \A s \in Sockets : taken[s] # NoMessage =>
    /\ datagram[s].payload = taken[s].data
    /\ IsIpv4(datagram[s].source_address)
    /\ ip_port(datagram[s].source_address) = taken[s].from
    /\ taken[s].to.port = local[s].port

\* Comparing addresses tells senders apart: the source address of a datagram
\* equals another Address exactly when that one denotes the endpoint it came
\* from, by whichever way either was made.  So the local_address() of a sender
\* that was given none, which is on 0.0.0.0, is not recognised, nor is an
\* Address made from the numeric form, which has no port.
SenderRecognised ==
  \A s \in Sockets : taken[s] # NoMessage =>
    LET source == datagram[s].source_address IN
    \A a \in Known(s) \cup {from_ipv4_numeric(ipv4_numeric(source))} :
      Equal(source, a) <=> IsIpv4(a) /\ ip_port(a) = taken[s].from

\* An answer finds its way: what is sent to the source address of a datagram
\* goes to the socket that sent it and to no other, whether that socket was
\* bound to an address, to a port only or not at all.  Only a sender that has
\* since been connected, and has settled on another address by that, is lost.
ReplyReachesSender ==
  \A s \in Sockets : taken[s] # NoMessage =>
    \A t \in Sockets : peer[taken[s].by] = NoEndpoint /\ local[t] # NoEndpoint =>
      (ip_port(datagram[s].source_address) \in Concrete(local[t]) <=> t = taken[s].by)

\* What may happen to the queue of s: a datagram for it arrives at the end, or
\* the head goes, because recv has returned it or has thrown as it was longer
\* than the call allowed.
QueueStep(s) ==
  \/ queue'[s] = queue[s]
  \/ \E m \in BagToSet(wire) : Hears(s, m) /\ queue'[s] = Append(queue[s], m)
  \/ /\ queue[s] # <<>>
     /\ queue'[s] = Tail(queue[s])
     /\ \/ taken'[s] = Head(queue[s])
        \/ taken'[s] = NoMessage /\ \E mtu \in Mtus : Len(Head(queue[s]).data) > mtu

\* A call of recv on s that finds something takes it, unless it is told of an
\* error that a datagram of a connected socket has met.
CallTakes(s) ==
  /\ queue[s] # <<>> /\ peer[s] = NoEndpoint
  /\ datagram'[s] # datagram[s] \/ taken'[s] # taken[s]
  => queue'[s] = Tail(queue[s])

\* Queues are served in order, one datagram for one call of recv: none is
\* skipped, given out twice, given to another socket or dropped in silence,
\* and none that is too large stays in the way.
TakenInOrder == [][\A s \in Sockets : QueueStep(s) /\ CallTakes(s)]_vars

=============================================================================
