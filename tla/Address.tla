------------------------------- MODULE Address -------------------------------
(***************************************************************************)
(* Address (libsponge/util/address.{hh,cc}): an immutable socket address,  *)
(* kept as the bytes of a sockaddr in a zeroed sockaddr_storage, with its  *)
(* size.  Bytes are digits to the base Base, numbers in them are big-      *)
(* endian, and the family of a sockaddr is one of them.                    *)
(*                                                                         *)
(* getaddrinfo(3) and getnameinfo(3) are external: the first answers with  *)
(* a sequence of sockaddrs, the second reads address and port off one.     *)
(***************************************************************************)
EXTENDS Loops

CONSTANTS
  Base,         \* 256
  IpBytes,      \* 4: the size of a sin_addr
  PortBytes,    \* 2: the size of a sin_port
  StorageSize   \* 128: the size of a sockaddr_storage

AF_INET == 2

\* A sockaddr_in: family, port, address, padding.
SockaddrInSize == 1 + PortBytes + IpBytes + 1

ASSUME AddressAssumptions ==
  /\ Base \in Nat /\ AF_INET < Base
  /\ IpBytes \in Nat \ {0} /\ PortBytes \in Nat \ {0}
  /\ StorageSize \in Nat /\ SockaddrInSize <= StorageSize

Endpoint == [ip : 0 .. Power(Base, IpBytes) - 1, port : 0 .. Power(Base, PortBytes) - 1]

\* htobe32 and be32toh, for k bytes.
htobe(n, k) == [i \in 1 .. k |-> (n \div Power(Base, k - i)) % Base]
betoh(bytes) ==
  LET n[i \in 0 .. Len(bytes)] == IF i = 0 THEN 0 ELSE Base * n[i - 1] + bytes[i]
  IN  n[Len(bytes)]

sockaddr_in(e) == <<AF_INET>> \o htobe(e.port, PortBytes) \o htobe(e.ip, IpBytes) \o <<0>>

\* The bytes of a sockaddr at the start of a zeroed Raw.
Raw(bytes) == [i \in 1 .. StorageSize |-> IF i <= Len(bytes) THEN bytes[i] ELSE 0]

\* Address(addr, size), which throws unless the sockaddr fits.
Fits(size) == size <= StorageSize
MakeAddress(addr, size) == [size |-> size, storage |-> Raw(SubSeq(addr, 1, size))]

\* Address(node, service, hints): getaddrinfo(3) fails, or the first of its
\* answers is taken.
Resolves(answers) == answers # <<>> /\ Fits(Len(Head(answers)))
Resolve(answers) == MakeAddress(Head(answers), Len(Head(answers)))

\* Address(ip, port): a numeric name has one answer.
FromIpPort(e) == Resolve(<<sockaddr_in(e)>>)

\* Address::ip_port, by getnameinfo(3) of an IPv4 address.
ip_port(a) ==
  [ip   |-> betoh(SubSeq(a.storage, 2 + PortBytes, 1 + PortBytes + IpBytes)),
   port |-> betoh(SubSeq(a.storage, 2, 1 + PortBytes))]

\* Address::ipv4_numeric, which throws on anything but an IPv4 address.
IsIpv4(a) == a.storage[1] = AF_INET /\ a.size = SockaddrInSize
ipv4_numeric(a) == betoh(SubSeq(a.storage, 2 + PortBytes, 1 + PortBytes + IpBytes))

\* Address::from_ipv4_numeric.
from_ipv4_numeric(n) == MakeAddress(sockaddr_in([ip |-> n, port |-> 0]), SockaddrInSize)

\* Mutant: the sizes are all that is compared.
EqualSizes(a, b) == a.size = b.size

\* Address::operator==.
Equal(a, b) == a.size = b.size /\ SubSeq(a.storage, 1, a.size) = SubSeq(b.storage, 1, b.size)

=============================================================================
