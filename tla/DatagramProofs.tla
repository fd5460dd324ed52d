---------------------------- MODULE DatagramProofs ----------------------------
(***************************************************************************)
(* What UDPSocket::recv returns and whom it names as the sender, for any   *)
(* number of sockets, datagrams and copies, any values of mtu, any queue,  *)
(* and addresses of any size.                                              *)
(***************************************************************************)
EXTENDS Datagrams, Induction

-----------------------------------------------------------------------------
(***************************************************************************)
(* The conversions of Address, for every base and every size: an address   *)
(* that is turned into bytes is read back from them, and what is read from *)
(* bytes is an address.                                                    *)
(***************************************************************************)

\* The bytes.
Bytes == 0 .. Base - 1

\* The numbers of the constants.
LEMMA AddressNumbers ==
  /\ Base \in Nat /\ Base # 0 /\ AF_INET \in Bytes /\ 0 \in Bytes
  /\ IpBytes \in Nat /\ IpBytes # 0 /\ PortBytes \in Nat /\ PortBytes # 0
  /\ StorageSize \in Nat /\ SockaddrInSize \in Nat /\ SockaddrInSize <= StorageSize
  /\ SockaddrInSize = PortBytes + IpBytes + 2
<1>1. /\ Base \in Nat /\ 2 < Base
      /\ IpBytes \in Nat /\ IpBytes # 0 /\ PortBytes \in Nat /\ PortBytes # 0
      /\ StorageSize \in Nat /\ SockaddrInSize <= StorageSize
  BY AddressAssumptions, Zenon DEF AF_INET
<1>2. SockaddrInSize \in Nat /\ SockaddrInSize = PortBytes + IpBytes + 2
  BY <1>1 DEF SockaddrInSize
<1> QED BY <1>1, <1>2 DEF Bytes, AF_INET

\* htobe makes k bytes, the digits of the number.
LEMMA HtobeType ==
  ASSUME NEW k \in Nat, NEW n \in Nat, n < Power(Base, k)
  PROVE  /\ htobe(n, k) \in Seq(Bytes)
         /\ Len(htobe(n, k)) = k
         /\ \A i \in 1 .. k : htobe(n, k)[i] = Leading(Base, k, n, i) % Base
<1>1. Base \in Nat /\ Base # 0
  BY AddressNumbers, Zenon
<1>2. ASSUME NEW i \in 1 .. k PROVE Leading(Base, k, n, i) % Base \in Bytes
  <2> DEFINE L == Leading(Base, k, n, i)
  <2>1. L \in Nat
    BY <1>1, LeadingDigits
  <2> HIDE DEF L
  <2>2. L % Base \in 0 .. Base - 1
    BY <1>1, <2>1
  <2> QED BY <2>2, Zenon DEF L, Bytes
<1>3. htobe(n, k) = [i \in 1 .. k |-> Leading(Base, k, n, i) % Base]
  BY Zenon DEF htobe, Leading
<1> QED BY <1>2, <1>3

\* The loop of betoh: after i bytes it has the number that they write.
LEMMA BetohLoop ==
  ASSUME NEW bytes \in Seq(Bytes)
  PROVE  \E f \in [0 .. Len(bytes) -> Nat] :
           /\ betoh(bytes) = f[Len(bytes)]
           /\ f[0] = 0
           /\ \A i \in 1 .. Len(bytes) : f[i] = Base * f[i - 1] + bytes[i]
<1> DEFINE k == Len(bytes)
           Body(g) == [i \in 0 .. Len(bytes) |-> IF i = 0 THEN 0 ELSE Base * g[i - 1] + bytes[i]]
           n == CHOOSE g : g = Body(g)
           st == [i \in 1 .. k |-> [v \in Nat |-> Base * v + bytes[i]]]
<1>1. betoh(bytes) = n[k]
  BY Zenon DEF betoh
<1>2. k \in Nat /\ Base \in Nat
  BY AddressNumbers
<1>3. \A i \in 1 .. k : bytes[i] \in Nat
  <2>1. \A i \in 1 .. k : bytes[i] \in Bytes
    OBVIOUS
  <2> QED BY <1>2, <2>1 DEF Bytes
<1>4. st \in [1 .. k -> [Nat -> Nat]] /\ \A i \in 1 .. k, v \in Nat : st[i][v] = Base * v + bytes[i]
  <2>1. \A i \in 1 .. k, v \in Nat : Base * v + bytes[i] \in Nat
    BY <1>2, <1>3
  <2> QED BY <2>1, Zenon
<1> HIDE DEF st
<1>5. PICK g \in [0 .. k -> Nat] : IsLoop(g, k, 0, st)
  BY <1>2, <1>4, LoopExists, Zenon
<1>6. g = Body(g)
  <2>1. ASSUME NEW i \in 0 .. k PROVE g[i] = IF i = 0 THEN 0 ELSE Base * g[i - 1] + bytes[i]
    <3>1. CASE i = 0
      BY <1>5, <3>1, Zenon DEF IsLoop
    <3>2. CASE i # 0
      <4>1. i \in 1 .. k /\ i - 1 \in 0 .. k /\ g[i] = st[i][g[i - 1]]
        BY <1>2, <1>5, <3>2 DEF IsLoop
      <4>2. g[i - 1] \in Nat
        BY <1>5, <4>1, Zenon
      <4> QED BY <1>4, <3>2, <4>1, <4>2, Zenon
    <3> QED BY <3>1, <3>2, Zenon
  <2> QED BY <1>5, <2>1, Zenon
<1>7. n = Body(n)
  BY <1>6, Zenon
<1> HIDE DEF n
<1>8. \A i \in 0 .. k : n[i] = IF i = 0 THEN 0 ELSE Base * n[i - 1] + bytes[i]
  BY <1>7, Zenon
<1>9. n[0] = 0 /\ \A i \in 1 .. k : n[i] = Base * n[i - 1] + bytes[i]
  <2>1. \A i \in 1 .. k : i \in 0 .. k /\ i # 0
    BY <1>2
  <2> QED BY <1>2, <1>8, <2>1
<1> DEFINE T == {i \in 0 .. k : n[i] \in Nat}
<1>10. 0 .. k \subseteq T
  <2>1. 0 \in T
    BY <1>2, <1>9
  <2>2. ASSUME NEW i \in 1 .. k, i - 1 \in T PROVE i \in T
    <3>1. i \in 0 .. k /\ n[i - 1] \in Nat /\ n[i] = Base * n[i - 1] + bytes[i]
      BY <1>2, <1>9, <2>2
    <3>2. n[i] \in Nat
      <4> DEFINE x == n[i - 1]
                 b == bytes[i]
      <4>1. x \in Nat /\ b \in Nat /\ n[i] = Base * x + b
        BY <1>3, <3>1, Zenon
      <4> HIDE DEF x, b
      <4>2. Base * x + b \in Nat
        BY <1>2, <4>1
      <4> QED BY <4>1, <4>2, Zenon
    <3> QED BY <3>1, <3>2, Zenon
  <2> HIDE DEF T, k
  <2> QED BY <1>2, <2>1, <2>2, UpTo, Zenon
<1>11. n \in [0 .. k -> Nat]
  <2>1. DOMAIN n = 0 .. k /\ n = [i \in DOMAIN n |-> n[i]]
    BY <1>7, Zenon
  <2> QED BY <1>10, <2>1, Zenon
<1> QED BY <1>1, <1>9, <1>11, Zenon

\* A number that is turned into bytes is read back from them.
LEMMA BetohHtobe ==
  ASSUME NEW k \in Nat, NEW n \in Nat, n < Power(Base, k)
  PROVE  betoh(htobe(n, k)) = n
<1> DEFINE bytes == htobe(n, k)
           D(i) == Leading(Base, k, n, i)
<1>1. Base \in Nat /\ Base # 0
  BY AddressNumbers, Zenon
<1>2. bytes \in Seq(Bytes) /\ Len(bytes) = k /\ \A i \in 1 .. k : bytes[i] = D(i) % Base
  BY HtobeType, Zenon
<1> HIDE DEF bytes
<1>3. PICK f \in [0 .. k -> Nat] :
        /\ betoh(bytes) = f[k] /\ f[0] = 0
        /\ \A i \in 1 .. k : f[i] = Base * f[i - 1] + bytes[i]
  BY <1>2, BetohLoop, Zenon
<1>4. /\ D(0) = 0 /\ D(k) = n
      /\ \A i \in 1 .. k : D(i) = Base * D(i - 1) + (D(i) % Base)
  BY <1>1, LeadingDigits
<1> HIDE DEF D
<1> DEFINE T == {i \in 0 .. k : f[i] = D(i)}
<1>5. 0 .. k \subseteq T
  <2>1. 0 \in T
    BY <1>3, <1>4
  <2>2. ASSUME NEW i \in 1 .. k, i - 1 \in T PROVE i \in T
    <3>1. i \in 0 .. k /\ f[i - 1] = D(i - 1)
      BY <2>2
    <3>2. f[i] = Base * f[i - 1] + bytes[i] /\ bytes[i] = D(i) % Base
      BY <1>2, <1>3, Zenon
    <3>3. D(i) = Base * D(i - 1) + (D(i) % Base)
      BY <1>4, Zenon
    <3>4. f[i] = D(i)
      BY ONLY <3>1, <3>2, <3>3, Zenon
    <3> QED BY <3>1, <3>4, Zenon
  <2> HIDE DEF T
  <2> QED BY <2>1, <2>2, UpTo, Zenon
<1>6. f[k] = n
  BY <1>4, <1>5
<1> QED BY <1>3, <1>6, Zenon DEF bytes

\* A part of a sequence, from place m to place n, and a sequence and its continuation.
Part(s, m, n) == SubSeq(s, m, n)

\* The elements of a part of a string.
LEMMA PartIs ==
  ASSUME NEW C, NEW s \in Seq(C), NEW m \in Nat, m # 0, NEW n \in Nat, n <= Len(s), m <= n + 1
  PROVE  /\ Part(s, m, n) \in Seq(C)
         /\ Len(Part(s, m, n)) = n - m + 1
         /\ \A i \in 1 .. n - m + 1 : Part(s, m, n)[i] = s[m - 1 + i]
<1>1. Len(s) \in Nat /\ \A i \in m .. n : i \in 1 .. Len(s)
  OBVIOUS
<1>2. \A i \in m .. n : s[i] \in C
  BY <1>1
<1>3. /\ SubSeq(s, m, n) \in Seq(C)
      /\ Len(SubSeq(s, m, n)) = IF m <= n THEN n - m + 1 ELSE 0
      /\ \A i \in 1 .. n - m + 1 : SubSeq(s, m, n)[i] = s[m + i - 1]
  <2>1. m \in Int /\ n \in Int
    OBVIOUS
  <2> QED BY ONLY <1>2, <2>1, SubSeqProperties
<1>4. \A i \in 1 .. n - m + 1 : m + i - 1 = m - 1 + i
  OBVIOUS
<1>5. (IF m <= n THEN n - m + 1 ELSE 0) = n - m + 1
  OBVIOUS
<1> QED BY ONLY <1>3, <1>4, <1>5, Zenon DEF Part

\* Strings that agree from m to n have the same part there.
LEMMA PartsAgree ==
  ASSUME NEW C, NEW s \in Seq(C), NEW t \in Seq(C), NEW m \in Nat, m # 0, NEW n \in Nat,
         n <= Len(s), n <= Len(t), m <= n + 1, \A i \in m .. n : s[i] = t[i]
  PROVE  Part(s, m, n) = Part(t, m, n)
<1> DEFINE x == Part(s, m, n)
           y == Part(t, m, n)
           k == n - m + 1
<1>0. m # 0 /\ n <= Len(s) /\ n <= Len(t) /\ m <= n + 1
  BY Zenon
<1>1. x \in Seq(C) /\ Len(x) = k /\ \A i \in 1 .. k : x[i] = s[m - 1 + i]
  BY ONLY <1>0, PartIs, ZenonT(30)
<1>2. y \in Seq(C) /\ Len(y) = k /\ \A i \in 1 .. k : y[i] = t[m - 1 + i]
  BY ONLY <1>0, PartIs, ZenonT(30)
<1>3. \A i \in 1 .. k : m - 1 + i \in m .. n
  OBVIOUS
<1> HIDE DEF x, y, k
<1>4. \A i \in 1 .. k : x[i] = y[i]
  BY <1>1, <1>2, <1>3, Zenon
<1>5. x = y
  BY <1>1, <1>2, <1>4, SeqEqual, Zenon
<1> QED BY <1>5, Zenon DEF x, y

\* The elements of two strings in a row.
LEMMA GlueIs ==
  ASSUME NEW C, NEW s \in Seq(C), NEW t \in Seq(C)
  PROVE  Glue(s, t) \in Seq(C) /\ IsConcat(Glue(s, t), s, t)
BY DEF Glue, IsConcat

\* The bytes of the sockaddr of an endpoint, and where its port and its address are.
LEMMA SockaddrBytes ==
  ASSUME NEW e \in Endpoint
  PROVE  /\ sockaddr_in(e) \in Seq(Bytes)
         /\ Len(sockaddr_in(e)) = SockaddrInSize
         /\ sockaddr_in(e)[1] = AF_INET
         /\ \A i \in 1 .. PortBytes : sockaddr_in(e)[1 + i] = htobe(e.port, PortBytes)[i]
         /\ \A i \in 1 .. IpBytes : sockaddr_in(e)[1 + PortBytes + i] = htobe(e.ip, IpBytes)[i]
<1> DEFINE p == htobe(e.port, PortBytes)
           a == htobe(e.ip, IpBytes)
           f == <<AF_INET>>
           z == <<0>>
           fp == Glue(f, p)
           fpa == Glue(fp, a)
<1>1. /\ e.port \in Nat /\ e.port < Power(Base, PortBytes)
      /\ e.ip \in Nat /\ e.ip < Power(Base, IpBytes)
  <2>1. Power(Base, PortBytes) \in Nat /\ Power(Base, IpBytes) \in Nat
    BY AddressNumbers, PowerFacts, Zenon
  <2> QED BY <2>1 DEF Endpoint
<1>2. p \in Seq(Bytes) /\ Len(p) = PortBytes /\ a \in Seq(Bytes) /\ Len(a) = IpBytes
  BY <1>1, AddressNumbers, HtobeType, Zenon
<1> HIDE DEF p, a
<1>3. /\ f \in Seq(Bytes) /\ Len(f) = 1 /\ f[1] = AF_INET /\ z \in Seq(Bytes) /\ Len(z) = 1
      /\ PortBytes \in Nat /\ IpBytes \in Nat
      /\ SockaddrInSize = PortBytes + IpBytes + 2
  BY AddressNumbers
<1> HIDE DEF f, z
<1>4. /\ fp \in Seq(Bytes) /\ Len(fp) = 1 + PortBytes /\ fp[1] = AF_INET
      /\ \A i \in 1 .. PortBytes : fp[1 + i] = p[i]
  <2>1. /\ fp \in Seq(Bytes) /\ Len(fp) = Len(f) + Len(p)
        /\ \A i \in 1 .. Len(f) : fp[i] = f[i]
        /\ \A i \in 1 .. Len(p) : fp[Len(f) + i] = p[i]
    <3>1. f \in Seq(Bytes) /\ p \in Seq(Bytes)
      BY <1>2, <1>3, Zenon
    <3>2. fp \in Seq(Bytes) /\ IsConcat(fp, f, p)
      BY ONLY <3>1, GlueIs, Zenon
    <3> QED BY ONLY <3>1, <3>2, Zenon DEF IsConcat
  <2> HIDE DEF fp
  <2> QED BY <1>2, <1>3, <2>1
<1> HIDE DEF fp
<1>5. /\ fpa \in Seq(Bytes) /\ Len(fpa) = 1 + PortBytes + IpBytes /\ fpa[1] = AF_INET
      /\ \A i \in 1 .. PortBytes : fpa[1 + i] = p[i]
      /\ \A i \in 1 .. IpBytes : fpa[1 + PortBytes + i] = a[i]
  <2>1. /\ fpa \in Seq(Bytes) /\ Len(fpa) = Len(fp) + Len(a)
        /\ \A i \in 1 .. Len(fp) : fpa[i] = fp[i]
        /\ \A i \in 1 .. Len(a) : fpa[Len(fp) + i] = a[i]
    <3>1. fp \in Seq(Bytes) /\ a \in Seq(Bytes)
      BY <1>2, <1>4, Zenon
    <3>2. fpa \in Seq(Bytes) /\ IsConcat(fpa, fp, a)
      BY ONLY <3>1, GlueIs, Zenon
    <3> QED BY ONLY <3>1, <3>2, Zenon DEF IsConcat
  <2>2. 1 \in 1 .. 1 + PortBytes /\ \A i \in 1 .. PortBytes : 1 + i \in 1 .. 1 + PortBytes
    BY <1>3
  <2> HIDE DEF fpa
  <2> QED BY <1>2, <1>3, <1>4, <2>1, <2>2, Zenon
<1> HIDE DEF fpa
<1> DEFINE s == Glue(fpa, z)
<1>6. /\ s \in Seq(Bytes) /\ Len(s) = PortBytes + IpBytes + 2
      /\ \A i \in 1 .. 1 + PortBytes + IpBytes : s[i] = fpa[i]
  <2>1. /\ s \in Seq(Bytes) /\ Len(s) = Len(fpa) + Len(z)
        /\ \A i \in 1 .. Len(fpa) : s[i] = fpa[i]
    <3>1. fpa \in Seq(Bytes) /\ z \in Seq(Bytes)
      BY <1>3, <1>5, Zenon
    <3>2. s \in Seq(Bytes) /\ IsConcat(s, fpa, z)
      BY ONLY <3>1, GlueIs, Zenon
    <3> QED BY ONLY <3>1, <3>2, Zenon DEF IsConcat
  <2> HIDE DEF s
  <2> QED BY <1>3, <1>5, <2>1
<1>7. /\ s[1] = AF_INET
      /\ \A i \in 1 .. PortBytes : s[1 + i] = p[i]
      /\ \A i \in 1 .. IpBytes : s[1 + PortBytes + i] = a[i]
  <2>1. /\ 1 \in 1 .. 1 + PortBytes + IpBytes
        /\ \A i \in 1 .. PortBytes : 1 + i \in 1 .. 1 + PortBytes + IpBytes
        /\ \A i \in 1 .. IpBytes : 1 + PortBytes + i \in 1 .. 1 + PortBytes + IpBytes
    BY <1>3
  <2> HIDE DEF s
  <2> QED BY <1>5, <1>6, <2>1, Zenon
<1>8. sockaddr_in(e) = s
  BY Zenon DEF sockaddr_in, s, fpa, fp, f, p, a, z, Glue
<1> HIDE DEF s
<1> QED BY <1>3, <1>6, <1>7, <1>8, Zenon DEF p, a

\* The storage of an Address: bytes, the sockaddr first.
LEMMA StorageBytes ==
  ASSUME NEW addr \in Seq(Bytes), Fits(Len(addr))
  PROVE  /\ MakeAddress(addr, Len(addr)).size = Len(addr)
         /\ MakeAddress(addr, Len(addr)).storage \in Seq(Bytes)
         /\ Len(MakeAddress(addr, Len(addr)).storage) = StorageSize
         /\ \A i \in 1 .. Len(addr) : MakeAddress(addr, Len(addr)).storage[i] = addr[i]
<1>1. SubSeq(addr, 1, Len(addr)) = addr
  BY SubSeqFull, Zenon
<1> DEFINE st == Raw(addr)
           m == MakeAddress(addr, Len(addr))
<1>2. m.size = Len(addr) /\ m.storage = st
  BY <1>1, Zenon DEF MakeAddress
<1>3. StorageSize \in Nat /\ Len(addr) \in Nat /\ Len(addr) <= StorageSize /\ 0 \in Bytes
  BY AddressNumbers DEF Fits
<1>4. st = [i \in 1 .. StorageSize |-> IF i <= Len(addr) THEN addr[i] ELSE 0]
  BY Zenon DEF Raw
<1>5. \A i \in 1 .. StorageSize : (IF i <= Len(addr) THEN addr[i] ELSE 0) \in Bytes
  BY <1>3
<1> HIDE DEF st
<1>6. st \in Seq(Bytes) /\ Len(st) = StorageSize
  BY <1>3, <1>4, <1>5
<1>7. \A i \in 1 .. Len(addr) : st[i] = addr[i]
  BY <1>3, <1>4
<1> HIDE DEF m
<1> QED BY <1>2, <1>6, <1>7, Zenon DEF m

\* The part of a storage from place m to place n, when it holds the bytes b there.
LEMMA PartOfStorage ==
  ASSUME NEW st \in Seq(Bytes), NEW b \in Seq(Bytes), NEW m \in Nat, m # 0,
         m + Len(b) - 1 <= Len(st), \A i \in 1 .. Len(b) : st[m - 1 + i] = b[i]
  PROVE  SubSeq(st, m, m + Len(b) - 1) = b
<1> DEFINE k == Len(b)
           n == m + k - 1
           x == SubSeq(st, m, n)
<1>1. k \in Nat /\ n \in Int /\ Len(st) \in Nat
  OBVIOUS
<1>2. \A i \in m .. n : st[i] \in Bytes
  BY <1>1
<1>3. /\ x \in Seq(Bytes) /\ Len(x) = (IF m <= n THEN n - m + 1 ELSE 0)
      /\ \A i \in 1 .. n - m + 1 : x[i] = st[m + i - 1]
  <2> HIDE DEF n
  <2> QED BY <1>1, <1>2, SubSeqProperties
<1> HIDE DEF x
<1>4. Len(x) = k /\ \A i \in 1 .. k : x[i] = b[i]
  <2>1. Len(x) = k /\ n - m + 1 = k
    BY <1>1, <1>3
  <2>2. ASSUME NEW i \in 1 .. k PROVE x[i] = b[i]
    <3>1. m + i - 1 = m - 1 + i
      BY <1>1
    <3> QED BY <1>3, <2>1, <3>1, Zenon
  <2> QED BY <2>1, <2>2, Zenon
<1>5. x = b
  BY <1>3, <1>4, SeqEqual, Zenon
<1> QED BY <1>5, Zenon DEF x

\* The address of an endpoint denotes it.
LEMMA AddressBack ==
  ASSUME NEW e \in Endpoint
  PROVE  /\ get_address(e).size = SockaddrInSize
         /\ get_address(e).storage \in Seq(Bytes)
         /\ Len(get_address(e).storage) = StorageSize
         /\ IsIpv4(get_address(e))
         /\ ip_port(get_address(e)) = e
<1> DEFINE s == sockaddr_in(e)
           g == get_address(e)
           st == g.storage
           p == htobe(e.port, PortBytes)
           a == htobe(e.ip, IpBytes)
<1>1. /\ s \in Seq(Bytes) /\ Len(s) = SockaddrInSize /\ s[1] = AF_INET
      /\ \A i \in 1 .. PortBytes : s[1 + i] = p[i]
      /\ \A i \in 1 .. IpBytes : s[1 + PortBytes + i] = a[i]
  BY SockaddrBytes, Zenon
<1>2. /\ PortBytes \in Nat /\ IpBytes \in Nat /\ SockaddrInSize = PortBytes + IpBytes + 2
      /\ StorageSize \in Nat /\ SockaddrInSize <= StorageSize
  BY AddressNumbers, Zenon
<1>3. g = MakeAddress(s, Len(s))
  BY <1>1, Zenon DEF get_address
<1> HIDE DEF s, g
<1>4. /\ g.size = SockaddrInSize /\ st \in Seq(Bytes) /\ Len(st) = StorageSize
      /\ \A i \in 1 .. SockaddrInSize : st[i] = s[i]
  <2>1. Fits(Len(s))
    BY <1>1, <1>2, Zenon DEF Fits
  <2> QED BY <1>1, <1>3, <2>1, StorageBytes, Zenon
<1> HIDE DEF st
<1>5. st[1] = AF_INET
  BY <1>1, <1>2, <1>4
<1>6. /\ e.port \in Nat /\ e.port < Power(Base, PortBytes)
      /\ e.ip \in Nat /\ e.ip < Power(Base, IpBytes)
      /\ e = [ip |-> e.ip, port |-> e.port]
  <2>1. Power(Base, PortBytes) \in Nat /\ Power(Base, IpBytes) \in Nat
    BY AddressNumbers, PowerFacts, Zenon
  <2> QED BY <2>1 DEF Endpoint
<1>7. p \in Seq(Bytes) /\ Len(p) = PortBytes /\ a \in Seq(Bytes) /\ Len(a) = IpBytes
      /\ betoh(p) = e.port /\ betoh(a) = e.ip
  BY <1>2, <1>6, HtobeType, BetohHtobe, Zenon
<1> HIDE DEF p, a
<1>8. SubSeq(st, 2, 1 + PortBytes) = p
  <2>1. 2 + Len(p) - 1 = 1 + PortBytes /\ 2 + Len(p) - 1 <= Len(st)
    BY <1>2, <1>4, <1>7
  <2>2. ASSUME NEW i \in 1 .. Len(p) PROVE st[2 - 1 + i] = p[i]
    <3>1. 2 - 1 + i = 1 + i /\ 1 + i \in 1 .. SockaddrInSize /\ i \in 1 .. PortBytes
      BY <1>2, <1>7
    <3> QED BY <1>1, <1>4, <3>1, Zenon
  <2>3. SubSeq(st, 2, 2 + Len(p) - 1) = p
    BY <1>4, <1>7, <2>1, <2>2, PartOfStorage
  <2> QED BY <2>1, <2>3, Zenon
<1>9. SubSeq(st, 2 + PortBytes, 1 + PortBytes + IpBytes) = a
  <2> DEFINE m == 2 + PortBytes
  <2>1. m \in Nat /\ m # 0 /\ m + Len(a) - 1 = 1 + PortBytes + IpBytes /\ m + Len(a) - 1 <= Len(st)
    BY <1>2, <1>4, <1>7
  <2>2. ASSUME NEW i \in 1 .. Len(a) PROVE st[m - 1 + i] = a[i]
    <3>1. m - 1 + i = 1 + PortBytes + i /\ 1 + PortBytes + i \in 1 .. SockaddrInSize /\ i \in 1 .. IpBytes
      BY <1>2, <1>7
    <3> QED BY <1>1, <1>4, <3>1, Zenon
  <2> HIDE DEF m
  <2>3. SubSeq(st, m, m + Len(a) - 1) = a
    BY <1>4, <1>7, <2>1, <2>2, PartOfStorage, Zenon
  <2> QED BY <2>1, <2>3, Zenon DEF m
<1>10. IsIpv4(g)
  BY <1>4, <1>5, Zenon DEF IsIpv4, st
<1>11. ip_port(g) = [ip |-> betoh(a), port |-> betoh(p)]
  BY <1>8, <1>9, Zenon DEF ip_port, st
<1>12. ip_port(g) = e
  BY <1>6, <1>7, <1>11, Zenon
<1> QED BY <1>4, <1>10, <1>12, Zenon DEF g, st

\* operator== tells the addresses of endpoints apart.
LEMMA EqualMeansSame ==
  ASSUME NEW e \in Endpoint, NEW f \in Endpoint
  PROVE  Equal(get_address(e), get_address(f)) <=> e = f
<1> DEFINE a == get_address(e)
           b == get_address(f)
           S == SockaddrInSize
           s == a.storage
           t == b.storage
<1>1. /\ a.size = S /\ b.size = S /\ s \in Seq(Bytes) /\ t \in Seq(Bytes)
      /\ Len(s) = StorageSize /\ Len(t) = StorageSize
      /\ ip_port(a) = e /\ ip_port(b) = f
  BY AddressBack, Zenon
<1>2. /\ PortBytes \in Nat /\ IpBytes \in Nat /\ S = PortBytes + IpBytes + 2
      /\ StorageSize \in Nat /\ S <= StorageSize /\ S \in Nat
  BY AddressNumbers, Zenon
<1>3. e = f => Equal(a, b)
  BY Zenon DEF Equal
<1>4. Equal(a, b) <=> SubSeq(s, 1, S) = SubSeq(t, 1, S)
  BY <1>1, Zenon DEF Equal
<1> HIDE DEF a, b
<1>5. ASSUME SubSeq(s, 1, S) = SubSeq(t, 1, S) PROVE ip_port(a) = ip_port(b)
  <2>0. ip_port(a) = [ip |-> betoh(SubSeq(s, 2 + PortBytes, 1 + PortBytes + IpBytes)),
                      port |-> betoh(SubSeq(s, 2, 1 + PortBytes))]
        /\ ip_port(b) = [ip |-> betoh(SubSeq(t, 2 + PortBytes, 1 + PortBytes + IpBytes)),
                         port |-> betoh(SubSeq(t, 2, 1 + PortBytes))]
    BY Zenon DEF ip_port
  <2> HIDE DEF s, t, S
  <2>1. \A i \in 1 .. S : s[i] = t[i]
    <3>1. \A i \in 1 .. S : SubSeq(s, 1, S)[i] = s[i] /\ SubSeq(t, 1, S)[i] = t[i]
      BY <1>1, <1>2
    <3> QED BY <1>5, <3>1, Zenon
  <2>2. SubSeq(s, 2 + PortBytes, 1 + PortBytes + IpBytes) = SubSeq(t, 2 + PortBytes, 1 + PortBytes + IpBytes)
    <3> DEFINE m == 2 + PortBytes
               n == 1 + PortBytes + IpBytes
    <3>1. m \in Nat /\ m # 0 /\ n \in Nat /\ n <= Len(s) /\ n <= Len(t) /\ m <= n + 1 /\ n <= S
      BY <1>1, <1>2
    <3> HIDE DEF m, n
    <3>2. \A i \in m .. n : s[i] = t[i]
      BY <1>2, <2>1, <3>1
    <3>3. Part(s, m, n) = Part(t, m, n)
      BY <1>1, <3>1, <3>2, PartsAgree
    <3> QED BY <3>3, Zenon DEF Part, m, n
  <2>3. SubSeq(s, 2, 1 + PortBytes) = SubSeq(t, 2, 1 + PortBytes)
    <3> DEFINE n == 1 + PortBytes
    <3>1. n \in Nat /\ n <= Len(s) /\ n <= Len(t) /\ 2 <= n + 1 /\ n <= S
      BY <1>1, <1>2
    <3> HIDE DEF n
    <3>2. \A i \in 2 .. n : s[i] = t[i]
      BY <1>2, <2>1, <3>1
    <3>3. Part(s, 2, n) = Part(t, 2, n)
      BY <1>1, <3>1, <3>2, PartsAgree
    <3> QED BY <3>3, Zenon DEF Part, n
  <2> QED BY <2>0, <2>2, <2>3, Zenon
<1>6. Equal(a, b) => e = f
  BY <1>1, <1>4, <1>5, Zenon
<1> QED BY <1>3, <1>6, Zenon DEF a, b

-----------------------------------------------------------------------------
(***************************************************************************)
(* The payload of a datagram object that is used again.                    *)
(***************************************************************************)

\* resize makes a string of the length asked for.
LEMMA ResizeType ==
  ASSUME NEW str \in Seq(Chars), NEW n \in Nat
  PROVE  /\ resize(str, n) \in Seq(Chars)
         /\ Len(resize(str, n)) = n
         /\ \A i \in 1 .. n : resize(str, n)[i] = IF i <= Len(str) THEN str[i] ELSE "0"
<1>1. \A i \in 1 .. n : i <= Len(str) => str[i] \in Chars
  OBVIOUS
<1>2. resize(str, n) \in [1 .. n -> Chars]
  BY <1>1, DatagramAssumptions, Zenon DEF resize
<1>3. resize(str, n) \in Seq(Chars) /\ Len(resize(str, n)) = n
  BY <1>2
<1> QED
  BY <1>3, Zenon DEF resize

\* recvfrom(2) does not change the length of the string it fills.
LEMMA FillType ==
  ASSUME NEW str \in Seq(Chars), NEW data \in Seq(Chars)
  PROVE  /\ Fill(str, data) \in Seq(Chars)
         /\ Len(Fill(str, data)) = Len(str)
         /\ \A i \in 1 .. Len(str) : Fill(str, data)[i] = IF i <= Len(data) THEN data[i] ELSE str[i]
<1>1. \A i \in 1 .. Len(str) : str[i] \in Chars /\ (i <= Len(data) => data[i] \in Chars)
  OBVIOUS
<1>2. Fill(str, data) \in [1 .. Len(str) -> Chars]
  BY <1>1, Zenon DEF Fill
<1>3. Len(str) \in Nat
  OBVIOUS
<1>4. Fill(str, data) \in Seq(Chars) /\ Len(Fill(str, data)) = Len(str)
  BY <1>2, <1>3
<1> QED
  BY <1>4, Zenon DEF Fill

\* A datagram that fits replaces what the string held: nothing is left of it.
LEMMA NothingLeft ==
  ASSUME NEW str \in Seq(Chars), NEW data \in Seq(Chars), NEW mtu \in Nat, Len(data) <= mtu
  PROVE  resize(Fill(resize(str, mtu), data), Len(data)) = data
<1> DEFINE room == resize(str, mtu)
           filled == Fill(room, data)
           ret == resize(filled, Len(data))
<1>1. room \in Seq(Chars) /\ Len(room) = mtu
  BY ResizeType, Zenon
<1> HIDE DEF room
<1>2. /\ filled \in Seq(Chars) /\ Len(filled) = mtu
      /\ \A i \in 1 .. mtu : i <= Len(data) => filled[i] = data[i]
  BY <1>1, FillType, Zenon
<1> HIDE DEF filled
<1>3. Len(data) \in Nat
  OBVIOUS
<1>4. /\ ret \in Seq(Chars) /\ Len(ret) = Len(data)
      /\ \A i \in 1 .. Len(data) : ret[i] = IF i <= Len(filled) THEN filled[i] ELSE "0"
  BY <1>2, <1>3, ResizeType, Zenon
<1> HIDE DEF ret
<1>5. \A i \in 1 .. Len(data) : ret[i] = data[i]
  BY <1>2, <1>3, <1>4
<1>6. ret = data
  BY <1>4, <1>5
<1> QED
  BY <1>6, Zenon DEF ret, filled, room

-----------------------------------------------------------------------------
(***************************************************************************)
(* The inductive invariant.                                                *)
(***************************************************************************)

\* What the source address of a received_datagram can be.
Sources == {NewDatagram.source_address} \cup {get_address(e) : e \in Endpoint}

\* The shapes of the state.
Shapes ==
  /\ local \in [Sockets -> Locals \cup {NoEndpoint}]
  /\ peer \in [Sockets -> Endpoint \cup {NoEndpoint}]
  /\ queue \in [Sockets -> Seq(Message)]
  /\ \A s \in Sockets : Len(queue[s]) <= MaxQueue
  /\ DOMAIN wire \subseteq Message
  /\ datagram \in [Sockets -> [source_address : Sources, payload : Seq(Chars)]]
  /\ taken \in [Sockets -> Message \cup {NoMessage}]

\* No endpoint belongs to two sockets.
NoClash ==
  \A s, t \in Sockets : s # t /\ local[s] # NoEndpoint /\ local[t] # NoEndpoint =>
    Concrete(local[s]) \cap Concrete(local[t]) = {}

\* The sender of m has a name, and until it is connected it is where m came from.
Sent(m) ==
  /\ local[m.by] # NoEndpoint
  /\ peer[m.by] = NoEndpoint => m.from \in Concrete(local[m.by])

\* The socket s has a name, and m was sent to its port.
Mine(s, m) == local[s] # NoEndpoint /\ m.to.port = local[s].port

\* What is in the queue of s was sent to s.
QueueIsMine(s) == \A i \in 1 .. Len(queue[s]) : Mine(s, queue[s][i]) /\ Sent(queue[s][i])

\* What recv has returned is what it took, converted.
TakenIsReturned(s) ==
  taken[s] # NoMessage =>
    /\ datagram[s].payload = taken[s].data
    /\ datagram[s].source_address = get_address(taken[s].from)
    /\ Mine(s, taken[s]) /\ Sent(taken[s])

\* The inductive invariant.
DgInv ==
  /\ Shapes
  /\ NoClash
  /\ \A m \in DOMAIN wire : Sent(m)
  /\ \A s \in Sockets : QueueIsMine(s) /\ TakenIsReturned(s)

\* The names of sockets are endpoints, and so is what they stand for.
LEMMA NamesAreEndpoints ==
  /\ Locals \subseteq Endpoint
  /\ Endpoints \subseteq Locals
  /\ \A e \in Endpoint : Concrete(e) \subseteq Endpoint
<1>1. /\ Hosts \subseteq 0 .. Power(Base, IpBytes) - 1
      /\ INADDR_ANY \in 0 .. Power(Base, IpBytes) - 1
      /\ Ports \subseteq 0 .. Power(Base, PortBytes) - 1
  <2>1. Power(Base, IpBytes) \in Nat /\ Power(Base, IpBytes) # 0 /\ Power(Base, PortBytes) \in Nat
    BY AddressNumbers, PowerFacts, Zenon
  <2> QED BY <2>1, DatagramAssumptions DEF INADDR_ANY
<1>2. Locals \subseteq Endpoint
  BY <1>1, Zenon DEF Locals, Endpoint
<1>3. Endpoints \subseteq Locals
  BY Zenon DEF Locals, Endpoints
<1>4. \A e \in Endpoint : Concrete(e) \subseteq Endpoint
  BY <1>1, Zenon DEF Concrete, Endpoint
<1> QED BY <1>2, <1>3, <1>4, Zenon

\* What a name stands for: endpoints with its port, each of which stands for itself.
LEMMA ConcreteNames ==
  ASSUME NEW f \in Locals, NEW h \in Concrete(f)
  PROVE  h \in Endpoints /\ h.port = f.port /\ Concrete(h) = {h}
<1>1. h \in Endpoints /\ h.port = f.port
  BY Zenon DEF Concrete, Locals, Endpoints
<1>2. h.ip \in Hosts
  BY <1>1, Zenon DEF Endpoints
<1>3. h.ip # INADDR_ANY
  BY <1>2, DatagramAssumptions DEF INADDR_ANY
<1> QED BY <1>1, <1>3, Zenon DEF Concrete

\* The empty Address of a new datagram is not one that can be sent to, and equals
\* none of an endpoint.
LEMMA NewIsNoAddress ==
  /\ ~IsIpv4(NewDatagram.source_address)
  /\ \A e \in Endpoint : ~Equal(get_address(e), NewDatagram.source_address)
<1>1. NewDatagram.source_address.size = 0 /\ SockaddrInSize # 0
  BY AddressAssumptions DEF NewDatagram, MakeAddress, SockaddrInSize
<1> QED BY <1>1, AddressBack, Zenon DEF IsIpv4, Equal

\* An Address that is written down or looked up is the one that the kernel would
\* give for the same endpoint.
LEMMA WrittenAddress ==
  ASSUME NEW a \in Written
  PROVE  \E e \in Endpoint : a = get_address(e)
<1>1. ASSUME NEW e \in Endpoint, NEW answers, Head(answers) = sockaddr_in(e), a = Resolve(answers)
      PROVE  a = get_address(e)
  BY <1>1, SockaddrBytes, Zenon DEF Resolve, get_address
<1>2. ASSUME NEW e \in Typed, a = FromIpPort(e)
      PROVE  \E f \in Endpoint : a = get_address(f)
  <2>1. Head(<<sockaddr_in(e)>>) = sockaddr_in(e)
    OBVIOUS
  <2> QED BY <1>1, <1>2, <2>1, DatagramAssumptions, Zenon DEF FromIpPort
<1>3. ASSUME NEW n \in Names, Resolves(Answer[n]), a = Resolve(Answer[n])
      PROVE  \E f \in Endpoint : a = get_address(f)
  <2> DEFINE S == {sockaddr_in(e) : e \in Endpoint}
             ans == Answer[n]
  <2>1. ans \in Seq(S) /\ ans # <<>>
    BY <1>3, DatagramAssumptions, Zenon DEF Resolves
  <2> HIDE DEF S, ans
  <2>2. Head(ans) \in S
    BY <2>1
  <2> QED BY <1>1, <1>3, <2>2, Zenon DEF S, ans
<1> QED BY <1>2, <1>3, Zenon DEF Written

\* Every Address that a client has at hand is that of an endpoint, or empty.
LEMMA KnownAddress ==
  ASSUME DgInv, NEW s \in Sockets, NEW a \in Known(s)
  PROVE  a \in Sources
<1>1. CASE a \in Written
  BY <1>1, WrittenAddress, Zenon DEF Sources
<1>2. CASE a \in {get_address(e) : e \in (Range(local) \cup Range(peer)) \ {NoEndpoint}}
  <2>1. (Range(local) \cup Range(peer)) \ {NoEndpoint} \subseteq Endpoint
    BY NamesAreEndpoints, Zenon DEF DgInv, Shapes, Range
  <2> QED BY <1>2, <2>1, Zenon DEF Sources
<1>3. CASE a = datagram[s].source_address
  BY <1>3, Zenon DEF DgInv, Shapes
<1> QED
  BY <1>1, <1>2, <1>3, Zenon DEF Known

\* One that can be sent to denotes an endpoint.
LEMMA KnownEndpoint ==
  ASSUME DgInv, NEW s \in Sockets, NEW a \in Known(s), IsIpv4(a)
  PROVE  ip_port(a) \in Endpoint
BY KnownAddress, NewIsNoAddress, AddressBack, Zenon DEF Sources

\* How names and peers change: a socket s that has no name gets one that is free;
\* one that has a name keeps it, unless it is connected, and then its port.
NameStep(s, f) ==
  /\ local' = [local EXCEPT ![s] = f]
  /\ \A t \in Sockets \ {s} : local[t] # NoEndpoint => Concrete(f) \cap Concrete(local[t]) = {}
  /\ local[s] # NoEndpoint => f.port = local[s].port /\ (f = local[s] \/ peer'[s] # NoEndpoint)
  /\ peer' = peer \/ \E e \in Endpoint : peer' = [peer EXCEPT ![s] = e]

\* What the names and peers are part of stays true.
LEMMA NameStepKeeps ==
  ASSUME DgInv, NEW s \in Sockets, NEW f \in Locals, NameStep(s, f)
  PROVE  /\ local' \in [Sockets -> Locals \cup {NoEndpoint}]
         /\ peer' \in [Sockets -> Endpoint \cup {NoEndpoint}]
         /\ local'[s] = f
         /\ NoClash'
         /\ \A m \in Message : Sent(m) => Sent(m)'
         /\ \A t \in Sockets, m \in Message : Mine(t, m) => Mine(t, m)'
<1>1. /\ local \in [Sockets -> Locals \cup {NoEndpoint}]
      /\ peer \in [Sockets -> Endpoint \cup {NoEndpoint}]
      /\ f # NoEndpoint
  BY NamesAreEndpoints, DatagramAssumptions, Zenon DEF DgInv, Shapes
<1>2. /\ local' \in [Sockets -> Locals \cup {NoEndpoint}]
      /\ local'[s] = f /\ \A t \in Sockets \ {s} : local'[t] = local[t]
  BY <1>1, Zenon DEF NameStep
<1>3. /\ peer' \in [Sockets -> Endpoint \cup {NoEndpoint}]
      /\ \A t \in Sockets \ {s} : peer'[t] = peer[t]
      /\ peer'[s] = NoEndpoint => peer[s] = NoEndpoint
  BY <1>1, DatagramAssumptions, Zenon DEF NameStep
<1>4. NoClash'
  <2>1. ASSUME NEW t \in Sockets \ {s}, local[t] # NoEndpoint
        PROVE  Concrete(f) \cap Concrete(local[t]) = {} /\ Concrete(local[t]) \cap Concrete(f) = {}
    BY <2>1, Zenon DEF NameStep
  <2>2. ASSUME NEW t \in Sockets, NEW u \in Sockets, t # u,
               local'[t] # NoEndpoint, local'[u] # NoEndpoint
        PROVE  Concrete(local'[t]) \cap Concrete(local'[u]) = {}
    <3>1. CASE t = s
      BY <1>2, <2>1, <2>2, <3>1, Zenon
    <3>2. CASE u = s
      BY <1>2, <2>1, <2>2, <3>2, Zenon
    <3>3. CASE t # s /\ u # s
      BY <1>2, <2>2, <3>3, Zenon DEF DgInv, NoClash
    <3> QED BY <3>1, <3>2, <3>3, Zenon
  <2> QED BY <2>2, Zenon DEF NoClash, Concrete
<1>5. ASSUME NEW m \in Message, Sent(m) PROVE Sent(m)'
  <2>1. m.by \in Sockets
    BY Zenon DEF Message
  <2>2. CASE m.by = s
    <3>1. local[s] # NoEndpoint /\ (peer[s] = NoEndpoint => m.from \in Concrete(local[s]))
      BY <1>5, <2>2, Zenon DEF Sent
    <3>2. peer'[s] = NoEndpoint => f = local[s] /\ peer[s] = NoEndpoint
      BY <1>3, <3>1, Zenon DEF NameStep
    <3> QED BY <1>1, <1>2, <2>2, <3>1, <3>2, Zenon DEF Sent
  <2>3. CASE m.by # s
    <3>1. local'[m.by] = local[m.by] /\ peer'[m.by] = peer[m.by]
      BY <1>2, <1>3, <2>1, <2>3, Zenon
    <3> QED BY <1>5, <3>1, Zenon DEF Sent, Concrete
  <2> QED BY <2>2, <2>3, Zenon
<1>6. ASSUME NEW t \in Sockets, NEW m \in Message, Mine(t, m) PROVE Mine(t, m)'
  <2>1. CASE t = s
    <3>1. f.port = local[s].port
      BY <1>6, <2>1, Zenon DEF Mine, NameStep
    <3> QED BY <1>1, <1>2, <1>6, <2>1, <3>1, Zenon DEF Mine
  <2>2. CASE t # s
    BY <1>2, <1>6, <2>2, Zenon DEF Mine
  <2> QED BY <2>1, <2>2, Zenon
<1> QED BY <1>2, <1>3, <1>4, <1>5, <1>6, Zenon

\* What was queued or taken stays so while names and peers change.
LEMMA QuietStep ==
  ASSUME DgInv, UNCHANGED <<queue, datagram, taken>>,
         \A m \in Message : Sent(m) => Sent(m)',
         \A t \in Sockets, m \in Message : Mine(t, m) => Mine(t, m)'
  PROVE  \A t \in Sockets : QueueIsMine(t)' /\ TakenIsReturned(t)'
<1> SUFFICES ASSUME NEW t \in Sockets PROVE QueueIsMine(t)' /\ TakenIsReturned(t)'
  BY Zenon
<1>1. queue[t] \in Seq(Message) /\ QueueIsMine(t) /\ TakenIsReturned(t) /\ taken[t] \in Message \cup {NoMessage}
  BY Zenon DEF DgInv, Shapes
<1>2. \A i \in 1 .. Len(queue[t]) : queue[t][i] \in Message
  BY <1>1
<1>3. ASSUME NEW i \in 1 .. Len(queue'[t])
      PROVE  Mine(t, queue[t][i])' /\ Sent(queue[t][i])'
  <2>1. PICK m \in Message : m = queue[t][i] /\ m = queue'[t][i]
    BY <1>2, Zenon
  <2>2. Mine(t, m) /\ Sent(m)
    BY <1>1, <2>1, Zenon DEF QueueIsMine
  <2>3. Mine(t, m)' /\ Sent(m)'
    BY <2>2, Zenon
  <2> QED BY <2>1, <2>3, Zenon DEF Mine, Sent
<1>4. TakenIsReturned(t)'
  <2>1. CASE taken[t] # NoMessage
    <3>1. PICK m \in Message : m = taken[t] /\ m = taken'[t]
      BY <1>1, <2>1, Zenon
    <3>2. /\ Mine(t, m) /\ Sent(m)
          /\ datagram'[t].payload = m.data /\ datagram'[t].source_address = get_address(m.from)
      BY <1>1, <2>1, <3>1, Zenon DEF TakenIsReturned
    <3>3. Mine(t, m)' /\ Sent(m)'
      BY <3>2, Zenon
    <3> QED BY <3>1, <3>2, <3>3, Zenon DEF TakenIsReturned, Mine, Sent
  <2>2. CASE taken[t] = NoMessage
    BY <2>2, Zenon DEF TakenIsReturned
  <2> QED BY <2>1, <2>2, Zenon
<1> QED BY <1>3, <1>4, Zenon DEF QueueIsMine

\* Nor does it change with the other sockets' datagrams.
LEMMA TakenStays ==
  ASSUME DgInv, NEW t \in Sockets, UNCHANGED <<local, peer>>,
         datagram'[t] = datagram[t], taken'[t] = taken[t]
  PROVE  TakenIsReturned(t)'
<1>1. TakenIsReturned(t)
  BY Zenon DEF DgInv
<1> QED BY <1>1, Zenon DEF TakenIsReturned, Mine, Sent

\* A name that is free, or that the socket has.
LEMMA NamedIsFree ==
  ASSUME DgInv, NEW s \in Sockets, NEW f \in Named(s)
  PROVE  /\ f \in Locals
         /\ \A t \in Sockets \ {s} : local[t] # NoEndpoint => Concrete(f) \cap Concrete(local[t]) = {}
         /\ local[s] # NoEndpoint => f = local[s]
<1>1. CASE local[s] = NoEndpoint
  BY <1>1, Zenon DEF Named, Available
<1>2. CASE local[s] # NoEndpoint
  <2>1. f = local[s] /\ f \in Locals
    BY <1>2, Zenon DEF Named, DgInv, Shapes
  <2> QED BY <1>2, <2>1, Zenon DEF DgInv, NoClash
<1> QED BY <1>1, <1>2, Zenon

\* A step that only names sockets or connects them keeps the invariant.
LEMMA NameStepHolds ==
  ASSUME DgInv, NEW s \in Sockets, NEW f \in Locals, NameStep(s, f),
         UNCHANGED <<queue, wire, datagram, taken>>
  PROVE  DgInv'
<1>1. /\ local' \in [Sockets -> Locals \cup {NoEndpoint}]
      /\ peer' \in [Sockets -> Endpoint \cup {NoEndpoint}]
      /\ NoClash'
      /\ \A m \in Message : Sent(m) => Sent(m)'
      /\ \A t \in Sockets, m \in Message : Mine(t, m) => Mine(t, m)'
  BY NameStepKeeps, Zenon
<1>2. \A t \in Sockets : QueueIsMine(t)' /\ TakenIsReturned(t)'
  BY <1>1, QuietStep, Zenon
<1>3. \A m \in DOMAIN wire' : Sent(m)'
  BY <1>1, Zenon DEF DgInv, Shapes
<1> QED BY <1>1, <1>2, <1>3, Zenon DEF DgInv, Shapes

-----------------------------------------------------------------------------
(***************************************************************************)
(* The steps.                                                              *)
(***************************************************************************)

\* A send puts a datagram of the socket on the wire.
LEMMA SendStep ==
  ASSUME DgInv, NEW s \in Sockets, NEW to \in Endpoint, NEW p \in Payloads,
         sendmsg_helper(s, to, p)
  PROVE  DgInv'
<1>1. PICK f \in Named(s), there \in Concrete(to), copies \in 1 .. MaxCopies :
        /\ local' = [local EXCEPT ![s] = f]
        /\ \E here \in Concrete(f) :
             wire' = wire (+) [x \in {[by |-> s, from |-> here, to |-> there, data |-> Gather(p)]} |-> copies]
  BY Zenon DEF sendmsg_helper
<1>2. UNCHANGED <<peer, queue, datagram, taken>>
  BY Zenon DEF sendmsg_helper
<1>3. PICK here \in Concrete(f) :
        wire' = wire (+) [x \in {[by |-> s, from |-> here, to |-> there, data |-> Gather(p)]} |-> copies]
  BY <1>1, Zenon
<1>4. f \in Locals /\ NameStep(s, f)
  BY <1>1, <1>2, NamedIsFree, Zenon DEF NameStep
<1>5. /\ local' \in [Sockets -> Locals \cup {NoEndpoint}] /\ local'[s] = f
      /\ NoClash'
      /\ \A m \in Message : Sent(m) => Sent(m)'
      /\ \A t \in Sockets, m \in Message : Mine(t, m) => Mine(t, m)'
  BY <1>4, NameStepKeeps, Zenon
<1> DEFINE m == [by |-> s, from |-> here, to |-> there, data |-> Gather(p)]
<1>6. m \in Message /\ Sent(m)'
  <2>1. here \in Endpoints /\ there \in Endpoint /\ f # NoEndpoint
    BY <1>4, ConcreteNames, NamesAreEndpoints, DatagramAssumptions, Zenon
  <2> QED BY <1>5, <2>1, Zenon DEF Message, Data, Gather, Sent, Concrete
<1> HIDE DEF m
<1>7. DOMAIN wire' = DOMAIN wire \cup {m}
  BY <1>3, Zenon DEF (+), m
<1>8. DOMAIN wire' \subseteq Message /\ \A x \in DOMAIN wire' : Sent(x)'
  BY <1>5, <1>6, <1>7, Zenon DEF DgInv, Shapes
<1>9. \A t \in Sockets : QueueIsMine(t)' /\ TakenIsReturned(t)'
  BY <1>2, <1>5, QuietStep, Zenon
<1> QED
  BY <1>2, <1>5, <1>8, <1>9, Zenon DEF DgInv, Shapes

\* A datagram that arrives is queued where it belongs, or nowhere.
LEMMA ArriveStep ==
  ASSUME DgInv, NEW m \in BagToSet(wire), Arrive(m)
  PROVE  DgInv'
<1>1. m \in Message /\ Sent(m)
  BY Zenon DEF BagToSet, DgInv, Shapes
<1>2. DOMAIN wire' \subseteq DOMAIN wire
  BY Zenon DEF Arrive, (-)
<1>3. UNCHANGED <<local, peer, datagram, taken>>
  BY Zenon DEF Arrive
<1>4. ASSUME NEW s \in Sockets
      PROVE  queue'[s] \in Seq(Message) /\ QueueIsMine(s)' /\ Len(queue'[s]) <= MaxQueue
  <2>1. queue[s] \in Seq(Message) /\ QueueIsMine(s) /\ Len(queue[s]) <= MaxQueue /\ MaxQueue \in Nat
    BY DatagramAssumptions, Zenon DEF DgInv, Shapes
  <2>2. CASE Hears(s, m) /\ queue'[s] = Append(queue[s], m) /\ Len(queue[s]) < MaxQueue
    <3> DEFINE q == queue[s]
    <3>1. /\ Append(q, m) \in Seq(Message)
          /\ Len(Append(q, m)) = Len(q) + 1
          /\ \A i \in 1 .. Len(q) : Append(q, m)[i] = q[i]
          /\ Append(q, m)[Len(q) + 1] = m
      BY <1>1, <2>1, AppendProperties
    <3>2. Len(q) \in Nat /\ \A i \in 1 .. Len(q) + 1 : i \in 1 .. Len(q) \/ i = Len(q) + 1
      BY <2>1
    <3>3. Mine(s, m)
      <4>1. local[s] \in Locals /\ m.to \in Concrete(local[s])
        BY <2>2, Zenon DEF Hears, DgInv, Shapes
      <4> QED BY <2>2, <4>1, ConcreteNames, Zenon DEF Hears, Mine
    <3>4. \A i \in 1 .. Len(q) + 1 : Mine(s, Append(q, m)[i]) /\ Sent(Append(q, m)[i])
      BY <1>1, <2>1, <3>1, <3>2, <3>3, Zenon DEF QueueIsMine
    <3>5. QueueIsMine(s)'
      BY <1>3, <2>2, <3>1, <3>4, Zenon DEF QueueIsMine, Mine, Sent
    <3>6. Len(q) + 1 <= MaxQueue
      BY <2>1, <2>2, <3>2
    <3> QED
      BY <2>2, <3>1, <3>5, <3>6, Zenon
  <2>3. CASE queue'[s] = queue[s]
    BY <1>3, <2>1, <2>3, Zenon DEF QueueIsMine, Mine, Sent
  <2> QED
    BY <2>2, <2>3, Zenon DEF Arrive
<1>5. queue' \in [Sockets -> Seq(Message)]
  <2>1. DOMAIN queue' = Sockets /\ queue' = [s \in Sockets |-> queue'[s]]
    BY Zenon DEF Arrive
  <2> QED
    BY <1>4, <2>1, Zenon
<1>6. \A s \in Sockets : TakenIsReturned(s)'
  BY <1>3, Zenon DEF DgInv, TakenIsReturned, Mine, Sent
<1>7. NoClash' /\ \A x \in DOMAIN wire' : Sent(x)'
  BY <1>2, <1>3, Zenon DEF DgInv, NoClash, Sent
<1> QED
  BY <1>2, <1>3, <1>4, <1>5, <1>6, <1>7, Zenon DEF DgInv, Shapes

\* recv: the datagram at the head of the queue is returned whole, or dropped
\* with an exception.
LEMMA RecvStep ==
  ASSUME DgInv, NEW s \in Sockets, NEW mtu \in Mtus, NEW reuse \in BOOLEAN, Recv(s, mtu, reuse)
  PROVE  DgInv'
<1> DEFINE m       == Head(queue[s])
           ret     == IF reuse THEN datagram[s] ELSE NewDatagram
           payload == Fill(resize(ret.payload, mtu), m.data)
<1>1. /\ queue[s] \in Seq(Message) /\ queue[s] # <<>>
      /\ datagram \in [Sockets -> [source_address : Sources, payload : Seq(Chars)]]
      /\ taken \in [Sockets -> Message \cup {NoMessage}]
      /\ queue \in [Sockets -> Seq(Message)]
      /\ mtu \in Nat
      /\ UNCHANGED <<local, peer, wire>>
      /\ queue' = [queue EXCEPT ![s] = Tail(queue[s])]
  BY DatagramAssumptions, Zenon DEF DgInv, Shapes, Recv
<1>2. m \in Message /\ m = queue[s][1] /\ 1 \in 1 .. Len(queue[s])
  BY <1>1
<1>3. m.data \in Seq(Chars) /\ m.from \in Endpoint /\ Mine(s, m) /\ Sent(m)
  BY <1>2, NamesAreEndpoints, DatagramAssumptions, Zenon DEF Message, DgInv, QueueIsMine
<1>0. NoClash' /\ \A x \in DOMAIN wire' : Sent(x)'
  BY <1>1, Zenon DEF DgInv, NoClash, Sent
<1>4. ret.payload \in Seq(Chars)
  BY <1>1 DEF NewDatagram
<1>5. payload \in Seq(Chars)
  BY <1>1, <1>3, <1>4, ResizeType, FillType, Zenon
<1>6. /\ queue' \in [Sockets -> Seq(Message)]
      /\ \A t \in Sockets : QueueIsMine(t)' /\ Len(queue'[t]) <= MaxQueue
  <2>1. /\ Tail(queue[s]) \in Seq(Message)
        /\ Len(Tail(queue[s])) = Len(queue[s]) - 1
        /\ \A i \in 1 .. Len(queue[s]) - 1 : Tail(queue[s])[i] = queue[s][i + 1]
    BY <1>1
  <2>2. ASSUME NEW t \in Sockets
        PROVE  QueueIsMine(t)' /\ Len(queue'[t]) <= MaxQueue
    <3>0. Len(queue[t]) <= MaxQueue /\ MaxQueue \in Nat /\ Len(queue[s]) \in Nat
      BY <1>1, DatagramAssumptions DEF DgInv, Shapes
    <3>1. CASE t = s
      <4>1. \A i \in 1 .. Len(queue[s]) - 1 : i + 1 \in 1 .. Len(queue[s])
        BY <3>0
      <4>2. \A i \in 1 .. Len(queue[s]) - 1 : Mine(s, queue[s][i + 1]) /\ Sent(queue[s][i + 1])
        BY <4>1, Zenon DEF DgInv, QueueIsMine
      <4>3. queue'[s] = Tail(queue[s])
        BY <1>1, Zenon
      <4>4. ASSUME NEW i \in 1 .. Len(queue'[s])
            PROVE  Mine(s, queue[s][i])' /\ Sent(queue[s][i])'
        <5>1. Mine(s, queue'[s][i]) /\ Sent(queue'[s][i])
          BY <2>1, <4>2, <4>3, Zenon
        <5> QED BY <1>1, <5>1, Zenon DEF Mine, Sent
      <4>5. Len(queue[s]) - 1 <= MaxQueue
        BY <3>0, <3>1
      <4> QED BY <2>1, <3>1, <4>3, <4>4, <4>5, Zenon DEF QueueIsMine
    <3>2. CASE t # s
      BY <1>1, <3>0, <3>2, Zenon DEF DgInv, QueueIsMine, Mine, Sent
    <3> QED
      BY <3>1, <3>2, Zenon
  <2> QED
    BY <1>1, <2>1, <2>2, Zenon
<1>7. CASE Len(m.data) > mtu
  <2>1. /\ taken' = [taken EXCEPT ![s] = NoMessage]
        /\ datagram' = IF reuse THEN [datagram EXCEPT ![s].payload = payload] ELSE datagram
    BY <1>1, <1>3, <1>7 DEF Recv, Received, Oversized
  <2> HIDE DEF payload
  <2>2. /\ datagram' \in [Sockets -> [source_address : Sources, payload : Seq(Chars)]]
        /\ \A t \in Sockets \ {s} : datagram'[t] = datagram[t]
    BY <1>1, <1>5, <2>1, Zenon
  <2>3. /\ taken' \in [Sockets -> Message \cup {NoMessage}]
        /\ taken'[s] = NoMessage
        /\ \A t \in Sockets \ {s} : taken'[t] = taken[t]
    BY <1>1, <2>1, Zenon
  <2>4. \A t \in Sockets : TakenIsReturned(t)'
    <3>1. TakenIsReturned(s)'
      BY <2>3, Zenon DEF TakenIsReturned
    <3>2. \A t \in Sockets \ {s} : TakenIsReturned(t)'
      BY <1>1, <2>2, <2>3, TakenStays, Zenon
    <3> QED BY <3>1, <3>2, Zenon
  <2> QED
    BY <1>0, <1>1, <1>6, <2>2, <2>3, <2>4, Zenon DEF DgInv, Shapes
<1>8. CASE Len(m.data) <= mtu
  <2> DEFINE new == [source_address |-> get_address(m.from),
                     payload |-> resize(payload, Len(m.data))]
  <2>1. taken' = [taken EXCEPT ![s] = m] /\ datagram' = [datagram EXCEPT ![s] = new]
    BY <1>1, <1>3, <1>8 DEF Recv, Received, Oversized, Accepted
  <2>2. new.payload = m.data /\ new.source_address = get_address(m.from)
    BY <1>1, <1>3, <1>4, <1>8, NothingLeft, Zenon
  <2>3. new \in [source_address : Sources, payload : Seq(Chars)]
    BY <1>3, <2>2, Zenon DEF Sources
  <2> HIDE DEF new, m
  <2>4. /\ datagram' \in [Sockets -> [source_address : Sources, payload : Seq(Chars)]]
        /\ datagram'[s] = new
        /\ \A t \in Sockets \ {s} : datagram'[t] = datagram[t]
    BY <1>1, <2>1, <2>3, Zenon
  <2>5. /\ taken' \in [Sockets -> Message \cup {NoMessage}]
        /\ taken'[s] = m
        /\ \A t \in Sockets \ {s} : taken'[t] = taken[t]
    BY <1>1, <1>2, <2>1, Zenon
  <2>6. TakenIsReturned(s)'
    <3>1. Mine(s, m) /\ Sent(m)
      BY <1>3, Zenon DEF m
    <3> QED BY <1>1, <2>2, <2>4, <2>5, <3>1, Zenon DEF TakenIsReturned, Mine, Sent
  <2>7. \A t \in Sockets \ {s} : TakenIsReturned(t)'
    BY <1>1, <2>4, <2>5, TakenStays, Zenon
  <2> QED
    BY <1>0, <1>1, <1>6, <2>4, <2>5, <2>6, <2>7, Zenon DEF DgInv, Shapes
<1>9. Len(m.data) \in Nat
  BY <1>3
<1> QED
  BY <1>1, <1>7, <1>8, <1>9

\* A recv that fails has resized the payload and changed nothing else.
LEMMA RecvFailsStep ==
  ASSUME DgInv, NEW s \in Sockets, NEW mtu \in Mtus, RecvFails(s, mtu)
  PROVE  DgInv'
<1> DEFINE payload == resize(datagram[s].payload, mtu)
<1>1. /\ datagram \in [Sockets -> [source_address : Sources, payload : Seq(Chars)]]
      /\ taken \in [Sockets -> Message \cup {NoMessage}]
      /\ mtu \in Nat
      /\ UNCHANGED <<local, peer, queue, wire>>
      /\ taken' = [taken EXCEPT ![s] = NoMessage]
      /\ datagram' = [datagram EXCEPT ![s].payload = payload]
  BY DatagramAssumptions, Zenon DEF DgInv, Shapes, RecvFails, kernelvars
<1>2. payload \in Seq(Chars)
  BY <1>1, ResizeType, Zenon
<1> HIDE DEF payload
<1>3. /\ datagram' \in [Sockets -> [source_address : Sources, payload : Seq(Chars)]]
      /\ \A t \in Sockets \ {s} : datagram'[t] = datagram[t]
  BY <1>1, <1>2, Zenon
<1>4. /\ taken' \in [Sockets -> Message \cup {NoMessage}]
      /\ taken'[s] = NoMessage
      /\ \A t \in Sockets \ {s} : taken'[t] = taken[t]
  BY <1>1, Zenon
<1>5. \A t \in Sockets : QueueIsMine(t)' /\ TakenIsReturned(t)'
  <2>1. \A t \in Sockets : QueueIsMine(t)'
    BY <1>1, Zenon DEF DgInv, QueueIsMine, Mine, Sent
  <2>2. \A t \in Sockets : TakenIsReturned(t)'
    BY <1>1, <1>3, <1>4, Zenon DEF DgInv, TakenIsReturned, Mine, Sent
  <2> QED BY <2>1, <2>2, Zenon
<1>6. NoClash' /\ \A x \in DOMAIN wire' : Sent(x)'
  BY <1>1, Zenon DEF DgInv, NoClash, Sent
<1> QED
  BY <1>1, <1>3, <1>4, <1>5, <1>6, Zenon DEF DgInv, Shapes

\* The invariant holds at first.
LEMMA DgInitial ==
  Init => DgInv
<1> SUFFICES ASSUME Init PROVE DgInv
  BY Zenon
<1>0. DOMAIN wire = {} /\ NoClash
  BY Zenon DEF Init, EmptyBag, SetToBag, NoClash
<1>1. Shapes
  <2>1. NewDatagram \in [source_address : Sources, payload : Seq(Chars)]
    BY DEF NewDatagram, Sources
  <2> QED
    BY <1>0, <2>1, DatagramAssumptions DEF Init, Shapes
<1>2. \A s \in Sockets : QueueIsMine(s) /\ TakenIsReturned(s)
  BY DEF Init, QueueIsMine, TakenIsReturned
<1> QED
  BY <1>0, <1>1, <1>2, Zenon DEF DgInv

\* Every step keeps it.
LEMMA DgStep ==
  ASSUME DgInv, [Next]_vars
  PROVE  DgInv'
<1>1. ASSUME NEW m \in BagToSet(wire), Arrive(m)
      PROVE  DgInv'
  BY <1>1, ArriveStep, Zenon
<1>2. ASSUME NEW s \in Sockets, NEW a \in Known(s), Bind(s, a)
      PROVE  DgInv'
  <2>1. PICK f \in Available(ip_port(a)) : local' = [local EXCEPT ![s] = f]
    BY <1>2, Zenon DEF Bind
  <2>2. f \in Locals /\ NameStep(s, f)
    BY <1>2, <2>1, Zenon DEF Bind, Available, NameStep
  <2> QED
    BY <1>2, <2>2, NameStepHolds, Zenon DEF Bind
<1>3. ASSUME NEW s \in Sockets, NEW a \in Known(s), Connect(s, a)
      PROVE  DgInv'
  <2>1. PICK name \in Named(s) : \E here \in Concrete(name) : local' = [local EXCEPT ![s] = here]
    BY <1>3, Zenon DEF Connect
  <2>2. PICK f \in Concrete(name) : local' = [local EXCEPT ![s] = f]
    BY <2>1, Zenon
  <2>3. PICK there \in Concrete(ip_port(a)) : peer' = [peer EXCEPT ![s] = there]
    BY <1>3, Zenon DEF Connect
  <2>4. there \in Endpoint
    BY <1>3, KnownEndpoint, NamesAreEndpoints, Zenon DEF Connect
  <2>5. peer'[s] # NoEndpoint
    BY <2>3, <2>4, DatagramAssumptions, Zenon DEF DgInv, Shapes
  <2>6. f \in Locals /\ f.port = name.port /\ Concrete(f) \subseteq Concrete(name)
    <3>1. name \in Locals
      BY NamedIsFree, Zenon
    <3>2. f \in Endpoints /\ f.port = name.port /\ Concrete(f) = {f}
      BY <3>1, ConcreteNames, Zenon
    <3> QED BY <3>2, NamesAreEndpoints, Zenon
  <2>7. \A t \in Sockets \ {s} : local[t] # NoEndpoint => Concrete(f) \cap Concrete(local[t]) = {}
    BY <2>6, NamedIsFree, Zenon
  <2>8. local[s] # NoEndpoint => f.port = local[s].port
    BY <2>6, NamedIsFree, Zenon
  <2>9. NameStep(s, f)
    BY <2>2, <2>3, <2>4, <2>5, <2>7, <2>8, Zenon DEF NameStep
  <2> QED
    BY <1>3, <2>6, <2>9, NameStepHolds, Zenon DEF Connect
<1>4. ASSUME NEW s \in Sockets, NEW a \in Known(s), NEW p \in Payloads, SendTo(s, a, p)
      PROVE  DgInv'
  BY <1>4, KnownEndpoint, SendStep, Zenon DEF SendTo
<1>5. ASSUME NEW s \in Sockets, NEW p \in Payloads, Send(s, p)
      PROVE  DgInv'
  <2>1. peer[s] \in Endpoint
    BY <1>5, Zenon DEF Send, DgInv, Shapes
  <2> QED
    BY <1>5, <2>1, SendStep, Zenon DEF Send
<1>6. ASSUME NEW s \in Sockets, NEW mtu \in Mtus, NEW reuse \in BOOLEAN, Recv(s, mtu, reuse)
      PROVE  DgInv'
  BY <1>6, RecvStep, Zenon
<1>7. ASSUME NEW s \in Sockets, NEW mtu \in Mtus, RecvFails(s, mtu)
      PROVE  DgInv'
  BY <1>7, RecvFailsStep, Zenon
<1>8. CASE UNCHANGED vars
  <2>1. UNCHANGED <<local, peer, queue, wire, datagram, taken>>
    BY <1>8, Zenon DEF vars, kernelvars
  <2>2. Shapes' /\ NoClash' /\ \A m \in DOMAIN wire' : Sent(m)'
    BY <2>1, Zenon DEF DgInv, Shapes, NoClash, Sent
  <2>3. \A s \in Sockets : QueueIsMine(s)' /\ TakenIsReturned(s)'
    <3>1. \A m \in Message : Sent(m) => Sent(m)'
      BY <2>1, Zenon DEF Sent
    <3>2. \A t \in Sockets, m \in Message : Mine(t, m) => Mine(t, m)'
      BY <2>1, Zenon DEF Mine
    <3> QED BY <2>1, <3>1, <3>2, QuietStep, Zenon
  <2> QED BY <2>2, <2>3, Zenon DEF DgInv
<1> QED
  BY <1>1, <1>2, <1>3, <1>4, <1>5, <1>6, <1>7, <1>8, Zenon DEF Next

\* The invariant holds whatever the network loses, copies and reorders.
THEOREM DgInvariant == Spec => []DgInv
<1> QED BY DgInitial, DgStep, PTL DEF Spec

\* What has been taken is a datagram of a socket to this one.
LEMMA TakenFrom ==
  ASSUME DgInv, NEW s \in Sockets, taken[s] # NoMessage
  PROVE  taken[s] \in Message /\ taken[s].from \in Endpoint /\ taken[s].to.port = local[s].port
         /\ datagram[s].payload = taken[s].data
         /\ datagram[s].source_address = get_address(taken[s].from)
<1>1. taken[s] \in Message /\ TakenIsReturned(s)
  BY Zenon DEF DgInv, Shapes
<1>2. taken[s].from \in Endpoint
  BY <1>1, NamesAreEndpoints, Zenon DEF Message
<1> QED BY <1>1, <1>2, Zenon DEF TakenIsReturned, Mine

\* The state keeps its shape: the addresses of sockets are those there are, and no
\* queue and no Address overflows.
THEOREM DgTypes == Spec => []DgTypeOK
<1>1. ASSUME DgInv PROVE DgTypeOK
  <2>1. ASSUME NEW s \in Sockets
        PROVE  /\ Len(queue[s]) <= MaxQueue
               /\ \A i \in DOMAIN queue[s] : queue[s][i].data \in Data
               /\ Fits(datagram[s].source_address.size)
               /\ Len(datagram[s].source_address.storage) = StorageSize
               /\ taken[s] \in Message \cup {NoMessage}
    <3>1. Len(queue[s]) <= MaxQueue /\ queue[s] \in Seq(Message) /\ datagram[s].source_address \in Sources
      BY <1>1, Zenon DEF DgInv, Shapes
    <3>2. ASSUME NEW i \in DOMAIN queue[s] PROVE queue[s][i].data \in Data
      <4>1. queue[s][i] \in Message
        BY <3>1
      <4> QED BY <4>1, Zenon DEF Message
    <3>3. ASSUME NEW a \in Sources PROVE Fits(a.size) /\ Len(a.storage) = StorageSize
      <4>1. CASE a = MakeAddress(<<>>, 0)
        <5> DEFINE e == <<>>
        <5>1. e \in Seq(Bytes) /\ Len(e) = 0 /\ a = MakeAddress(e, Len(e))
          BY <4>1
        <5>2. Fits(Len(e))
          BY <5>1, AddressNumbers DEF Fits
        <5> HIDE DEF e
        <5> QED BY <5>1, <5>2, StorageBytes, Zenon
      <4>2. CASE \E e \in Endpoint : a = get_address(e)
        BY <4>2, AddressBack, AddressNumbers, Zenon DEF Fits
      <4> QED BY <4>1, <4>2, Zenon DEF Sources, NewDatagram
    <3>4. taken[s] \in Message \cup {NoMessage}
      BY <1>1, TakenFrom, Zenon
    <3> QED BY <3>1, <3>2, <3>3, <3>4, Zenon
  <2> QED BY <1>1, <2>1, Zenon DEF DgTypeOK, DgInv, Shapes
<1>2. DgInv => DgTypeOK
  BY <1>1, Zenon
<1> QED BY <1>2, DgInvariant, PTL

\* Whatever the network loses, copies and reorders, and whatever earlier calls
\* have left in the object, recv returns one whole datagram that was sent to
\* the socket, with its sender.
THEOREM DgReturnedIsOneDatagram == Spec => []ReturnedIsOneDatagram
<1>1. DgInv => ReturnedIsOneDatagram
  BY TakenFrom, AddressBack, Zenon DEF ReturnedIsOneDatagram
<1> QED BY <1>1, DgInvariant, PTL

\* Comparing addresses tells senders apart, whichever way they were made: from
\* text, by a lookup, from a socket's own name or its peer, from an earlier
\* datagram, or from the numeric form.
THEOREM DgSenderRecognised == Spec => []SenderRecognised
<1>1. ASSUME DgInv, NEW s \in Sockets, taken[s] # NoMessage,
             NEW a \in Known(s) \cup {from_ipv4_numeric(ipv4_numeric(datagram[s].source_address))}
      PROVE  Equal(datagram[s].source_address, a) <=> IsIpv4(a) /\ ip_port(a) = taken[s].from
  <2> DEFINE e == taken[s].from
             source == datagram[s].source_address
             zero == [ip |-> e.ip, port |-> 0]
  <2>1. e \in Endpoint /\ source = get_address(e)
    BY <1>1, TakenFrom, Zenon
  <2> HIDE DEF e, source
  <2>2. ipv4_numeric(source) = e.ip
    <3>1. ip_port(source).ip = e.ip
      BY <2>1, AddressBack, Zenon
    <3> QED BY <3>1, Zenon DEF ip_port, ipv4_numeric
  <2>3. from_ipv4_numeric(e.ip) = get_address(zero)
    BY Zenon DEF from_ipv4_numeric, get_address
  <2>4. zero \in Endpoint
    <3>1. Power(Base, PortBytes) \in Nat /\ Power(Base, PortBytes) # 0
      BY AddressNumbers, PowerFacts, Zenon
    <3>2. 0 \in 0 .. Power(Base, PortBytes) - 1
      BY <3>1
    <3> QED BY <2>1, <3>2, Zenon DEF Endpoint
  <2> HIDE DEF zero
  <2>5. a = NewDatagram.source_address \/ \E x \in Endpoint : a = get_address(x)
    BY <1>1, <2>2, <2>3, <2>4, KnownAddress, Zenon DEF source, Sources
  <2>6. CASE a = NewDatagram.source_address
    BY <2>1, <2>6, NewIsNoAddress, Zenon DEF e, source
  <2>7. ASSUME NEW x \in Endpoint, a = get_address(x)
        PROVE  Equal(source, a) <=> IsIpv4(a) /\ ip_port(a) = e
    <3>1. IsIpv4(a) /\ ip_port(a) = x
      BY <2>7, AddressBack, Zenon
    <3>2. Equal(source, a) <=> e = x
      BY <2>1, <2>7, EqualMeansSame, Zenon
    <3> QED BY <3>1, <3>2, Zenon
  <2> QED BY <2>5, <2>6, <2>7, Zenon DEF e, source
<1>2. DgInv => SenderRecognised
  BY <1>1, Zenon DEF SenderRecognised
<1> QED BY <1>2, DgInvariant, PTL

\* An answer to the source address of a datagram goes to its sender alone, however
\* the sender got its name and whatever the other sockets did since.
THEOREM DgReplyReachesSender == Spec => []ReplyReachesSender
<1>1. ASSUME DgInv, NEW s \in Sockets, taken[s] # NoMessage, NEW t \in Sockets,
             peer[taken[s].by] = NoEndpoint, local[t] # NoEndpoint
      PROVE  ip_port(datagram[s].source_address) \in Concrete(local[t]) <=> t = taken[s].by
  <2> DEFINE m == taken[s]
  <2>1. m \in Message /\ m.by \in Sockets /\ ip_port(datagram[s].source_address) = m.from
    BY <1>1, TakenFrom, AddressBack, Zenon DEF Message
  <2>2. local[m.by] # NoEndpoint /\ m.from \in Concrete(local[m.by])
    BY <1>1, Zenon DEF DgInv, TakenIsReturned, Sent
  <2> HIDE DEF m
  <2>3. ASSUME t # m.by PROVE m.from \notin Concrete(local[t])
    <3>1. Concrete(local[m.by]) \cap Concrete(local[t]) = {}
      BY <1>1, <2>1, <2>2, <2>3, Zenon DEF DgInv, NoClash
    <3> QED BY <2>2, <3>1, Zenon
  <2>4. m.from \in Concrete(local[t]) <=> t = m.by
    BY <2>2, <2>3, Zenon
  <2> QED BY <2>1, <2>4, Zenon DEF m
<1>2. DgInv => ReplyReachesSender
  BY <1>1, Zenon DEF ReplyReachesSender
<1> QED BY <1>2, DgInvariant, PTL

-----------------------------------------------------------------------------
(***************************************************************************)
(* Queues are served in order.                                             *)
(***************************************************************************)

\* A step that leaves queues, datagrams and what was taken alone.
LEMMA StillQueues ==
  ASSUME UNCHANGED <<queue, datagram, taken>>, NEW s \in Sockets
  PROVE  QueueStep(s) /\ CallTakes(s)
BY Zenon DEF QueueStep, CallTakes

\* A datagram goes to the end of the queues of those who hear it.
LEMMA ArriveInOrder ==
  ASSUME NEW m \in BagToSet(wire), Arrive(m), NEW s \in Sockets
  PROVE  QueueStep(s) /\ CallTakes(s)
<1>1. datagram' = datagram /\ taken' = taken
  BY Zenon DEF Arrive
<1>2. queue'[s] = IF Hears(s, m) /\ Len(queue[s]) < MaxQueue THEN Append(queue[s], m) ELSE queue[s]
  BY Zenon DEF Arrive
<1>3. queue'[s] = queue[s] \/ (Hears(s, m) /\ queue'[s] = Append(queue[s], m))
  BY <1>2, Zenon
<1> QED BY <1>1, <1>3, Zenon DEF QueueStep, CallTakes

\* recv takes the head of the queue of its own socket.
LEMMA RecvInOrder ==
  ASSUME DgInv, NEW t \in Sockets, NEW mtu \in Mtus, NEW reuse \in BOOLEAN, Recv(t, mtu, reuse),
         NEW s \in Sockets
  PROVE  QueueStep(s) /\ CallTakes(s)
<1>1. /\ queue[t] # <<>> /\ queue' = [queue EXCEPT ![t] = Tail(queue[t])]
      /\ datagram \in [Sockets -> [source_address : Sources, payload : Seq(Chars)]]
      /\ taken \in [Sockets -> Message \cup {NoMessage}]
      /\ queue \in [Sockets -> Seq(Message)]
  BY Zenon DEF DgInv, Shapes, Recv
<1>2. \/ Len(Head(queue[t]).data) > mtu /\ taken' = [taken EXCEPT ![t] = NoMessage]
      \/ taken' = [taken EXCEPT ![t] = Head(queue[t])]
  BY Zenon DEF Recv, Received, Oversized
<1>3. CASE s = t
  <2>1. queue'[s] = Tail(queue[s])
    BY <1>1, <1>3, Zenon
  <2>2. \/ Len(Head(queue[s]).data) > mtu /\ taken'[s] = NoMessage
        \/ taken'[s] = Head(queue[s])
    BY <1>1, <1>2, <1>3, Zenon
  <2> QED BY <1>1, <1>3, <2>1, <2>2, Zenon DEF QueueStep, CallTakes
<1>4. CASE s # t
  <2>1. queue'[s] = queue[s]
    BY <1>1, <1>4, Zenon
  <2>2. taken'[s] = taken[s]
    BY <1>1, <1>2, <1>4, Zenon
  <2>3. datagram'[s] = datagram[s]
    <3>1. \/ datagram' = datagram
          \/ \E d : datagram' = [datagram EXCEPT ![t].payload = d]
          \/ \E d : datagram' = [datagram EXCEPT ![t] = d]
      BY Zenon DEF Recv
    <3> QED BY <1>1, <1>4, <3>1, Zenon
  <2> QED BY <2>1, <2>2, <2>3, Zenon DEF QueueStep, CallTakes
<1> QED BY <1>3, <1>4, Zenon

\* A recv that fails leaves the queues alone; it is one on an empty queue or on a
\* connected socket.
LEMMA RecvFailsInOrder ==
  ASSUME DgInv, NEW t \in Sockets, NEW mtu \in Mtus, RecvFails(t, mtu), NEW s \in Sockets
  PROVE  QueueStep(s) /\ CallTakes(s)
<1>1. /\ queue[t] = <<>> \/ peer[t] # NoEndpoint
      /\ queue' = queue
      /\ taken' = [taken EXCEPT ![t] = NoMessage]
      /\ datagram' = [datagram EXCEPT ![t].payload = resize(@, mtu)]
      /\ datagram \in [Sockets -> [source_address : Sources, payload : Seq(Chars)]]
      /\ taken \in [Sockets -> Message \cup {NoMessage}]
  BY Zenon DEF RecvFails, kernelvars, DgInv, Shapes
<1>2. CASE s = t
  BY <1>1, <1>2, Zenon DEF QueueStep, CallTakes
<1>3. CASE s # t
  <2>1. taken'[s] = taken[s] /\ datagram'[s] = datagram[s]
    BY <1>1, <1>3, Zenon
  <2> QED BY <1>1, <2>1, Zenon DEF QueueStep, CallTakes
<1> QED BY <1>2, <1>3, Zenon

\* Every step serves the queues in order.
LEMMA InOrderStep ==
  ASSUME DgInv, [Next]_vars, NEW s \in Sockets
  PROVE  QueueStep(s) /\ CallTakes(s)
<1>1. ASSUME NEW m \in BagToSet(wire), Arrive(m) PROVE QueueStep(s) /\ CallTakes(s)
  BY <1>1, ArriveInOrder, Zenon
<1>2. ASSUME NEW t \in Sockets, NEW a \in Known(t), Bind(t, a) \/ Connect(t, a)
      PROVE  QueueStep(s) /\ CallTakes(s)
  BY <1>2, StillQueues, Zenon DEF Bind, Connect
<1>3. ASSUME NEW t \in Sockets, NEW to, NEW p, sendmsg_helper(t, to, p)
      PROVE  QueueStep(s) /\ CallTakes(s)
  BY <1>3, StillQueues, Zenon DEF sendmsg_helper
<1>4. ASSUME NEW t \in Sockets, NEW a \in Known(t), NEW p \in Payloads, SendTo(t, a, p)
      PROVE  QueueStep(s) /\ CallTakes(s)
  BY <1>3, <1>4, Zenon DEF SendTo
<1>5. ASSUME NEW t \in Sockets, NEW p \in Payloads, Send(t, p)
      PROVE  QueueStep(s) /\ CallTakes(s)
  BY <1>3, <1>5, Zenon DEF Send
<1>6. ASSUME NEW t \in Sockets, NEW mtu \in Mtus, NEW reuse \in BOOLEAN, Recv(t, mtu, reuse)
      PROVE  QueueStep(s) /\ CallTakes(s)
  BY <1>6, RecvInOrder, Zenon
<1>7. ASSUME NEW t \in Sockets, NEW mtu \in Mtus, RecvFails(t, mtu)
      PROVE  QueueStep(s) /\ CallTakes(s)
  BY <1>7, RecvFailsInOrder, Zenon
<1>8. CASE UNCHANGED vars
  BY <1>8, StillQueues, Zenon DEF vars, kernelvars
<1> QED BY <1>1, <1>2, <1>4, <1>5, <1>6, <1>7, <1>8, Zenon DEF Next

\* Datagrams leave a queue in the order of their arrival, each by one call of recv that
\* returns it or says that it was too long; no call that finds one leaves it there.
THEOREM DgTakenInOrder == Spec => TakenInOrder
<1>1. DgInv /\ [Next]_vars => [\A s \in Sockets : QueueStep(s) /\ CallTakes(s)]_vars
  BY InOrderStep, Zenon
<1> QED BY <1>1, DgInvariant, PTL DEF Spec, TakenInOrder

=============================================================================
