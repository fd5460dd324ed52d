-------------------------------- MODULE Socket --------------------------------
(***************************************************************************)
(* Socket and its subclasses (libsponge/util/socket.{hh,cc}) and TunTapFD  *)
(* (libsponge/util/tun.{hh,cc}) over FileDescriptor: C++ objects with a    *)
(* class, which say what kind of kernel object their number refers to.     *)
(*                                                                         *)
(* A constructor with several steps is modelled step by step: `building'   *)
(* is the object under construction.  The base FileDescriptor is there     *)
(* first, so an exception in the body runs ~FileDescriptor.  The program   *)
(* is single-threaded: nothing but the rest of the process moves meanwhile.*)
(*                                                                         *)
(* A system call that fails before anything is assigned is a stuttering    *)
(* step.  The payloads of recv and send are the subject of Datagrams.      *)
(***************************************************************************)
EXTENDS FileDescriptor

CONSTANT
  Obtainable   \* what clients, and the rest of the process, may get from the
               \* kernel by calls of their own: files, devices, sockets

VARIABLES
  class,      \* the class of every object that holds a pointer
  sock,       \* kernel: what every number refers to
  building    \* the object under construction

sockvars == <<fdvars, class, sock, building>>

SocketClasses == {"UDPSocket", "TCPSocket", "LocalStreamSocket"}
Classes == SocketClasses \cup {"FileDescriptor", "TunTapFD"}

\* Domain and type of a kernel object; "none" for one that is not a socket.
Kinds ==
  [domain : {"AF_INET", "AF_UNIX"}, type : {"SOCK_DGRAM", "SOCK_STREAM"}]
    \cup [domain : {"none"}, type : {"none"}]

NotASocket == [domain |-> "none", type |-> "none"]

\* What a number refers to: its kind, and how far it has been set up.
KernelObject == [kind : Kinds, state : {"idle", "listening", "connected", "attached"}]

Nothing == [kind |-> NotASocket, state |-> "idle"]

\* The domain and type each subclass hands to Socket's constructors.
Expected(c) ==
  [domain |-> IF c = "LocalStreamSocket" THEN "AF_UNIX" ELSE "AF_INET",
   type   |-> IF c = "UDPSocket" THEN "SOCK_DGRAM" ELSE "SOCK_STREAM"]

\* No object is under construction.
Idle == [stage |-> "none", obj |-> NoWrapper, class |-> "none"]

\* stage: "accept" (accept(2) is being called on obj), "verify" (the body of
\* Socket(FileDescriptor &&, ...) runs for obj), "ioctl" (TunTapFD's does).
Building == {Idle} \cup [stage : {"accept", "verify", "ioctl"}, obj : Handles, class : Classes]

ASSUME SockAssumptions == Obtainable \subseteq KernelObject

SockInit ==
  /\ FDInit
  /\ class = [h \in Handles |-> "none"]
  /\ sock = [n \in FdNumbers |-> Nothing]
  /\ building = Idle

\* The number of h, and what it refers to.
fd_num(h) == wrapper[internal_fd[h]].fd
Refers(h) == sock[fd_num(h)]
Open(h) == table[fd_num(h)] # "free"

\* Numbers that change hands refer to nothing, or to the new object k.
Handed(k) ==
  sock' = [n \in FdNumbers |->
             IF table'[n] = table[n] THEN sock[n]
             ELSE IF table'[n] = "free" THEN Nothing ELSE k]

-----------------------------------------------------------------------------
(***************************************************************************)
(* Construction.                                                           *)
(***************************************************************************)

\* A client wraps a number it got from the kernel in a FileDescriptor.
Obtain(h, w, k) ==
  /\ building = Idle
  /\ Construct(h, w)
  /\ class' = [class EXCEPT ![h] = "FileDescriptor"]
  /\ Handed(k)
  /\ UNCHANGED building

\* Socket(domain, type), for UDPSocket() and TCPSocket().
NewSocket(h, w, c) ==
  /\ building = Idle
  /\ Construct(h, w)
  /\ class' = [class EXCEPT ![h] = c]
  /\ Handed([kind |-> Expected(c), state |-> "idle"])
  /\ UNCHANGED building

\* Socket(FileDescriptor &&, domain, type): the base takes h's pointer.  An
\* argument of class c itself is simply moved.
TakeOver(h, g, c) ==
  /\ building = Idle
  /\ Usable(h)
  /\ internal_fd[g] = NoWrapper
  /\ class[h] # c
  /\ Move(h, g)
  /\ class' = [class EXCEPT ![h] = "none"]
  /\ building' = [stage |-> "verify", obj |-> g, class |-> c]
  /\ Handed(Nothing)

\* Mutant: the type is not compared.
VerifiesDomain(g, c) == Open(g) /\ Refers(g).kind.domain = Expected(c).domain

\* Mutant: every subclass passes SOCK_DGRAM on.
VerifiesDatagram(g, c) ==
  /\ Open(g)
  /\ Refers(g).kind.domain = Expected(c).domain
  /\ Refers(g).kind.type = "SOCK_DGRAM"

\* SO_DOMAIN, then SO_TYPE: getsockopt(2) fails on what is not a socket.
Verifies(g, c) ==
  /\ Open(g)
  /\ Refers(g).kind.domain = Expected(c).domain
  /\ Refers(g).kind.type = Expected(c).type

\* Mutant: the new object starts without EOF, though it shares the wrapper.
VerifySucceedsAnew ==
  /\ building.stage = "verify"
  /\ Verifies(building.obj, building.class)
  /\ class' = [class EXCEPT ![building.obj] = building.class]
  /\ building' = Idle
  /\ wrapper' = [wrapper EXCEPT ![internal_fd[building.obj]].eof = FALSE]
  /\ UNCHANGED <<internal_fd, table, nonblock, sock>>

\* The object is complete.
VerifySucceeds ==
  /\ building.stage = "verify"
  /\ Verifies(building.obj, building.class)
  /\ class' = [class EXCEPT ![building.obj] = building.class]
  /\ building' = Idle
  /\ UNCHANGED <<fdvars, sock>>

\* Mutant: the descriptor is closed for every handle that shares it.
ThrowCloses ==
  /\ Close(building.obj)
  /\ building' = Idle
  /\ Handed(Nothing)
  /\ UNCHANGED class

\* Mutant: the object goes, the construction does not.
ThrowStays ==
  /\ Destroy(building.obj)
  /\ Handed(Nothing)
  /\ UNCHANGED <<class, building>>

\* A constructor's body throws: the base is destroyed, the object never was.
Throw ==
  /\ Destroy(building.obj)
  /\ building' = Idle
  /\ Handed(Nothing)
  /\ UNCHANGED class

VerifyThrows ==
  /\ building.stage = "verify"
  /\ ~Verifies(building.obj, building.class)
  /\ Throw

\* TunTapFD(devname, is_tun): open(2), then ioctl(TUNSETIFF).
TunOpen(h, w) ==
  /\ building = Idle
  /\ Construct(h, w)
  /\ building' = [stage |-> "ioctl", obj |-> h, class |-> "TunTapFD"]
  /\ Handed(Nothing)
  /\ UNCHANGED class

TunAttaches ==
  /\ building.stage = "ioctl"
  /\ Open(building.obj)
  /\ sock' = [sock EXCEPT ![fd_num(building.obj)].state = "attached"]
  /\ class' = [class EXCEPT ![building.obj] = "TunTapFD"]
  /\ building' = Idle
  /\ UNCHANGED fdvars

TunThrows == building.stage = "ioctl" /\ Throw

\* TCPSocket::accept: the read is counted first.
Accept(h) ==
  /\ building = Idle
  /\ class[h] = "TCPSocket"
  /\ Register(h, 1, 0)
  /\ building' = [stage |-> "accept", obj |-> h, class |-> "TCPSocket"]
  /\ UNCHANGED <<class, sock>>

\* accept(2) hands out a number of the listening socket's kind.  A temporary
\* FileDescriptor wraps it, and TCPSocket's constructor moves it into g.
AcceptReturns(g, w) ==
  /\ building.stage = "accept"
  /\ Open(building.obj)
  /\ Refers(building.obj).state = "listening"
  /\ Construct(g, w)
  /\ building' = [stage |-> "verify", obj |-> g, class |-> "TCPSocket"]
  /\ Handed([kind |-> Refers(building.obj).kind, state |-> "connected"])
  /\ UNCHANGED class

\* Not listening, no connection on a non-blocking socket, no number free.
AcceptThrows ==
  /\ building.stage = "accept"
  /\ building' = Idle
  /\ UNCHANGED <<fdvars, class, sock>>

-----------------------------------------------------------------------------
(***************************************************************************)
(* What the constructed object is used for.                                *)
(***************************************************************************)

\* The state of the kernel object is set through a socket.
SetState(h, from, to) ==
  /\ building = Idle
  /\ Usable(h)
  /\ Open(h)
  /\ Refers(h).state \in from
  /\ sock' = [sock EXCEPT ![fd_num(h)].state = to]
  /\ UNCHANGED <<fdvars, class, building>>

\* TCPSocket::listen.
Listen(h) == class[h] = "TCPSocket" /\ SetState(h, {"idle", "listening"}, "listening")

\* Socket::connect, whether connect(2) reports 0 or EINPROGRESS, for which
\* SystemCall throws while the kernel goes on connecting.
Connect(h) == class[h] \in SocketClasses /\ SetState(h, {"idle"}, "connected")

\* Calls that count r reads and w writes of a number they leave as it is.
\* Socket::shutdown, with SHUT_RD, SHUT_WR or SHUT_RDWR: (1, 0), (0, 1) or
\* (1, 1); an invalid `how' fails in shutdown(2).
Shutdown(h, r, w) ==
  /\ building = Idle
  /\ class[h] \in SocketClasses
  /\ r + w > 0
  /\ Open(h)
  /\ Refers(h).state = "connected"
  /\ Register(h, r, w)
  /\ UNCHANGED <<class, sock, building>>

\* UDPSocket::recv: (1, 0), sendto and send: (0, 1).
Transfer(h, r, w) ==
  /\ building = Idle
  /\ class[h] = "UDPSocket"
  /\ r + w = 1
  /\ Open(h)
  /\ Register(h, r, w)
  /\ UNCHANGED <<class, sock, building>>

\* duplicate() returns a FileDescriptor, whatever it is called on.
SockDuplicate(h, g) ==
  /\ building = Idle
  /\ Duplicate(h, g)
  /\ class' = [class EXCEPT ![g] = "FileDescriptor"]
  /\ UNCHANGED <<sock, building>>

\* A move makes an object of the same class, or of the base class, which is
\* also what it may be assigned to.
SockMove(h, g, c) ==
  /\ building = Idle
  /\ c \in {class[h], "FileDescriptor"}
  /\ internal_fd[g] # NoWrapper => class[g] = c
  /\ Move(h, g)
  /\ class' = [class EXCEPT ![g] = c, ![h] = "none"]
  /\ Handed(Nothing)
  /\ UNCHANGED building

SockDestroy(h) ==
  /\ building = Idle
  /\ Destroy(h)
  /\ class' = [class EXCEPT ![h] = "none"]
  /\ Handed(Nothing)
  /\ UNCHANGED building

SockClose(h) ==
  /\ building = Idle
  /\ Close(h)
  /\ Handed(Nothing)
  /\ UNCHANGED <<class, building>>

\* What is inherited from FileDescriptor and leaves the kernel's table alone.
Inherited ==
  /\ building = Idle
  /\ \/ \E h \in Handles, limit, n \in 0 .. MaxRead : Read(h, limit, n)
     \/ \E h \in Handles, k \in 1 .. MaxWritevs : Write(h, k)
     \/ \E h \in Handles, b \in BOOLEAN : SetBlocking(h, b)
  /\ UNCHANGED <<class, sock, building>>

\* The rest of the process, at any moment.
Foreign ==
  /\ \E n \in FdNumbers : ForeignOpen(n) \/ ForeignClose(n)
  /\ \E k \in Obtainable : Handed(k)
  /\ UNCHANGED <<class, building>>

SockNext ==
  \/ Foreign
  \/ \E h \in Handles, w \in Wrappers, k \in Obtainable : Obtain(h, w, k)
  \/ \E h \in Handles, w \in Wrappers, c \in {"UDPSocket", "TCPSocket"} : NewSocket(h, w, c)
  \/ \E h, g \in Handles, c \in {"UDPSocket", "LocalStreamSocket"} : TakeOver(h, g, c)
  \/ VerifySucceeds \/ VerifyThrows
  \/ \E h \in Handles, w \in Wrappers : TunOpen(h, w) \/ AcceptReturns(h, w)
  \/ TunAttaches \/ TunThrows \/ AcceptThrows
  \/ \E h \in Handles : Accept(h) \/ Listen(h) \/ Connect(h) \/ SockDestroy(h) \/ SockClose(h)
  \/ \E h \in Handles, r, w \in 0 .. 1 : Shutdown(h, r, w) \/ Transfer(h, r, w)
  \/ \E h, g \in Handles : SockDuplicate(h, g)
  \/ \E h, g \in Handles, c \in Classes : SockMove(h, g, c)
  \/ Inherited

SockSpec == SockInit /\ [][SockNext]_sockvars

-----------------------------------------------------------------------------
(***************************************************************************)
(* Properties.                                                             *)
(***************************************************************************)

\* The shapes of the state; an object has a class exactly when it holds a
\* pointer and its constructor is over.
SockTypeOK ==
  /\ FDTypeOK
  /\ class \in [Handles -> Classes \cup {"none"}]
  /\ sock \in [FdNumbers -> KernelObject]
  /\ building \in Building
  /\ building.stage # "none" => internal_fd[building.obj] # NoWrapper
  /\ \A h \in Handles :
       class[h] = "none" <=> \/ internal_fd[h] = NoWrapper
                             \/ building.stage \in {"verify", "ioctl"} /\ building.obj = h

\* A class is a promise about the kernel object: as long as the number has not
\* been closed through some handle, a UDPSocket is on an Internet datagram
\* socket, a TCPSocket and a LocalStreamSocket on a stream socket of their
\* domain, and a TunTapFD on an attached device, however descriptors were
\* duplicated, moved, taken over and reused.
ClassIsKind ==
  \A h \in Handles : internal_fd[h] # NoWrapper /\ ~wrapper[internal_fd[h]].closed =>
    /\ class[h] \in SocketClasses => Refers(h).kind = Expected(class[h])
    /\ class[h] = "TunTapFD" => Refers(h).state = "attached"

\* accept() does not lose a connection it has got: what the verifying
\* constructor finds on the new number is what a TCPSocket expects.
AcceptKeepsConnection ==
  building.stage = "verify" /\ building.class = "TCPSocket" =>
    Verifies(building.obj, building.class)

\* A constructor that throws has no effect on anyone else: the other objects
\* keep their pointers and classes, their wrappers are as they were and their
\* numbers are still theirs, even when they share the wrapper of the argument.
ThrowIsHarmless ==
  [][building.stage \in {"verify", "ioctl"} /\ building' = Idle /\ class' = class =>
       \A h \in Handles \ {building.obj} :
         /\ internal_fd'[h] = internal_fd[h]
         /\ internal_fd[h] # NoWrapper =>
              /\ wrapper'[internal_fd[h]] = wrapper[internal_fd[h]]
              /\ ~wrapper[internal_fd[h]].closed =>
                   table'[fd_num(h)] = table[fd_num(h)] /\ sock'[fd_num(h)] = sock[fd_num(h)]]_sockvars

\* Sockets treat their descriptors as any client of FileDescriptor does.
SocketUsesFileDescriptor == FDSpec

=============================================================================
