----------------------------- MODULE SocketProofs -----------------------------
(***************************************************************************)
(* Proofs about Socket, for any number of objects, wrappers and descriptor *)
(* numbers.                                                                *)
(***************************************************************************)
EXTENDS Socket, FileDescriptorProofs

-----------------------------------------------------------------------------
(***************************************************************************)
(* Sockets are clients of FileDescriptor.                                  *)
(***************************************************************************)

\* Every step is a step of FileDescriptor or leaves the descriptors alone, if
\* an object under construction is an object.
LEMMA SockStepOfFD ==
  ASSUME building.stage # "none" => building.obj \in Handles, [SockNext]_sockvars
  PROVE  [FDNext]_fdvars
<1>1. ASSUME NEW h \in Handles, NEW w \in Wrappers, Construct(h, w)
      PROVE  FDNext
  BY <1>1, Zenon DEF FDNext
<1>2. ASSUME NEW h \in Handles, NEW g \in Handles, Duplicate(h, g) \/ Move(h, g)
      PROVE  FDNext
  BY <1>2, Zenon DEF FDNext
<1>3. ASSUME NEW h \in Handles, Destroy(h) \/ Close(h)
      PROVE  FDNext
  BY <1>3, Zenon DEF FDNext
<1>4. ASSUME NEW h \in Handles, NEW r \in 0 .. 1, NEW w \in 0 .. 1, Register(h, r, w)
      PROVE  FDNext
  BY <1>4, Zenon DEF FDNext
<1>5. CASE Foreign \/ Inherited
  BY <1>5, Zenon DEF Foreign, Inherited, FDNext
<1>6. ASSUME NEW h \in Handles, NEW w \in Wrappers, NEW k \in Obtainable, Obtain(h, w, k)
      PROVE  FDNext
  BY <1>1, <1>6 DEF Obtain
<1>7. ASSUME NEW h \in Handles, NEW w \in Wrappers, NEW c, NewSocket(h, w, c)
      PROVE  FDNext
  BY <1>1, <1>7 DEF NewSocket
<1>8. ASSUME NEW h \in Handles, NEW g \in Handles, NEW c, TakeOver(h, g, c)
      PROVE  FDNext
  BY <1>2, <1>8 DEF TakeOver
<1>9. CASE VerifySucceeds \/ TunAttaches \/ AcceptThrows
  BY <1>9 DEF VerifySucceeds, TunAttaches, AcceptThrows
<1>10. CASE VerifyThrows \/ TunThrows
  BY <1>3, <1>10 DEF VerifyThrows, TunThrows, Throw
<1>11. ASSUME NEW h \in Handles, NEW w \in Wrappers, TunOpen(h, w) \/ AcceptReturns(h, w)
       PROVE  FDNext
  BY <1>1, <1>11 DEF TunOpen, AcceptReturns
<1>12. ASSUME NEW h \in Handles, Accept(h)
       PROVE  FDNext
  BY <1>4, <1>12 DEF Accept
<1>13. ASSUME NEW h \in Handles, Listen(h) \/ Connect(h)
       PROVE  UNCHANGED fdvars
  BY <1>13 DEF Listen, Connect, SetState
<1>14. ASSUME NEW h \in Handles, SockDestroy(h) \/ SockClose(h)
       PROVE  FDNext
  BY <1>3, <1>14 DEF SockDestroy, SockClose
<1>15. ASSUME NEW h \in Handles, NEW r \in 0 .. 1, NEW w \in 0 .. 1,
              Shutdown(h, r, w) \/ Transfer(h, r, w)
       PROVE  FDNext
  BY <1>4, <1>15 DEF Shutdown, Transfer
<1>16. ASSUME NEW h \in Handles, NEW g \in Handles, SockDuplicate(h, g)
       PROVE  FDNext
  BY <1>2, <1>16 DEF SockDuplicate
<1>17. ASSUME NEW h \in Handles, NEW g \in Handles, NEW c, SockMove(h, g, c)
       PROVE  FDNext
  BY <1>2, <1>17 DEF SockMove
<1>18. CASE UNCHANGED sockvars
  BY <1>18 DEF sockvars
<1> QED
  BY <1>5, <1>6, <1>7, <1>8, <1>9, <1>10, <1>11, <1>12, <1>13, <1>14, <1>15, <1>16, <1>17, <1>18,
     Zenon DEF SockNext

-----------------------------------------------------------------------------
(***************************************************************************)
(* Type correctness.                                                       *)
(***************************************************************************)

\* The parts of SockTypeOK that are not FileDescriptor's.
ShapesOK ==
  /\ class \in [Handles -> Classes \cup {"none"}]
  /\ sock \in [FdNumbers -> KernelObject]
  /\ building \in Building

\* An object under construction holds its pointer, and has no class yet.
ConstructionOK ==
  /\ building.stage # "none" => internal_fd[building.obj] # NoWrapper
  /\ \A h \in Handles :
       class[h] = "none" <=> \/ internal_fd[h] = NoWrapper
                             \/ building.stage \in {"verify", "ioctl"} /\ building.obj = h

\* The type invariant in the parts the proofs treat apart.
LEMMA SockTypeParts == SockTypeOK <=> FDTypeOK /\ ShapesOK /\ ConstructionOK
BY DEF SockTypeOK, ShapesOK, ConstructionOK

\* What the constructors put into the kernel's table is a kernel object.
LEMMA KernelObjects ==
  /\ Nothing \in KernelObject
  /\ \A c : [kind |-> Expected(c), state |-> "idle"] \in KernelObject
  /\ \A k \in KernelObject : [kind |-> k.kind, state |-> "connected"] \in KernelObject
BY DEF Nothing, KernelObject, NotASocket, Kinds, Expected

\* A new descriptor is a kernel object.
LEMMA HandedType ==
  ASSUME sock \in [FdNumbers -> KernelObject], NEW k \in KernelObject, Handed(k)
  PROVE  sock' \in [FdNumbers -> KernelObject]
BY KernelObjects DEF Handed

\* A handle that is in use has a number.
LEMMA NumberOf ==
  ASSUME FDTypeOK, NEW h \in Handles, internal_fd[h] # NoWrapper
  PROVE  internal_fd[h] \in Wrappers /\ fd_num(h) \in FdNumbers
BY DEF FDTypeOK, FDWrapper, fd_num

\* Nothing under construction is a state of the construction.
LEMMA IdleType == Idle \in Building /\ Idle.stage = "none"
BY DEF Idle, Building

\* What is under construction is an object of a class.
LEMMA BuildingObject ==
  ASSUME building \in Building, building.stage # "none"
  PROVE  building.obj \in Handles /\ building.class \in Classes
BY DEF Building, Idle

\* Every step keeps the shapes.
LEMMA ShapesStep ==
  ASSUME SockTypeOK, [SockNext]_sockvars
  PROVE  ShapesOK'
<1> USE SockTypeParts
<1>0. /\ class \in [Handles -> Classes \cup {"none"}]
      /\ sock \in [FdNumbers -> KernelObject]
      /\ building \in Building
      /\ Nothing \in KernelObject
      /\ Idle \in Building
  BY KernelObjects, IdleType DEF ShapesOK
<1>1. ASSUME NEW h \in Handles, NEW w \in Wrappers, NEW k \in Obtainable, Obtain(h, w, k)
      PROVE  ShapesOK'
  <2>1. k \in KernelObject
    BY SockAssumptions
  <2> QED
    BY <1>0, <1>1, <2>1, HandedType DEF Obtain, ShapesOK, Classes
<1>2. ASSUME NEW h \in Handles, NEW w \in Wrappers, NEW c \in {"UDPSocket", "TCPSocket"},
             NewSocket(h, w, c)
      PROVE  ShapesOK'
  BY <1>0, <1>2, HandedType, KernelObjects DEF NewSocket, ShapesOK, Classes, SocketClasses
<1>3. ASSUME NEW h \in Handles, NEW g \in Handles, NEW c \in {"UDPSocket", "LocalStreamSocket"},
             TakeOver(h, g, c)
      PROVE  ShapesOK'
  <2>1. building' \in Building
    BY <1>3 DEF TakeOver, Building, Classes, SocketClasses
  <2> QED
    BY <1>0, <1>3, <2>1, HandedType DEF TakeOver, ShapesOK
<1>4. CASE VerifySucceeds
  <2>1. class' \in [Handles -> Classes \cup {"none"}]
    BY <1>0, <1>4, BuildingObject DEF VerifySucceeds
  <2> QED
    BY <1>0, <1>4, <2>1 DEF VerifySucceeds, ShapesOK
<1>5. CASE VerifyThrows \/ TunThrows
  BY <1>0, <1>5, HandedType DEF VerifyThrows, TunThrows, Throw, ShapesOK
<1>6. ASSUME NEW h \in Handles, NEW w \in Wrappers, TunOpen(h, w)
      PROVE  ShapesOK'
  <2>1. building' \in Building
    BY <1>6 DEF TunOpen, Building, Classes
  <2> QED
    BY <1>0, <1>6, <2>1, HandedType DEF TunOpen, ShapesOK
<1>7. CASE TunAttaches
  <2>1. building.obj \in Handles /\ internal_fd[building.obj] # NoWrapper
    BY <1>0, <1>7, BuildingObject DEF TunAttaches, ConstructionOK
  <2>2. fd_num(building.obj) \in FdNumbers
    BY <2>1, NumberOf
  <2>3. sock' \in [FdNumbers -> KernelObject]
    BY <1>0, <1>7, <2>2 DEF TunAttaches, KernelObject
  <2> QED
    BY <1>0, <1>7, <2>3, Zenon DEF TunAttaches, ShapesOK, Classes
<1>8. ASSUME NEW h \in Handles, Accept(h)
      PROVE  ShapesOK'
  <2>1. building' \in Building
    BY <1>8 DEF Accept, Building, Classes, SocketClasses
  <2> QED
    BY <1>0, <1>8, <2>1 DEF Accept, ShapesOK
<1>9. ASSUME NEW h \in Handles, NEW w \in Wrappers, AcceptReturns(h, w)
      PROVE  ShapesOK'
  <2>1. building.obj \in Handles /\ internal_fd[building.obj] # NoWrapper
    BY <1>0, <1>9, BuildingObject DEF AcceptReturns, ConstructionOK
  <2>2. Refers(building.obj) \in KernelObject
    BY <1>0, <2>1, NumberOf DEF Refers
  <2>3. sock' \in [FdNumbers -> KernelObject]
    BY <1>0, <1>9, <2>2, HandedType, KernelObjects DEF AcceptReturns
  <2>4. building' \in Building
    BY <1>9 DEF AcceptReturns, Building, Classes, SocketClasses
  <2> QED
    BY <1>0, <1>9, <2>3, <2>4 DEF AcceptReturns, ShapesOK
<1>10. CASE AcceptThrows
  BY <1>0, <1>10 DEF AcceptThrows, ShapesOK
<1>11. ASSUME NEW h \in Handles, Listen(h) \/ Connect(h)
       PROVE  ShapesOK'
  <2>1. PICK to \in {"listening", "connected"} :
               sock' = [sock EXCEPT ![fd_num(h)].state = to]
    BY <1>11 DEF Listen, Connect, SetState
  <2>2. fd_num(h) \in FdNumbers
    BY <1>11, NumberOf DEF Listen, Connect, SetState, Usable
  <2>3. sock' \in [FdNumbers -> KernelObject]
    BY <1>0, <2>1, <2>2 DEF KernelObject
  <2> QED
    BY <1>0, <1>11, <2>3 DEF Listen, Connect, SetState, ShapesOK
<1>12. ASSUME NEW h \in Handles, NEW r, NEW w, Shutdown(h, r, w) \/ Transfer(h, r, w)
       PROVE  ShapesOK'
  BY <1>0, <1>12 DEF Shutdown, Transfer, ShapesOK
<1>13. ASSUME NEW h \in Handles, NEW g \in Handles, SockDuplicate(h, g)
       PROVE  ShapesOK'
  BY <1>0, <1>13 DEF SockDuplicate, ShapesOK, Classes
<1>14. ASSUME NEW h \in Handles, NEW g \in Handles, NEW c \in Classes, SockMove(h, g, c)
       PROVE  ShapesOK'
  BY <1>0, <1>14, HandedType DEF SockMove, ShapesOK
<1>15. ASSUME NEW h \in Handles, SockDestroy(h) \/ SockClose(h)
       PROVE  ShapesOK'
  BY <1>0, <1>15, HandedType DEF SockDestroy, SockClose, ShapesOK
<1>16. CASE Inherited
  BY <1>0, <1>16 DEF Inherited, ShapesOK
<1>17. CASE Foreign
  BY <1>0, <1>17, HandedType, SockAssumptions DEF Foreign, ShapesOK
<1>18. CASE UNCHANGED sockvars
  BY <1>0, <1>18 DEF sockvars, ShapesOK
<1> QED
  BY <1>1, <1>2, <1>3, <1>4, <1>5, <1>6, <1>7, <1>8, <1>9, <1>10, <1>11, <1>12, <1>13, <1>14,
     <1>15, <1>16, <1>17, <1>18, Zenon DEF SockNext

\* Every step keeps pointers, classes and the object under construction in
\* agreement.
LEMMA ConstructionStep ==
  ASSUME SockTypeOK, [SockNext]_sockvars
  PROVE  ConstructionOK'
<1> USE SockTypeParts
<1>0. /\ class \in [Handles -> Classes \cup {"none"}]
      /\ building \in Building
      /\ internal_fd \in [Handles -> Wrappers \cup {NoWrapper}]
      /\ NoWrapper \notin Wrappers
      /\ "none" \notin Classes
      /\ Idle.stage = "none"
      /\ building.stage # "none" => building.obj \in Handles /\ building.class \in Classes
  BY FDAssumptions, IdleType, BuildingObject DEF ShapesOK, FDTypeOK, Classes, SocketClasses
<1>1. ASSUME NEW h \in Handles, NEW w \in Wrappers, NEW k \in Obtainable, Obtain(h, w, k)
      PROVE  ConstructionOK'
  <2>1. "FileDescriptor" # "none" /\ building = Idle
    BY <1>1 DEF Obtain
  <2> QED
    BY <1>0, <1>1, <2>1 DEF Obtain, Construct, ConstructionOK
<1>2. ASSUME NEW h \in Handles, NEW w \in Wrappers, NEW c \in {"UDPSocket", "TCPSocket"},
             NewSocket(h, w, c)
      PROVE  ConstructionOK'
  BY <1>0, <1>2 DEF NewSocket, Construct, ConstructionOK
<1>3. ASSUME NEW h \in Handles, NEW g \in Handles, NEW c \in {"UDPSocket", "LocalStreamSocket"},
             TakeOver(h, g, c)
      PROVE  ConstructionOK'
  BY <1>0, <1>3 DEF TakeOver, Move, ConstructionOK
<1>4. CASE VerifySucceeds
  BY <1>0, <1>4 DEF VerifySucceeds, fdvars, ConstructionOK
<1>5. CASE VerifyThrows \/ TunThrows
  BY <1>0, <1>5 DEF VerifyThrows, TunThrows, Throw, Destroy, ConstructionOK
<1>6. ASSUME NEW h \in Handles, NEW w \in Wrappers, TunOpen(h, w)
      PROVE  ConstructionOK'
  BY <1>0, <1>6 DEF TunOpen, Construct, ConstructionOK
<1>7. CASE TunAttaches
  BY <1>0, <1>7 DEF TunAttaches, fdvars, ConstructionOK
<1>8. ASSUME NEW h \in Handles, Accept(h)
      PROVE  ConstructionOK'
  BY <1>0, <1>8 DEF Accept, Register, Usable, ConstructionOK
<1>9. ASSUME NEW h \in Handles, NEW w \in Wrappers, AcceptReturns(h, w)
      PROVE  ConstructionOK'
  BY <1>0, <1>9 DEF AcceptReturns, Construct, ConstructionOK
<1>10. CASE AcceptThrows
  BY <1>0, <1>10 DEF AcceptThrows, fdvars, ConstructionOK
<1>11. ASSUME NEW h \in Handles, Listen(h) \/ Connect(h)
       PROVE  ConstructionOK'
  BY <1>0, <1>11 DEF Listen, Connect, SetState, fdvars, ConstructionOK
<1>12. ASSUME NEW h \in Handles, NEW r, NEW w, Shutdown(h, r, w) \/ Transfer(h, r, w)
       PROVE  ConstructionOK'
  BY <1>0, <1>12 DEF Shutdown, Transfer, Register, ConstructionOK
<1>13. ASSUME NEW h \in Handles, NEW g \in Handles, SockDuplicate(h, g)
       PROVE  ConstructionOK'
  BY <1>0, <1>13 DEF SockDuplicate, Duplicate, ConstructionOK
<1>14. ASSUME NEW h \in Handles, NEW g \in Handles, NEW c \in Classes, SockMove(h, g, c)
       PROVE  ConstructionOK'
  BY <1>0, <1>14 DEF SockMove, Move, ConstructionOK
<1>15. ASSUME NEW h \in Handles, SockDestroy(h) \/ SockClose(h)
       PROVE  ConstructionOK'
  BY <1>0, <1>15 DEF SockDestroy, SockClose, Destroy, Close, ConstructionOK
<1>16. CASE Inherited
  <2>1. UNCHANGED <<internal_fd, class, building>>
    BY <1>16, Zenon DEF Inherited, Read, Write, SetBlocking
  <2> QED
    BY <2>1 DEF ConstructionOK
<1>17. CASE Foreign
  BY <1>17 DEF Foreign, ForeignOpen, ForeignClose, ConstructionOK
<1>18. CASE UNCHANGED sockvars
  BY <1>18 DEF sockvars, fdvars, ConstructionOK
<1> QED
  BY <1>1, <1>2, <1>3, <1>4, <1>5, <1>6, <1>7, <1>8, <1>9, <1>10, <1>11, <1>12, <1>13, <1>14,
     <1>15, <1>16, <1>17, <1>18, Zenon DEF SockNext

\* Every step keeps the types.
LEMMA SockTypeStep == SockTypeOK /\ [SockNext]_sockvars => SockTypeOK'
<1> SUFFICES ASSUME SockTypeOK, [SockNext]_sockvars
             PROVE  SockTypeOK'
  OBVIOUS
<1>1. [FDNext]_fdvars
  BY SockStepOfFD, BuildingObject DEF SockTypeOK
<1>2. FDTypeOK'
  BY <1>1, TypeStep DEF SockTypeOK
<1>3. ShapesOK' /\ ConstructionOK'
  BY ShapesStep, ConstructionStep
<1> QED
  BY <1>2, <1>3 DEF SockTypeOK, ShapesOK, ConstructionOK

\* They hold at first.
LEMMA SockInitType == SockInit => SockTypeOK
<1> SUFFICES ASSUME SockInit
             PROVE  SockTypeOK
  OBVIOUS
<1>1. FDTypeOK
  BY DeadWrapperType DEF SockInit, FDInit, FDTypeOK
<1>2. ShapesOK
  BY KernelObjects, IdleType DEF SockInit, ShapesOK
<1>3. ConstructionOK
  BY IdleType DEF SockInit, FDInit, ConstructionOK
<1> QED
  BY <1>1, <1>2, <1>3, SockTypeParts

\* Type correctness: an object has a class exactly when its constructor is
\* over, through every take-over, accept and exception.
THEOREM SockTypeCorrect == SockSpec => []SockTypeOK
BY SockInitType, SockTypeStep, PTL DEF SockSpec

\* Sockets and their clients are a client of FileDescriptor: what is proved
\* about FDSpec holds of SockSpec.
THEOREM SockUsesFD == SockSpec => SocketUsesFileDescriptor
<1>1. SockInit => FDInit
  BY DEF SockInit
<1>2. SockTypeOK /\ [SockNext]_sockvars => [FDNext]_fdvars
  BY SockStepOfFD, BuildingObject DEF SockTypeOK
<1> QED
  BY <1>1, <1>2, SockTypeCorrect, PTL DEF SockSpec, SocketUsesFileDescriptor, FDSpec

-----------------------------------------------------------------------------
(***************************************************************************)
(* Classes and kinds, for careful clients.  The argument: while a wrapper  *)
(* is shared and not closed its number stays its own, so what the number   *)
(* refers to stays the same too; and it was right when the class was given.*)
(***************************************************************************)

\* With careful clients and a close(2) that reports no error, the descriptor
\* of a socket is its own until it is closed: accept, take-over and throwing
\* constructors included.
THEOREM SockOwnership ==
  ASSUME Careful
  PROVE  SockSpec => []LiveWrapperOwnsItsNumber
<1>1. FDSpec => []LiveWrapperOwnsItsNumber
  BY FDOwnership
<1> QED
  BY <1>1, SockUsesFD, PTL DEF SocketUsesFileDescriptor

\* No socket leaks its number: neither the ones that constructors throw away
\* nor those that accept() has just got, and whatever clients do.
THEOREM SockNoLeak == SockSpec => []NoLeakedDescriptor
BY FDNoLeak, SockUsesFD, PTL DEF SocketUsesFileDescriptor

\* With careful clients, sockets and their constructors leave the descriptors
\* of the rest of the process alone.
THEOREM SockForeignUntouched ==
  ASSUME Careful
  PROVE  SockSpec => ForeignDescriptorsUntouched
<1>1. FDSpec => ForeignDescriptorsUntouched
  BY FDForeignUntouched
<1> QED
  BY <1>1, SockUsesFD, PTL DEF SocketUsesFileDescriptor

\* A wrapper that stays shared keeps its number, and is never reopened.
LEMMA SharedWrapperKept ==
  ASSUME FDTypeOK, [FDNext]_fdvars,
         NEW x \in Handles, NEW y \in Handles, NEW v \in Wrappers,
         internal_fd[x] = v, internal_fd'[y] = v
  PROVE  /\ wrapper'[v].fd = wrapper[v].fd
         /\ wrapper[v].closed => wrapper'[v].closed
<1> DEFINE Goal == /\ wrapper'[v].fd = wrapper[v].fd
                   /\ wrapper[v].closed => wrapper'[v].closed
<1>0. /\ internal_fd \in [Handles -> Wrappers \cup {NoWrapper}]
      /\ wrapper \in [Wrappers -> FDWrapper]
      /\ NoWrapper \notin Wrappers
  BY FDAssumptions DEF FDTypeOK
<1>1. ASSUME NEW h \in Handles, NEW w \in Wrappers, Construct(h, w)
      PROVE  Goal
  BY <1>0, <1>1 DEF Construct, Alive
<1>2. ASSUME NEW h \in Handles, NEW g \in Handles, Duplicate(h, g)
      PROVE  Goal
  BY <1>2 DEF Duplicate
<1>3. ASSUME NEW h \in Handles, NEW g \in Handles, Move(h, g)
      PROVE  Goal
  <2>1. ~(internal_fd[g] = v /\ LastHandle(g))
    BY <1>0, <1>3 DEF Move, LastHandle
  <2> QED
    BY <1>0, <1>3, <2>1 DEF Move, Release
<1>4. ASSUME NEW h \in Handles, Destroy(h)
      PROVE  Goal
  <2>1. ~(internal_fd[h] = v /\ LastHandle(h))
    BY <1>0, <1>4 DEF Destroy, LastHandle
  <2> QED
    BY <1>0, <1>4, <2>1 DEF Destroy, Release
<1>5. ASSUME NEW h \in Handles, Close(h)
      PROVE  Goal
  <2>1. internal_fd[h] \in Wrappers
    BY <1>0, <1>5 DEF Close, Usable
  <2> DEFINE new == [wrapper[internal_fd[h]] EXCEPT !.eof = TRUE, !.closed = TRUE]
  <2>2. new.fd = wrapper[internal_fd[h]].fd /\ new.closed = TRUE
    BY <1>0, <2>1 DEF FDWrapper
  <2>3. wrapper' = [wrapper EXCEPT ![internal_fd[h]] = new] \/ wrapper' = wrapper
    BY <1>5 DEF Close
  <2> HIDE DEF new
  <2> QED
    BY <1>0, <2>1, <2>2, <2>3
<1>6. ASSUME NEW h \in Handles, NEW limit \in 0 .. MaxRead, NEW n \in 0 .. MaxRead,
             Read(h, limit, n)
      PROVE  Goal
  <2>1. internal_fd[h] \in Wrappers
    BY <1>0, <1>6 DEF Read, Usable
  <2> QED
    BY <1>0, <1>6, <2>1 DEF Read, FDWrapper
<1>7. ASSUME NEW h \in Handles, NEW k \in 1 .. MaxWritevs, Write(h, k)
      PROVE  Goal
  <2>1. internal_fd[h] \in Wrappers
    BY <1>0, <1>7 DEF Write, Usable
  <2> QED
    BY <1>0, <1>7, <2>1 DEF Write, FDWrapper
<1>8. ASSUME NEW h \in Handles, NEW r \in 0 .. 1, NEW w \in 0 .. 1, Register(h, r, w)
      PROVE  Goal
  <2>1. internal_fd[h] \in Wrappers
    BY <1>0, <1>8 DEF Register, Usable
  <2> QED
    BY <1>0, <1>8, <2>1 DEF Register, FDWrapper
<1>9. ASSUME NEW h \in Handles, NEW b \in BOOLEAN, SetBlocking(h, b)
      PROVE  Goal
  BY <1>9 DEF SetBlocking
<1>10. ASSUME NEW n \in FdNumbers, ForeignOpen(n) \/ ForeignClose(n)
       PROVE  Goal
  BY <1>10 DEF ForeignOpen, ForeignClose
<1>11. CASE UNCHANGED fdvars
  BY <1>11 DEF fdvars
<1>12. Goal
  BY <1>1, <1>2, <1>3, <1>4, <1>5, <1>6, <1>7, <1>8, <1>9, <1>10, <1>11, Zenon DEF FDNext
<1> QED
  BY <1>12

\* If v is shared before and after a step and open after it, what its number
\* refers to is still the same object.
LEMMA ObjectKept ==
  ASSUME FDTypeOK, [FDNext]_fdvars,
         LiveWrapperOwnsItsNumber, LiveWrapperOwnsItsNumber',
         NEW k, Handed(k),
         NEW x \in Handles, NEW y \in Handles, NEW v \in Wrappers,
         internal_fd[x] = v, internal_fd'[y] = v, ~wrapper'[v].closed
  PROVE  /\ ~wrapper[v].closed
         /\ wrapper'[v].fd = wrapper[v].fd
         /\ sock'[wrapper'[v].fd] = sock[wrapper[v].fd]
<1>1. /\ ~wrapper[v].closed
      /\ wrapper'[v].fd = wrapper[v].fd
  BY SharedWrapperKept
<1>2. table[wrapper[v].fd] = v
  BY <1>1 DEF LiveWrapperOwnsItsNumber, Alive
<1>3. table'[wrapper'[v].fd] = v
  BY DEF LiveWrapperOwnsItsNumber, Alive
<1>4. wrapper[v].fd \in FdNumbers
  BY DEF FDTypeOK, FDWrapper
<1> QED
  BY <1>1, <1>2, <1>3, <1>4 DEF Handed

\* What class c promises of the kernel object k.
Promise(c, k) ==
  /\ c \in SocketClasses => k.kind = Expected(c)
  /\ c = "TunTapFD" => k.state = "attached"

\* The object under construction: accept() runs on an open TCPSocket, and what
\* it hands to the constructor is open and of TCPSocket's kind.
BuildingOK ==
  /\ building.stage = "accept" =>
       class[building.obj] = "TCPSocket" /\ ~wrapper[internal_fd[building.obj]].closed
  /\ building.stage = "verify" =>
       /\ building.class \in SocketClasses
       /\ building.class = "TCPSocket" =>
            /\ ~wrapper[internal_fd[building.obj]].closed
            /\ Refers(building.obj).kind = Expected("TCPSocket")

\* The inductive invariant, next to SockTypeOK and LiveWrapperOwnsItsNumber.
KindInv == ClassIsKind /\ BuildingOK

\* ClassIsKind, handle by handle.
LEMMA PromiseForm ==
  ClassIsKind <=>
    \A h \in Handles : internal_fd[h] # NoWrapper /\ ~wrapper[internal_fd[h]].closed =>
      Promise(class[h], sock[wrapper[internal_fd[h]].fd])
BY DEF ClassIsKind, Promise, Refers, fd_num

\* Classes that promise nothing.
LEMMA NoPromise == \A k : Promise("FileDescriptor", k) /\ Promise("none", k)
BY DEF Promise, SocketClasses

\* A step that leaves the kernel's table alone hands nothing over.
LEMMA NothingHanded ==
  ASSUME sock \in [FdNumbers -> KernelObject], UNCHANGED <<table, sock>>
  PROVE  Handed(Nothing)
BY DEF Handed

\* An object that has the pointer and the class x had, or a class that promises
\* nothing, keeps the promise.
LEMMA PromiseKept ==
  ASSUME SockTypeOK, [FDNext]_fdvars, ClassIsKind,
         LiveWrapperOwnsItsNumber, LiveWrapperOwnsItsNumber',
         NEW k, Handed(k),
         NEW x \in Handles, NEW y \in Handles,
         internal_fd'[y] = internal_fd[x], internal_fd'[y] # NoWrapper,
         ~wrapper'[internal_fd'[y]].closed,
         class'[y] \in {class[x], "FileDescriptor", "none"}
  PROVE  Promise(class'[y], sock'[wrapper'[internal_fd'[y]].fd])
<1>1. FDTypeOK /\ internal_fd[x] \in Wrappers
  BY DEF SockTypeOK, FDTypeOK
<1>2. PICK v \in Wrappers : internal_fd[x] = v
  BY <1>1
<1>3. /\ ~wrapper[v].closed
      /\ sock'[wrapper'[v].fd] = sock[wrapper[v].fd]
  BY <1>1, <1>2, ObjectKept
<1>4. Promise(class[x], sock[wrapper[v].fd])
  BY <1>1, <1>2, <1>3, PromiseForm
<1> QED
  BY <1>2, <1>3, <1>4, NoPromise

\* Every step keeps classes and kinds in agreement.
LEMMA KindStep ==
  ASSUME Careful, SockTypeOK, KindInv, [SockNext]_sockvars,
         LiveWrapperOwnsItsNumber, LiveWrapperOwnsItsNumber'
  PROVE  ClassIsKind'
<1> SUFFICES ASSUME NEW y \in Handles, internal_fd'[y] # NoWrapper,
                    ~wrapper'[internal_fd'[y]].closed
             PROVE  Promise(class'[y], sock'[wrapper'[internal_fd'[y]].fd])
  BY DEF ClassIsKind, Promise, Refers, fd_num
<1> DEFINE Goal == Promise(class'[y], sock'[wrapper'[internal_fd'[y]].fd])
<1>a. /\ FDTypeOK /\ ClassIsKind /\ BuildingOK /\ ShapesOK /\ ConstructionOK
      /\ internal_fd \in [Handles -> Wrappers \cup {NoWrapper}]
      /\ wrapper \in [Wrappers -> FDWrapper]
      /\ table \in [FdNumbers -> Wrappers \cup {"free", "foreign"}]
      /\ class \in [Handles -> Classes \cup {"none"}]
      /\ sock \in [FdNumbers -> KernelObject]
      /\ building \in Building
      /\ NoWrapper \notin Wrappers
      /\ "free" \notin Wrappers
  BY SockTypeParts, FDAssumptions DEF KindInv, FDTypeOK, ShapesOK
<1>b. [FDNext]_fdvars
  BY <1>a, SockStepOfFD, BuildingObject
\* y has what x had before.
<1>c. ASSUME NEW k, Handed(k), NEW x \in Handles, internal_fd'[y] = internal_fd[x],
             class'[y] \in {class[x], "FileDescriptor", "none"}
      PROVE  Goal
  BY <1>a, <1>b, <1>c, PromiseKept
<1>d. ASSUME class'[y] \in {"FileDescriptor", "none"}
      PROVE  Goal
  BY <1>d, NoPromise
\* A step on which only classes may change, and y's does not.
<1>e. ASSUME UNCHANGED <<internal_fd, table, sock>>, class'[y] = class[y]
      PROVE  Goal
  BY <1>a, <1>c, <1>e, NothingHanded
<1> SUFFICES Goal
  OBVIOUS
<1> HIDE DEF Goal
<1>1. ASSUME NEW h \in Handles, NEW w \in Wrappers, NEW k \in Obtainable, Obtain(h, w, k)
      PROVE  Goal
  <2>1. CASE y = h
    BY <1>a, <1>1, <1>d, <2>1 DEF Obtain
  <2>2. CASE y # h
    <3>1. internal_fd'[y] = internal_fd[y] /\ class'[y] = class[y] /\ Handed(k)
      BY <1>a, <1>1, <2>2 DEF Obtain, Construct
    <3> QED
      BY <1>c, <3>1
  <2> QED
    BY <2>1, <2>2
<1>2. ASSUME NEW h \in Handles, NEW w \in Wrappers, NEW c \in {"UDPSocket", "TCPSocket"},
             NewSocket(h, w, c)
      PROVE  Goal
  <2> DEFINE k == [kind |-> Expected(c), state |-> "idle"]
  <2>0. Handed(k)
    BY <1>2 DEF NewSocket
  <2>1. CASE y = h
    <3>1. PICK n \in FdNumbers :
            /\ LowestFree(n)
            /\ table' = [table EXCEPT ![n] = w]
            /\ wrapper' = [wrapper EXCEPT ![w] = NewWrapper(n)]
            /\ internal_fd' = [internal_fd EXCEPT ![h] = w]
      BY <1>2, Zenon DEF NewSocket, Construct
    <3>2. wrapper'[internal_fd'[y]].fd = n
      BY <1>a, <2>1, <3>1 DEF NewWrapper
    <3>3. table'[n] # table[n] /\ table'[n] # "free"
      BY <1>a, <3>1 DEF LowestFree
    <3>4. sock'[n] = k
      BY <2>0, <3>3 DEF Handed
    <3>5. class'[y] = c
      BY <1>a, <1>2, <2>1 DEF NewSocket
    <3> QED
      BY <3>2, <3>4, <3>5 DEF Goal, Promise
  <2>2. CASE y # h
    <3>1. internal_fd'[y] = internal_fd[y] /\ class'[y] = class[y]
      BY <1>a, <1>2, <2>2 DEF NewSocket, Construct
    <3> HIDE DEF k
    <3> QED
      BY <1>c, <2>0, <3>1
  <2> QED
    BY <2>1, <2>2
<1>3. ASSUME NEW h \in Handles, NEW g \in Handles, NEW c \in {"UDPSocket", "LocalStreamSocket"},
             TakeOver(h, g, c)
      PROVE  Goal
  <2>1. class[g] = "none"
    BY <1>a, <1>3 DEF TakeOver, ConstructionOK
  <2>2. CASE y \in {g, h}
    BY <1>a, <1>3, <1>d, <2>1, <2>2 DEF TakeOver
  <2>3. CASE y \notin {g, h}
    <3>1. internal_fd'[y] = internal_fd[y] /\ class'[y] = class[y] /\ Handed(Nothing)
      BY <1>a, <1>3, <2>3 DEF TakeOver, Move
    <3> QED
      BY <1>c, <3>1
  <2> QED
    BY <2>2, <2>3
<1>4. CASE VerifySucceeds
  <2>0. /\ building.obj \in Handles
        /\ UNCHANGED <<internal_fd, wrapper, table, sock>>
    BY <1>a, <1>4, BuildingObject DEF VerifySucceeds, fdvars
  <2>1. CASE y = building.obj
    <3>1. class'[y] = building.class /\ building.class \in SocketClasses
      BY <1>a, <1>4, <2>0, <2>1 DEF VerifySucceeds, BuildingOK
    <3>2. /\ Refers(y).kind.domain = Expected(building.class).domain
          /\ Refers(y).kind.type = Expected(building.class).type
      BY <1>4, <2>1 DEF VerifySucceeds, Verifies
    <3>3. Refers(y) \in KernelObject
      BY <1>a, <2>0, NumberOf DEF Refers
    <3>4. Refers(y).kind = Expected(building.class)
      BY <3>2, <3>3 DEF KernelObject, Kinds, Expected
    <3>5. sock'[wrapper'[internal_fd'[y]].fd] = Refers(y)
      BY <2>0 DEF Refers, fd_num
    <3>6. building.class # "TunTapFD"
      BY <3>1 DEF SocketClasses
    <3> QED
      BY <3>1, <3>4, <3>5, <3>6 DEF Goal, Promise
  <2>2. CASE y # building.obj
    <3>1. class'[y] = class[y]
      BY <1>a, <1>4, <2>2 DEF VerifySucceeds
    <3> QED
      BY <1>e, <2>0, <3>1
  <2> QED
    BY <2>1, <2>2
<1>5. CASE VerifyThrows \/ TunThrows
  <2>1. Throw /\ building.obj \in Handles
    BY <1>a, <1>5, BuildingObject DEF VerifyThrows, TunThrows
  <2>2. internal_fd'[y] = internal_fd[y] /\ class'[y] = class[y] /\ Handed(Nothing)
    BY <1>a, <2>1 DEF Throw, Destroy
  <2> QED
    BY <1>c, <2>2
<1>6. ASSUME NEW h \in Handles, NEW w \in Wrappers, TunOpen(h, w)
      PROVE  Goal
  <2>1. CASE y = h
    BY <1>a, <1>6, <1>d, <2>1, Zenon DEF TunOpen, Construct, ConstructionOK
  <2>2. CASE y # h
    <3>1. internal_fd'[y] = internal_fd[y] /\ class'[y] = class[y] /\ Handed(Nothing)
      BY <1>a, <1>6, <2>2, Zenon DEF TunOpen, Construct
    <3> QED
      BY <1>c, <3>1
  <2> QED
    BY <2>1, <2>2
<1>7. CASE TunAttaches
  <2> DEFINE n == fd_num(building.obj)
  <2>0. /\ building.obj \in Handles
        /\ n \in FdNumbers
        /\ UNCHANGED <<internal_fd, wrapper>>
        /\ sock' = [sock EXCEPT ![n].state = "attached"]
        /\ class' = [class EXCEPT ![building.obj] = "TunTapFD"]
    BY <1>a, <1>7, BuildingObject, NumberOf DEF TunAttaches, fdvars, ConstructionOK
  <2>1. Promise(class[y], sock[fd_num(y)]) /\ fd_num(y) \in FdNumbers
    BY <1>a, <2>0, PromiseForm, NumberOf, Zenon DEF fd_num
  <2>2. /\ sock'[fd_num(y)].kind = sock[fd_num(y)].kind
        /\ sock'[fd_num(y)].state = IF fd_num(y) = n THEN "attached" ELSE sock[fd_num(y)].state
    <3> HIDE DEF n
    <3> QED
      BY <1>a, <2>0, <2>1 DEF KernelObject
  <2>3. wrapper'[internal_fd'[y]].fd = fd_num(y)
    BY <2>0 DEF fd_num
  <2>4. CASE y = building.obj
    <3>1. class'[y] = "TunTapFD" /\ sock'[fd_num(y)].state = "attached"
      BY <1>a, <2>0, <2>2, <2>4
    <3> QED
      BY <2>3, <3>1 DEF Goal, Promise, SocketClasses
  <2>5. CASE y # building.obj
    <3>1. class'[y] = class[y]
      BY <1>a, <2>0, <2>5
    <3> QED
      BY <2>1, <2>2, <2>3, <3>1 DEF Goal, Promise
  <2> QED
    BY <2>4, <2>5
<1>8. ASSUME NEW h \in Handles, Accept(h)
      PROVE  Goal
  BY <1>8, <1>e DEF Accept, Register
<1>9. ASSUME NEW h \in Handles, NEW w \in Wrappers, AcceptReturns(h, w)
      PROVE  Goal
  <2>1. CASE y = h
    BY <1>a, <1>9, <1>d, <2>1, Zenon DEF AcceptReturns, Construct, ConstructionOK
  <2>2. CASE y # h
    <3>1. internal_fd'[y] = internal_fd[y] /\ class'[y] = class[y]
      BY <1>a, <1>9, <2>2, Zenon DEF AcceptReturns, Construct
    <3>2. PICK k : Handed(k)
      BY <1>9 DEF AcceptReturns
    <3> QED
      BY <1>c, <3>1, <3>2
  <2> QED
    BY <2>1, <2>2
<1>10. CASE AcceptThrows
  BY <1>10, <1>e DEF AcceptThrows, fdvars
<1>11. ASSUME NEW h \in Handles, Listen(h) \/ Connect(h)
       PROVE  Goal
  <2>1. PICK to \in {"listening", "connected"} :
               sock' = [sock EXCEPT ![fd_num(h)].state = to]
    BY <1>11 DEF Listen, Connect, SetState
  <2>2. /\ fd_num(h) \in FdNumbers
        /\ sock[fd_num(h)].state # "attached"
        /\ UNCHANGED <<internal_fd, wrapper, class>>
    BY <1>a, <1>11, NumberOf DEF Listen, Connect, SetState, Usable, Refers, fdvars
  <2>3. Promise(class[y], sock[fd_num(y)]) /\ fd_num(y) \in FdNumbers
    BY <1>a, <2>2, PromiseForm, NumberOf DEF fd_num
  <2> DEFINE n == fd_num(h)
             m == fd_num(y)
  <2>4. /\ sock'[m].kind = sock[m].kind
        /\ m # n => sock'[m].state = sock[m].state
    <3>1. /\ sock' = [sock EXCEPT ![n].state = to]
          /\ m \in FdNumbers
          /\ n \in FdNumbers
      BY <2>1, <2>2, <2>3
    <3> HIDE DEF n, m
    <3> QED
      BY <1>a, <3>1 DEF KernelObject
  <2>5. sock[m].state = "attached" => m # n
    BY <2>2
  <2>6. Promise(class[y], sock'[m])
    BY <2>3, <2>4, <2>5 DEF Promise
  <2> QED
    BY <2>2, <2>6 DEF Goal, fd_num
<1>12. ASSUME NEW h \in Handles, NEW r, NEW w, Shutdown(h, r, w) \/ Transfer(h, r, w)
       PROVE  Goal
  BY <1>12, <1>e DEF Shutdown, Transfer, Register
<1>13. ASSUME NEW h \in Handles, NEW g \in Handles, SockDuplicate(h, g)
       PROVE  Goal
  <2>1. CASE y = g
    BY <1>a, <1>13, <1>d, <2>1 DEF SockDuplicate
  <2>2. CASE y # g
    <3>1. internal_fd'[y] = internal_fd[y] /\ class'[y] = class[y] /\ UNCHANGED <<table, sock>>
      BY <1>a, <1>13, <2>2 DEF SockDuplicate, Duplicate
    <3> QED
      BY <1>a, <1>c, <3>1, NothingHanded
  <2> QED
    BY <2>1, <2>2
<1>14. ASSUME NEW h \in Handles, NEW g \in Handles, NEW c \in Classes, SockMove(h, g, c)
       PROVE  Goal
  <2>1. /\ Handed(Nothing)
        /\ h # g
        /\ c \in {class[h], "FileDescriptor"}
        /\ internal_fd' = [internal_fd EXCEPT ![g] = internal_fd[h], ![h] = NoWrapper]
        /\ class' = [class EXCEPT ![g] = c, ![h] = "none"]
    BY <1>14 DEF SockMove, Move
  <2>2. CASE y = g
    <3>1. internal_fd'[y] = internal_fd[h] /\ class'[y] \in {class[h], "FileDescriptor"}
      BY <1>a, <2>1, <2>2
    <3> QED
      BY <1>c, <2>1, <3>1, Zenon
  <2>3. CASE y # g
    <3>1. internal_fd'[y] = internal_fd[y] /\ class'[y] = class[y]
      BY <1>a, <2>1, <2>3
    <3> QED
      BY <1>c, <2>1, <3>1, Zenon
  <2> QED
    BY <2>2, <2>3
<1>15. ASSUME NEW h \in Handles, SockDestroy(h) \/ SockClose(h)
       PROVE  Goal
  <2>1. /\ internal_fd'[y] = internal_fd[y]
        /\ class'[y] \in {class[y], "none"}
        /\ Handed(Nothing)
    BY <1>a, <1>15 DEF SockDestroy, SockClose, Destroy, Close
  <2> QED
    BY <1>c, <2>1
<1>16. CASE Inherited
  BY <1>16, <1>e, Zenon DEF Inherited, Read, Write, SetBlocking
<1>17. CASE Foreign
  <2>1. UNCHANGED <<internal_fd, class>> /\ \E k \in Obtainable : Handed(k)
    BY <1>17 DEF Foreign, ForeignOpen, ForeignClose
  <2> QED
    BY <1>c, <2>1
<1>18. CASE UNCHANGED sockvars
  BY <1>18, <1>e DEF sockvars, fdvars
<1> QED
  BY <1>1, <1>2, <1>3, <1>4, <1>5, <1>6, <1>7, <1>8, <1>9, <1>10, <1>11, <1>12, <1>13, <1>14,
     <1>15, <1>16, <1>17, <1>18, Zenon DEF SockNext

\* Every step keeps the object under construction as BuildingOK says.
LEMMA BuildingStep ==
  ASSUME Careful, SockTypeOK, KindInv, [SockNext]_sockvars,
         LiveWrapperOwnsItsNumber, LiveWrapperOwnsItsNumber'
  PROVE  BuildingOK'
<1>a. /\ FDTypeOK /\ ClassIsKind /\ BuildingOK /\ ShapesOK /\ ConstructionOK
      /\ internal_fd \in [Handles -> Wrappers \cup {NoWrapper}]
      /\ wrapper \in [Wrappers -> FDWrapper]
      /\ table \in [FdNumbers -> Wrappers \cup {"free", "foreign"}]
      /\ class \in [Handles -> Classes \cup {"none"}]
      /\ sock \in [FdNumbers -> KernelObject]
      /\ building \in Building
      /\ NoWrapper \notin Wrappers
      /\ "free" \notin Wrappers
  BY SockTypeParts, FDAssumptions DEF KindInv, FDTypeOK, ShapesOK
<1>b. [FDNext]_fdvars
  BY <1>a, SockStepOfFD, BuildingObject
\* A construction that is over, or that has nothing to do with TCPSocket.
<1>c. ASSUME \/ building' = Idle
             \/ building'.stage = "ioctl"
             \/ building'.stage = "verify" /\ building'.class \in SocketClasses \ {"TCPSocket"}
      PROVE  BuildingOK'
  BY <1>c, IdleType DEF BuildingOK
<1>1. ASSUME NEW h \in Handles, NEW g \in Handles, NEW c \in {"UDPSocket", "LocalStreamSocket"},
             TakeOver(h, g, c)
      PROVE  BuildingOK'
  BY <1>1, <1>c DEF TakeOver, SocketClasses
<1>2. ASSUME NEW h \in Handles, NEW w \in Wrappers, TunOpen(h, w)
      PROVE  BuildingOK'
  BY <1>2, <1>c DEF TunOpen
<1>3. ASSUME NEW h \in Handles, Accept(h)
      PROVE  BuildingOK'
  <2>1. /\ building' = [stage |-> "accept", obj |-> h, class |-> "TCPSocket"]
        /\ class'[h] = "TCPSocket"
        /\ internal_fd' = internal_fd
        /\ internal_fd[h] \in Wrappers
        /\ ~wrapper[internal_fd[h]].closed
    BY <1>a, <1>3 DEF Accept, Register, Usable, Careful
  <2>2. wrapper'[internal_fd[h]].closed = wrapper[internal_fd[h]].closed
    BY <1>a, <1>3, <2>1 DEF Accept, Register, FDWrapper
  <2> QED
    BY <2>1, <2>2 DEF BuildingOK
<1>4. ASSUME NEW g \in Handles, NEW w \in Wrappers, AcceptReturns(g, w)
      PROVE  BuildingOK'
  <2> DEFINE k == [kind |-> Refers(building.obj).kind, state |-> "connected"]
  <2>1. /\ class[building.obj] = "TCPSocket"
        /\ building.obj \in Handles
        /\ internal_fd[building.obj] # NoWrapper
        /\ ~wrapper[internal_fd[building.obj]].closed
    BY <1>a, <1>4, BuildingObject, Zenon DEF AcceptReturns, BuildingOK, ConstructionOK
  <2>2. k.kind = Expected("TCPSocket")
    BY <1>a, <2>1, Zenon DEF ClassIsKind, SocketClasses
  <2>3. Handed(k)
    BY <1>4 DEF AcceptReturns
  <2>4. PICK n \in FdNumbers :
          /\ LowestFree(n)
          /\ table' = [table EXCEPT ![n] = w]
          /\ wrapper' = [wrapper EXCEPT ![w] = NewWrapper(n)]
          /\ internal_fd' = [internal_fd EXCEPT ![g] = w]
    BY <1>4, Zenon DEF AcceptReturns, Construct
  <2>5. /\ wrapper'[internal_fd'[g]].fd = n
        /\ ~wrapper'[internal_fd'[g]].closed
    BY <1>a, <2>4, Zenon DEF NewWrapper
  <2>6. table'[n] # table[n] /\ table'[n] # "free"
    BY <1>a, <2>4 DEF LowestFree
  <2> HIDE DEF k
  <2>7. sock'[n] = k
    BY <2>3, <2>6 DEF Handed
  <2>8. building' = [stage |-> "verify", obj |-> g, class |-> "TCPSocket"]
    BY <1>4 DEF AcceptReturns
  <2> QED
    BY <2>2, <2>5, <2>7, <2>8 DEF BuildingOK, Refers, fd_num, SocketClasses
<1>5. CASE Foreign
  <2>1. UNCHANGED <<internal_fd, wrapper, class, building>> /\ \E k \in Obtainable : Handed(k)
    BY <1>5 DEF Foreign, ForeignOpen, ForeignClose
  <2>2. PICK k : Handed(k)
    BY <2>1
  <2>3. ASSUME building.stage = "verify", building.class = "TCPSocket"
        PROVE  sock'[fd_num(building.obj)] = sock[fd_num(building.obj)]
    <3>1. building.obj \in Handles /\ internal_fd[building.obj] \in Wrappers
      BY <1>a, <2>3, BuildingObject DEF ConstructionOK
    <3>2. PICK v \in Wrappers : internal_fd[building.obj] = v
      BY <3>1
    <3>3. ~wrapper'[v].closed /\ internal_fd'[building.obj] = v
      BY <1>a, <2>1, <2>3, <3>2, Zenon DEF BuildingOK
    <3>4. sock'[wrapper'[v].fd] = sock[wrapper[v].fd] /\ wrapper'[v].fd = wrapper[v].fd
      <4>1. FDTypeOK /\ building.obj \in Handles /\ internal_fd[building.obj] = v
        BY <1>a, <3>1, <3>2, Zenon
      <4> QED BY <1>b, <2>2, <3>3, <4>1, ObjectKept, Zenon
    <3> QED
      BY <3>2, <3>4, Zenon DEF fd_num
  <2> QED
    BY <1>a, <2>1, <2>3, Zenon DEF BuildingOK, Refers, fd_num
<1>6. CASE UNCHANGED sockvars
  BY <1>a, <1>6, Zenon DEF sockvars, fdvars, BuildingOK, Refers, fd_num
<1>7. CASE VerifySucceeds \/ VerifyThrows \/ TunAttaches \/ TunThrows \/ AcceptThrows \/ Inherited
  BY <1>7, <1>c
  DEF VerifySucceeds, VerifyThrows, TunAttaches, TunThrows, Throw, AcceptThrows, Inherited
<1>8. ASSUME NEW h \in Handles, NEW w \in Wrappers, NEW c, Obtain(h, w, c) \/ NewSocket(h, w, c)
      PROVE  BuildingOK'
  BY <1>8, <1>c, Zenon DEF Obtain, NewSocket
<1>9. ASSUME NEW h \in Handles, Listen(h) \/ Connect(h) \/ SockDestroy(h) \/ SockClose(h)
      PROVE  BuildingOK'
  BY <1>9, <1>c DEF Listen, Connect, SetState, SockDestroy, SockClose
<1>10. ASSUME NEW h \in Handles, NEW r, NEW w, Shutdown(h, r, w) \/ Transfer(h, r, w)
       PROVE  BuildingOK'
  BY <1>10, <1>c DEF Shutdown, Transfer
<1>11. ASSUME NEW h \in Handles, NEW g \in Handles, NEW c, SockMove(h, g, c)
       PROVE  BuildingOK'
  BY <1>11, <1>c DEF SockMove
<1>12. ASSUME NEW h \in Handles, NEW g \in Handles, SockDuplicate(h, g)
       PROVE  BuildingOK'
  BY <1>12, <1>c DEF SockDuplicate
<1> QED
  BY <1>1, <1>2, <1>3, <1>4, <1>5, <1>6, <1>7, <1>8, <1>9, <1>10, <1>11, <1>12, Zenon DEF SockNext

\* What classes promise is invariant when clients are careful.
LEMMA SockKindInv ==
  ASSUME Careful
  PROVE  SockSpec => []KindInv
<1>1. SockInit => KindInv
  BY IdleType DEF SockInit, FDInit, KindInv, ClassIsKind, BuildingOK
<1>2. SockTypeOK /\ KindInv /\ [SockNext]_sockvars
        /\ LiveWrapperOwnsItsNumber /\ LiveWrapperOwnsItsNumber' => KindInv'
  BY KindStep, BuildingStep DEF KindInv
<1>3. SockSpec => []LiveWrapperOwnsItsNumber
  BY SockOwnership
<1> QED
  BY <1>1, <1>2, <1>3, SockTypeCorrect, PTL DEF SockSpec

\* For careful clients, the class of an open object is the truth about the
\* kernel object behind its number, whatever is moved, shared or reused.
THEOREM SockClassIsKind ==
  ASSUME Careful
  PROVE  SockSpec => []ClassIsKind
<1>1. SockSpec => []KindInv
  BY SockKindInv
<1>2. KindInv => ClassIsKind
  BY DEF KindInv
<1> QED
  BY <1>1, <1>2, PTL

\* For careful clients, accept() never throws away a connection it has got:
\* the constructor's verification of the new number succeeds.
THEOREM SockAcceptKeepsConnection ==
  ASSUME Careful
  PROVE  SockSpec => []AcceptKeepsConnection
<1>1. SockSpec => []KindInv
  BY SockKindInv
<1>2. SockSpec => []LiveWrapperOwnsItsNumber
  BY SockOwnership
<1>3. SockTypeOK /\ KindInv /\ LiveWrapperOwnsItsNumber => AcceptKeepsConnection
  <2> SUFFICES ASSUME SockTypeOK, KindInv, LiveWrapperOwnsItsNumber,
                      building.stage = "verify", building.class = "TCPSocket"
               PROVE  Verifies(building.obj, "TCPSocket")
    BY DEF AcceptKeepsConnection
  <2>1. /\ building.obj \in Handles
        /\ internal_fd[building.obj] \in Wrappers
        /\ "free" \notin Wrappers
    BY BuildingObject, FDAssumptions DEF SockTypeOK, FDTypeOK
  <2>2. /\ ~wrapper[internal_fd[building.obj]].closed
        /\ Refers(building.obj).kind = Expected("TCPSocket")
    BY DEF KindInv, BuildingOK
  <2>3. Open(building.obj)
    BY <2>1, <2>2 DEF LiveWrapperOwnsItsNumber, Alive, Open, fd_num
  <2> QED
    BY <2>2, <2>3 DEF Verifies
<1> QED
  BY <1>1, <1>2, <1>3, SockTypeCorrect, PTL

\* For careful clients, a constructor that throws (verification of a taken-over
\* descriptor, ioctl of a tunnel device) takes nothing from any other object,
\* not even from one that shares the wrapper.
THEOREM SockThrowIsHarmless ==
  ASSUME Careful
  PROVE  SockSpec => ThrowIsHarmless
<1> DEFINE Thrown == building.stage \in {"verify", "ioctl"} /\ building' = Idle /\ class' = class
           Unharmed(h) ==
             /\ internal_fd'[h] = internal_fd[h]
             /\ internal_fd[h] # NoWrapper =>
                  /\ wrapper'[internal_fd[h]] = wrapper[internal_fd[h]]
                  /\ ~wrapper[internal_fd[h]].closed =>
                       table'[fd_num(h)] = table[fd_num(h)] /\ sock'[fd_num(h)] = sock[fd_num(h)]
           Harmless == Thrown => \A h \in Handles \ {building.obj} : Unharmed(h)
<1>1. SockTypeOK /\ LiveWrapperOwnsItsNumber /\ LiveWrapperOwnsItsNumber' /\ [SockNext]_sockvars
        => [Harmless]_sockvars
  <2> SUFFICES ASSUME SockTypeOK, LiveWrapperOwnsItsNumber, LiveWrapperOwnsItsNumber', SockNext,
                      Thrown, NEW h \in Handles \ {building.obj}
               PROVE  Unharmed(h)
    OBVIOUS
  <2>a. /\ FDTypeOK /\ ConstructionOK
        /\ internal_fd \in [Handles -> Wrappers \cup {NoWrapper}]
        /\ wrapper \in [Wrappers -> FDWrapper]
        /\ class \in [Handles -> Classes \cup {"none"}]
        /\ building.obj \in Handles
        /\ building.class \in Classes
        /\ building # Idle
        /\ "none" \notin Classes
        /\ NoWrapper \notin Wrappers
    BY SockTypeParts, BuildingObject, FDAssumptions, IdleType
    DEF FDTypeOK, ShapesOK, Classes, SocketClasses
  <2>b. [FDNext]_fdvars
    BY <2>a, SockStepOfFD
  <2>c. class[building.obj] = "none"
    BY <2>a DEF ConstructionOK
  <2>1. ~VerifySucceeds
    BY <2>a, <2>c DEF VerifySucceeds
  <2>2. ~TunAttaches
    BY <2>a, <2>c DEF TunAttaches, Classes
  <2>3. ~Foreign
    BY <2>a DEF Foreign
  <2>4. Throw
    BY <2>a, <2>1, <2>2, <2>3
    DEF SockNext, Obtain, NewSocket, TakeOver, VerifyThrows, TunOpen, TunThrows, Accept,
        AcceptReturns, AcceptThrows, Listen, Connect, SetState, Shutdown, Transfer,
        SockDuplicate, SockMove, SockDestroy, SockClose, Inherited
  <2>5. internal_fd' = [internal_fd EXCEPT ![building.obj] = NoWrapper]
    BY <2>4 DEF Throw, Destroy
  <2>6. internal_fd'[h] = internal_fd[h]
    BY <2>a, <2>5
  <2>7. ASSUME internal_fd[h] # NoWrapper
        PROVE  wrapper'[internal_fd[h]] = wrapper[internal_fd[h]]
    <3>1. ~(internal_fd[building.obj] = internal_fd[h] /\ LastHandle(building.obj))
      BY DEF LastHandle
    <3> QED
      BY <2>a, <2>4, <2>7, <3>1 DEF Throw, Destroy, Release
  <2>8. ASSUME internal_fd[h] # NoWrapper, ~wrapper[internal_fd[h]].closed
        PROVE  table'[fd_num(h)] = table[fd_num(h)] /\ sock'[fd_num(h)] = sock[fd_num(h)]
    <3>1. PICK v \in Wrappers : internal_fd[h] = v
      BY <2>a, <2>8
    <3>2. internal_fd'[h] = v /\ wrapper'[v] = wrapper[v] /\ fd_num(h) = wrapper[v].fd
      BY <2>6, <2>7, <2>8, <3>1 DEF fd_num
    <3>3. table[wrapper[v].fd] = v /\ table'[wrapper[v].fd] = v
      BY <2>8, <3>1, <3>2 DEF LiveWrapperOwnsItsNumber, Alive
    <3>4. Handed(Nothing)
      BY <2>4 DEF Throw
    <3>5. ~wrapper'[v].closed /\ FDTypeOK /\ h \in Handles
      BY <2>a, <2>8, <3>1, <3>2
    <3>6. sock'[wrapper'[v].fd] = sock[wrapper[v].fd]
      BY <2>b, <3>1, <3>2, <3>4, <3>5, ObjectKept
    <3> QED
      BY <3>2, <3>3, <3>6, Zenon
  <2> QED
    BY <2>6, <2>7, <2>8
<1>2. SockSpec => []LiveWrapperOwnsItsNumber
  BY SockOwnership
<1> QED
  BY <1>1, <1>2, SockTypeCorrect, PTL DEF SockSpec, ThrowIsHarmless

=============================================================================
