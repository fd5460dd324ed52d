---------------------------- MODULE FileDescriptor ----------------------------
(***************************************************************************)
(* FileDescriptor (libsponge/util/file_descriptor.{hh,cc}): reference-     *)
(* counted handles on kernel descriptors.  A FileDescriptor object holds   *)
(* one shared_ptr, _internal_fd, to an FDWrapper; duplicate() copies the   *)
(* pointer, so the wrapper's state (number, eof, closed, counters) is      *)
(* shared by all the handles, and the wrapper's destructor closes the      *)
(* number when the last handle goes.                                       *)
(*                                                                         *)
(* The kernel is reduced to what the code relies on: a table that says     *)
(* whose each descriptor number is, handing out the lowest free one, as    *)
(* open(2), socket(2) and accept(2) do.  The rest of the process opens and *)
(* closes descriptors of its own ("foreign" ones), so that a number can be *)
(* reused between two steps of this code.                                  *)
(*                                                                         *)
(* A call whose system call fails throws before it assigns anything, and   *)
(* is then a stuttering step, except where an action below says otherwise. *)
(***************************************************************************)
EXTENDS Integers, FiniteSets

CONSTANTS
  Handles,       \* FileDescriptor objects
  Wrappers,      \* FDWrapper objects
  NoWrapper,     \* the null shared_ptr
  FdNumbers,     \* descriptor numbers of the process
  CountModulus,  \* 2^32: _read_count and _write_count are `unsigned`
  MaxRead,       \* bound on the limit of a read
  MaxWritevs,    \* bound on the writev calls made by one write()
  CloseMayFail,  \* close(2) may report an error (EIO, EINTR)
  UseAfterClose  \* clients may go on using a descriptor they closed

ASSUME FDAssumptions ==
  /\ NoWrapper \notin Wrappers
  /\ {"free", "foreign"} \cap Wrappers = {}
  /\ FdNumbers \subseteq Nat
  /\ FdNumbers # {}
  /\ CountModulus \in Nat \ {0}
  /\ MaxRead \in Nat
  /\ MaxWritevs \in Nat
  /\ CloseMayFail \in BOOLEAN
  /\ UseAfterClose \in BOOLEAN

VARIABLES
  internal_fd,   \* the _internal_fd of every FileDescriptor object
  wrapper,       \* the members of every FDWrapper object
  table,         \* kernel: the owner of every descriptor number
  nonblock       \* kernel: O_NONBLOCK of every open number

fdvars == <<internal_fd, wrapper, table, nonblock>>

FDWrapper ==
  [fd          : FdNumbers,
   eof         : BOOLEAN,
   closed      : BOOLEAN,
   read_count  : 0 .. CountModulus - 1,
   write_count : 0 .. CountModulus - 1]

\* A freshly constructed FDWrapper on number n.
NewWrapper(n) ==
  [fd |-> n, eof |-> FALSE, closed |-> FALSE, read_count |-> 0, write_count |-> 0]

\* The memory of a wrapper that is not alive; its members mean nothing.
DeadWrapper == NewWrapper(CHOOSE n \in FdNumbers : TRUE)

Alive(w) == \E h \in Handles : internal_fd[h] = w

\* h is the only FileDescriptor that shares its FDWrapper: use_count() == 1.
LastHandle(h) == \A g \in Handles \ {h} : internal_fd[g] # internal_fd[h]

\* h points at a wrapper, and the client is entitled to use it.
Usable(h) ==
  /\ internal_fd[h] # NoWrapper
  /\ UseAfterClose \/ ~wrapper[internal_fd[h]].closed

LowestFree(n) ==
  /\ table[n] = "free"
  /\ \A m \in FdNumbers : table[m] = "free" => n <= m

FDInit ==
  /\ internal_fd = [h \in Handles |-> NoWrapper]
  /\ wrapper = [w \in Wrappers |-> DeadWrapper]
  /\ table = [n \in FdNumbers |-> "free"]
  /\ nonblock = [n \in FdNumbers |-> FALSE]

-----------------------------------------------------------------------------
(***************************************************************************)
(* Construction and destruction of FileDescriptor objects.                 *)
(***************************************************************************)

\* FileDescriptor(fd): a number just obtained from the kernel gets a wrapper.
\* A negative number never gets here: SystemCall has thrown.
Construct(h, w) ==
  /\ internal_fd[h] = NoWrapper
  /\ ~Alive(w)
  /\ \E n \in FdNumbers :
       /\ LowestFree(n)
       /\ table' = [table EXCEPT ![n] = w]
       /\ nonblock' = [nonblock EXCEPT ![n] = FALSE]
       /\ wrapper' = [wrapper EXCEPT ![w] = NewWrapper(n)]
  /\ internal_fd' = [internal_fd EXCEPT ![h] = w]

\* FileDescriptor::duplicate: g is constructed from h's pointer.
Duplicate(h, g) ==
  /\ internal_fd[h] # NoWrapper
  /\ internal_fd[g] = NoWrapper
  /\ internal_fd' = [internal_fd EXCEPT ![g] = internal_fd[h]]
  /\ UNCHANGED <<wrapper, table, nonblock>>

\* Mutant: every handle closes the number, as if the wrapper were not shared.
ReleaseUnshared(h) ==
  LET w == internal_fd[h] IN
  IF w # NoWrapper
    THEN /\ wrapper' = [wrapper EXCEPT ![w] = IF LastHandle(h) THEN DeadWrapper ELSE @]
         /\ table' = IF wrapper[w].closed
                       THEN table
                       ELSE [table EXCEPT ![wrapper[w].fd] = "free"]
    ELSE UNCHANGED <<wrapper, table>>

\* Mutant: ~FDWrapper does not look at _closed.
ReleaseClosesAgain(h) ==
  LET w == internal_fd[h] IN
  IF w # NoWrapper /\ LastHandle(h)
    THEN /\ wrapper' = [wrapper EXCEPT ![w] = DeadWrapper]
         /\ table' = [table EXCEPT ![wrapper[w].fd] = "free"]
    ELSE UNCHANGED <<wrapper, table>>

\* h lets go of its pointer.  The last handle runs ~FDWrapper, which closes
\* the number unless close() has succeeded before.  An exception of that
\* close is swallowed, and the number is free whatever close(2) reported.
Release(h) ==
  LET w == internal_fd[h] IN
  IF w # NoWrapper /\ LastHandle(h)
    THEN /\ wrapper' = [wrapper EXCEPT ![w] = DeadWrapper]
         /\ table' = IF wrapper[w].closed
                       THEN table
                       ELSE [table EXCEPT ![wrapper[w].fd] = "free"]
    ELSE UNCHANGED <<wrapper, table>>

\* ~FileDescriptor.
Destroy(h) ==
  /\ internal_fd[h] # NoWrapper
  /\ Release(h)
  /\ internal_fd' = [internal_fd EXCEPT ![h] = NoWrapper]
  /\ UNCHANGED nonblock

\* Mutant: the pointer that g held is overwritten, not released.
MoveOverwrites(h, g) ==
  /\ h # g
  /\ internal_fd[h] # NoWrapper
  /\ internal_fd' = [internal_fd EXCEPT ![g] = internal_fd[h], ![h] = NoWrapper]
  /\ UNCHANGED <<wrapper, table, nonblock>>

\* Move construction or move assignment of h into g.
Move(h, g) ==
  /\ h # g
  /\ internal_fd[h] # NoWrapper
  /\ Release(g)
  /\ internal_fd' = [internal_fd EXCEPT ![g] = internal_fd[h], ![h] = NoWrapper]
  /\ UNCHANGED nonblock

-----------------------------------------------------------------------------
(***************************************************************************)
(* System calls through a handle.  On a number that is not open they fail  *)
(* with EBADF, SystemCall throws and nothing is assigned.                  *)
(***************************************************************************)

\* FDWrapper::close.  close(2) gives the number up even when it reports an
\* error, but then SystemCall throws before the flags are set.
Close(h) ==
  LET w == internal_fd[h] IN
  /\ Usable(h)
  /\ table[wrapper[w].fd] # "free"
  /\ table' = [table EXCEPT ![wrapper[w].fd] = "free"]
  /\ \/ wrapper' = [wrapper EXCEPT ![w] = [@ EXCEPT !.eof = TRUE, !.closed = TRUE]]
     \/ CloseMayFail /\ UNCHANGED wrapper
  /\ UNCHANGED <<internal_fd, nonblock>>

\* Mutant: EOF is what the last read saw.
ReadForgetsEof(h, limit, n) ==
  LET w == internal_fd[h] IN
  /\ Usable(h)
  /\ table[wrapper[w].fd] # "free"
  /\ n <= limit
  /\ wrapper' = [wrapper EXCEPT ![w] =
                   [wrapper[w] EXCEPT !.eof = (limit > 0 /\ n = 0),
                                      !.read_count = (@ + 1) % CountModulus]]
  /\ UNCHANGED <<internal_fd, table, nonblock>>

\* FileDescriptor::read with a limit, of which read(2) delivers n bytes.
Read(h, limit, n) ==
  LET w == internal_fd[h] IN
  /\ Usable(h)
  /\ table[wrapper[w].fd] # "free"
  /\ n <= limit
  /\ wrapper' = [wrapper EXCEPT ![w] =
                   [wrapper[w] EXCEPT !.eof = @ \/ (limit > 0 /\ n = 0),
                                      !.read_count = (@ + 1) % CountModulus]]
  /\ UNCHANGED <<internal_fd, table, nonblock>>

\* Mutant: the counter does not wrap.
WriteNoWrap(h, k) ==
  LET w == internal_fd[h] IN
  /\ Usable(h)
  /\ table[wrapper[w].fd] # "free"
  /\ wrapper' = [wrapper EXCEPT ![w].write_count = @ + k]
  /\ UNCHANGED <<internal_fd, table, nonblock>>

\* FileDescriptor::write, seen from the wrapper: k successful writev calls,
\* each one counted (the last one may have been followed by one that threw).
Write(h, k) ==
  LET w == internal_fd[h] IN
  /\ Usable(h)
  /\ table[wrapper[w].fd] # "free"
  /\ wrapper' = [wrapper EXCEPT ![w] =
                   [wrapper[w] EXCEPT !.write_count = (@ + k) % CountModulus]]
  /\ UNCHANGED <<internal_fd, table, nonblock>>

\* register_read and register_write, which subclasses call after system calls
\* of their own: r reads and w writes are counted.  Unlike read(), they do not
\* look for EOF.
Register(h, r, w) ==
  LET v == internal_fd[h] IN
  /\ Usable(h)
  /\ wrapper' = [wrapper EXCEPT ![v] =
                   [wrapper[v] EXCEPT !.read_count = (@ + r) % CountModulus,
                                      !.write_count = (@ + w) % CountModulus]]
  /\ UNCHANGED <<internal_fd, table, nonblock>>

\* FileDescriptor::set_blocking: only O_NONBLOCK changes.
SetBlocking(h, blocking_state) ==
  LET n == wrapper[internal_fd[h]].fd IN
  /\ Usable(h)
  /\ table[n] # "free"
  /\ nonblock' = [nonblock EXCEPT ![n] = ~blocking_state]
  /\ UNCHANGED <<internal_fd, wrapper, table>>

-----------------------------------------------------------------------------
(***************************************************************************)
(* The rest of the process.                                                *)
(***************************************************************************)

ForeignOpen(n) ==
  /\ LowestFree(n)
  /\ table' = [table EXCEPT ![n] = "foreign"]
  /\ nonblock' = [nonblock EXCEPT ![n] = FALSE]
  /\ UNCHANGED <<internal_fd, wrapper>>

ForeignClose(n) ==
  /\ table[n] = "foreign"
  /\ table' = [table EXCEPT ![n] = "free"]
  /\ UNCHANGED <<internal_fd, wrapper, nonblock>>

FDNext ==
  \/ \E h \in Handles, w \in Wrappers : Construct(h, w)
  \/ \E h, g \in Handles : Duplicate(h, g) \/ Move(h, g)
  \/ \E h \in Handles : Destroy(h) \/ Close(h)
  \/ \E h \in Handles, limit, n \in 0 .. MaxRead : Read(h, limit, n)
  \/ \E h \in Handles, k \in 1 .. MaxWritevs : Write(h, k)
  \/ \E h \in Handles, r, w \in 0 .. 1 : Register(h, r, w)
  \/ \E h \in Handles, b \in BOOLEAN : SetBlocking(h, b)
  \/ \E n \in FdNumbers : ForeignOpen(n) \/ ForeignClose(n)

FDSpec == FDInit /\ [][FDNext]_fdvars

-----------------------------------------------------------------------------
(***************************************************************************)
(* Properties.                                                             *)
(***************************************************************************)

\* The shapes of the state.
FDTypeOK ==
  /\ internal_fd \in [Handles -> Wrappers \cup {NoWrapper}]
  /\ wrapper \in [Wrappers -> FDWrapper]
  /\ table \in [FdNumbers -> Wrappers \cup {"free", "foreign"}]
  /\ nonblock \in [FdNumbers -> BOOLEAN]

\* _closed tells the truth: a wrapper that some handle still shares and that
\* is not marked closed owns its number, so no other handle, no destructor
\* and no reuse of numbers has taken the descriptor away under it.
LiveWrapperOwnsItsNumber ==
  \A w \in Wrappers : Alive(w) /\ ~wrapper[w].closed => table[wrapper[w].fd] = w

\* Nothing leaks: a number the kernel still holds for a wrapper belongs to a
\* wrapper that some handle can still close or destroy, whatever sequence of
\* duplications, moves, closes and destructions led here.
NoLeakedDescriptor ==
  \A n \in FdNumbers : table[n] \in Wrappers =>
    /\ Alive(table[n])
    /\ wrapper[table[n]].fd = n
    /\ ~wrapper[table[n]].closed

\* A descriptor of the rest of the process is closed or reconfigured by the
\* rest of the process only: no close, destructor or set_blocking of this
\* code reaches a number that has been reused in the meantime.
ForeignDescriptorsUntouched ==
  [][\A n \in FdNumbers : table[n] = "foreign" =>
       \/ table'[n] = "foreign" /\ nonblock'[n] = nonblock[n]
       \/ ForeignClose(n)]_fdvars

=============================================================================
