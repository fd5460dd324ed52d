------------------------------ MODULE WriteLoop ------------------------------
(***************************************************************************)
(* FileDescriptor::write (libsponge/util/file_descriptor.cc) over a        *)
(* BufferViewList (libsponge/util/buffer.{hh,cc}): a loop of writev(2)     *)
(* calls, each of which takes some of the bytes, none or fails.            *)
(*                                                                         *)
(* The views point into the heap of module Buffer and own nothing.  The    *)
(* program is single-threaded: the lists do not change during the call.    *)
(***************************************************************************)
EXTENDS Buffer

CONSTANT CountModulus   \* 2^32: _write_count is an unsigned

\* One call does not come round to the count it started from.
ASSUME WriteLoopAssumptions == CountModulus \in Nat /\ MaxLength + 1 < CountModulus

VARIABLES
  pc,                   \* "client", or "writev" inside the loop
  views,                \* the parameter `buffer'
  write_all,            \* the parameter `write_all'
  total_bytes_written,
  write_count,          \* what the call has added to _write_count
  outcome,              \* how the last call ended
  input,                \* history: the bytes the call was given
  output                \* kernel: the bytes taken during the call

loopvars == <<pc, views, write_all, total_bytes_written, write_count, outcome, input, output>>
vars == <<bufvars, loopvars>>

-----------------------------------------------------------------------------
(***************************************************************************)
(* BufferViewList.                                                         *)
(***************************************************************************)

\* A string_view: a block, the first byte in it and how many.
ViewOf(b) == [block |-> b.storage, first |-> b.starting_offset + 1, size |-> Len(str(b))]

\* The bytes of a view, as writev(2) sees them in its iovec.
ViewBytes(v) ==
  IF v.block = Null THEN <<>> ELSE SubSeq(heap[v.block], v.first, v.first + v.size - 1)

\* BufferViewList::as_iovecs.
as_iovecs(vs) == ConcatSeq([i \in DOMAIN vs |-> ViewBytes(vs[i])])

\* BufferViewList::size.
ViewsSize(vs) == SumSeq([i \in DOMAIN vs |-> vs[i].size])

\* Mutant: the bytes go from the wrong end.
ViewRemoveSuffix(v, n) == [v EXCEPT !.size = @ - n]

\* string_view::remove_prefix.
ViewRemovePrefix(v, n) == [v EXCEPT !.first = @ + n, !.size = @ - n]

\* One turn of the loop of BufferViewList::remove_prefix, as in BufferList.
ViewsTurn(r) ==
  IF r.n = 0 \/ r.vs = <<>>
    THEN r
    ELSE IF r.n < Head(r.vs).size
           THEN [vs |-> <<ViewRemovePrefix(Head(r.vs), r.n)>> \o Tail(r.vs), n |-> 0]
           ELSE [vs |-> Tail(r.vs), n |-> r.n - Head(r.vs).size]

\* BufferViewList::remove_prefix.
ViewsRemovePrefix(vs, n) ==
  LET loop[i \in 0 .. Len(vs)] ==
        IF i = 0 THEN [vs |-> vs, n |-> n] ELSE ViewsTurn(loop[i - 1])
  IN  loop[Len(vs)].vs

-----------------------------------------------------------------------------
WLInit ==
  /\ Init
  /\ pc = "client"
  /\ views = <<>>
  /\ write_all = FALSE
  /\ total_bytes_written = 0
  /\ write_count = 0
  /\ outcome = "none"
  /\ input = <<>>
  /\ output = <<>>

\* write(BufferViewList(list), all): the views are made.
Call(l, all) ==
  /\ pc = "client"
  /\ pc' = "writev"
  /\ views' = [i \in DOMAIN buffers[l] |-> ViewOf(buffers[l][i])]
  /\ write_all' = all
  /\ outcome' = "none"
  /\ input' = concatenate(buffers[l])
  /\ UNCHANGED <<bufvars, total_bytes_written, write_count, output>>

\* Mutant: the loop does not see that nothing is left.
AgainAnyway(rest) == write_all

\* Another turn of the loop, with `rest' bytes left.
Again(rest) == write_all /\ rest > 0

\* Mutant: the total is overwritten.
AddWritten(total, m) == m

\* total_bytes_written += bytes_written.
Add(total, m) == total + m

\* Mutant: the test is missing.
ZeroWriteUnnoticed(m, n) == FALSE

\* write returned 0 given non-empty input buffer.
ZeroWrite(m, n) == m = 0 /\ n > 0

\* writev(2) takes m bytes.
Writev(m) ==
  LET rest == ViewsRemovePrefix(views, m) IN
  /\ pc = "writev"
  /\ outcome = "none"
  /\ m <= ViewsSize(views)
  /\ output' = output \o SubSeq(as_iovecs(views), 1, m)
  /\ \/ /\ ZeroWrite(m, ViewsSize(views))
        /\ outcome' = "threw"
        /\ UNCHANGED <<views, total_bytes_written, write_count>>
     \/ /\ ~ZeroWrite(m, ViewsSize(views))
        /\ views' = rest
        /\ total_bytes_written' = Add(total_bytes_written, m)
        /\ write_count' = (write_count + 1) % CountModulus
        /\ outcome' = IF Again(ViewsSize(rest)) THEN "none" ELSE "returned"
  /\ UNCHANGED <<bufvars, pc, write_all, input>>

\* writev(2) fails (EAGAIN, EPIPE, EINVAL for too many iovecs): SystemCall
\* throws, and with it goes the count of what was written before.
WritevFails ==
  /\ pc = "writev"
  /\ outcome = "none"
  /\ outcome' = "threw"
  /\ UNCHANGED <<bufvars, pc, views, write_all, total_bytes_written, write_count, input, output>>

\* The call is left; its variables go.
Leave ==
  /\ pc = "writev"
  /\ outcome # "none"
  /\ pc' = "client"
  /\ views' = <<>>
  /\ write_all' = FALSE
  /\ total_bytes_written' = 0
  /\ write_count' = 0
  /\ input' = <<>>
  /\ outcome' = "none"
  /\ output' = <<>>
  /\ UNCHANGED bufvars

\* Clients prepare lists between two writes.
Prepare ==
  /\ pc = "client"
  /\ BufferNext
  /\ UNCHANGED loopvars

WLNext ==
  \/ \E l \in Lists, all \in BOOLEAN : Call(l, all)
  \/ \E m \in 0 .. MaxLength : Writev(m)
  \/ WritevFails
  \/ Leave
  \/ Prepare

WLSpec == WLInit /\ [][WLNext]_vars

\* A blocking writev(2) comes back in the end.
WLFairSpec ==
  WLSpec /\ WF_vars((\E m \in 0 .. MaxLength : Writev(m)) \/ WritevFails \/ Leave)

-----------------------------------------------------------------------------
(***************************************************************************)
(* Properties.                                                             *)
(***************************************************************************)

\* However writev(2) cuts the bytes up, what the kernel has taken followed by
\* what the views still show is what the call was given: nothing is lost,
\* repeated or reordered, also when views are empty or end inside a block.
NothingLostOrRepeated ==
  pc = "writev" => output \o as_iovecs(views) = input

\* When write() returns, the number it returns is the number of bytes taken,
\* with write_all these are all the bytes, and the descriptor has been counted
\* as written to, as EventLoop's busy-wait test relies on.
ReturnedIsWritten ==
  outcome = "returned" /\ pc = "writev" =>
    /\ total_bytes_written = Len(output)
    /\ write_all => output = input
    /\ write_count # 0

\* How the call stands, and what it returns.
CallStatus == IF pc = "client" THEN "idle" ELSE IF outcome = "none" THEN "writing" ELSE outcome
CallValue == IF outcome = "returned" THEN total_bytes_written ELSE 0

\* WriteContract, with what the views show for the bytes that are left.
Contract == INSTANCE WriteContract WITH
  Byte    <- UNION {Range(s) : s \in Strings},
  status  <- CallStatus,
  all     <- write_all,
  left    <- as_iovecs(views),
  taken   <- output,
  counted <- write_count,
  value   <- CallValue

\* The loop over the views does what write() promises of a plain string of
\* bytes, whatever the blocks are: it takes them from the front, returns when
\* it must and with the number taken, and no turn that goes on takes nothing.
KeepsContract == Contract!WCSpec

\* A call of write() ends, by returning or by throwing: each turn of its loop
\* but the last leaves bytes, and takes at least one.
WriteEnds == pc = "writev" ~> pc = "client"

=============================================================================
