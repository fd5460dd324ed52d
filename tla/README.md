# Sponge in TLA+

A formal model of the support library of Sponge (`libsponge/util`): what its
classes do, checked with TLC on small instances. Every safety property that
holds in those runs is also proved with TLAPS for every instance; liveness is
left to TLC, though the measures and the orders it rests on are proved. Paths
below are relative to the repository, and `PROJECT.json` maps every definition to
the lines it models.

## The system and its parts

| part | source | module | status |
|---|---|---|---|
| `FileDescriptor`: shared handles on kernel descriptors | `util/file_descriptor.{cc,hh}` | `FileDescriptor`, `WriteLoop`, `WriteContract` | modelled |
| `EventLoop`: rules, poll(2), callbacks | `util/eventloop.{cc,hh}` | `EventLoop` | modelled |
| `Buffer`, `BufferList`: shared strings with offsets | `util/buffer.{cc,hh}` | `Buffer`, `ByteStrings`, `Loops` | modelled |
| `BufferViewList`: views handed to writev(2) | `util/buffer.{cc,hh}` | `WriteLoop` | modelled |
| `NetParser`, `NetUnparser` | `util/parser.{cc,hh}` | `Parser`, `Loops` | modelled |
| `InternetChecksum` | `util/util.{cc,hh}` | `Checksum` | modelled |
| `SystemCall` | `util/util.{cc,hh}` | inside the others | partly |
| `Socket` and its subclasses | `util/socket.{cc,hh}` | `Socket`, `Datagrams`, and as services in `EventLoop` | partly: all but `setsockopt` and `set_reuseaddr` |
| `TunTapFD`, `TunFD`, `TapFD` | `util/tun.{cc,hh}` | `Socket` | modelled |
| `Address` | `util/address.{cc,hh}` | `Address` | modelled; resolver external |
| random numbers, clock, hexdump | `util/util.{cc,hh}` | | not modelled: no state of their own |
| `ByteStream`, `StreamReassembler`, `webget` | `libsponge/`, `apps/` | | not modelled: placeholders without behaviour |
| TCP, IP, network interface | only `tests/` | | not modelled: the code is not in the repository |

How they interact: an `EventLoop` holds a list of rules, each with a duplicate
of a client's `FileDescriptor`. `wait_next_event` reads the flags and counters
that the client's reads, writes and closes leave in the shared wrapper.
`FileDescriptor::write` sends the bytes of a `BufferViewList`, which points
into `Buffer`s. Parsers take bytes off a `Buffer`. Sockets and TUN devices are
`FileDescriptor`s that make a promise about their number and count their own
reads and writes; datagram sockets send `BufferViewList`s and return an
`Address` with what they receive.

The program is single-threaded. What makes it hard is control that passes
through client code in the middle of a function (`callback()`, `cancel()`),
state shared by handles that do not know of each other, descriptor numbers that
the kernel hands out again, and system calls that do part of what was asked.
The hazards are listed in `PROJECT.json`, each with the properties that cover it.

## Modules

**FileDescriptor.** `internal_fd[h]` is the shared pointer of handle `h`,
`wrapper[w]` the members of an `FDWrapper`, `table` the kernel's view of who
owns each number and `nonblock` its O_NONBLOCK flag. One action per operation:
`Construct`, `Duplicate`, `Move`, `Destroy`, `Close`, `Read`, `Write`,
`SetBlocking`, and `Register` for the counting that subclasses do. `Release` is
what happens to a wrapper when a handle lets go: the last one runs `~FDWrapper`.
`ForeignOpen` and `ForeignClose` are the rest of the process, which reuses numbers
between our steps. A system call that fails throws
before anything is assigned, so it is a stuttering step; the exception is
close(2), which on Linux gives the number up even when it reports an error
(`CloseMayFail`).

**Socket** extends FileDescriptor with the `class` of every object and with what
the kernel has behind every number (`sock`). Constructors with several steps
run step by step (`building`): the one that takes over a descriptor moves first
and verifies afterwards (`TakeOver`, then `VerifySucceeds` or `VerifyThrows`),
`TunTapFD` opens and then configures (`TunOpen`, `TunAttaches`, `TunThrows`), and
`accept()` counts, calls accept(2), wraps and verifies (`Accept`,
`AcceptReturns`, `AcceptThrows`, then the verification). In between only the rest
of the process moves. Every step is checked, and proved, to be one of
FileDescriptor's.

**Address** has the bytes of a sockaddr, the conversions and the comparison;
**Datagrams** uses them for `bind`, `connect`, `local_address`, `sendto`, `send` and
`recv` over a network that is a bag: datagrams are copied, overtake each other
and may stay there for ever. All sockets are on one machine with the addresses
`Hosts`. A socket may be named by an address and a port or, when it was bound to
a port only or sends unbound, by a port on 0.0.0.0; such a name stands for an
endpoint on every host (`Concrete`), bind(2) refuses a name that overlaps
another's (`Available`), and a datagram always comes from a concrete endpoint.
Clients use the addresses they have at hand (`Known`): written in the program,
looked up, asked of a socket, or found in a datagram. `datagram[s]` is the object
that the owner of socket `s` hands to `recv` again and again, with what earlier
calls have left in it; `taken`, and the field `by` of a datagram, are history.

**EventLoop** extends FileDescriptor; rules are handles. `wait_next_event` is
cut where client code runs, and inside its loops, one action per branch: the
first loop (`SetupCancel`, `SetupPollfd`, `SetupExit`, `SetupDone`), poll(2)
(`Poll`, `PollFails`), the second loop (`ScanError`, `ScanCancel`,
`ScanCallback`, `ScanSkip`, `ScanDone`), and the returns from client code
(`SetupCancelReturn`, `ScanCancelReturn`, `CallbackReturn`, `ClientThrows`). `pc`
says where control is. Whenever it is in client code the `Client...` actions,
`SetInterest` and `AddRule` are enabled, so every sequence of them is explored
inside every callback. `ClientServes` and `ClientServiceThrows` are the socket
calls: those that return, and those that throw an exception the client catches,
some of which have been counted by then (`accept`, `write`) and some not (`recv`
of an oversized datagram). `pollfds[idx]` past the end of the vector is any value.
`served`, `cancelled`, `services` and the `rule` field of a pollfd are history.

**Buffer** keeps the shared strings on an explicit `heap`, so that sharing and
freeing can be stated; **ByteStrings** is what a list promises, and Buffer is
checked to implement it under the mapping `strings[l] <- concatenate(buffers[l])`,
operation by operation.
**WriteLoop** extends Buffer with views and the writev loop of `write()`, every
turn of which takes any number of bytes or fails. Clients prepare lists with
Buffer's operations between the calls, so one run checks both.
**WriteContract** is what `write()` promises to a caller that knows nothing of
views: bytes go from the front, never none while there are any, and the call
returns the number taken, or throws. WriteLoop implements it under the mapping
`left <- as_iovecs(views)`. FileDescriptor sees the same call as `Write(h, k)`; its
k is the contract's `counted`.

**Parser** has a writer, a string cut anywhere on the way, and a reader. The
reader asks for fields, skips them and calls `set_error` in any order, also after
an error and with any `ParseResult`: as in the code, nothing keeps it from setting
`PacketTooShort` or going back to `NoError`. `arrived`, the number of bytes that
were left by the cut, is history.
**Checksum** adds bytes in chunks of any length and is compared with a direct
definition of the one's complement sum (`OnesComplement(ExactSum(data))`).

**Loops** has what the code computes in loops over a sequence (a sum of sizes, a
concatenation, a shift by whole bytes), as recursive functions of the number of
turns. Loops that change something on every turn (`RemoveTurn`, `ViewsTurn`,
`add_byte`) are an operator for one turn, applied as often as the code does.

The proofs are in modules of their own: `FileDescriptorProofs`, `SocketProofs`,
`EventLoopProofs`, `DatagramProofs`, `BufferProofs` (Buffer and WriteLoop),
`ParserProofs` and `ChecksumProofs`, with `Induction` below the last four.

The definitions marked "Mutant" are plausible mistakes. Each one, put in the
place of the definition it varies, makes TLC find the property that
`PROJECT.json` names violated: that property depends on that line of code.

## Runs

| run | instance | checks |
|---|---|---|
| `fd_lifecycle` | Socket: 3 objects, 2 wrappers, 2 numbers; careful clients | nobody loses, leaks or steals a descriptor; a class says what its number is; a constructor that throws harms nobody; `accept()` keeps its connection |
| `el_core` | 2 rules, 1 client, 2 wrappers and numbers; clients that throw, and close and open in `cancel()` | what is polled, called back (once in a call), cancelled and reported |
| `el_liveness` | 2 rules on one descriptor; careless clients, `add_rule` in callbacks, fairness | the loops stay in step, every step is one of FileDescriptor's, Success means that every event was dealt with, no call goes round in circles and all come back, defunct rules stay so and are cancelled |
| `write_bytes` | 2 lists, 2 blocks, strings of 0-2 bytes, lists of up to 4 bytes in 2 Buffers | every operation does to its list, and to no other, what ByteStrings says; lifetime of storage; every partial write keeps the contract; termination |
| `udp_datagrams` | 2 sockets, one host and 0.0.0.0, 2 ports, 2 datagrams or copies | `recv` returns whole datagrams with their senders, addresses compare as they should, replies go to who sent, queues are served in order, one datagram a call |
| `parser_roundtrip` | up to 5 bytes, fields of 1, 2 and 4 | round trip; a field is read exactly when it is all there; a reader that clears an error goes on where it stopped |
| `checksum` | up to 4 words and an initial one | every split into calls |

Five runs expect a violation: they check a sentence of the documentation that
the code does not keep. In each of them TLC's trace is an execution of the
modelled code, and `PROJECT.json` (findings) quotes the sentence.

| run | sentence | what happens |
|---|---|---|
| `fd_close_error` | `_closed` says "whether FDWrapper::_fd has been closed" | after a close(2) that reports an error it does not |
| `el_success_untriggered` | Success: "At least one Rule was triggered." | a hangup on a rule without interest returns Success at once |
| `el_poll_failure` | "If an error occurs during polling, this function throws" | all errors but EINTR are dropped |
| `el_unpolled_callback` | callback only "if revents includes the event we asked for" | a rule added in a callback is looked up past the end of the vector |
| `parser_as_string` | "a string representation of a ParseResult" | `Unsupported` is past the end of the table |

Two more sentences that the code does not keep in every case have no run of
their own: when `_rules` becomes empty, "this function returns Result::Exit" (it
is Success if the second loop cancelled the last rule); busy wait is checked
"only ... if we're not canceling" (a callback that only closes its descriptor is
reported as a busy wait).

Nor is what is polled always the rule's own descriptor: a number pushed by the
first loop is stale if the `cancel()` of a later rule closes that descriptor, and
may be somebody else's if the same `cancel()` opens another. No sentence of the
repository says that this cannot happen, so there is no violation to expect;
instead `PollsOwnDescriptors` says exactly how far it goes. A number is its
rule's own when it is pushed, and one that is stale when poll(2) is called
belongs to a rule whose own descriptor has been closed since, which
`DefunctForGood` and `DefunctRulesRetire` say the loop will cancel. In `el_core`
clients do close and open in `cancel()`, so both happen.

### Bounds

- `MaxRead`, `MaxWritevs`, `MaxServices`: reads of 0 or 1 byte tell EOF from
  data, and one counted write tells service from none. `CountModulus` is 2^32
  in the code and 2 in the EventLoop runs, so that wrapping happens. In
  `fd_lifecycle`, where only their range is checked, it is 1: every count
  wraps. In WriteLoop it is larger than the turns of one call.
  `MaxServices < CountModulus` is an assumption of the model: a callback that
  reads exactly 2^32 times would look idle, and `BusyWaitExact` would not hold.
- Two wrappers and two numbers are needed for a number to be closed and reused
  by someone else (`Obtainable`, what a number may come to refer to, has a file,
  both kinds of Internet sockets and one end of a socketpair); three handles, for
  a wrapper shared by two and a stranger.
  Two rules suffice for a rule to disturb the one after it and the one before;
  the proofs are for any number.
- Each rule object is registered once in a behaviour (a rule that has been
  cancelled is not added again), which bounds the number of rules added inside
  one call.
- `Base` is 256 in the code and 2 in the parser and checksum runs: shifts,
  masks and carries behave alike in any base. Eight bytes in base 2 are exactly
  what cannot overflow the sum; in base 256 that is 131072 bytes, more than any
  IP packet has. In `udp_datagrams` it is 3, with addresses of two bytes and
  ports of one: the order of bytes shows, and endpoints share an address. One
  host suffices for its socket names to overlap with those on 0.0.0.0. `Typed` has
  an endpoint of the machine and a port on 0.0.0.0, and one name resolves, so that
  the same endpoint is written, looked up, asked for and received.
- `Mtus` are 1 and 2 and payloads have 0 to 2 bytes in up to 2 views, so that a
  datagram is shorter than, equal to and longer than the room. `MaxSends`,
  `MaxCopies` and `MaxQueue` are 2, the least with which a datagram can be
  duplicated, overtaken and follow another into the same object.
- `MaxLength`, `MaxBuffers`, `MaxBytes`, `MaxCalls`, `MaxChunk` bound lengths. Two
  Buffers in a list are the least with which a removal or a partial write ends
  inside the first, on the border and inside the second.

The theorems below are for every value of all of these.

Symmetry is used in the runs without liveness properties: handles and wrappers
in `fd_lifecycle` and `fd_close_error`, wrappers in `el_core` and
`el_success_untriggered`, sockets in `udp_datagrams`. Deadlock is checked except in the parser and checksum
runs, whose bounded input simply ends.

### Fairness

`FairSpec` of EventLoop asks for weak fairness of the loop (the program keeps
calling `wait_next_event`, which is never blocked: poll(2) may time out) and of
the return from client code. The first is how the loop is meant to be driven;
the second is a requirement on clients without which no call returns. Client
operations themselves are not fair. `WLFairSpec` asks that a writev(2) comes
back with bytes, nothing or an error. Datagrams has no fairness: datagrams may
be lost, and nothing there need happen.

## Proofs

`FileDescriptorProofs`, for any sets of handles, wrappers and numbers:

- `FDTypeCorrect`, `FDNoLeak`: no assumption but those on the constants.
  `NoLeakedDescriptor` is inductive together with the types; the interesting
  step is `Release`, where the wrapper that dies must be the owner of its number
  or closed.
- `FDOwnership`, `FDForeignUntouched`: assume `Careful` (close(2) reports no
  error, closed descriptors are left alone). Both assumptions are needed, as
  `fd_close_error` shows for the first. `LiveWrapperOwnsItsNumber` is inductive
  with the types; that foreign descriptors are untouched follows from it,
  because every operation acts on the number of a wrapper that owns it.

`EventLoopProofs`, for any number of rules:

- `ELTypeCorrect`. `ELTypeOK` contains more than types: listed rules are
  distinct and hold a descriptor, and the iterator is in the list when client
  code returns; erasing needs the former, reading `*it` the latter.
- `ELUsesFileDescriptor`: every step of loop and clients is a step of
  FileDescriptor or leaves it alone. `ELNoLeak` and `ELOwnership` are the
  theorems above carried over to the loop, the second again for `Careful`.
- `ELLoopsAligned`: `LoopsAligned` says which pollfd belongs to which rule at
  each `pc`. It is inductive with the types, and the proof has a step per action;
  the arithmetic of `RemoveAt` and `Append` is in three lemmas about lists.
- `ELCallbackWhenReady` assumes `~CallbackMayAdd`. Besides `LoopsAligned` it needs
  `EventsAsked`: a pollfd asks for nothing or for its rule's own event.
  `el_unpolled_callback` shows that the assumption is needed.
- `ELPollsOwnDescriptors` assumes `Careful`. It needs `PollfdsCurrent` (until
  poll(2), each pollfd carries the number of the wrapper that its rule still holds,
  whatever cancel() does to other handles) and `FDOwnership` through
  `ELUsesFileDescriptor`. A wrapper that is not closed owns its number, so a stale
  one is closed (`StaleIsClosed`), and the one just pushed was not (`NewIsOpen`).
- `ELBusyWaitExact`, from the constants' assumptions alone (`MaxServices <
  CountModulus` among them). It needs `ServicesCounted`: inside a callback the
  counter of the rule's wrapper is `count_before` plus the services so far,
  modulo the width, whoever holds the wrapper by then; and `ResultPending`: there
  is no result while a call is running.
- `ELSuccessMeansDealtWith`, with no further assumption: clients may add rules,
  close and throw. It needs `DealtSoFar`: every pollfd that the second loop has
  passed was free of errors, was called back if it was ready, and was cancelled
  if it had hung up without anything to read; and the one at `idx` is on its way
  there while its client code runs. That `idx` goes with `it` is `LoopsAligned`.
- `ELOnlyDefunctRulesLeave` assumes `~CallbackMayAdd`, since a rule that was never
  polled is cancelled for a value past the end of the vector. It needs
  `CancelHasReason`: while `cancel()` runs, the reason for it still stands. The
  reason is in flags of a shared wrapper, so that every client operation has to be
  shown not to clear them (`ClientKeepsFlags`).
- `ELDefunctForGood`, with no further assumption, by the same argument for every
  rule and not only the one being cancelled: EOF and `_closed` are never taken back,
  and a listed rule keeps its pointer (`EraseKeepsOthers`). This is the stability
  that `DefunctRulesRetire` rests on.
- `ELWaitProgresses`, with no further assumption. The measure is the number of
  loops left, then the turns left of the present one, a turn with client code in
  it counting twice. Each of the loop's own steps lowers it, erasing included, as
  `it` stays and the list shrinks (`GetsOn`). Client code leaves it or adds a rule
  that was never listed, so a finite set of rules makes a call finite: this is the
  safety half of `WaitReturns`. That steps are taken, and that client code returns,
  is left to TLC.
- `ELCalledOnce`, with no further assumption. `ServedPassed` says that no listed
  rule has been cancelled, and that the rules called back in this call sit before
  `it`, or at it while their callback runs; only the rule at `it` is erased and new
  ones go to the end, so that this stays. As listed rules are distinct, the next
  one is not among them.

`SocketProofs`, for any objects, wrappers, numbers and `Obtainable`:

- `SockTypeCorrect`, and `SockUsesFD`: every step is a step of FileDescriptor, so
  `SockNoLeak`, `SockOwnership` and `SockForeignUntouched` are the theorems about
  FileDescriptor carried over, the last two for `Careful`.
- `SockClassIsKind`, `SockAcceptKeepsConnection`, `SockThrowIsHarmless` assume
  `Careful`. `ClassIsKind` is not inductive: it says nothing of the object under
  construction. `KindInv` adds `BuildingOK`, what is known of it at each stage.
  The argument is that the number behind a live wrapper changes hands only by an
  operation on that wrapper, which is ownership.

`DatagramProofs`, for any sockets, payloads, mtus, queues and copies, and any
base and size of addresses, ports and storage:

- `DgTypes`, `DgReturnedIsOneDatagram`. The invariant `DgInv` says that no two
  sockets' names overlap (`NoClash`), that every datagram on its way came from an
  endpoint of the socket that sent it, unless that has been connected since
  (`Sent`), that what is in a queue was sent to that socket (`Mine`), and that what
  was returned is what was taken, converted. The lemma `NothingLeft` is the heart:
  resize, fill and resize again leave the datagram and nothing else, whatever the
  string held. What was gathered from the views and what is put on the wire are
  the same bytes.
- `DgSenderRecognised`, for all the ways in which an Address is made. That one is
  read back from its bytes (`be32toh(htobe32(n)) = n` and what surrounds it) is
  induction over the digits; that unequal endpoints have unequal bytes follows,
  and that equal ones have equal bytes is because every constructor zeroes the
  storage first.
- `DgReplyReachesSender`, from `Sent` and `NoClash`: the endpoint a datagram came from
  is among those its sender's name stands for, and among nobody else's.
- `DgTakenInOrder`, from the types: a queue only grows at its end by a datagram
  that is on the wire and meant for it, and only loses its head, to the call that
  returns it or that throws because it is too long (`QueueStep`); and a call on an
  unconnected socket that finds something takes it (`CallTakes`).

`BufferProofs`, for any lists, blocks, strings and lengths:

- `BufferTypes`, `BufferStorageLifetime`, from `BufferInv`: every Buffer in a list
  has bytes left in storage that is alive (or is the whole of an empty string),
  storage that is alive is referenced, and no list is longer than a string may be.
- `BufferImplementsByteStrings`: `concatenate` is the mapping, and each operation's
  lemma says, next to keeping `BufferInv`, what it does to that text and that it
  leaves the other lists' alone. For `remove_prefix` this is the loop lemma
  `RemovalLoop` of Induction: after as many turns as there are Buffers, n bytes are
  gone from the front, or all of them.
- `WriteNothingLost`, `WriteReturnsWritten`, from `WriteInv`: inside the loop, what
  was handed over and what the views still show is the input, and every turn but
  the last took a byte, so that the count of turns is bounded by the bytes and
  does not wrap (`MaxLength + 1 < CountModulus` is the assumption). `RemovalLoop`
  serves again, for `BufferViewList::remove_prefix`. `WriteKeepsBuffers` carries the
  three results about Buffers over to a program that also writes them.
- `WriteKeepsContract`: every step of the loop is a step of WriteContract. It
  uses `WriteInv`, since the contract counts without wrapping, and `RemovalLoop` for
  what the views show after a partial write. A turn that goes on has taken at least
  one byte and left some: this is the safety half of `WriteEnds`.

`ParserProofs`, for any base, widths and lengths:

- `ParserRoundTrip`, `ParserTypes`. `ParserInv` says that the bytes of the fields not
  yet read begin with what the parser has left: the cut may be anywhere, so what
  follows is only said to exist. The lemma about integers (digits from the highest,
  each masked, shifted back together give the number, if it was smaller than
  `Base^width`) is induction over the width.
- `ParserTooShortExact`, `ParserErrorStops`. To `ParserInv` comes `AllCounted`: the
  bytes that arrived are those of the fields parsed and those left, however many
  calls were refused in between. So the local test of `_check_size` (the field is longer than
  what is left) says the same as `NextIsCut`, which knows only the fields that were
  written and where the string was cut.

`ChecksumProofs`, for any base, chunks and lengths:

- `ChecksumCorrect`, `ChecksumVerifies`. `ChecksumInv` says that the sum and the
  parity are those of one pass over all the bytes, by induction over the turns of
  `add`. Both assume `NoOverflow`: the sum of all words fits. In the code's widths
  and with an initial sum of one word that is 131072 bytes; beyond it the 32-bit
  sum may lose a carry, and the checksum is wrong. The rest is arithmetic modulo
  `Base^2 - 1`: `value` folds carries until there are none, which keeps the residue
  and tells zero from `Base^2 - 1`.

`Induction` is what the last four rest on. The library's induction theorems take
a predicate as an operator, which the provers here cannot instantiate; `Induction`
states them for sets instead (a set of numbers that has 0 and successors has all
of `Nat`, and likewise for `Seq(S)`), and proves from that that recursive functions
exist and what `SumSeq`, `ConcatSeq`, `Power` and the removal loop compute.

Only model-checked: the liveness properties `WaitReturns`, `DefunctRulesRetire`
and `WriteEnds` (fairness and ENABLED are beyond the prover; what they rest on
besides fairness is in `ELWaitProgresses`, `ELDefunctForGood` and
`WriteKeepsContract`), and what the five runs with an expected violation show,
which are single executions.

## Not modelled

- `interest()` is a value that client code sets, not code that runs: an
  `interest()` with side effects on descriptors is left out. Client code does not
  call `wait_next_event` again, or destroy the EventLoop, from inside a callback.
- `BufferList::append(*this)`, which walks the deque it pushes to.
- How long poll(2) waits; it may report any combination of events.
- The content of error messages and of what is read.
- `setsockopt` and `set_reuseaddr`: options handed to the kernel. Here `bind` to an
  address that is in use always fails.
- The handshake and the bytes of stream sockets, which are the kernel's; a
  backlog is never full, and `accept(2)` may always fail. `shutdown` is modelled by
  what it counts.
- How the kernel chooses a port or a host: in Datagrams a socket that sends unbound
  gets any free port on 0.0.0.0, its datagrams come from any of `Hosts`, and
  `connect` settles on any. Only IPv4 addresses are sent to. An error that a
  connected socket meets later is reported by `recv` (`RecvFails`), not by `send`.
  That getaddrinfo(3) and the kernel leave the padding of a sockaddr zero is an
  assumption about them (`Answer`, `get_address`).
- A connect(2) that goes on in the background (EINPROGRESS): the call throws and
  changes nothing of the object, so it is a stuttering step.
- Socket and Datagrams are not composed: ownership of the number and the content
  of datagrams share no state but the counter, which both EventLoop and Socket
  have.
- `util.cc`'s random numbers, clock and hexdump change no state of the program.
  `ByteStream`, `StreamReassembler` and `webget` are placeholders: until they are
  written there is no behaviour to specify. TCP, IP and the network interface are
  not in the repository.

## Plan

1. WriteContract composed with FileDescriptor, with the `counted` of a call as the
   k of `Write(h, k)`: so far the two are related only by how they count.
2. Larger instances where they tell more: `CountModulus` 3 with two services per
   callback, two clients.
3. ByteStream and StreamReassembler, once they are more than placeholders.
