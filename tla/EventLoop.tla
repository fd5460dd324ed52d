------------------------------- MODULE EventLoop -------------------------------
(***************************************************************************)
(* EventLoop (libsponge/util/eventloop.{hh,cc}) over FileDescriptor.       *)
(*                                                                         *)
(* wait_next_event runs in three phases: it walks _rules and builds one    *)
(* pollfd per surviving rule, it calls poll(2), and it walks _rules and    *)
(* the pollfds side by side, calling back the rules that are ready.        *)
(* Whenever it calls callback() or cancel(), client code runs, and client  *)
(* code may read, write, open, close and destroy descriptors, change what  *)
(* the rules are interested in, and add rules.  `pc' says where control    *)
(* is; the client's operations are actions of their own, enabled whenever  *)
(* control is in client code, so every sequence of them is explored inside *)
(* every callback.  Client code does not re-enter wait_next_event.         *)
(*                                                                         *)
(* A Rule holds a FileDescriptor (its member fd, made by duplicate()), so  *)
(* Rules is a subset of Handles and internal_fd[r] is the wrapper that     *)
(* rule r watches.                                                         *)
(***************************************************************************)
EXTENDS FileDescriptor, Sequences, Functions

CONSTANTS
  Rules,            \* Rule objects; each is registered at most once
  Direction,        \* Rule::direction of every rule: "In" or "Out"
  MaxServices,      \* bound on the reads and writes of one callback
  PollFailures,     \* errors poll(2) may report: "EINTR", "other"
  CallbackMayAdd,   \* client code may call add_rule during the second walk
  ClientMayThrow    \* callback() and cancel() may throw

ASSUME ELAssumptions ==
  /\ Rules \subseteq Handles
  /\ Direction \in [Rules -> {"In", "Out"}]
  /\ MaxServices \in Nat
  /\ MaxServices < CountModulus
  /\ PollFailures \subseteq {"EINTR", "other"}
  /\ CallbackMayAdd \in BOOLEAN
  /\ ClientMayThrow \in BOOLEAN

VARIABLES
  rules,             \* _rules
  interest,          \* what interest() of every rule would return
  pc,                \* where control is
  it,                \* the position of the iterator `it' in rules
  idx,               \* the position of `idx' in pollfds
  pollfds,           \* the vector handed to poll(2)
  something_to_poll,
  count_before,      \* service_count() when the callback was called
  result,            \* what the last call of wait_next_event returned or threw
  services,          \* history: this callback's calls that service its rule
  served,            \* history: rules called back by this call
  cancelled          \* history: rules whose cancel() has returned

locals == <<it, idx, pollfds, something_to_poll, count_before>>
vars == <<fdvars, rules, interest, pc, locals, result, services, served, cancelled>>

Clients == Handles \ Rules

\* POLLIN and POLLOUT are written "In" and "Out".
PollEvents == {"none", "In", "Out"}
PollFlags == {"In", "Out", "HUP", "ERR", "NVAL"}

\* A pollfd, and the rule it was built for (history).
PollFd ==
  [fd : FdNumbers, events : PollEvents, revents : SUBSET PollFlags, rule : Rules]

ClientCode == {"client", "cancel_setup", "callback", "cancel_scan"}
PCs == ClientCode \cup {"setup", "poll", "scan"}
Results == {"none", "Success", "Timeout", "Exit", "PollError", "BusyWait", "ClientThrow"}

\* Calls that read or write the descriptor of the rule being called back, in
\* the rule's direction: how often they were counted, and how they ended.
Services == [counted : 0 .. MaxServices, outcomes : SUBSET {"returned", "threw"}]

NoServices == [counted |-> 0, outcomes |-> {}]

\* The FDWrapper that rule r watches.
RuleFd(r) == wrapper[internal_fd[r]]

\* EventLoop::Rule::service_count.
service_count(r) ==
  IF Direction[r] = "In" THEN RuleFd(r).read_count ELSE RuleFd(r).write_count

Init ==
  /\ FDInit
  /\ rules = <<>>
  /\ interest = [r \in Rules |-> FALSE]
  /\ pc = "client"
  /\ it = 0 /\ idx = 0 /\ pollfds = <<>>
  /\ something_to_poll = FALSE
  /\ count_before = 0
  /\ result = "none"
  /\ services = NoServices
  /\ served = {}
  /\ cancelled = {}

-----------------------------------------------------------------------------
(***************************************************************************)
(* wait_next_event returns or throws; its local variables go.              *)
(***************************************************************************)
Leave(res) ==
  /\ pc' = "client"
  /\ result' = res
  /\ it' = 0 /\ idx' = 0 /\ pollfds' = <<>>
  /\ something_to_poll' = FALSE
  /\ count_before' = 0
  /\ services' = NoServices

\* The call, up to the first test of the first loop.
WaitNextEvent ==
  /\ pc = "client"
  /\ pc' = "setup"
  /\ it' = 1
  /\ result' = "none"
  /\ served' = {}
  /\ UNCHANGED <<fdvars, rules, interest, idx, pollfds, something_to_poll,
                 count_before, services, cancelled>>

\* Mutant: only EOF is looked at.
DefunctAtEof(r) == Direction[r] = "In" /\ RuleFd(r).eof

\* A rule on a closed descriptor, or an In rule at EOF, is to be cancelled.
Defunct(r) == (Direction[r] = "In" /\ RuleFd(r).eof) \/ RuleFd(r).closed

\* First loop: this_rule is defunct, call cancel().
SetupCancel ==
  /\ pc = "setup"
  /\ it <= Len(rules)
  /\ Defunct(rules[it])
  /\ pc' = "cancel_setup"
  /\ UNCHANGED <<fdvars, rules, interest, locals, result, services, served, cancelled>>

\* First loop: push_back a pollfd; without interest it only collects errors.
SetupPollfd ==
  /\ pc = "setup"
  /\ it <= Len(rules)
  /\ LET r == rules[it] IN
     /\ ~Defunct(r)
     /\ pollfds' = Append(pollfds,
                     [fd |-> RuleFd(r).fd,
                      events |-> IF interest[r] THEN Direction[r] ELSE "none",
                      revents |-> {},
                      rule |-> r])
     /\ something_to_poll' = (something_to_poll \/ interest[r])
  /\ it' = it + 1
  /\ UNCHANGED <<fdvars, rules, interest, pc, idx, count_before, result,
                 services, served, cancelled>>

\* The first loop is over and nothing is to be polled.
SetupExit ==
  /\ pc = "setup"
  /\ it > Len(rules)
  /\ ~something_to_poll
  /\ Leave("Exit")
  /\ UNCHANGED <<fdvars, rules, interest, served, cancelled>>

SetupDone ==
  /\ pc = "setup"
  /\ it > Len(rules)
  /\ something_to_poll
  /\ pc' = "poll"
  /\ UNCHANGED <<fdvars, rules, interest, locals, result, services, served, cancelled>>

-----------------------------------------------------------------------------
(***************************************************************************)
(* poll(2).  Hangups and errors are reported whether asked for or not; a   *)
(* number that is not open is reported as POLLNVAL.  `status' is what is   *)
(* true of every open number at that moment.                               *)
(***************************************************************************)
Revents(p, status) ==
  IF table[p.fd] = "free"
    THEN {"NVAL"}
    ELSE status[p.fd] \cap {p.events, "HUP", "ERR"}

Polled(status) ==
  [i \in DOMAIN pollfds |-> [pollfds[i] EXCEPT !.revents = Revents(pollfds[i], status)]]

EnterScan ==
  /\ pc' = "scan"
  /\ it' = 1
  /\ idx' = 1
  /\ UNCHANGED <<something_to_poll, count_before>>

\* poll(2) returns the number of pollfds with a non-empty revents.
Poll(status) ==
  /\ pc = "poll"
  /\ LET polled == Polled(status) IN
     IF \A i \in DOMAIN polled : polled[i].revents = {}
       THEN Leave("Timeout")
       ELSE /\ pollfds' = polled
            /\ EnterScan
            /\ UNCHANGED <<result, services>>
  /\ UNCHANGED <<fdvars, rules, interest, served, cancelled>>

\* poll(2) fails: EINTR exits, any other unix_error is caught and dropped,
\* and the second loop runs on the revents the vector was built with.
PollFails(error) ==
  /\ pc = "poll"
  /\ \/ /\ error = "EINTR"
        /\ Leave("Exit")
     \/ /\ error # "EINTR"
        /\ EnterScan
        /\ UNCHANGED <<pollfds, result, services>>
  /\ UNCHANGED <<fdvars, rules, interest, served, cancelled>>

-----------------------------------------------------------------------------
(***************************************************************************)
(* The second loop.  pollfds[idx] is read without a bounds check: past the *)
(* end it is whatever memory holds.                                        *)
(***************************************************************************)
PollfdsAt(i) ==
  IF i <= Len(pollfds)
    THEN {pollfds[i]}
    ELSE [fd : FdNumbers, events : PollEvents, revents : SUBSET PollFlags, rule : {rules[it]}]

\* Mutant: any returned event will do.
poll_ready_any(p) == p.revents # {}

\* Mutant: a hangup is final even while there is something to read.
DefunctHupReady(p) == "HUP" \in p.revents /\ p.events # "none"

\* Mutant: a requested event that did not happen is taken for a hangup.
DefunctUnready(p) == p.events # "none" /\ p.events \notin p.revents

poll_error(p) == p.revents \cap {"ERR", "NVAL"} # {}
poll_ready(p) == p.events \in p.revents
poll_hup(p) == "HUP" \in p.revents

\* if we asked for the status, and the only condition was a hangup
DefunctHup(p) == poll_hup(p) /\ p.events # "none" /\ ~poll_ready(p)

ScanError ==
  /\ pc = "scan"
  /\ it <= Len(rules)
  /\ \E p \in PollfdsAt(idx) : poll_error(p)
  /\ Leave("PollError")
  /\ UNCHANGED <<fdvars, rules, interest, served, cancelled>>

ScanCancel ==
  /\ pc = "scan"
  /\ it <= Len(rules)
  /\ \E p \in PollfdsAt(idx) : ~poll_error(p) /\ DefunctHup(p)
  /\ pc' = "cancel_scan"
  /\ UNCHANGED <<fdvars, rules, interest, locals, result, services, served, cancelled>>

ScanCallback ==
  /\ pc = "scan"
  /\ it <= Len(rules)
  /\ \E p \in PollfdsAt(idx) : ~poll_error(p) /\ ~DefunctHup(p) /\ poll_ready(p)
  /\ pc' = "callback"
  /\ count_before' = service_count(rules[it])
  /\ services' = NoServices
  /\ served' = served \cup {rules[it]}
  /\ UNCHANGED <<fdvars, rules, interest, it, idx, pollfds, something_to_poll,
                 result, cancelled>>

ScanSkip ==
  /\ pc = "scan"
  /\ it <= Len(rules)
  /\ \E p \in PollfdsAt(idx) : ~poll_error(p) /\ ~DefunctHup(p) /\ ~poll_ready(p)
  /\ it' = it + 1
  /\ idx' = idx + 1
  /\ UNCHANGED <<fdvars, rules, interest, pc, pollfds, something_to_poll,
                 count_before, result, services, served, cancelled>>

ScanDone ==
  /\ pc = "scan"
  /\ it > Len(rules)
  /\ Leave("Success")
  /\ UNCHANGED <<fdvars, rules, interest, served, cancelled>>

-----------------------------------------------------------------------------
(***************************************************************************)
(* Client code returns to wait_next_event, or throws through it.           *)
(***************************************************************************)

\* The list s without its i-th node.
RemoveAt(s, i) == SubSeq(s, 1, i - 1) \o SubSeq(s, i + 1, Len(s))

\* Mutant: the rule is destroyed but stays in the list.
EraseKeepsNode(r) ==
  /\ Destroy(r)
  /\ interest' = [interest EXCEPT ![r] = FALSE]
  /\ cancelled' = cancelled \cup {r}
  /\ UNCHANGED rules

\* Mutant: the rule's pointer is dropped without being released.
EraseLeaks(r) ==
  /\ rules' = RemoveAt(rules, it)
  /\ internal_fd' = [internal_fd EXCEPT ![r] = NoWrapper]
  /\ interest' = [interest EXCEPT ![r] = FALSE]
  /\ cancelled' = cancelled \cup {r}
  /\ UNCHANGED <<wrapper, table, nonblock>>

\* _rules.erase(it): ~Rule destroys the rule's FileDescriptor.
Erase(r) ==
  /\ rules' = RemoveAt(rules, it)
  /\ Destroy(r)
  /\ interest' = [interest EXCEPT ![r] = FALSE]
  /\ cancelled' = cancelled \cup {r}

\* Mutant: erase() is forgotten.
SetupCancelReturnKeeps ==
  /\ pc = "cancel_setup"
  /\ pc' = "setup"
  /\ UNCHANGED <<fdvars, rules, interest, locals, result, services, served, cancelled>>

SetupCancelReturn ==
  /\ pc = "cancel_setup"
  /\ Erase(rules[it])
  /\ pc' = "setup"
  /\ UNCHANGED <<locals, result, services, served>>

\* Mutant: the `continue' does not pass by ++idx.
ScanCancelReturnStays ==
  /\ pc = "cancel_scan"
  /\ Erase(rules[it])
  /\ pc' = "scan"
  /\ UNCHANGED <<locals, result, services, served>>

ScanCancelReturn ==
  /\ pc = "cancel_scan"
  /\ Erase(rules[it])
  /\ pc' = "scan"
  /\ idx' = idx + 1
  /\ UNCHANGED <<it, pollfds, something_to_poll, count_before, result, services, served>>

\* The busy-wait test: the callback has not serviced the descriptor in the
\* rule's direction and the rule is still interested.
BusyWaiting(r) == count_before = service_count(r) /\ interest[r]

\* Mutant: the loop stays at the rule that was called back.
CallbackReturnStays ==
  /\ pc = "callback"
  /\ IF BusyWaiting(rules[it])
       THEN Leave("BusyWait")
       ELSE /\ pc' = "scan"
            /\ count_before' = 0
            /\ services' = NoServices
            /\ UNCHANGED <<it, idx, pollfds, something_to_poll, result>>
  /\ UNCHANGED <<fdvars, rules, interest, served, cancelled>>

CallbackReturn ==
  /\ pc = "callback"
  /\ IF BusyWaiting(rules[it])
       THEN Leave("BusyWait")
       ELSE /\ pc' = "scan"
            /\ it' = it + 1
            /\ idx' = idx + 1
            /\ count_before' = 0
            /\ services' = NoServices
            /\ UNCHANGED <<pollfds, something_to_poll, result>>
  /\ UNCHANGED <<fdvars, rules, interest, served, cancelled>>

ClientThrows ==
  /\ ClientMayThrow
  /\ pc \in {"cancel_setup", "callback", "cancel_scan"}
  /\ Leave("ClientThrow")
  /\ UNCHANGED <<fdvars, rules, interest, served, cancelled>>

-----------------------------------------------------------------------------
(***************************************************************************)
(* What client code does, between calls and inside callback() and          *)
(* cancel().                                                               *)
(***************************************************************************)
loopvars == <<pc, locals, result, served, cancelled>>

\* A call through h that reads, writes or both (dirs), was counted k times and
\* ended so is a service of the rule being called back when it goes to the
\* rule's descriptor in the rule's direction.
Serve(h, dirs, k, outcome) ==
  IF pc = "callback" /\ internal_fd[h] = internal_fd[rules[it]] /\ Direction[rules[it]] \in dirs
    THEN /\ services.counted + k <= MaxServices
         /\ services' = [counted |-> services.counted + k,
                         outcomes |-> services.outcomes \cup {outcome}]
    ELSE UNCHANGED services

ClientRead(h, limit, n) ==
  /\ pc \in ClientCode
  /\ Read(h, limit, n)
  /\ Serve(h, {"In"}, 1, "returned")
  /\ UNCHANGED <<loopvars, rules, interest>>

ClientWrite(h, k) ==
  /\ pc \in ClientCode
  /\ Write(h, k)
  /\ Serve(h, {"Out"}, k, "returned")
  /\ UNCHANGED <<loopvars, rules, interest>>

\* Mutant: the call forgets to register.
ClientServesUncounted(h, dirs) ==
  /\ pc \in ClientCode
  /\ internal_fd[h] # NoWrapper
  /\ table[wrapper[internal_fd[h]].fd] # "free"
  /\ Register(h, 0, 0)
  /\ Serve(h, dirs, 0, "returned")
  /\ UNCHANGED <<loopvars, rules, interest>>

\* Calls of the socket classes that return: recv and accept ({"In"}), sendto
\* and send ({"Out"}), shutdown (any).
ClientServes(h, dirs) ==
  /\ pc \in ClientCode
  /\ internal_fd[h] # NoWrapper
  /\ table[wrapper[internal_fd[h]].fd] # "free"
  /\ Register(h, IF "In" \in dirs THEN 1 ELSE 0, IF "Out" \in dirs THEN 1 ELSE 0)
  /\ Serve(h, dirs, 1, "returned")
  /\ UNCHANGED <<loopvars, rules, interest>>

\* Calls that throw an exception, which the client catches.  accept() counts
\* before accept(2), and write() has counted the writev(2) calls before the
\* one that failed (k = 1); read, send, shutdown, and recv, which has taken an
\* oversized datagram from the socket by then, count nothing (k = 0).
ClientServiceThrows(h, dir, k) ==
  /\ pc \in ClientCode
  /\ Register(h, IF dir = "In" THEN k ELSE 0, IF dir = "Out" THEN k ELSE 0)
  /\ Serve(h, {dir}, k, "threw")
  /\ UNCHANGED <<loopvars, rules, interest>>

ClientClose(h) ==
  /\ pc \in ClientCode
  /\ Close(h)
  /\ UNCHANGED <<loopvars, rules, interest, services>>

ClientConstruct(h, w) ==
  /\ pc \in ClientCode
  /\ Construct(h, w)
  /\ UNCHANGED <<loopvars, rules, interest, services>>

ClientDestroy(h) ==
  /\ pc \in ClientCode
  /\ Destroy(h)
  /\ UNCHANGED <<loopvars, rules, interest, services>>

SetInterest(r, b) ==
  /\ pc \in ClientCode
  /\ r \in Range(rules)
  /\ interest' = [interest EXCEPT ![r] = b]
  /\ UNCHANGED <<fdvars, loopvars, rules, services>>

\* EventLoop::add_rule: the rule goes to the end of the list.
AddRule(r, h, b) ==
  /\ pc \in {"client", "cancel_setup"} \/ (CallbackMayAdd /\ pc \in ClientCode)
  /\ r \notin Range(rules) \cup cancelled
  /\ Duplicate(h, r)
  /\ rules' = Append(rules, r)
  /\ interest' = [interest EXCEPT ![r] = b]
  /\ UNCHANGED <<loopvars, services>>

-----------------------------------------------------------------------------
Loop ==
  \/ WaitNextEvent
  \/ SetupCancel \/ SetupPollfd \/ SetupExit \/ SetupDone
  \/ \E status \in [FdNumbers -> SUBSET {"In", "Out", "HUP", "ERR"}] : Poll(status)
  \/ \E error \in PollFailures : PollFails(error)
  \/ ScanError \/ ScanCancel \/ ScanCallback \/ ScanSkip \/ ScanDone

Return == SetupCancelReturn \/ ScanCancelReturn \/ CallbackReturn \/ ClientThrows

Client ==
  \/ \E h \in Clients, limit, n \in 0 .. MaxRead : ClientRead(h, limit, n)
  \/ \E h \in Clients, k \in 1 .. MaxWritevs : ClientWrite(h, k)
  \/ \E h \in Clients, dirs \in {{"In"}, {"Out"}, {"In", "Out"}} : ClientServes(h, dirs)
  \/ \E h \in Clients, dir \in {"In", "Out"}, k \in 0 .. 1 : ClientServiceThrows(h, dir, k)
  \/ \E h \in Clients, w \in Wrappers : ClientConstruct(h, w)
  \/ \E h \in Clients : ClientClose(h) \/ ClientDestroy(h)
  \/ \E r \in Rules, b \in BOOLEAN : SetInterest(r, b)
  \/ \E r \in Rules, h \in Clients, b \in BOOLEAN : AddRule(r, h, b)

Next == Loop \/ Return \/ Client

Spec == Init /\ [][Next]_vars

\* The program keeps calling wait_next_event, the call runs on until it leaves,
\* and client code always comes back from callback() and cancel().
Fairness == WF_vars(Loop) /\ WF_vars(Return)

FairSpec == Spec /\ Fairness

-----------------------------------------------------------------------------
(***************************************************************************)
(* Properties.                                                             *)
(***************************************************************************)

\* The shapes of the state; a listed rule holds a descriptor, is listed once,
\* and control inside the two loops is at a listed rule or at the end.
ELTypeOK ==
  /\ FDTypeOK
  /\ rules \in Seq(Rules)
  /\ \A i, j \in 1 .. Len(rules) : rules[i] = rules[j] => i = j
  /\ \A i \in 1 .. Len(rules) : internal_fd[rules[i]] # NoWrapper
  /\ interest \in [Rules -> BOOLEAN]
  /\ pc \in PCs
  /\ it \in 0 .. Len(rules) + 1
  /\ pc # "client" => it >= 1
  /\ pc \in {"cancel_setup", "callback", "cancel_scan"} => it \in 1 .. Len(rules)
  /\ idx \in Nat
  /\ pollfds \in Seq(PollFd)
  /\ something_to_poll \in BOOLEAN
  /\ count_before \in 0 .. CountModulus - 1
  /\ result \in Results
  /\ services \in Services
  /\ served \subseteq Rules
  /\ cancelled \subseteq Rules

\* The two loops stay in step.  Although rules are erased in both of them, and
\* added while client code runs, the first loop leaves one pollfd per rule it
\* has passed, in order, and what the second loop has still to look at are the
\* pollfds of the rules from `it' on; only rules that client code added while
\* the second loop was running have none.
LoopsAligned ==
  /\ pc = "client" => pollfds = <<>>
  /\ pc \in {"setup", "cancel_setup"} =>
       /\ Len(pollfds) = it - 1
       /\ \A i \in 1 .. Len(pollfds) : pollfds[i].rule = rules[i]
  /\ pc = "poll" =>
       /\ Len(pollfds) = Len(rules)
       /\ \A i \in 1 .. Len(pollfds) : pollfds[i].rule = rules[i]
  /\ pc \in {"scan", "callback", "cancel_scan"} =>
       /\ idx >= 1
       /\ Len(pollfds) - idx <= Len(rules) - it
       /\ ~CallbackMayAdd => Len(pollfds) - idx = Len(rules) - it
       /\ \A i \in idx .. Len(pollfds) : pollfds[i].rule = rules[it + (i - idx)]

\* A callback runs only when poll(2) reported, for the rule's own pollfd, the
\* event the rule is registered for.
CallbackWhenReady ==
  pc = "callback" =>
    /\ idx <= Len(pollfds)
    /\ pollfds[idx].rule = rules[it]
    /\ Direction[rules[it]] \in pollfds[idx].revents

\* The loop treats its descriptors as any client of FileDescriptor does: every
\* step is a step of that module or leaves the descriptors alone, so whatever
\* holds of FileDescriptor's clients holds here.
UsesFileDescriptor == FDSpec

\* A number in the vector that is not the one of its rule's descriptor: the
\* kernel has it free, or has given it to another file.
Stale(p) == table[p.fd] # internal_fd[p.rule]

\* What is polled is Rule::fd.  A number is its rule's own when it is put into
\* the vector, and it is stale at poll(2) only when the rule's own descriptor
\* has been closed in between, by a cancel() that the first loop has called;
\* then the rule is one that the next call cancels.  Nothing else that cancel()
\* does to other descriptors, and no rule erased there, makes a number stale.
PollsOwnDescriptors ==
  [][pc' \in {"setup", "cancel_setup", "poll"} =>
       \A i \in 1 .. Len(pollfds') : Stale(pollfds[i])' =>
         i <= Len(pollfds) /\ RuleFd(pollfds[i].rule)'.closed]_vars

\* wait_next_event returns Success only after it has dealt with everything
\* poll(2) reported: ready rules have been called back, rules that asked and
\* only got a hangup have been cancelled, and none had an error.
SuccessMeansDealtWith ==
  [][pc = "scan" /\ pc' = "client" /\ result' = "Success" =>
       \A i \in 1 .. Len(pollfds) :
         /\ ~poll_error(pollfds[i])
         /\ poll_ready(pollfds[i]) => pollfds[i].rule \in served
         /\ DefunctHup(pollfds[i]) => pollfds[i].rule \in cancelled]_vars

\* Busy waiting is detected exactly: a callback ends in the exception when it
\* leaves its rule interested and nothing that counts was done to the rule's
\* descriptor in the rule's direction, through whichever handle, and no other
\* callback does.  Whoever is blamed had no such call return, and whoever is
\* not has at least made one; a call that threw may go either way.
BusyWaitExact ==
  [][pc = "callback" /\ pc' # "callback" /\ result' # "ClientThrow" =>
       /\ result' = "BusyWait" <=> services.counted = 0 /\ interest[rules[it]]
       /\ result' = "BusyWait" => "returned" \notin services.outcomes
       /\ result' # "BusyWait" /\ interest[rules[it]] => services.outcomes # {}]_vars

\* One call of wait_next_event calls a rule back at most once, and never one
\* that it has cancelled, although the list shrinks and grows while it is
\* walked.
CalledOnce ==
  [][pc = "scan" /\ pc' = "callback" => rules[it] \notin served \cup cancelled]_vars

\* A rule leaves the list only by being cancelled, and a rule on a descriptor
\* that has not reached EOF, been closed or hung up is never cancelled.
OnlyDefunctRulesLeave ==
  [][\A r \in Range(rules) \ Range(rules') :
       /\ r \in cancelled'
       /\ \/ Defunct(r)
          \/ \E i \in 1 .. Len(pollfds) :
               pollfds[i].rule = r /\ "HUP" \in pollfds[i].revents]_vars

\* The loops of a call that are not over, and the turns that are left of the
\* one it is in; a turn that calls client code has two halves.
LoopsLeft ==
  CASE pc \in {"setup", "cancel_setup"} -> 3
    [] pc = "poll" -> 2
    [] pc \in {"scan", "callback", "cancel_scan"} -> 1
    [] pc = "client" -> 0
TurnsLeft == 2 * (Len(rules) + 1 - it) + (IF pc \in {"setup", "scan"} THEN 1 ELSE 0)

\* A step towards the end of the call.
Nearer ==
  \/ LoopsLeft' < LoopsLeft
  \/ LoopsLeft' = LoopsLeft /\ TurnsLeft' < TurnsLeft

\* A step of client code, which leaves the list alone or adds a rule to it
\* that has never been there.
OnlyAdds ==
  /\ pc \in ClientCode
  /\ UNCHANGED <<pc, it>>
  /\ \/ UNCHANGED rules
     \/ \E r \in Rules \ (Range(rules) \cup cancelled) : rules' = Append(rules, r)

\* Every step that wait_next_event takes brings it nearer to its end, though
\* it erases rules from the list it walks.  Client code called from it can put
\* the end off only by adding rules that are new.
WaitProgresses == [][pc # "client" => TurnsLeft \in Nat /\ (Nearer \/ OnlyAdds)]_vars

\* A rule that is to be cancelled stays so until it has been: nothing that is
\* done to its descriptor, through whichever handle, takes EOF or the closing
\* back, and the rule keeps watching the same descriptor.
DefunctForGood ==
  [][\A r \in Range(rules) : Defunct(r) =>
       r \in cancelled' \/ (r \in Range(rules') /\ Defunct(r)')]_vars

\* Every call of wait_next_event comes back, by returning or by throwing.
WaitReturns == pc # "client" ~> pc = "client"

\* A rule whose descriptor is closed, or which reads a descriptor at EOF, is
\* cancelled in the end, whatever the other rules do.
DefunctRulesRetire ==
  \A r \in Rules : (r \in Range(rules) /\ Defunct(r)) ~> r \in cancelled

-----------------------------------------------------------------------------
(***************************************************************************)
(* What the documentation says and the code does not do.                   *)
(***************************************************************************)

\* eventloop.hh, Result::Success: "At least one Rule was triggered."  Here a
\* rule that was cancelled counts as triggered too.
SuccessMeansTriggered ==
  [][pc = "scan" /\ pc' = "client" /\ result' = "Success" =>
       served \cup (cancelled \cap {pollfds[i].rule : i \in 1 .. Len(pollfds)}) # {}]_vars

\* wait_next_event: "If an error occurs during polling, this function throws a
\* std::runtime_error."  A poll(2) that succeeds reports something, so a call
\* whose vector is as it was built has had a failing one, and does not succeed.
PollFailureThrows ==
  [][pc = "scan" /\ pc' = "client" /\ result' = "Success" =>
       \E i \in 1 .. Len(pollfds) : pollfds[i].revents # {}]_vars

=============================================================================
