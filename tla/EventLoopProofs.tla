--------------------------- MODULE EventLoopProofs ---------------------------
(***************************************************************************)
(* Proofs about EventLoop, for any number of rules, handles, wrappers and  *)
(* descriptor numbers.                                                     *)
(***************************************************************************)
EXTENDS EventLoop, FileDescriptorProofs

-----------------------------------------------------------------------------
(***************************************************************************)
(* Lists.                                                                  *)
(***************************************************************************)

\* Two lists in a row.
LEMMA ConcatProps ==
  ASSUME NEW S, NEW a \in Seq(S), NEW b \in Seq(S)
  PROVE  /\ a \o b \in Seq(S)
         /\ Len(a \o b) = Len(a) + Len(b)
         /\ \A j \in 1 .. Len(a) : (a \o b)[j] = a[j]
         /\ \A j \in 1 .. Len(b) : (a \o b)[Len(a) + j] = b[j]
OBVIOUS

\* list::erase: the elements behind the erased one move up by one.
LEMMA RemoveAtProperties ==
  ASSUME NEW S, NEW s \in Seq(S), NEW i \in 1 .. Len(s)
  PROVE  /\ RemoveAt(s, i) \in Seq(S)
         /\ Len(RemoveAt(s, i)) = Len(s) - 1
         /\ \A j \in 1 .. Len(s) - 1 :
              RemoveAt(s, i)[j] = IF j < i THEN s[j] ELSE s[j + 1]
<1> DEFINE a == SubSeq(s, 1, i - 1)
           b == SubSeq(s, i + 1, Len(s))
<1>1. /\ a \in Seq(S) /\ Len(a) = i - 1
      /\ \A j \in 1 .. i - 1 : a[j] = s[j]
  OBVIOUS
<1>2. /\ b \in Seq(S) /\ Len(b) = Len(s) - i
      /\ \A j \in 1 .. Len(s) - i : b[j] = s[j + i]
  OBVIOUS
<1>3. RemoveAt(s, i) = a \o b
  BY Zenon DEF RemoveAt
<1> HIDE DEF a, b
<1>4. /\ a \o b \in Seq(S)
      /\ Len(a \o b) = Len(a) + Len(b)
      /\ \A j \in 1 .. Len(a) : (a \o b)[j] = a[j]
      /\ \A j \in 1 .. Len(b) : (a \o b)[Len(a) + j] = b[j]
  <2>1. a \in Seq(S) /\ b \in Seq(S)
    BY <1>1, <1>2, Zenon
  <2> QED
    BY ONLY <2>1, ConcatProps
<1>5. ASSUME NEW j \in 1 .. Len(s) - 1
      PROVE  (a \o b)[j] = IF j < i THEN s[j] ELSE s[j + 1]
  <2>1. CASE j < i
    BY <1>1, <1>2, <1>4, <2>1
  <2>2. CASE j >= i
    <3> DEFINE k == j - (i - 1)
    <3>1. k \in 1 .. Len(s) - i /\ k + i = j + 1 /\ j = i - 1 + k
      BY <2>2
    <3>2. (a \o b)[j] = b[k]
      BY <1>1, <1>2, <1>4, <3>1
    <3>3. b[k] = s[k + i]
      BY <1>2, <3>1, Zenon
    <3> QED
      BY <2>2, <3>1, <3>2, <3>3
  <2>3. j < i \/ j >= i
    OBVIOUS
  <2> QED
    BY <2>1, <2>2, <2>3, Zenon
<1> QED
  BY <1>1, <1>2, <1>3, <1>4, <1>5

\* list::push_back.
LEMMA AppendProps ==
  ASSUME NEW S, NEW s \in Seq(S), NEW e \in S
  PROVE  /\ Append(s, e) \in Seq(S)
         /\ Len(Append(s, e)) = Len(s) + 1
         /\ \A j \in 1 .. Len(s) : Append(s, e)[j] = s[j]
         /\ Append(s, e)[Len(s) + 1] = e
OBVIOUS

\* Erasing keeps a list without repetition one, without the erased element.
LEMMA RemoveAtDistinct ==
  ASSUME NEW S, NEW s \in Seq(S), NEW i \in 1 .. Len(s),
         \A j, k \in 1 .. Len(s) : s[j] = s[k] => j = k
  PROVE  LET t == RemoveAt(s, i) IN
         /\ \A j, k \in 1 .. Len(t) : t[j] = t[k] => j = k
         /\ \A j \in 1 .. Len(t) : t[j] # s[i]
         /\ \A j \in 1 .. Len(t) : \E k \in 1 .. Len(s) : t[j] = s[k]
<1> DEFINE t == RemoveAt(s, i)
<1>1. /\ Len(t) = Len(s) - 1
      /\ \A j \in 1 .. Len(s) - 1 : t[j] = IF j < i THEN s[j] ELSE s[j + 1]
  BY RemoveAtProperties, Zenon
<1> HIDE DEF t
<1> DEFINE up(x) == IF x < i THEN x ELSE x + 1
<1>2. ASSUME NEW j \in 1 .. Len(t)
      PROVE  t[j] = s[up(j)] /\ up(j) \in 1 .. Len(s) /\ up(j) # i
  <2>1. j \in 1 .. Len(s) - 1
    BY <1>1, Zenon
  <2>2. t[j] = s[up(j)]
    BY <1>1, <2>1, Zenon
  <2>3. Len(s) \in Nat
    OBVIOUS
  <2>4. up(j) \in 1 .. Len(s) /\ up(j) # i
    BY <2>1, <2>3
  <2> QED BY <2>2, <2>4, Zenon
<1>3. ASSUME NEW j \in 1 .. Len(t), NEW k \in 1 .. Len(t), up(j) = up(k)
      PROVE  j = k
  <2>1. j \in Int /\ k \in Int
    BY <1>1
  <2> QED BY <1>3, <2>1
<1> HIDE DEF up
<1>4. ASSUME NEW j \in 1 .. Len(t), NEW k \in 1 .. Len(t), t[j] = t[k]
      PROVE  j = k
  BY <1>2, <1>3, <1>4, Zenon
<1>5. ASSUME NEW j \in 1 .. Len(t)
      PROVE  t[j] # s[i] /\ \E k \in 1 .. Len(s) : t[j] = s[k]
  BY <1>2, Zenon
<1> QED
  BY <1>4, <1>5, Zenon DEF t

-----------------------------------------------------------------------------
(***************************************************************************)
(* The loop as a client of FileDescriptor.                                 *)
(***************************************************************************)

\* The part of ELTypeOK about the list of rules.
RulesHeld ==
  /\ rules \in Seq(Rules)
  /\ \A i, j \in 1 .. Len(rules) : rules[i] = rules[j] => i = j
  /\ \A i \in 1 .. Len(rules) : internal_fd[rules[i]] # NoWrapper

\* The part of ELTypeOK about the variables of wait_next_event.
ControlOK ==
  /\ interest \in [Rules -> BOOLEAN]
  /\ pc \in PCs
  /\ it \in 0 .. Len(rules) + 1
  /\ pc # "client" => it >= 1
  /\ pc \in {"cancel_setup", "callback", "cancel_scan"} => it \in 1 .. Len(rules)
  /\ idx \in Nat
  /\ pollfds \in Seq(PollFd)
  /\ something_to_poll \in BOOLEAN
  /\ count_before \in 0 .. CountModulus - 1
  /\ result \in Results
  /\ services \in Services
  /\ served \subseteq Rules
  /\ cancelled \subseteq Rules

\* A callback starts without services.
LEMMA NoServicesType == NoServices \in Services
BY ELAssumptions DEF NoServices, Services

\* ELTypeOK has these parts.
LEMMA TypeParts == ELTypeOK <=> FDTypeOK /\ RulesHeld /\ ControlOK
BY Zenon DEF ELTypeOK, RulesHeld, ControlOK

\* The steps of wait_next_event that call no client code.
Quiet ==
  \/ WaitNextEvent
  \/ SetupCancel \/ SetupPollfd \/ SetupExit \/ SetupDone
  \/ \E status \in [FdNumbers -> SUBSET {"In", "Out", "HUP", "ERR"}] : Poll(status)
  \/ \E error \in PollFailures : PollFails(error)
  \/ ScanError \/ ScanCancel \/ ScanCallback \/ ScanSkip \/ ScanDone
  \/ CallbackReturn \/ ClientThrows

\* Client code at work on its own handles.
ClientWork(h) ==
  \/ \E limit, n \in 0 .. MaxRead : ClientRead(h, limit, n)
  \/ \E k \in 1 .. MaxWritevs : ClientWrite(h, k)
  \/ \E dirs \in {{"In"}, {"Out"}, {"In", "Out"}} : ClientServes(h, dirs)
  \/ \E dir \in {"In", "Out"}, k \in 0 .. 1 : ClientServiceThrows(h, dir, k)
  \/ \E w \in Wrappers : ClientConstruct(h, w)
  \/ ClientClose(h)
  \/ ClientDestroy(h)

\* Every step is of one of these kinds.
LEMMA NextCases ==
  ASSUME Next
  PROVE  \/ Quiet
         \/ SetupCancelReturn
         \/ ScanCancelReturn
         \/ \E h \in Clients : ClientWork(h)
         \/ \E r \in Rules, b \in BOOLEAN : SetInterest(r, b)
         \/ \E r \in Rules, h \in Clients, b \in BOOLEAN : AddRule(r, h, b)
BY Zenon DEF Next, Loop, Return, Client, Quiet, ClientWork

\* Quiet steps leave the descriptors, the rules and their interest alone.
LEMMA QuietFrame == Quiet => UNCHANGED <<fdvars, rules, interest>>
BY Zenon DEF Quiet, WaitNextEvent, SetupCancel, SetupPollfd, SetupExit, SetupDone, Poll, PollFails,
       ScanError, ScanCancel, ScanCallback, ScanSkip, ScanDone, CallbackReturn, ClientThrows

\* Client code works on descriptors by FileDescriptor's operations, and does
\* not touch the pointers that the rules hold.
LEMMA ClientWorkFrame ==
  ASSUME FDTypeOK, NEW h \in Clients, ClientWork(h)
  PROVE  /\ FDNext
         /\ \A r \in Rules : internal_fd'[r] = internal_fd[r]
         /\ UNCHANGED <<loopvars, rules, interest>>
<1>0. h \in Handles /\ h \notin Rules /\ Rules \subseteq Handles
  BY ELAssumptions, Zenon DEF Clients
<1>1. ASSUME NEW limit \in 0 .. MaxRead, NEW n \in 0 .. MaxRead, ClientRead(h, limit, n)
      PROVE  /\ FDNext
             /\ \A r \in Rules : internal_fd'[r] = internal_fd[r]
             /\ UNCHANGED <<loopvars, rules, interest>>
  <2>1. Read(h, limit, n) /\ UNCHANGED <<loopvars, rules, interest>>
    BY <1>1, Zenon DEF ClientRead
  <2>2. FDNext
    BY <1>0, <2>1, Zenon DEF FDNext
  <2> QED
    BY <2>1, <2>2, Zenon DEF Read
<1>2. ASSUME NEW k \in 1 .. MaxWritevs, ClientWrite(h, k)
      PROVE  /\ FDNext
             /\ \A r \in Rules : internal_fd'[r] = internal_fd[r]
             /\ UNCHANGED <<loopvars, rules, interest>>
  <2>1. Write(h, k) /\ UNCHANGED <<loopvars, rules, interest>>
    BY <1>2, Zenon DEF ClientWrite
  <2>2. FDNext
    BY <1>0, <2>1, Zenon DEF FDNext
  <2> QED
    BY <2>1, <2>2, Zenon DEF Write
<1>3. ASSUME NEW w \in Wrappers, ClientConstruct(h, w)
      PROVE  /\ FDNext
             /\ \A r \in Rules : internal_fd'[r] = internal_fd[r]
             /\ UNCHANGED <<loopvars, rules, interest>>
  <2>1. Construct(h, w) /\ UNCHANGED <<loopvars, rules, interest>>
    BY <1>3, Zenon DEF ClientConstruct
  <2>2. FDNext
    BY <1>0, <2>1, Zenon DEF FDNext
  <2> QED
    BY <1>0, <2>1, <2>2, Zenon DEF Construct, FDTypeOK
<1>4. ASSUME ClientClose(h)
      PROVE  /\ FDNext
             /\ \A r \in Rules : internal_fd'[r] = internal_fd[r]
             /\ UNCHANGED <<loopvars, rules, interest>>
  <2>1. Close(h) /\ UNCHANGED <<loopvars, rules, interest>>
    BY <1>4, Zenon DEF ClientClose
  <2>2. FDNext
    BY <1>0, <2>1, Zenon DEF FDNext
  <2> QED
    BY <2>1, <2>2, Zenon DEF Close
<1>5. ASSUME ClientDestroy(h)
      PROVE  /\ FDNext
             /\ \A r \in Rules : internal_fd'[r] = internal_fd[r]
             /\ UNCHANGED <<loopvars, rules, interest>>
  <2>1. Destroy(h) /\ UNCHANGED <<loopvars, rules, interest>>
    BY <1>5, Zenon DEF ClientDestroy
  <2>2. FDNext
    BY <1>0, <2>1, Zenon DEF FDNext
  <2> QED
    BY <1>0, <2>1, <2>2, Zenon DEF Destroy, FDTypeOK
<1>6. ASSUME NEW dirs \in {{"In"}, {"Out"}, {"In", "Out"}}, ClientServes(h, dirs)
      PROVE  /\ FDNext
             /\ \A r \in Rules : internal_fd'[r] = internal_fd[r]
             /\ UNCHANGED <<loopvars, rules, interest>>
  <2> DEFINE r == IF "In" \in dirs THEN 1 ELSE 0
             w == IF "Out" \in dirs THEN 1 ELSE 0
  <2>1. Register(h, r, w) /\ UNCHANGED <<loopvars, rules, interest>>
    BY <1>6, Zenon DEF ClientServes
  <2>2. r \in 0 .. 1 /\ w \in 0 .. 1
    OBVIOUS
  <2> HIDE DEF r, w
  <2>3. FDNext
    BY <1>0, <2>1, <2>2, Zenon DEF FDNext
  <2> QED
    BY <2>1, <2>3, Zenon DEF Register
<1>7. ASSUME NEW dir \in {"In", "Out"}, NEW k \in 0 .. 1, ClientServiceThrows(h, dir, k)
      PROVE  /\ FDNext
             /\ \A r \in Rules : internal_fd'[r] = internal_fd[r]
             /\ UNCHANGED <<loopvars, rules, interest>>
  <2> DEFINE r == IF dir = "In" THEN k ELSE 0
             w == IF dir = "Out" THEN k ELSE 0
  <2>1. Register(h, r, w) /\ UNCHANGED <<loopvars, rules, interest>>
    BY <1>7, Zenon DEF ClientServiceThrows
  <2>2. r \in 0 .. 1 /\ w \in 0 .. 1
    OBVIOUS
  <2> HIDE DEF r, w
  <2>3. FDNext
    BY <1>0, <2>1, <2>2, Zenon DEF FDNext
  <2> QED
    BY <2>1, <2>3, Zenon DEF Register
<1> QED
  BY <1>1, <1>2, <1>3, <1>4, <1>5, <1>6, <1>7, Zenon DEF ClientWork

\* A step of the loop or of its clients is a step of FileDescriptor or none.
LEMMA StepOfFD ==
  ASSUME ELTypeOK, [Next]_vars
  PROVE  [FDNext]_fdvars
<1> USE TypeParts
<1>0. \A r \in Rules : r \in Handles
  BY ELAssumptions, Zenon
<1>1. CASE Quiet
  BY <1>1, QuietFrame, Zenon
<1>2. CASE SetupCancelReturn \/ ScanCancelReturn
  <2>1. rules[it] \in Rules /\ Destroy(rules[it])
    BY <1>2 DEF SetupCancelReturn, ScanCancelReturn, Erase, RulesHeld, ControlOK
  <2> QED
    BY <1>0, <2>1, Zenon DEF FDNext
<1>3. ASSUME NEW h \in Clients, ClientWork(h)
      PROVE  FDNext
  BY <1>3, ClientWorkFrame, Zenon
<1>4. ASSUME NEW r \in Rules, NEW b \in BOOLEAN, SetInterest(r, b)
      PROVE  UNCHANGED fdvars
  BY <1>4, Zenon DEF SetInterest
<1>5. ASSUME NEW r \in Rules, NEW h \in Clients, NEW b \in BOOLEAN, AddRule(r, h, b)
      PROVE  FDNext
  <2>1. Duplicate(h, r) /\ h \in Handles
    BY <1>5, Zenon DEF AddRule, Clients
  <2> QED
    BY <1>0, <2>1, Zenon DEF FDNext
<1>6. CASE UNCHANGED vars
  BY <1>6, Zenon DEF vars
<1> QED
  BY <1>1, <1>2, <1>3, <1>4, <1>5, <1>6, NextCases, Zenon

-----------------------------------------------------------------------------
(***************************************************************************)
(* Type correctness.                                                       *)
(***************************************************************************)

\* The list of rules stays without repetition and its rules keep their
\* pointers.
LEMMA RulesHeldStep ==
  ASSUME ELTypeOK, [Next]_vars
  PROVE  RulesHeld'
<1> USE TypeParts
<1>0. Rules \subseteq Handles
  BY ELAssumptions, Zenon
<1>1. CASE Quiet
  BY <1>1, QuietFrame, Zenon DEF RulesHeld, fdvars
<1>2. CASE SetupCancelReturn \/ ScanCancelReturn
  <2> DEFINE r == rules[it]
  <2>1. it \in 1 .. Len(rules) /\ r \in Rules
    BY <1>2 DEF SetupCancelReturn, ScanCancelReturn, RulesHeld, ControlOK
  <2>2. rules' = RemoveAt(rules, it)
    BY <1>2, Zenon DEF SetupCancelReturn, ScanCancelReturn, Erase
  <2>3. internal_fd' = [internal_fd EXCEPT ![r] = NoWrapper]
    BY <1>2, Zenon DEF SetupCancelReturn, ScanCancelReturn, Erase, Destroy
  <2>4. rules' \in Seq(Rules)
    BY <2>1, <2>2, RemoveAtProperties, Zenon DEF RulesHeld
  <2>5. /\ \A j, k \in 1 .. Len(rules') : rules'[j] = rules'[k] => j = k
        /\ \A j \in 1 .. Len(rules') : rules'[j] # r
        /\ \A j \in 1 .. Len(rules') : \E k \in 1 .. Len(rules) : rules'[j] = rules[k]
    BY <2>1, <2>2, RemoveAtDistinct, SMTT(30) DEF RulesHeld
  <2>6. ASSUME NEW j \in 1 .. Len(rules')
        PROVE  internal_fd'[rules'[j]] # NoWrapper
    <3>1. PICK k \in 1 .. Len(rules) : rules'[j] = rules[k]
      BY <2>5, Zenon
    <3>2. rules[k] \in Rules /\ internal_fd[rules[k]] # NoWrapper /\ rules[k] # r
      BY <2>5, <3>1 DEF RulesHeld
    <3> QED
      BY <1>0, <2>3, <3>1, <3>2, Zenon DEF FDTypeOK
  <2> QED
    BY <2>4, <2>5, <2>6, Zenon DEF RulesHeld
<1>3. ASSUME NEW h \in Clients, ClientWork(h)
      PROVE  RulesHeld'
  <2>1. rules' = rules /\ \A r \in Rules : internal_fd'[r] = internal_fd[r]
    BY <1>3, ClientWorkFrame, Zenon
  <2> QED
    BY <2>1 DEF RulesHeld
<1>4. ASSUME NEW r \in Rules, NEW b \in BOOLEAN, SetInterest(r, b)
      PROVE  RulesHeld'
  BY <1>4, Zenon DEF SetInterest, RulesHeld, fdvars
<1>5. ASSUME NEW r \in Rules, NEW h \in Clients, NEW b \in BOOLEAN, AddRule(r, h, b)
      PROVE  RulesHeld'
  <2>1. /\ rules' = Append(rules, r)
        /\ internal_fd' = [internal_fd EXCEPT ![r] = internal_fd[h]]
        /\ internal_fd[h] # NoWrapper
    BY <1>5, Zenon DEF AddRule, Duplicate
  <2>2. \A i \in 1 .. Len(rules) : rules[i] # r
    BY <1>5 DEF AddRule, Range, RulesHeld
  <2>3. /\ rules' \in Seq(Rules)
        /\ Len(rules') = Len(rules) + 1
        /\ \A i \in 1 .. Len(rules) : rules'[i] = rules[i]
        /\ rules'[Len(rules) + 1] = r
    BY <2>1, AppendProps DEF RulesHeld
  <2>4. Len(rules) \in Nat /\ \A i \in 1 .. Len(rules) : rules[i] \in Rules
    BY DEF RulesHeld
  <2>5. ASSUME NEW i \in 1 .. Len(rules'), NEW j \in 1 .. Len(rules'), rules'[i] = rules'[j]
        PROVE  i = j
    BY <2>2, <2>3, <2>4, <2>5 DEF RulesHeld
  <2>6. ASSUME NEW i \in 1 .. Len(rules')
        PROVE  internal_fd'[rules'[i]] # NoWrapper
    <3>1. CASE i = Len(rules) + 1
      BY <1>0, <2>1, <2>3, <3>1, Zenon DEF FDTypeOK
    <3>2. CASE i \in 1 .. Len(rules)
      BY <1>0, <2>1, <2>2, <2>3, <2>4, <3>2, Zenon DEF FDTypeOK, RulesHeld
    <3> QED
      BY <2>3, <2>4, <3>1, <3>2
  <2> QED
    BY <2>3, <2>5, <2>6, Zenon DEF RulesHeld
<1>6. CASE UNCHANGED vars
  BY <1>6, Zenon DEF vars, fdvars, RulesHeld
<1> QED
  BY <1>1, <1>2, <1>3, <1>4, <1>5, <1>6, NextCases, Zenon

\* Leaving wait_next_event leaves well-typed variables behind.
LEMMA LeaveControl ==
  ASSUME ControlOK, RulesHeld, NEW res \in Results, Leave(res),
         UNCHANGED <<rules, interest>>, served' \subseteq Rules, cancelled' \subseteq Rules
  PROVE  ControlOK'
<1>1. Len(rules') \in Nat
  BY DEF RulesHeld
<1>2. pc' = "client" /\ pc' \in PCs
  BY Zenon DEF Leave, PCs, ClientCode
<1>3. pollfds' \in Seq(PollFd)
  BY DEF Leave
<1>4. it' \in 0 .. Len(rules') + 1 /\ idx' \in Nat
  BY <1>1 DEF Leave
<1>5. count_before' \in 0 .. CountModulus - 1 /\ services' \in Services
  BY ELAssumptions, FDAssumptions, NoServicesType DEF Leave
<1>6. something_to_poll' \in BOOLEAN /\ result' \in Results /\ interest' \in [Rules -> BOOLEAN]
  BY Zenon DEF Leave, ControlOK
<1> QED
  BY <1>2, <1>3, <1>4, <1>5, <1>6, Zenon DEF ControlOK

\* service_count() is a counter of the rule's wrapper.
LEMMA ServiceCountType ==
  ASSUME FDTypeOK, NEW r \in Rules, internal_fd[r] # NoWrapper
  PROVE  service_count(r) \in 0 .. CountModulus - 1
BY ELAssumptions, Zenon DEF service_count, RuleFd, FDTypeOK, FDWrapper

\* poll(2) fills in revents and nothing else.
LEMMA PolledType ==
  ASSUME FDTypeOK, pollfds \in Seq(PollFd),
         NEW status \in [FdNumbers -> SUBSET {"In", "Out", "HUP", "ERR"}]
  PROVE  /\ Polled(status) \in Seq(PollFd)
         /\ Len(Polled(status)) = Len(pollfds)
         /\ \A i \in 1 .. Len(pollfds) :
              /\ Polled(status)[i].fd = pollfds[i].fd
              /\ Polled(status)[i].events = pollfds[i].events
              /\ Polled(status)[i].rule = pollfds[i].rule
<1>1. ASSUME NEW p \in PollFd
      PROVE  Revents(p, status) \in SUBSET PollFlags
  BY <1>1, Zenon DEF Revents, PollFlags, PollFd
<1>2. ASSUME NEW p \in PollFd
      PROVE  /\ [p EXCEPT !.revents = Revents(p, status)] \in PollFd
             /\ [p EXCEPT !.revents = Revents(p, status)].fd = p.fd
             /\ [p EXCEPT !.revents = Revents(p, status)].events = p.events
             /\ [p EXCEPT !.revents = Revents(p, status)].rule = p.rule
  BY <1>1, Zenon DEF PollFd
<1>3. DOMAIN pollfds = 1 .. Len(pollfds) /\ Len(pollfds) \in Nat
      /\ \A i \in 1 .. Len(pollfds) : pollfds[i] \in PollFd
  OBVIOUS
<1>4. Polled(status) = [i \in 1 .. Len(pollfds) |->
                          [pollfds[i] EXCEPT !.revents = Revents(pollfds[i], status)]]
  BY <1>3, Zenon DEF Polled
<1>5. Polled(status) \in [1 .. Len(pollfds) -> PollFd]
  BY <1>2, <1>3, <1>4, Zenon
<1>6. Polled(status) \in Seq(PollFd) /\ Len(Polled(status)) = Len(pollfds)
  BY <1>3, <1>5
<1>7. ASSUME NEW i \in 1 .. Len(pollfds)
      PROVE  Polled(status)[i] = [pollfds[i] EXCEPT !.revents = Revents(pollfds[i], status)]
  BY <1>4, Zenon
<1> QED
  BY <1>2, <1>3, <1>6, <1>7, Zenon

\* The variables of wait_next_event keep their types and its iterator stays
\* within the list, whatever client code does to the list meanwhile.
LEMMA ControlStep ==
  ASSUME ELTypeOK, [Next]_vars
  PROVE  ControlOK'
<1> USE TypeParts
<1>0. Len(rules) \in Nat /\ \A i \in 1 .. Len(rules) : rules[i] \in Rules
  BY DEF RulesHeld
<1>1. CASE WaitNextEvent
  BY <1>0, <1>1 DEF WaitNextEvent, ControlOK, PCs, Results
<1>2. CASE SetupCancel
  BY <1>0, <1>2 DEF SetupCancel, ControlOK, locals, PCs, ClientCode
<1>3. CASE SetupPollfd
  <2> DEFINE r == rules[it]
  <2>1. r \in Rules /\ internal_fd[r] \in Wrappers
    BY <1>0, <1>3, ELAssumptions DEF SetupPollfd, ControlOK, RulesHeld, FDTypeOK
  <2>2. [fd |-> RuleFd(r).fd,
         events |-> IF interest[r] THEN Direction[r] ELSE "none",
         revents |-> {},
         rule |-> r] \in PollFd
    BY <2>1, ELAssumptions, Zenon DEF RuleFd, PollFd, PollEvents, FDTypeOK, FDWrapper
  <2>3. pollfds' \in Seq(PollFd)
    BY <1>3, <2>2, AppendProps DEF SetupPollfd, ControlOK
  <2>4. something_to_poll' \in BOOLEAN
    BY <1>3, Zenon DEF SetupPollfd, ControlOK
  <2> QED
    BY <1>0, <1>3, <2>3, <2>4 DEF SetupPollfd, ControlOK
<1>4. CASE SetupExit
  BY <1>4, LeaveControl, Zenon DEF SetupExit, ControlOK, Results
<1>5. CASE SetupDone
  BY <1>0, <1>5, Zenon DEF SetupDone, ControlOK, locals, PCs
<1>6. ASSUME NEW status \in [FdNumbers -> SUBSET {"In", "Out", "HUP", "ERR"}], Poll(status)
      PROVE  ControlOK'
  <2>1. CASE Leave("Timeout")
    BY <1>6, <2>1, LeaveControl, Zenon DEF Poll, ControlOK, Results
  <2>2. CASE pollfds' = Polled(status) /\ EnterScan /\ UNCHANGED <<result, services>>
    BY <1>0, <1>6, <2>2, PolledType DEF Poll, EnterScan, ControlOK, PCs
  <2> QED
    BY <1>6, <2>1, <2>2, Zenon DEF Poll
<1>7. ASSUME NEW error \in PollFailures, PollFails(error)
      PROVE  ControlOK'
  <2>1. CASE Leave("Exit")
    BY <1>7, <2>1, LeaveControl, Zenon DEF PollFails, ControlOK, Results
  <2>2. CASE EnterScan /\ UNCHANGED <<pollfds, result, services>>
    BY <1>0, <1>7, <2>2 DEF PollFails, EnterScan, ControlOK, PCs
  <2> QED
    BY <1>7, <2>1, <2>2, Zenon DEF PollFails
<1>8. CASE ScanError
  BY <1>8, LeaveControl, Zenon DEF ScanError, ControlOK, Results
<1>9. CASE ScanCancel
  BY <1>0, <1>9 DEF ScanCancel, ControlOK, locals, PCs, ClientCode
<1>10. CASE ScanCallback
  <2>1. it \in 1 .. Len(rules) /\ rules[it] \in Rules /\ internal_fd[rules[it]] # NoWrapper
    BY <1>0, <1>10, SMTT(30) DEF ScanCallback, ControlOK, RulesHeld
  <2>2. count_before' \in 0 .. CountModulus - 1
    BY <1>10, <2>1, ServiceCountType, Zenon DEF ScanCallback
  <2>3. services' \in Services
    BY <1>10, NoServicesType, Zenon DEF ScanCallback
  <2> QED
    BY <1>10, <2>1, <2>2, <2>3, Zenon DEF ScanCallback, ControlOK, PCs, ClientCode
<1>11. CASE ScanSkip
  BY <1>0, <1>11 DEF ScanSkip, ControlOK
<1>12. CASE ScanDone
  BY <1>12, LeaveControl, Zenon DEF ScanDone, ControlOK, Results
<1>13. CASE SetupCancelReturn \/ ScanCancelReturn
  <2>1. it \in 1 .. Len(rules) /\ rules[it] \in Rules
    BY <1>0, <1>13, Zenon DEF SetupCancelReturn, ScanCancelReturn, ControlOK
  <2>2. Erase(rules[it])
    BY <1>13, Zenon DEF SetupCancelReturn, ScanCancelReturn
  <2>3. Len(rules') = Len(rules) - 1
    BY <2>1, <2>2, RemoveAtProperties, Zenon DEF Erase, RulesHeld
  <2>4. interest' \in [Rules -> BOOLEAN] /\ cancelled' \subseteq Rules
    BY <2>1, <2>2, Zenon DEF Erase, ControlOK
  <2>5. it' \in 1 .. Len(rules') + 1 /\ pc' \in {"setup", "scan"} /\ idx' \in Nat
    BY <1>0, <1>13, <2>1, <2>3 DEF SetupCancelReturn, ScanCancelReturn, ControlOK, locals
  <2>6. /\ UNCHANGED <<pollfds, something_to_poll, count_before, result, services, served>>
    BY <1>13, Zenon DEF SetupCancelReturn, ScanCancelReturn, locals
  <2> QED
    BY <2>4, <2>5, <2>6 DEF ControlOK, PCs
<1>14. CASE CallbackReturn
  <2>1. CASE Leave("BusyWait")
    BY <1>14, <2>1, LeaveControl, Zenon DEF CallbackReturn, ControlOK, Results
  <2>2. CASE ~Leave("BusyWait")
    BY <1>0, <1>14, <2>2, NoServicesType, FDAssumptions DEF CallbackReturn, ControlOK, PCs
  <2> QED
    BY <2>1, <2>2, Zenon
<1>15. CASE ClientThrows
  BY <1>15, LeaveControl, Zenon DEF ClientThrows, ControlOK, Results
<1>16. ASSUME NEW h \in Clients, ClientWork(h)
       PROVE  ControlOK'
  <2>1. UNCHANGED <<loopvars, rules, interest>>
    BY <1>16, ClientWorkFrame, Zenon
  <2>2. ASSUME NEW dirs, NEW k \in Nat, NEW outcome \in {"returned", "threw"},
               Serve(h, dirs, k, outcome)
        PROVE  services' \in Services
    <3>1. services \in Services
      BY Zenon DEF ControlOK
    <3>2. services.counted \in Nat /\ services.outcomes \subseteq {"returned", "threw"}
      BY <3>1, ELAssumptions DEF Services
    <3>3. CASE UNCHANGED services
      BY <3>1, <3>3, Zenon
    <3>4. CASE /\ services.counted + k <= MaxServices
               /\ services' = [counted |-> services.counted + k,
                               outcomes |-> services.outcomes \cup {outcome}]
      <4>1. services.counted + k \in 0 .. MaxServices
        BY <2>2, <3>2, <3>4, ELAssumptions
      <4>2. services.outcomes \cup {outcome} \subseteq {"returned", "threw"}
        BY <2>2, <3>2, Zenon
      <4> QED
        BY <3>4, <4>1, <4>2, Zenon DEF Services
    <3> QED
      BY <2>2, <3>3, <3>4, Zenon DEF Serve
  <2>3. services' \in Services
    <3>1. ASSUME NEW limit, NEW n, ClientRead(h, limit, n)
          PROVE  services' \in Services
      BY <2>2, <3>1, Zenon DEF ClientRead
    <3>2. ASSUME NEW k \in 1 .. MaxWritevs, ClientWrite(h, k)
          PROVE  services' \in Services
      <4>1. k \in Nat
        BY FDAssumptions
      <4> QED
        BY <2>2, <3>2, <4>1, Zenon DEF ClientWrite
    <3>3. ASSUME NEW dirs, ClientServes(h, dirs)
          PROVE  services' \in Services
      BY <2>2, <3>3, Zenon DEF ClientServes
    <3>4. ASSUME NEW dir, NEW k \in 0 .. 1, ClientServiceThrows(h, dir, k)
          PROVE  services' \in Services
      BY <2>2, <3>4 DEF ClientServiceThrows
    <3>5. ASSUME NEW w, ClientConstruct(h, w)
          PROVE  services' \in Services
      BY <3>5, Zenon DEF ClientConstruct, ControlOK
    <3>6. CASE ClientClose(h) \/ ClientDestroy(h)
      BY <3>6, Zenon DEF ClientClose, ClientDestroy, ControlOK
    <3> QED
      BY <1>16, <3>1, <3>2, <3>3, <3>4, <3>5, <3>6, Zenon DEF ClientWork
  <2> QED
    BY <2>1, <2>3, Zenon DEF ControlOK, loopvars, locals
<1>17. ASSUME NEW r \in Rules, NEW b \in BOOLEAN, SetInterest(r, b)
       PROVE  ControlOK'
  BY <1>17, Zenon DEF SetInterest, ControlOK, loopvars, locals
<1>18. ASSUME NEW r \in Rules, NEW h \in Clients, NEW b \in BOOLEAN, AddRule(r, h, b)
       PROVE  ControlOK'
  <2>1. Len(rules') = Len(rules) + 1
    BY <1>18, AppendProps DEF AddRule, RulesHeld
  <2>2. interest' \in [Rules -> BOOLEAN] /\ UNCHANGED <<loopvars, services>>
    BY <1>18, Zenon DEF AddRule, ControlOK
  <2> QED
    BY <1>0, <2>1, <2>2 DEF ControlOK, loopvars, locals
<1>19. CASE UNCHANGED vars
  BY <1>19, Zenon DEF vars, ControlOK, locals
<1>20. Quiet => ControlOK'
  BY <1>1, <1>2, <1>3, <1>4, <1>5, <1>6, <1>7, <1>8, <1>9, <1>10, <1>11, <1>12, <1>14, <1>15,
     Zenon DEF Quiet
<1> QED
  BY <1>13, <1>16, <1>17, <1>18, <1>19, <1>20, NextCases, Zenon

\* The state of EventLoop is always well typed; in particular a listed rule
\* holds its descriptor and the loops' iterator never leaves the list.
THEOREM ELTypeCorrect == Spec => []ELTypeOK
<1>1. Init => ELTypeOK
  <2> SUFFICES ASSUME Init PROVE ELTypeOK
    BY Zenon
  <2>1. FDTypeOK
    BY DeadWrapperType, Zenon DEF Init, FDInit, FDTypeOK
  <2>2. RulesHeld
    BY DEF Init, RulesHeld
  <2>3. ControlOK
    <3>1. Len(rules) = 0 /\ pollfds \in Seq(PollFd)
      BY DEF Init
    <3>2. count_before \in 0 .. CountModulus - 1 /\ services \in Services
      BY NoServicesType, FDAssumptions DEF Init
    <3>3. pc = "client" /\ pc \in PCs /\ result \in Results
      BY Zenon DEF Init, PCs, ClientCode, Results
    <3>4. interest \in [Rules -> BOOLEAN] /\ something_to_poll \in BOOLEAN
      BY Zenon DEF Init
    <3>5. it \in 0 .. Len(rules) + 1 /\ idx \in Nat
      BY <3>1 DEF Init
    <3>6. served \subseteq Rules /\ cancelled \subseteq Rules
      BY Zenon DEF Init
    <3>7. pc \notin {"cancel_setup", "callback", "cancel_scan"}
      BY <3>3, Zenon
    <3> QED
      BY <3>1, <3>2, <3>3, <3>4, <3>5, <3>6, <3>7, Zenon DEF ControlOK
  <2> QED
    BY <2>1, <2>2, <2>3, TypeParts, Zenon
<1>2. ELTypeOK /\ [Next]_vars => ELTypeOK'
  <2> SUFFICES ASSUME ELTypeOK, [Next]_vars PROVE ELTypeOK'
    BY Zenon
  <2>1. FDTypeOK'
    BY StepOfFD, TypeStep, TypeParts, Zenon
  <2> QED
    BY <2>1, RulesHeldStep, ControlStep, Zenon DEF ELTypeOK, RulesHeld, ControlOK
<1> QED
  BY <1>1, <1>2, PTL DEF Spec

\* EventLoop is a client of FileDescriptor like any other: it implements that
\* specification, so its theorems hold of the loop's descriptors.
THEOREM ELUsesFileDescriptor == Spec => UsesFileDescriptor
<1>1. Init => FDInit
  BY Zenon DEF Init
<1>2. ELTypeOK /\ [Next]_vars => [FDNext]_fdvars
  BY StepOfFD, Zenon
<1> QED
  BY <1>1, <1>2, ELTypeCorrect, PTL DEF Spec, UsesFileDescriptor, FDSpec

\* So no descriptor leaks, whatever is erased, thrown or closed in callbacks.
THEOREM ELNoLeak == Spec => []NoLeakedDescriptor
BY FDNoLeak, ELUsesFileDescriptor, PTL DEF UsesFileDescriptor

\* And with careful clients a rule's descriptor is its own until it is closed,
\* and those of the rest of the process are left alone.
THEOREM ELOwnership ==
  ASSUME Careful
  PROVE  Spec => []LiveWrapperOwnsItsNumber /\ ForeignDescriptorsUntouched
<1>1. FDSpec => []LiveWrapperOwnsItsNumber
  BY FDOwnership
<1>2. FDSpec => ForeignDescriptorsUntouched
  BY FDForeignUntouched
<1> QED
  BY <1>1, <1>2, ELUsesFileDescriptor, PTL DEF UsesFileDescriptor

-----------------------------------------------------------------------------
(***************************************************************************)
(* The two loops stay in step.  LoopsAligned is inductive together with    *)
(* the types.                                                              *)
(***************************************************************************)

\* Every step keeps the pollfds and the rules in step.
LEMMA AlignedStep ==
  ASSUME ELTypeOK, LoopsAligned, [Next]_vars
  PROVE  LoopsAligned'
<1> USE TypeParts
<1>0. /\ Len(rules) \in Nat /\ Len(pollfds) \in Nat
      /\ it \in Nat /\ idx \in Nat
      /\ it <= Len(rules) + 1
      /\ rules \in Seq(Rules) /\ pollfds \in Seq(PollFd)
      /\ pc \in {"cancel_setup", "callback", "cancel_scan"} => it \in 1 .. Len(rules)
  BY DEF RulesHeld, ControlOK
<1>1. ASSUME NEW res, Leave(res)
      PROVE  LoopsAligned'
  BY <1>1, Zenon DEF Leave, LoopsAligned
<1>2. CASE WaitNextEvent
  <2>1. pollfds = <<>> /\ pollfds' = pollfds /\ it' = 1 /\ pc' = "setup" /\ rules' = rules
    BY <1>2, Zenon DEF WaitNextEvent, LoopsAligned
  <2> QED
    BY <2>1, SMTT(30) DEF LoopsAligned
<1>3. CASE SetupCancel
  BY <1>3, Zenon DEF SetupCancel, LoopsAligned, locals
<1>4. CASE SetupPollfd
  <2>1. PICK p \in PollFd : pollfds' = Append(pollfds, p) /\ p.rule = rules[it]
    <3> DEFINE r == rules[it]
               q == [fd |-> RuleFd(r).fd,
                     events |-> IF interest[r] THEN Direction[r] ELSE "none",
                     revents |-> {},
                     rule |-> r]
    <3>1. it \in 1 .. Len(rules)
      BY <1>0, <1>4 DEF SetupPollfd, ControlOK
    <3>2. r \in Rules /\ internal_fd[r] \in Wrappers
      BY <1>0, <3>1, ELAssumptions DEF RulesHeld, FDTypeOK
    <3>3. q \in PollFd
      BY <3>2, ELAssumptions, Zenon DEF RuleFd, PollFd, PollEvents, FDTypeOK, FDWrapper
    <3>4. pollfds' = Append(pollfds, q) /\ q.rule = rules[it]
      BY <1>4, Zenon DEF SetupPollfd
    <3> QED
      BY <3>3, <3>4, Zenon
  <2>2. /\ Len(pollfds') = Len(pollfds) + 1
        /\ \A i \in 1 .. Len(pollfds) : pollfds'[i] = pollfds[i]
        /\ pollfds'[Len(pollfds) + 1].rule = rules[it]
    BY <1>0, <2>1, AppendProps
  <2>3. /\ pc = "setup" /\ pc' = "setup" /\ it' = it + 1 /\ rules' = rules
    BY <1>4, Zenon DEF SetupPollfd
  <2>4. /\ Len(pollfds) = it - 1
        /\ \A i \in 1 .. Len(pollfds) : pollfds[i].rule = rules[i]
    BY <2>3, Zenon DEF LoopsAligned
  <2>5. ASSUME NEW i \in 1 .. Len(pollfds')
        PROVE  pollfds'[i].rule = rules'[i]
    BY <1>0, <2>2, <2>3, <2>4, SMTT(30)
  <2> QED
    BY <1>0, <2>2, <2>3, <2>4, <2>5, SMTT(30) DEF LoopsAligned
<1>5. CASE SetupDone
  <2>1. pc' = "poll" /\ UNCHANGED <<rules, pollfds>> /\ it > Len(rules) /\ pc = "setup"
    BY <1>5, Zenon DEF SetupDone, locals
  <2> QED
    BY <1>0, <2>1 DEF LoopsAligned
<1>6. ASSUME NEW status \in [FdNumbers -> SUBSET {"In", "Out", "HUP", "ERR"}], Poll(status)
      PROVE  LoopsAligned'
  <2>1. CASE Leave("Timeout")
    BY <1>1, <2>1, Zenon
  <2>2. CASE pollfds' = Polled(status) /\ EnterScan
    <3>1. /\ Len(pollfds') = Len(pollfds)
          /\ \A i \in 1 .. Len(pollfds) : pollfds'[i].rule = pollfds[i].rule
      BY <1>0, <2>2, PolledType, Zenon
    <3>2. pc = "poll" /\ pc' = "scan" /\ it' = 1 /\ idx' = 1 /\ rules' = rules
      BY <1>6, <2>2, Zenon DEF Poll, EnterScan
    <3>3. /\ Len(pollfds) = Len(rules)
          /\ \A i \in 1 .. Len(pollfds) : pollfds[i].rule = rules[i]
      BY <3>2, Zenon DEF LoopsAligned
    <3>4. ASSUME NEW i \in idx' .. Len(pollfds')
          PROVE  pollfds'[i].rule = rules'[it' + (i - idx')]
      <4>1. i \in 1 .. Len(pollfds) /\ it' + (i - idx') = i
        BY <1>0, <3>1, <3>2
      <4> QED
        BY <3>1, <3>2, <3>3, <4>1, Zenon
    <3> QED
      BY <1>0, <3>1, <3>2, <3>3, <3>4 DEF LoopsAligned
  <2> QED
    BY <1>6, <2>1, <2>2, Zenon DEF Poll
<1>7. ASSUME NEW error \in PollFailures, PollFails(error)
      PROVE  LoopsAligned'
  <2>1. CASE Leave("Exit")
    BY <1>1, <2>1, Zenon
  <2>2. CASE EnterScan /\ UNCHANGED pollfds
    <3>1. /\ pc = "poll" /\ pc' = "scan" /\ it' = 1 /\ idx' = 1
          /\ UNCHANGED <<rules, pollfds>>
      BY <1>7, <2>2, Zenon DEF PollFails, EnterScan
    <3>2. /\ Len(pollfds) = Len(rules)
          /\ \A i \in 1 .. Len(pollfds) : pollfds[i].rule = rules[i]
      BY <3>1, Zenon DEF LoopsAligned
    <3>3. ASSUME NEW i \in idx' .. Len(pollfds')
          PROVE  pollfds'[i].rule = rules'[it' + (i - idx')]
      <4>1. i \in 1 .. Len(pollfds) /\ it' + (i - idx') = i
        BY <1>0, <3>1
      <4> QED
        BY <3>1, <3>2, <4>1, Zenon
    <3> QED
      BY <1>0, <3>1, <3>2, <3>3, SMTT(30) DEF LoopsAligned
  <2> QED
    BY <1>7, <2>1, <2>2, Zenon DEF PollFails
<1>8. CASE ScanCancel \/ ScanCallback
  <2>1. /\ pc = "scan" /\ pc' \in {"cancel_scan", "callback"}
        /\ UNCHANGED <<rules, pollfds, it, idx>>
    BY <1>8, Zenon DEF ScanCancel, ScanCallback, locals
  <2> QED
    BY <2>1, Zenon DEF LoopsAligned
<1>9. ASSUME pc \in {"scan", "callback"}, pc' = "scan", it' = it + 1, idx' = idx + 1,
             UNCHANGED <<rules, pollfds>>
      PROVE  LoopsAligned'
  <2>1. ASSUME NEW i \in idx' .. Len(pollfds')
        PROVE  pollfds'[i].rule = rules'[it' + (i - idx')]
    <3>1. i \in idx .. Len(pollfds) /\ it' + (i - idx') = it + (i - idx)
      BY <1>0, <1>9
    <3> QED
      BY <1>9, <3>1, Zenon DEF LoopsAligned
  <2> QED
    BY <1>0, <1>9, <2>1 DEF LoopsAligned
<1>10. CASE ScanSkip
  BY <1>9, <1>10, Zenon DEF ScanSkip
<1>11. CASE CallbackReturn
  BY <1>1, <1>9, <1>11, Zenon DEF CallbackReturn
<1>12. CASE SetupCancelReturn
  <2>1. /\ pc = "cancel_setup" /\ pc' = "setup" /\ UNCHANGED <<it, pollfds>>
        /\ rules' = RemoveAt(rules, it) /\ it \in 1 .. Len(rules)
    BY <1>0, <1>12, Zenon DEF SetupCancelReturn, Erase, locals
  <2>2. \A j \in 1 .. it - 1 : rules'[j] = rules[j]
    BY <1>0, <2>1, RemoveAtProperties, SMTT(30)
  <2> QED
    BY <1>0, <2>1, <2>2, Zenon DEF LoopsAligned
<1>13. CASE ScanCancelReturn
  <2>1. /\ pc = "cancel_scan" /\ pc' = "scan" /\ UNCHANGED <<it, pollfds>> /\ idx' = idx + 1
        /\ rules' = RemoveAt(rules, it) /\ it \in 1 .. Len(rules)
    BY <1>0, <1>13, Zenon DEF ScanCancelReturn, Erase
  <2>2. /\ Len(rules') = Len(rules) - 1
        /\ \A j \in it .. Len(rules) - 1 : rules'[j] = rules[j + 1]
    BY <1>0, <2>1, RemoveAtProperties, SMTT(30)
  <2>3. /\ idx >= 1
        /\ Len(pollfds) - idx <= Len(rules) - it
        /\ ~CallbackMayAdd => Len(pollfds) - idx = Len(rules) - it
        /\ \A i \in idx .. Len(pollfds) : pollfds[i].rule = rules[it + (i - idx)]
    BY <2>1, Zenon DEF LoopsAligned
  <2>4. ASSUME NEW i \in idx' .. Len(pollfds')
        PROVE  pollfds'[i].rule = rules'[it' + (i - idx')]
    <3> DEFINE j == it' + (i - idx')
    <3>1. i \in idx .. Len(pollfds) /\ j + 1 = it + (i - idx) /\ j \in it .. Len(rules) - 1
      <4>1. it \in Nat /\ idx \in Nat /\ Len(pollfds) \in Nat /\ Len(rules) \in Nat
        BY <1>0, Zenon DEF RulesHeld, ControlOK
      <4>2. i \in idx + 1 .. Len(pollfds) /\ j = it + (i - (idx + 1))
        BY <2>1, Zenon
      <4>3. Len(pollfds) - idx <= Len(rules) - it
        BY <2>3, Zenon
      <4> QED
        BY <4>1, <4>2, <4>3
    <3>2. pollfds[i].rule = rules[j + 1]
      BY <2>3, <3>1, Zenon
    <3>3. rules'[j] = rules[j + 1]
      BY <2>2, <3>1, Zenon
    <3> QED
      BY <2>1, <3>2, <3>3, Zenon
  <2>5. /\ idx' >= 1
        /\ Len(pollfds') - idx' <= Len(rules') - it'
        /\ ~CallbackMayAdd => Len(pollfds') - idx' = Len(rules') - it'
    BY <1>0, <2>1, <2>2, <2>3
  <2> QED
    BY <2>1, <2>4, <2>5, Zenon DEF LoopsAligned
<1>14. ASSUME UNCHANGED <<loopvars, rules>>
       PROVE  LoopsAligned'
  BY <1>14, Zenon DEF LoopsAligned, loopvars, locals
<1>15. ASSUME NEW h \in Clients, ClientWork(h)
       PROVE  LoopsAligned'
  BY <1>14, <1>15, ClientWorkFrame, Zenon
<1>16. ASSUME NEW r \in Rules, NEW b \in BOOLEAN, SetInterest(r, b)
       PROVE  LoopsAligned'
  BY <1>14, <1>16, Zenon DEF SetInterest
<1>17. ASSUME NEW r \in Rules, NEW h \in Clients, NEW b \in BOOLEAN, AddRule(r, h, b)
       PROVE  LoopsAligned'
  <2>1. /\ UNCHANGED <<pc, it, idx, pollfds>>
        /\ pc \in {"client", "cancel_setup"} \/ (CallbackMayAdd /\ pc \in ClientCode)
    BY <1>17, Zenon DEF AddRule, loopvars, locals
  <2>2. /\ Len(rules') = Len(rules) + 1
        /\ \A j \in 1 .. Len(rules) : rules'[j] = rules[j]
    BY <1>0, <1>17, AppendProps DEF AddRule
  <2>3. CASE pc = "client"
    BY <2>1, <2>3, Zenon DEF LoopsAligned
  <2>4. CASE pc = "cancel_setup"
    BY <1>0, <2>1, <2>2, <2>4, SMTT(30) DEF LoopsAligned
  <2>5. CASE CallbackMayAdd /\ pc \in {"callback", "cancel_scan"}
    <3>1. /\ idx >= 1 /\ it >= 1
          /\ Len(pollfds) - idx <= Len(rules) - it
          /\ \A i \in idx .. Len(pollfds) : pollfds[i].rule = rules[it + (i - idx)]
      BY <1>0, <2>5, SMTT(30) DEF LoopsAligned
    <3>2. ASSUME NEW i \in idx' .. Len(pollfds')
          PROVE  pollfds'[i].rule = rules'[it' + (i - idx')]
      <4>1. i \in idx .. Len(pollfds) /\ it + (i - idx) \in 1 .. Len(rules)
        BY <1>0, <2>1, <3>1
      <4> QED
        BY <2>1, <2>2, <3>1, <4>1, Zenon
    <3>3. Len(pollfds') - idx' <= Len(rules') - it'
      BY <1>0, <2>1, <2>2, <3>1
    <3> QED
      BY <2>1, <2>5, <3>1, <3>2, <3>3, Zenon DEF LoopsAligned
  <2> QED
    BY <2>1, <2>3, <2>4, <2>5, Zenon DEF ClientCode
<1>18. CASE UNCHANGED vars
  BY <1>14, <1>18, Zenon DEF vars, loopvars
<1>19. SetupExit \/ ScanError \/ ScanDone \/ ClientThrows => LoopsAligned'
  BY <1>1, Zenon DEF SetupExit, ScanError, ScanDone, ClientThrows
<1>20. Quiet => LoopsAligned'
  BY <1>2, <1>3, <1>4, <1>5, <1>6, <1>7, <1>8, <1>10, <1>11, <1>19, Zenon DEF Quiet
<1> QED
  BY <1>12, <1>13, <1>15, <1>16, <1>17, <1>18, <1>20, NextCases, Zenon

\* Erasing rules in both loops and adding rules from client code never makes
\* the second loop look at the pollfd of another rule.
THEOREM ELLoopsAligned == Spec => []LoopsAligned
<1>1. Init => LoopsAligned
  BY Zenon DEF Init, LoopsAligned
<1>2. ELTypeOK /\ LoopsAligned /\ [Next]_vars => LoopsAligned'
  BY AlignedStep, Zenon
<1> QED
  BY <1>1, <1>2, ELTypeCorrect, PTL DEF Spec

-----------------------------------------------------------------------------
(***************************************************************************)
(* What EventLoop does with poll(2), proved from the alignment of the two  *)
(* loops: what it asks for, what it polls, and when it calls back.         *)
(***************************************************************************)

\* A pollfd asks for nothing or for the event its rule is registered for.
EventsAsked ==
  \A i \in 1 .. Len(pollfds) : pollfds[i].events \in {"none", Direction[pollfds[i].rule]}

\* How a step changes the vector: not at all, to nothing, by one entry for the
\* rule at `it', or as poll(2) does.
LEMMA PollfdsStep ==
  ASSUME ELTypeOK, [Next]_vars
  PROVE  \/ pollfds' = pollfds
         \/ pollfds' = <<>>
         \/ SetupPollfd
         \/ \E status \in [FdNumbers -> SUBSET {"In", "Out", "HUP", "ERR"}] :
              Poll(status) /\ pollfds' = Polled(status)
<1>1. ASSUME NEW status \in [FdNumbers -> SUBSET {"In", "Out", "HUP", "ERR"}], Poll(status)
      PROVE  pollfds' = <<>> \/ pollfds' = Polled(status)
  BY <1>1, Zenon DEF Poll, Leave
<1>2. ASSUME NEW error \in PollFailures, PollFails(error)
      PROVE  pollfds' = pollfds \/ pollfds' = <<>>
  BY <1>2, Zenon DEF PollFails, Leave
<1>3. WaitNextEvent \/ SetupCancel \/ SetupDone \/ ScanCancel \/ ScanCallback \/ ScanSkip
        => pollfds' = pollfds
  BY Zenon DEF WaitNextEvent, SetupCancel, SetupDone, ScanCancel, ScanCallback, ScanSkip, locals
<1>4. SetupExit \/ ScanError \/ ScanDone \/ ClientThrows => pollfds' = <<>>
  BY Zenon DEF SetupExit, ScanError, ScanDone, ClientThrows, Leave
<1>5. CallbackReturn => pollfds' = pollfds \/ pollfds' = <<>>
  BY Zenon DEF CallbackReturn, Leave
<1>6. SetupCancelReturn \/ ScanCancelReturn => pollfds' = pollfds
  BY Zenon DEF SetupCancelReturn, ScanCancelReturn, locals
<1>7. ASSUME NEW h \in Clients, ClientWork(h)
      PROVE  pollfds' = pollfds
  BY <1>7, ClientWorkFrame, TypeParts, Zenon DEF loopvars, locals
<1>8. ASSUME NEW r \in Rules, NEW b \in BOOLEAN, SetInterest(r, b)
      PROVE  pollfds' = pollfds
  BY <1>8, Zenon DEF SetInterest, loopvars, locals
<1>9. ASSUME NEW r \in Rules, NEW h \in Clients, NEW b \in BOOLEAN, AddRule(r, h, b)
      PROVE  pollfds' = pollfds
  BY <1>9, Zenon DEF AddRule, loopvars, locals
<1>10. CASE UNCHANGED vars
  BY <1>10, Zenon DEF vars, locals
<1>11. Quiet => \/ pollfds' = pollfds
                \/ pollfds' = <<>>
                \/ SetupPollfd
                \/ \E status \in [FdNumbers -> SUBSET {"In", "Out", "HUP", "ERR"}] :
                     Poll(status) /\ pollfds' = Polled(status)
  BY <1>1, <1>2, <1>3, <1>4, <1>5, Zenon DEF Quiet
<1> QED
  BY <1>6, <1>7, <1>8, <1>9, <1>10, <1>11, NextCases, Zenon

\* The entry that the first loop adds.
LEMMA SetupPollfdAdds ==
  ASSUME ELTypeOK, SetupPollfd
  PROVE  /\ it \in 1 .. Len(rules) /\ rules[it] \in Rules
         /\ Len(pollfds') = Len(pollfds) + 1
         /\ \A i \in 1 .. Len(pollfds) : pollfds'[i] = pollfds[i]
         /\ pollfds'[Len(pollfds) + 1].rule = rules[it]
         /\ pollfds'[Len(pollfds) + 1].fd = RuleFd(rules[it]).fd
         /\ pollfds'[Len(pollfds) + 1].events \in {"none", Direction[rules[it]]}
         /\ ~RuleFd(rules[it]).closed
<1> USE TypeParts
<1> DEFINE r == rules[it]
           q == [fd |-> RuleFd(r).fd,
                 events |-> IF interest[r] THEN Direction[r] ELSE "none",
                 revents |-> {},
                 rule |-> r]
<1>1. it \in 1 .. Len(rules)
  BY DEF SetupPollfd, ControlOK
<1>2. r \in Rules /\ internal_fd[r] \in Wrappers
  BY <1>1, ELAssumptions DEF RulesHeld, FDTypeOK
<1>3. q \in PollFd
  BY <1>2, ELAssumptions, Zenon DEF RuleFd, PollFd, PollEvents, FDTypeOK, FDWrapper
<1>4. pollfds' = Append(pollfds, q) /\ pollfds \in Seq(PollFd)
  BY Zenon DEF SetupPollfd, ControlOK
<1>5. /\ Len(pollfds') = Len(pollfds) + 1
      /\ \A i \in 1 .. Len(pollfds) : pollfds'[i] = pollfds[i]
      /\ pollfds'[Len(pollfds) + 1] = q
  BY <1>3, <1>4, AppendProps, SMTT(30)
<1>6. q.rule = r /\ q.fd = RuleFd(r).fd /\ q.events \in {"none", Direction[r]}
  BY Zenon
<1>7. ~RuleFd(r).closed
  BY Zenon DEF SetupPollfd, Defunct
<1> QED
  BY <1>1, <1>2, <1>5, <1>6, <1>7, Zenon

\* The loop only ever asks for the events its rules are registered for.
LEMMA EventsAskedStep ==
  ASSUME ELTypeOK, EventsAsked, [Next]_vars
  PROVE  EventsAsked'
<1>1. CASE pollfds' = pollfds
  BY <1>1, Zenon DEF EventsAsked
<1>2. CASE pollfds' = <<>>
  BY <1>2 DEF EventsAsked
<1>3. CASE SetupPollfd
  <2>1. pollfds \in Seq(PollFd)
    BY Zenon DEF ELTypeOK
  <2>2. ASSUME NEW i \in 1 .. Len(pollfds')
        PROVE  pollfds'[i].events \in {"none", Direction[pollfds'[i].rule]}
    <3>1. CASE i \in 1 .. Len(pollfds)
      BY <1>3, <3>1, SetupPollfdAdds, Zenon DEF EventsAsked
    <3>2. CASE i = Len(pollfds) + 1
      BY <1>3, <3>2, SetupPollfdAdds, Zenon
    <3> QED
      BY <1>3, <2>1, <3>1, <3>2, SetupPollfdAdds, SMTT(30)
  <2> QED
    BY <2>2, Zenon DEF EventsAsked
<1>4. ASSUME NEW status \in [FdNumbers -> SUBSET {"In", "Out", "HUP", "ERR"}],
             pollfds' = Polled(status)
      PROVE  EventsAsked'
  <2>1. FDTypeOK /\ pollfds \in Seq(PollFd)
    BY Zenon DEF ELTypeOK
  <2>2. /\ Len(pollfds') = Len(pollfds)
        /\ \A i \in 1 .. Len(pollfds) :
             /\ pollfds'[i].events = pollfds[i].events
             /\ pollfds'[i].rule = pollfds[i].rule
    BY <1>4, <2>1, PolledType, Zenon
  <2> QED
    BY <2>2, Zenon DEF EventsAsked
<1> QED
  BY <1>1, <1>2, <1>3, <1>4, PollfdsStep, Zenon

\* Entering a callback establishes the property.
LEMMA CallbackEntered ==
  ASSUME ~CallbackMayAdd, ELTypeOK, LoopsAligned, EventsAsked, ScanCallback
  PROVE  CallbackWhenReady'
<1>1. /\ pc = "scan" /\ it <= Len(rules)
      /\ UNCHANGED <<rules, it, idx, pollfds>>
  BY Zenon DEF ScanCallback
<1>2. /\ pollfds \in Seq(PollFd) /\ rules \in Seq(Rules) /\ it \in Nat /\ idx \in Nat
  BY DEF ELTypeOK
<1>3. idx \in 1 .. Len(pollfds) /\ pollfds[idx].rule = rules[it]
  <2>1. idx >= 1 /\ Len(pollfds) - idx = Len(rules) - it
    BY <1>1, Zenon DEF LoopsAligned
  <2>2. idx \in 1 .. Len(pollfds)
    BY <1>1, <1>2, <2>1
  <2>3. pollfds[idx].rule = rules[it + (idx - idx)]
    BY <1>1, <1>2, <2>2 DEF LoopsAligned
  <2>4. it + (idx - idx) = it
    BY <1>2
  <2> QED
    BY <2>2, <2>3, <2>4, Zenon
<1>4. poll_ready(pollfds[idx])
  BY <1>3, SMTT(30) DEF ScanCallback, PollfdsAt
<1>5. pollfds[idx].events # "none"
  <2>1. pollfds[idx] \in PollFd
    BY <1>2, <1>3
  <2>2. pollfds[idx].revents \subseteq PollFlags
    BY <2>1, Zenon DEF PollFd
  <2> QED
    BY <1>4, <2>2, Zenon DEF poll_ready, PollFlags
<1>6. Direction[rules[it]] \in pollfds[idx].revents
  BY <1>3, <1>4, <1>5, Zenon DEF EventsAsked, poll_ready
<1> QED
  BY <1>1, <1>3, <1>6 DEF CallbackWhenReady

\* Nothing that happens inside a callback takes its reason away.
LEMMA CallbackStep ==
  ASSUME ~CallbackMayAdd, ELTypeOK, LoopsAligned, EventsAsked, CallbackWhenReady, [Next]_vars
  PROVE  CallbackWhenReady'
<1>1. ASSUME UNCHANGED <<loopvars, rules>>
      PROVE  CallbackWhenReady'
  BY <1>1, Zenon DEF CallbackWhenReady, loopvars, locals
<1>2. ASSUME NEW h \in Clients, ClientWork(h)
      PROVE  CallbackWhenReady'
  BY <1>1, <1>2, ClientWorkFrame, TypeParts, Zenon
<1>3. ASSUME NEW r \in Rules, NEW b \in BOOLEAN, SetInterest(r, b)
      PROVE  CallbackWhenReady'
  BY <1>1, <1>3, Zenon DEF SetInterest
<1>4. ASSUME NEW r \in Rules, NEW h \in Clients, NEW b \in BOOLEAN, AddRule(r, h, b)
      PROVE  CallbackWhenReady'
  BY <1>4, Zenon DEF AddRule, loopvars, CallbackWhenReady
<1>5. CASE UNCHANGED vars
  BY <1>1, <1>5, Zenon DEF vars, loopvars
<1>6. SetupCancelReturn \/ ScanCancelReturn => CallbackWhenReady'
  BY Zenon DEF SetupCancelReturn, ScanCancelReturn, CallbackWhenReady
<1>7. ASSUME NEW status \in [FdNumbers -> SUBSET {"In", "Out", "HUP", "ERR"}], Poll(status)
      PROVE  CallbackWhenReady'
  BY <1>7, Zenon DEF Poll, Leave, EnterScan, CallbackWhenReady
<1>8. ASSUME NEW error \in PollFailures, PollFails(error)
      PROVE  CallbackWhenReady'
  BY <1>8, Zenon DEF PollFails, Leave, EnterScan, CallbackWhenReady
<1>9. WaitNextEvent \/ SetupCancel \/ SetupPollfd \/ SetupDone \/ ScanCancel \/ ScanSkip
        => CallbackWhenReady'
  BY Zenon DEF WaitNextEvent, SetupCancel, SetupPollfd, SetupDone, ScanCancel, ScanSkip,
         CallbackWhenReady
<1>10. SetupExit \/ ScanError \/ ScanDone \/ ClientThrows \/ CallbackReturn
         => CallbackWhenReady'
  BY Zenon DEF SetupExit, ScanError, ScanDone, ClientThrows, CallbackReturn, Leave, CallbackWhenReady
<1>11. Quiet => CallbackWhenReady'
  BY <1>7, <1>8, <1>9, <1>10, CallbackEntered, Zenon DEF Quiet
<1> QED
  BY <1>2, <1>3, <1>4, <1>5, <1>6, <1>11, NextCases, Zenon

\* Unless client code adds rules while the second loop runs, a callback runs
\* only for an event that poll(2) reported for the rule's own pollfd.
THEOREM ELCallbackWhenReady ==
  ASSUME ~CallbackMayAdd
  PROVE  Spec => []CallbackWhenReady
<1>1. Init => EventsAsked /\ CallbackWhenReady
  BY DEF Init, EventsAsked, CallbackWhenReady
<1>2. ELTypeOK /\ EventsAsked /\ [Next]_vars => EventsAsked'
  BY EventsAskedStep, Zenon
<1>3. ELTypeOK /\ LoopsAligned /\ EventsAsked /\ CallbackWhenReady /\ [Next]_vars
        => CallbackWhenReady'
  BY CallbackStep, Zenon
<1> QED
  BY <1>1, <1>2, <1>3, ELTypeCorrect, ELLoopsAligned, PTL DEF Spec

-----------------------------------------------------------------------------
(***************************************************************************)
(* What is polled.                                                         *)
(***************************************************************************)

\* Until poll(2) has been called, every pollfd carries the number of the wrapper
\* that its rule holds.
PollfdsCurrent ==
  pc \in {"setup", "cancel_setup", "poll"} =>
    \A i \in 1 .. Len(pollfds) :
      /\ internal_fd[pollfds[i].rule] \in Wrappers
      /\ pollfds[i].fd = RuleFd(pollfds[i].rule).fd

\* Client code, also where it closes it, leaves the number of a rule's wrapper
\* alone.
LEMMA ClientKeepsWrapper ==
  ASSUME FDTypeOK, NEW h \in Clients, ClientWork(h), NEW r \in Rules, internal_fd[r] \in Wrappers
  PROVE  /\ internal_fd'[r] = internal_fd[r]
         /\ wrapper'[internal_fd[r]].fd = RuleFd(r).fd
<1> DEFINE v == internal_fd[r]
<1>0. /\ internal_fd'[r] = v /\ v \in Wrappers /\ wrapper[v] \in FDWrapper
      /\ h \in Handles /\ r \in Handles /\ h # r
  BY ClientWorkFrame, ELAssumptions, Zenon DEF FDTypeOK, Clients
<1> HIDE DEF v
<1>1. ASSUME NEW limit \in 0 .. MaxRead, NEW n \in 0 .. MaxRead, ClientRead(h, limit, n)
      PROVE  wrapper'[v].fd = wrapper[v].fd
  BY <1>0, <1>1, Zenon DEF ClientRead, Read, FDTypeOK, FDWrapper
<1>2. ASSUME NEW k \in 1 .. MaxWritevs, ClientWrite(h, k)
      PROVE  wrapper'[v].fd = wrapper[v].fd
  BY <1>0, <1>2, Zenon DEF ClientWrite, Write, FDTypeOK, FDWrapper
<1>3. ASSUME NEW w \in Wrappers, ClientConstruct(h, w)
      PROVE  wrapper'[v] = wrapper[v]
  <2>1. w # v
    BY <1>0, <1>3, Zenon DEF ClientConstruct, Construct, Alive, v
  <2> QED
    BY <1>0, <1>3, <2>1, Zenon DEF ClientConstruct, Construct, FDTypeOK
<1>4. ASSUME ClientClose(h)
      PROVE  wrapper'[v].fd = wrapper[v].fd
  <2>1. \/ wrapper' = wrapper
        \/ wrapper' = [wrapper EXCEPT ![internal_fd[h]] = [@ EXCEPT !.eof = TRUE, !.closed = TRUE]]
    BY <1>4, Zenon DEF ClientClose, Close
  <2>2. CASE internal_fd[h] = v
    <3>1. wrapper'[v] \in {wrapper[v], [wrapper[v] EXCEPT !.eof = TRUE, !.closed = TRUE]}
      BY <1>0, <2>1, <2>2, Zenon DEF FDTypeOK
    <3> QED BY <1>0, <3>1, Zenon DEF FDWrapper
  <2>3. CASE internal_fd[h] # v
    BY <1>0, <2>1, <2>3, Zenon DEF FDTypeOK
  <2> QED BY <2>2, <2>3, Zenon
<1>5. ASSUME ClientDestroy(h)
      PROVE  wrapper'[v] = wrapper[v]
  <2>1. Release(h)
    BY <1>5, Zenon DEF ClientDestroy, Destroy
  <2>2. CASE internal_fd[h] = v
    BY <1>0, <2>1, <2>2, Zenon DEF Release, LastHandle, v
  <2>3. CASE internal_fd[h] # v
    BY <1>0, <2>1, <2>3, Zenon DEF Release, FDTypeOK
  <2> QED
    BY <2>2, <2>3, Zenon
<1>6. ASSUME NEW k, NEW l, Register(h, k, l)
      PROVE  wrapper'[v].fd = wrapper[v].fd
  BY <1>0, <1>6, Zenon DEF Register, FDTypeOK, FDWrapper
<1>7. ASSUME NEW dirs \in {{"In"}, {"Out"}, {"In", "Out"}}, ClientServes(h, dirs)
      PROVE  wrapper'[v].fd = wrapper[v].fd
  BY <1>6, <1>7, Zenon DEF ClientServes
<1>8. ASSUME NEW dir \in {"In", "Out"}, NEW k \in 0 .. 1, ClientServiceThrows(h, dir, k)
      PROVE  wrapper'[v].fd = wrapper[v].fd
  BY <1>6, <1>8, Zenon DEF ClientServiceThrows
<1>9. wrapper'[v].fd = wrapper[v].fd
  BY <1>1, <1>2, <1>3, <1>4, <1>5, <1>7, <1>8, Zenon DEF ClientWork
<1> QED
  BY <1>0, <1>9, Zenon DEF RuleFd, v

\* Every step of the first loop, and of the client code it calls, keeps the
\* vector current.
LEMMA CurrentStep ==
  ASSUME ELTypeOK, LoopsAligned, PollfdsCurrent, [Next]_vars
  PROVE  PollfdsCurrent'
<1> USE TypeParts
<1>0. pollfds \in Seq(PollFd) /\ rules \in Seq(Rules)
      /\ \A i \in 1 .. Len(pollfds) : pollfds[i].rule \in Rules
  <2>1. pollfds \in Seq(PollFd) /\ rules \in Seq(Rules)
    BY Zenon DEF RulesHeld, ControlOK
  <2>2. \A i \in 1 .. Len(pollfds) : pollfds[i] \in PollFd
    BY <2>1
  <2> QED
    BY <2>1, <2>2, Zenon DEF PollFd
<1>1. ASSUME pc' \in {"client", "callback", "scan", "cancel_scan"}
      PROVE  PollfdsCurrent'
  BY <1>1, Zenon DEF PollfdsCurrent
<1>2. CASE WaitNextEvent
  <2>1. pollfds' = <<>>
    BY <1>2, Zenon DEF WaitNextEvent, LoopsAligned
  <2> QED
    BY <2>1, SMTT(30) DEF PollfdsCurrent
<1>3. ASSUME UNCHANGED <<fdvars, pollfds>>, pc \in {"setup", "cancel_setup", "poll"}
      PROVE  PollfdsCurrent'
  BY <1>3, Zenon DEF PollfdsCurrent, RuleFd, fdvars
<1>4. CASE SetupCancel \/ SetupDone
  BY <1>3, <1>4, Zenon DEF SetupCancel, SetupDone, locals
<1>5. CASE SetupPollfd
  <2>1. UNCHANGED fdvars /\ pc = "setup"
    BY <1>5, Zenon DEF SetupPollfd
  <2>2. internal_fd[rules[it]] \in Wrappers
    BY <1>5, SetupPollfdAdds, ELAssumptions, SMTT(30) DEF FDTypeOK, RulesHeld
  <2>3. ASSUME NEW i \in 1 .. Len(pollfds')
        PROVE  /\ internal_fd[pollfds'[i].rule] \in Wrappers
               /\ pollfds'[i].fd = RuleFd(pollfds'[i].rule).fd
    <3>1. CASE i \in 1 .. Len(pollfds)
      BY <1>5, <2>1, <3>1, SetupPollfdAdds, Zenon DEF PollfdsCurrent
    <3>2. CASE i = Len(pollfds) + 1
      BY <1>5, <2>2, <3>2, SetupPollfdAdds, Zenon
    <3> QED
      BY <1>0, <1>5, <3>1, <3>2, SetupPollfdAdds, SMTT(30)
  <2> QED
    BY <2>1, <2>3, Zenon DEF PollfdsCurrent, RuleFd, fdvars
<1>6. SetupExit \/ ScanError \/ ScanDone \/ ClientThrows \/ CallbackReturn
        \/ ScanCancel \/ ScanCallback \/ ScanSkip \/ ScanCancelReturn => PollfdsCurrent'
  BY <1>1, Zenon DEF SetupExit, ScanError, ScanDone, ClientThrows, CallbackReturn, Leave,
              ScanCancel, ScanCallback, ScanSkip, ScanCancelReturn
<1>7. ASSUME NEW status \in [FdNumbers -> SUBSET {"In", "Out", "HUP", "ERR"}], Poll(status)
      PROVE  PollfdsCurrent'
  BY <1>1, <1>7, Zenon DEF Poll, Leave, EnterScan
<1>8. ASSUME NEW error \in PollFailures, PollFails(error)
      PROVE  PollfdsCurrent'
  BY <1>1, <1>8, Zenon DEF PollFails, Leave, EnterScan
<1>9. CASE SetupCancelReturn
  <2> DEFINE r == rules[it]
  <2>1. /\ pc = "cancel_setup" /\ pc' = "setup" /\ pollfds' = pollfds
        /\ Destroy(r) /\ it \in 1 .. Len(rules) /\ Len(pollfds) = it - 1
    BY <1>9, Zenon DEF SetupCancelReturn, Erase, locals, ControlOK, LoopsAligned
  <2>2. r \in Handles /\ r \in Rules /\ Release(r)
    BY <1>0, <2>1, ELAssumptions, SMTT(30) DEF Destroy
  <2>3. ASSUME NEW i \in 1 .. Len(pollfds)
        PROVE  /\ internal_fd'[pollfds[i].rule] = internal_fd[pollfds[i].rule]
               /\ wrapper'[internal_fd[pollfds[i].rule]] = wrapper[internal_fd[pollfds[i].rule]]
    <3>0. PICK g \in Rules : g = pollfds[i].rule
      BY <1>0, Zenon
    <3>1. i \in 1 .. Len(rules) /\ i # it /\ g = rules[i]
      BY <1>0, <2>1, <3>0, SMTT(30) DEF LoopsAligned, ControlOK
    <3>2. g # r /\ g \in Handles
      BY <1>0, <2>1, <3>1, ELAssumptions, Zenon DEF RulesHeld
    <3>3. internal_fd'[g] = internal_fd[g]
      BY <2>1, <2>2, <3>2, Zenon DEF Destroy, FDTypeOK
    <3>4. internal_fd[g] \in Wrappers
      BY <2>1, <3>0, Zenon DEF PollfdsCurrent
    <3>5. wrapper'[internal_fd[g]] = wrapper[internal_fd[g]]
      <4>1. CASE internal_fd[g] = internal_fd[r]
        <5>1. ~LastHandle(r)
          BY <3>2, <4>1, Zenon DEF LastHandle
        <5> QED
          BY <2>2, <5>1, Zenon DEF Release
      <4>2. CASE internal_fd[g] # internal_fd[r]
        BY <2>2, <3>4, <4>2, Zenon DEF Release, FDTypeOK
      <4> QED
        BY <4>1, <4>2, Zenon
    <3> QED
      BY <3>0, <3>3, <3>5, Zenon
  <2>4. ASSUME NEW i \in 1 .. Len(pollfds')
        PROVE  /\ internal_fd'[pollfds'[i].rule] \in Wrappers
               /\ pollfds'[i].fd = wrapper'[internal_fd'[pollfds'[i].rule]].fd
    BY <2>1, <2>3, Zenon DEF PollfdsCurrent, RuleFd
  <2> QED
    BY <2>4, Zenon DEF PollfdsCurrent, RuleFd
<1>10. ASSUME NEW h \in Clients, ClientWork(h)
       PROVE  PollfdsCurrent'
  <2>1. UNCHANGED <<pc, pollfds>> /\ pc \in ClientCode
    BY <1>10, ClientWorkFrame, Zenon DEF loopvars, locals, ClientWork, ClientRead, ClientWrite,
                                  ClientServes, ClientServiceThrows,
                                  ClientConstruct, ClientClose, ClientDestroy
  <2>2. CASE pc = "cancel_setup"
    <3>1. ASSUME NEW i \in 1 .. Len(pollfds)
          PROVE  /\ internal_fd'[pollfds[i].rule] \in Wrappers
                 /\ pollfds[i].fd = wrapper'[internal_fd'[pollfds[i].rule]].fd
      <4>1. PICK g \in Rules : g = pollfds[i].rule
        BY <1>0, Zenon
      <4>2. internal_fd[g] \in Wrappers /\ pollfds[i].fd = RuleFd(g).fd
        BY <2>2, <4>1, Zenon DEF PollfdsCurrent
      <4>3. internal_fd'[g] = internal_fd[g] /\ wrapper'[internal_fd[g]].fd = RuleFd(g).fd
        BY <1>10, <4>2, ClientKeepsWrapper, Zenon
      <4> QED
        BY <4>1, <4>2, <4>3, Zenon
    <3> QED
      BY <2>1, <3>1, Zenon DEF PollfdsCurrent, RuleFd
  <2> QED
    BY <1>1, <2>1, <2>2, Zenon DEF ClientCode
<1>11. ASSUME NEW r \in Rules, NEW b \in BOOLEAN, SetInterest(r, b)
       PROVE  PollfdsCurrent'
  BY <1>11, Zenon DEF SetInterest, loopvars, locals, PollfdsCurrent, RuleFd, fdvars
<1>12. ASSUME NEW r \in Rules, NEW h \in Clients, NEW b \in BOOLEAN, AddRule(r, h, b)
       PROVE  PollfdsCurrent'
  <2>1. /\ UNCHANGED <<pc, pollfds, wrapper>>
        /\ internal_fd[r] = NoWrapper
        /\ internal_fd' = [internal_fd EXCEPT ![r] = internal_fd[h]]
    BY <1>12, Zenon DEF AddRule, loopvars, locals, Duplicate
  <2>2. CASE pc \in {"setup", "cancel_setup", "poll"}
    <3>1. ASSUME NEW i \in 1 .. Len(pollfds)
          PROVE  internal_fd'[pollfds[i].rule] = internal_fd[pollfds[i].rule]
      <4>1. internal_fd[pollfds[i].rule] \in Wrappers
        BY <2>2, Zenon DEF PollfdsCurrent
      <4>2. pollfds[i].rule # r
        BY <2>1, <4>1, FDAssumptions, Zenon
      <4> QED
        BY <1>0, <2>1, <4>2, ELAssumptions, Zenon DEF FDTypeOK
    <3> QED
      BY <2>1, <2>2, <3>1 DEF PollfdsCurrent, RuleFd
  <2> QED
    BY <2>1, <2>2, Zenon DEF PollfdsCurrent
<1>13. CASE UNCHANGED vars
  BY <1>13, Zenon DEF vars, locals, PollfdsCurrent, RuleFd, fdvars
<1>14. Quiet => PollfdsCurrent'
  BY <1>2, <1>4, <1>5, <1>6, <1>7, <1>8, Zenon DEF Quiet
<1> QED
  BY <1>6, <1>9, <1>10, <1>11, <1>12, <1>13, <1>14, NextCases, Zenon

\* A number in the vector is stale only if its rule's descriptor is closed.
LEMMA StaleIsClosed ==
  ASSUME ELTypeOK, PollfdsCurrent, LiveWrapperOwnsItsNumber,
         pc \in {"setup", "cancel_setup", "poll"}, NEW i \in 1 .. Len(pollfds), Stale(pollfds[i])
  PROVE  RuleFd(pollfds[i].rule).closed
<1>1. pollfds[i].rule \in Handles
  <2>1. pollfds[i] \in PollFd
    BY DEF ELTypeOK
  <2> QED BY <2>1, ELAssumptions, Zenon DEF PollFd
<1>2. internal_fd[pollfds[i].rule] \in Wrappers /\ pollfds[i].fd = RuleFd(pollfds[i].rule).fd
  BY Zenon DEF PollfdsCurrent
<1>3. Alive(internal_fd[pollfds[i].rule])
  BY <1>1, Zenon DEF Alive
<1> QED
  BY <1>2, <1>3, Zenon DEF LiveWrapperOwnsItsNumber, RuleFd, Stale

\* A number that a step has put into the vector is its rule's, and that is open.
LEMMA NewIsOpen ==
  ASSUME ELTypeOK, [Next]_vars, pc' \in {"setup", "cancel_setup", "poll"},
         NEW i \in 1 .. Len(pollfds'), RuleFd(pollfds[i].rule)'.closed
  PROVE  i <= Len(pollfds)
<1>0. pollfds \in Seq(PollFd) /\ Len(pollfds) \in Nat
  BY DEF ELTypeOK
<1>1. CASE pollfds' = pollfds
  BY <1>0, <1>1
<1>2. CASE pollfds' = <<>>
  BY <1>2
<1>3. CASE SetupPollfd
  <2>1. UNCHANGED fdvars
    BY <1>3, Zenon DEF SetupPollfd
  <2>2. i # Len(pollfds) + 1
    BY <1>3, <2>1, SetupPollfdAdds, Zenon DEF RuleFd, fdvars
  <2>3. Len(pollfds') = Len(pollfds) + 1
    BY <1>3, SetupPollfdAdds, Zenon
  <2> QED BY <1>0, <2>2, <2>3
<1>4. ASSUME NEW status, Poll(status) PROVE FALSE
  BY <1>4, Zenon DEF Poll, Leave, EnterScan
<1> QED BY <1>1, <1>2, <1>3, <1>4, PollfdsStep, Zenon

\* What is polled is Rule::fd, as long as close(2) reports no error and clients
\* leave a closed descriptor alone, with any number of rules and whatever cancel()
\* closes, opens, destroys and adds while the vector is built: a number goes stale
\* only with its own rule's descriptor.
THEOREM ELPollsOwnDescriptors ==
  ASSUME Careful
  PROVE  Spec => PollsOwnDescriptors
<1>1. Init => PollfdsCurrent
  BY Zenon DEF Init, PollfdsCurrent
<1>2. ELTypeOK /\ LoopsAligned /\ PollfdsCurrent /\ [Next]_vars => PollfdsCurrent'
  BY CurrentStep, Zenon
<1>3. ELTypeOK /\ PollfdsCurrent /\ LiveWrapperOwnsItsNumber =>
        (pc \in {"setup", "cancel_setup", "poll"} =>
           \A i \in 1 .. Len(pollfds) : Stale(pollfds[i]) => RuleFd(pollfds[i].rule).closed)
  BY StaleIsClosed, Zenon
<1>4. /\ ELTypeOK /\ [Next]_vars
      /\ (pc \in {"setup", "cancel_setup", "poll"} =>
            \A i \in 1 .. Len(pollfds) : Stale(pollfds[i]) => RuleFd(pollfds[i].rule).closed)'
      => [pc' \in {"setup", "cancel_setup", "poll"} =>
            \A i \in 1 .. Len(pollfds') : Stale(pollfds[i])' =>
              i <= Len(pollfds) /\ RuleFd(pollfds[i].rule)'.closed]_vars
  BY NewIsOpen, Zenon
<1>5. Spec => []LiveWrapperOwnsItsNumber
  BY ELUsesFileDescriptor, FDOwnership, PTL DEF UsesFileDescriptor
<1> QED
  BY <1>1, <1>2, <1>3, <1>4, <1>5, ELTypeCorrect, ELLoopsAligned, PTL DEF Spec, PollsOwnDescriptors

-----------------------------------------------------------------------------
(***************************************************************************)
(* The busy-wait test is exact, for any number of rules and any counter    *)
(* width.  The argument: while a callback runs, the counter of its rule's  *)
(* descriptor is ahead of count_before by the calls counted so far, modulo *)
(* the counter's width; fewer calls than the width fit into one callback,  *)
(* so the counter is back at count_before only if there were none.         *)
(***************************************************************************)

\* A counter that moves on by less than its modulus wraps at most once.
LEMMA WrapsOnce ==
  ASSUME NEW x \in 0 .. CountModulus - 1, NEW k \in 0 .. CountModulus - 1
  PROVE  /\ (x + k) % CountModulus \in 0 .. CountModulus - 1
         /\ \/ (x + k) % CountModulus = x + k
            \/ (x + k) % CountModulus = x + k - CountModulus
<1> DEFINE M == CountModulus
           q == (x + k) \div M
           m == (x + k) % M
<1>1. M \in Nat \ {0} /\ x + k \in Nat /\ x + k < 2 * M
  BY FDAssumptions
<1>2. m \in 0 .. M - 1 /\ q \in Int /\ x + k = M * q + m
  BY <1>1
<1>3. q \in {0, 1}
  <2>1. ~(q <= -1)
    BY <1>1, <1>2
  <2>2. ~(q >= 2)
    BY <1>1, <1>2
  <2> QED
    BY <1>2, <2>1, <2>2
<1> HIDE DEF q, m
<1>4. m = x + k \/ m = x + k - M
  BY <1>1, <1>2, <1>3
<1> QED
  BY <1>2, <1>4, Zenon DEF m

\* Counting nothing changes no counter.
LEMMA NoWrap ==
  ASSUME NEW x \in 0 .. CountModulus - 1
  PROVE  (x + 0) % CountModulus = x
<1>1. 0 \in 0 .. CountModulus - 1
  BY FDAssumptions
<1> DEFINE m == (x + 0) % CountModulus
<1>2. m \in 0 .. CountModulus - 1 /\ (m = x + 0 \/ m = x + 0 - CountModulus)
  BY <1>1, WrapsOnce, Zenon
<1> HIDE DEF m
<1>3. m = x
  BY <1>2, FDAssumptions
<1> QED
  BY <1>3, Zenon DEF m

-----------------------------------------------------------------------------
(***************************************************************************)
(* What client code does to the counter and to the record of services.     *)
(***************************************************************************)

\* The counter that rule g looks at, in the wrapper record r.
Count(g, r) == IF Direction[g] = "In" THEN r.read_count ELSE r.write_count

\* service_count as a function of the wrapper.
LEMMA CountIsServiceCount == \A g : service_count(g) = Count(g, wrapper[internal_fd[g]])
BY Zenon DEF service_count, Count, RuleFd

\* A step counts k services of rule g, whose wrapper is v.
Serviced(g, v, k) ==
  /\ services'.counted = services.counted + k
  /\ services'.counted <= MaxServices
  /\ \/ Count(g, wrapper'[v]) = Count(g, wrapper[v]) + k
     \/ Count(g, wrapper'[v]) = Count(g, wrapper[v]) + k - CountModulus
  /\ services.outcomes \subseteq services'.outcomes
  /\ "returned" \in services'.outcomes => "returned" \in services.outcomes \/ k > 0
  /\ k > 0 => services'.outcomes # {}

\* Neither the services nor the counter change.
LEMMA SameCount ==
  ASSUME services \in Services, services' = services, NEW g, NEW v,
         Count(g, wrapper[v]) \in Int,
         Count(g, wrapper'[v]) = Count(g, wrapper[v])
  PROVE  Serviced(g, v, 0)
<1>1. /\ services.counted \in 0 .. MaxServices
      /\ services.counted + 0 = services.counted
      /\ services.counted <= MaxServices
  BY ELAssumptions DEF Services
<1>2. Count(g, wrapper[v]) + 0 = Count(g, wrapper[v]) /\ ~(0 > 0)
  OBVIOUS
<1> QED
  BY <1>1, <1>2, Zenon DEF Serviced

\* Neither the services nor the wrapper's counters change.
LEMMA NotServiced ==
  ASSUME FDTypeOK, services \in Services, NEW g \in Rules, NEW v \in Wrappers,
         services' = services,
         wrapper'[v].read_count = wrapper[v].read_count,
         wrapper'[v].write_count = wrapper[v].write_count
  PROVE  Serviced(g, v, 0)
<1>1. Count(g, wrapper[v]) \in Int
  BY FDAssumptions, SMTT(30) DEF Count, FDTypeOK, FDWrapper
<1>2. Count(g, wrapper'[v]) = Count(g, wrapper[v])
  BY Zenon DEF Count
<1> QED
  BY <1>1, <1>2, SameCount, Zenon

\* A call through h that counts k in the directions dirs.
LEMMA CountedCall ==
  ASSUME FDTypeOK, services \in Services, pc = "callback",
         NEW g \in Rules, g = rules[it], NEW v \in Wrappers, internal_fd[g] = v,
         NEW h \in Handles, NEW w \in Wrappers, internal_fd[h] = w,
         NEW dirs, NEW k \in Nat, NEW outcome, Serve(h, dirs, k, outcome),
         outcome = "returned" => k > 0,
         \A u \in Wrappers \ {w} : wrapper'[u] = wrapper[u],
         wrapper'[w].read_count =
           IF "In" \in dirs THEN (wrapper[w].read_count + k) % CountModulus
                            ELSE wrapper[w].read_count,
         wrapper'[w].write_count =
           IF "Out" \in dirs THEN (wrapper[w].write_count + k) % CountModulus
                             ELSE wrapper[w].write_count
  PROVE  \E j \in Nat : Serviced(g, v, j)
<1>0. /\ wrapper[w].read_count \in 0 .. CountModulus - 1
      /\ wrapper[w].write_count \in 0 .. CountModulus - 1
      /\ services.counted \in Nat
      /\ Direction[g] \in {"In", "Out"}
  BY ELAssumptions, SMTT(30) DEF FDTypeOK, FDWrapper, Services
<1>1. CASE w = v /\ Direction[g] \in dirs
  <2>1. /\ services.counted + k <= MaxServices
        /\ services' = [counted |-> services.counted + k,
                        outcomes |-> services.outcomes \cup {outcome}]
    BY <1>1, Zenon DEF Serve
  <2>2. k \in 0 .. CountModulus - 1
    BY <1>0, <2>1, ELAssumptions, FDAssumptions, SMTT(30)
  <2>3. Count(g, wrapper'[v]) = (Count(g, wrapper[v]) + k) % CountModulus
    BY <1>0, <1>1, Zenon DEF Count
  <2>4. Count(g, wrapper[v]) \in 0 .. CountModulus - 1
    BY <1>0, <1>1, Zenon DEF Count
  <2>5. \/ Count(g, wrapper'[v]) = Count(g, wrapper[v]) + k
        \/ Count(g, wrapper'[v]) = Count(g, wrapper[v]) + k - CountModulus
    BY <2>2, <2>3, <2>4, WrapsOnce, Zenon
  <2>6. Serviced(g, v, k)
    BY <2>1, <2>5, Zenon DEF Serviced
  <2> QED
    BY <2>6, Zenon
<1>2. CASE w = v /\ Direction[g] \notin dirs
  <2>1. services' = services
    BY <1>2, Zenon DEF Serve
  <2>2. Count(g, wrapper'[v]) = Count(g, wrapper[v])
    BY <1>0, <1>2, Zenon DEF Count
  <2>3. Count(g, wrapper[v]) \in Int
    <3>1. wrapper[v].read_count \in Int /\ wrapper[v].write_count \in Int
      BY <1>0, <1>2
    <3> QED
      BY <3>1, Zenon DEF Count
  <2>4. Serviced(g, v, 0)
    BY <2>1, <2>2, <2>3, SameCount, Zenon
  <2> QED
    BY <2>4, Zenon
<1>3. CASE w # v
  <2>1. services' = services
    BY <1>3, Zenon DEF Serve
  <2>2. wrapper'[v] = wrapper[v]
    BY <1>3, Zenon
  <2>3. Serviced(g, v, 0)
    BY <2>1, <2>2, NotServiced, Zenon
  <2> QED
    BY <2>3, Zenon
<1> QED
  BY <1>1, <1>2, <1>3, Zenon

\* What register_read and register_write leave in the wrapper.
LEMMA RegisterCounts ==
  ASSUME FDTypeOK, NEW h \in Handles, NEW w \in Wrappers, internal_fd[h] = w,
         NEW a \in Nat, NEW b \in Nat, Register(h, a, b)
  PROVE  /\ \A u \in Wrappers \ {w} : wrapper'[u] = wrapper[u]
         /\ wrapper'[w].read_count = (wrapper[w].read_count + a) % CountModulus
         /\ wrapper'[w].write_count = (wrapper[w].write_count + b) % CountModulus
<1> DEFINE new == [wrapper[w] EXCEPT !.read_count = (@ + a) % CountModulus,
                                     !.write_count = (@ + b) % CountModulus]
<1>1. /\ new.read_count = (wrapper[w].read_count + a) % CountModulus
      /\ new.write_count = (wrapper[w].write_count + b) % CountModulus
  BY Zenon DEF FDTypeOK, FDWrapper
<1>2. wrapper' = [wrapper EXCEPT ![w] = new]
  BY Zenon DEF Register
<1> HIDE DEF new
<1> QED
  BY <1>1, <1>2, Zenon DEF FDTypeOK

\* Whatever client code does while a callback runs, the counter and the record
\* of services move together.
LEMMA WorkIsServiced ==
  ASSUME ELTypeOK, pc = "callback", NEW h \in Clients, ClientWork(h),
         NEW g \in Rules, g = rules[it], NEW v \in Wrappers, internal_fd[g] = v
  PROVE  \E j \in Nat : Serviced(g, v, j)
<1> DEFINE Goal == \E j \in Nat : Serviced(g, v, j)
<1> SUFFICES Goal
  BY Zenon
<1>a. /\ FDTypeOK /\ services \in Services
      /\ internal_fd \in [Handles -> Wrappers \cup {NoWrapper}]
      /\ wrapper \in [Wrappers -> FDWrapper]
      /\ h \in Handles /\ g \in Handles /\ h # g
      /\ NoWrapper \notin Wrappers
  BY ELAssumptions, FDAssumptions, Zenon DEF ELTypeOK, FDTypeOK, Clients
<1>b. ASSUME services' = services, wrapper'[v].read_count = wrapper[v].read_count,
             wrapper'[v].write_count = wrapper[v].write_count
      PROVE  Goal
  BY <1>a, <1>b, NotServiced, Zenon
<1>c. ASSUME NEW w \in Wrappers, internal_fd[h] = w
      PROVE  /\ wrapper[w].read_count \in 0 .. CountModulus - 1
             /\ wrapper[w].write_count \in 0 .. CountModulus - 1
             /\ (wrapper[w].read_count + 0) % CountModulus = wrapper[w].read_count
             /\ (wrapper[w].write_count + 0) % CountModulus = wrapper[w].write_count
  <2>1. /\ wrapper[w].read_count \in 0 .. CountModulus - 1
        /\ wrapper[w].write_count \in 0 .. CountModulus - 1
    BY <1>a, Zenon DEF FDWrapper
  <2> QED
    BY <2>1, NoWrap, Zenon
<1> HIDE DEF Goal
<1>1. ASSUME NEW limit \in 0 .. MaxRead, NEW n \in 0 .. MaxRead, ClientRead(h, limit, n)
      PROVE  Goal
  <2>1. PICK w \in Wrappers : internal_fd[h] = w
    BY <1>a, <1>1, Zenon DEF ClientRead, Read, Usable
  <2> DEFINE new == [wrapper[w] EXCEPT !.eof = @ \/ (limit > 0 /\ n = 0),
                                       !.read_count = (@ + 1) % CountModulus]
  <2>2. /\ new.read_count = (wrapper[w].read_count + 1) % CountModulus
        /\ new.write_count = wrapper[w].write_count
    BY <1>a DEF FDWrapper
  <2>3. wrapper' = [wrapper EXCEPT ![w] = new] /\ Serve(h, {"In"}, 1, "returned")
    BY <1>1, <2>1, Zenon DEF ClientRead, Read
  <2> HIDE DEF new
  <2>4. PICK k \in Nat : k = 1
    BY Zenon
  <2>5. /\ \A u \in Wrappers \ {w} : wrapper'[u] = wrapper[u]
        /\ wrapper'[w].read_count =
             IF "In" \in {"In"} THEN (wrapper[w].read_count + k) % CountModulus
                                ELSE wrapper[w].read_count
        /\ wrapper'[w].write_count =
             IF "Out" \in {"In"} THEN (wrapper[w].write_count + k) % CountModulus
                                 ELSE wrapper[w].write_count
    BY <1>a, <2>2, <2>3, <2>4, Zenon
  <2>6. k > 0 /\ Serve(h, {"In"}, k, "returned")
    BY <2>3, <2>4, SMTT(30)
  <2> QED
    BY <1>a, <2>1, <2>5, <2>6, CountedCall, Zenon DEF Goal
<1>2. ASSUME NEW k \in 1 .. MaxWritevs, ClientWrite(h, k)
      PROVE  Goal
  <2>1. PICK w \in Wrappers : internal_fd[h] = w
    BY <1>a, <1>2, Zenon DEF ClientWrite, Write, Usable
  <2> DEFINE new == [wrapper[w] EXCEPT !.write_count = (@ + k) % CountModulus]
  <2>2. /\ new.read_count = wrapper[w].read_count
        /\ new.write_count = (wrapper[w].write_count + k) % CountModulus
    BY <1>a, Zenon DEF FDWrapper
  <2>3. wrapper' = [wrapper EXCEPT ![w] = new] /\ Serve(h, {"Out"}, k, "returned")
    BY <1>2, <2>1, Zenon DEF ClientWrite, Write
  <2> HIDE DEF new
  <2>4. /\ \A u \in Wrappers \ {w} : wrapper'[u] = wrapper[u]
        /\ wrapper'[w].read_count =
             IF "In" \in {"Out"} THEN (wrapper[w].read_count + k) % CountModulus
                                 ELSE wrapper[w].read_count
        /\ wrapper'[w].write_count =
             IF "Out" \in {"Out"} THEN (wrapper[w].write_count + k) % CountModulus
                                  ELSE wrapper[w].write_count
    BY <1>a, <2>2, <2>3, Zenon
  <2>5. k \in Nat /\ k > 0
    BY FDAssumptions
  <2> QED
    BY <1>a, <2>1, <2>3, <2>4, <2>5, CountedCall, Zenon DEF Goal
<1>3. ASSUME NEW dirs \in {{"In"}, {"Out"}, {"In", "Out"}}, NEW k \in 0 .. 1, NEW outcome,
             Register(h, IF "In" \in dirs THEN k ELSE 0, IF "Out" \in dirs THEN k ELSE 0),
             Serve(h, dirs, k, outcome), outcome = "returned" => k > 0
      PROVE  Goal
  <2>1. PICK w \in Wrappers : internal_fd[h] = w
    BY <1>a, <1>3, Zenon DEF Register, Usable
  <2> DEFINE a == IF "In" \in dirs THEN k ELSE 0
             b == IF "Out" \in dirs THEN k ELSE 0
  <2>2. a \in Nat /\ b \in Nat /\ Register(h, a, b) /\ k \in Nat
    BY <1>3, SMTT(30)
  <2> HIDE DEF a, b
  <2>3. /\ \A u \in Wrappers \ {w} : wrapper'[u] = wrapper[u]
        /\ wrapper'[w].read_count = (wrapper[w].read_count + a) % CountModulus
        /\ wrapper'[w].write_count = (wrapper[w].write_count + b) % CountModulus
    BY <1>a, <2>1, <2>2, RegisterCounts, SMTT(30)
  <2>4. /\ (wrapper[w].read_count + 0) % CountModulus = wrapper[w].read_count
        /\ (wrapper[w].write_count + 0) % CountModulus = wrapper[w].write_count
    BY <1>c, <2>1, Zenon
  <2>5. wrapper'[w].read_count =
          IF "In" \in dirs THEN (wrapper[w].read_count + k) % CountModulus
                           ELSE wrapper[w].read_count
    BY <2>3, <2>4, Zenon DEF a
  <2>6. wrapper'[w].write_count =
          IF "Out" \in dirs THEN (wrapper[w].write_count + k) % CountModulus
                            ELSE wrapper[w].write_count
    BY <2>3, <2>4, Zenon DEF b
  <2> QED
    BY <1>a, <1>3, <2>1, <2>2, <2>3, <2>5, <2>6, CountedCall, Zenon DEF Goal
<1>4. ASSUME NEW dirs \in {{"In"}, {"Out"}, {"In", "Out"}}, ClientServes(h, dirs)
      PROVE  Goal
  <2>1. 1 \in 0 .. 1 /\ 1 > 0
    OBVIOUS
  <2>2. /\ Register(h, IF "In" \in dirs THEN 1 ELSE 0, IF "Out" \in dirs THEN 1 ELSE 0)
        /\ Serve(h, dirs, 1, "returned")
    BY <1>4, Zenon DEF ClientServes
  <2> QED
    BY <1>3, <2>1, <2>2, Zenon
<1>5. ASSUME NEW dir \in {"In", "Out"}, NEW k \in 0 .. 1, ClientServiceThrows(h, dir, k)
      PROVE  Goal
  <2>1. /\ Register(h, IF dir = "In" THEN k ELSE 0, IF dir = "Out" THEN k ELSE 0)
        /\ Serve(h, {dir}, k, "threw")
    BY <1>5, Zenon DEF ClientServiceThrows
  <2>2. ("In" \in {dir} <=> dir = "In") /\ ("Out" \in {dir} <=> dir = "Out")
    BY Zenon
  <2>3. Register(h, IF "In" \in {dir} THEN k ELSE 0, IF "Out" \in {dir} THEN k ELSE 0)
    BY <2>1, <2>2, Zenon
  <2>4. {dir} \in {{"In"}, {"Out"}, {"In", "Out"}} /\ "threw" # "returned"
    BY Zenon
  <2> QED
    BY <1>3, <2>1, <2>3, <2>4, Zenon
<1>6. ASSUME NEW w \in Wrappers, ClientConstruct(h, w)
      PROVE  Goal
  <2>1. w # v
    BY <1>a, <1>6, Zenon DEF ClientConstruct, Construct, Alive
  <2>2. wrapper'[v] = wrapper[v] /\ services' = services
    BY <1>a, <1>6, <2>1, Zenon DEF ClientConstruct, Construct
  <2> QED
    BY <1>b, <2>2, Zenon
<1>7. CASE ClientClose(h)
  <2>1. PICK w \in Wrappers : internal_fd[h] = w
    BY <1>a, <1>7, Zenon DEF ClientClose, Close, Usable
  <2> DEFINE new == [wrapper[w] EXCEPT !.eof = TRUE, !.closed = TRUE]
  <2>2. /\ new.read_count = wrapper[w].read_count
        /\ new.write_count = wrapper[w].write_count
    BY <1>a DEF FDWrapper
  <2>3. (wrapper' = [wrapper EXCEPT ![w] = new] \/ wrapper' = wrapper) /\ services' = services
    BY <1>7, <2>1, Zenon DEF ClientClose, Close
  <2> HIDE DEF new
  <2>4. /\ wrapper'[v].read_count = wrapper[v].read_count
        /\ wrapper'[v].write_count = wrapper[v].write_count
    BY <1>a, <2>2, <2>3, Zenon
  <2> QED
    BY <1>b, <2>3, <2>4, Zenon
<1>8. CASE ClientDestroy(h)
  <2>1. ~(internal_fd[h] = v /\ LastHandle(h))
    BY <1>a, Zenon DEF LastHandle
  <2>2. wrapper'[v] = wrapper[v] /\ services' = services
    BY <1>a, <1>8, <2>1, Zenon DEF ClientDestroy, Destroy, Release
  <2> QED
    BY <1>b, <2>2, Zenon
<1> QED
  BY <1>1, <1>2, <1>4, <1>5, <1>6, <1>7, <1>8, Zenon DEF ClientWork

-----------------------------------------------------------------------------
(***************************************************************************)
(* The test.                                                               *)
(***************************************************************************)

\* The inductive invariant: while a callback runs, the counter is ahead by the
\* calls that were counted, and every call that returned was.
ServicesCounted ==
  pc = "callback" =>
    /\ \/ service_count(rules[it]) = count_before + services.counted
       \/ service_count(rules[it]) = count_before + services.counted - CountModulus
    /\ "returned" \in services.outcomes => services.counted > 0
    /\ services.counted > 0 => services.outcomes # {}

\* Every step keeps ServicesCounted: in a callback the counter has moved by
\* what the client did.
LEMMA ServicesCountedStep ==
  ASSUME ELTypeOK, ELTypeOK', ServicesCounted, [Next]_vars
  PROVE  ServicesCounted'
<1> SUFFICES ASSUME pc' = "callback"
             PROVE  ServicesCounted'
  BY Zenon DEF ServicesCounted
<1>1. CASE Quiet
  <2>1. CASE ScanCallback
    <3>1. /\ count_before' = service_count(rules[it])
          /\ services' = NoServices
          /\ UNCHANGED <<fdvars, rules, it>>
      BY <2>1, Zenon DEF ScanCallback
    <3>2. (service_count(rules[it]))' = service_count(rules[it])
      BY <3>1, Zenon DEF service_count, RuleFd, fdvars
    <3>3. count_before' \in Int
      BY FDAssumptions, SMTT(30) DEF ELTypeOK
    <3> QED
      BY <3>1, <3>2, <3>3, SMTT(30) DEF ServicesCounted, NoServices
  <2> QED
    BY <1>1, <2>1, Zenon
    DEF Quiet, WaitNextEvent, SetupCancel, SetupPollfd, SetupExit, SetupDone, Poll, PollFails,
        EnterScan, Leave, ScanError, ScanCancel, ScanSkip, ScanDone, CallbackReturn, ClientThrows
<1>2. CASE SetupCancelReturn \/ ScanCancelReturn
  BY <1>2, Zenon DEF SetupCancelReturn, ScanCancelReturn
\* Client code runs, and comes back neither from callback() nor to it.
<1>3. ASSUME UNCHANGED loopvars, NEW g \in Rules, pc = "callback" => g = rules[it],
             pc = "callback" => rules'[it] = g /\ internal_fd'[g] = internal_fd[g],
             NEW v \in Wrappers, internal_fd[g] = v, NEW j \in Nat, Serviced(g, v, j)
      PROVE  ServicesCounted'
  <2>1. /\ pc = "callback"
        /\ it' = it
        /\ count_before' = count_before
        /\ count_before \in 0 .. CountModulus - 1
        /\ rules[it] = g
        /\ rules'[it'] = g
        /\ internal_fd'[g] = v
    BY <1>3, Zenon DEF loopvars, locals, ELTypeOK
  <2>2. service_count(rules[it]) = Count(g, wrapper[v])
    BY <1>3, <2>1, CountIsServiceCount, Zenon
  <2>3. (service_count(rules[it]))' = Count(g, wrapper'[v])
    BY <2>1, Zenon DEF service_count, RuleFd, Count
  <2>4. Count(g, wrapper[v]) \in 0 .. CountModulus - 1
    BY Zenon DEF Count, ELTypeOK, FDTypeOK, FDWrapper
  <2>5. Count(g, wrapper'[v]) \in 0 .. CountModulus - 1
    BY Zenon DEF Count, ELTypeOK, FDTypeOK, FDWrapper
  <2>6. /\ services.counted \in Nat
        /\ services'.counted \in 0 .. MaxServices
        /\ services.outcomes \subseteq {"returned", "threw"}
        /\ CountModulus \in Nat /\ MaxServices \in Nat /\ MaxServices < CountModulus
    <3>1. services \in Services /\ services' \in Services
      BY Zenon DEF ELTypeOK
    <3>2. CountModulus \in Nat /\ MaxServices \in Nat /\ MaxServices < CountModulus
      BY ELAssumptions, FDAssumptions, Zenon
    <3> QED
      BY <3>1, <3>2 DEF Services
  <2>7. \/ Count(g, wrapper[v]) = count_before + services.counted
        \/ Count(g, wrapper[v]) = count_before + services.counted - CountModulus
    BY <2>1, <2>2, Zenon DEF ServicesCounted
  <2>8. \/ Count(g, wrapper'[v]) = count_before + services'.counted
        \/ Count(g, wrapper'[v]) = count_before + services'.counted - CountModulus
    <3> DEFINE c == Count(g, wrapper[v])
               d == Count(g, wrapper'[v])
               m == services.counted
               n == services'.counted
    <3>1. n = m + j /\ (d = c + j \/ d = c + j - CountModulus)
      BY <1>3, Zenon DEF Serviced
    <3>2. c \in 0 .. CountModulus - 1 /\ d \in 0 .. CountModulus - 1
      BY <2>4, <2>5, Zenon
    <3>3. m \in Nat /\ n \in 0 .. MaxServices
      BY <2>6, Zenon
    <3>4. c = count_before + m \/ c = count_before + m - CountModulus
      BY <2>7, Zenon
    <3> HIDE DEF c, d, m, n
    <3>5. d = count_before + n \/ d = count_before + n - CountModulus
      BY <2>1, <2>6, <3>1, <3>2, <3>3, <3>4, SMTT(30)
    <3> QED
      BY <3>5, Zenon DEF d, n
  <2>9. /\ "returned" \in services'.outcomes => services'.counted > 0
        /\ services'.counted > 0 => services'.outcomes # {}
    BY <1>3, <2>1, <2>6, SMTT(30) DEF Serviced, ServicesCounted
  <2> QED
    BY <2>1, <2>3, <2>8, <2>9, Zenon DEF ServicesCounted
\* The rule that is being called back, and its wrapper.
<1>4. ASSUME pc = "callback"
      PROVE  /\ it \in 1 .. Len(rules)
             /\ rules[it] \in Rules
             /\ internal_fd[rules[it]] \in Wrappers
             /\ services \in Services
             /\ FDTypeOK
  <2>1. /\ FDTypeOK /\ services \in Services
        /\ rules \in Seq(Rules)
        /\ it \in 1 .. Len(rules)
        /\ \A i \in 1 .. Len(rules) : internal_fd[rules[i]] # NoWrapper
    BY <1>4, Zenon DEF ELTypeOK
  <2>2. rules[it] \in Rules
    BY <2>1
  <2>3. rules[it] \in Handles
    BY <2>2, ELAssumptions, Zenon
  <2> QED
    BY <2>1, <2>2, <2>3, Zenon DEF FDTypeOK
<1>5. ASSUME NEW h \in Clients, ClientWork(h)
      PROVE  ServicesCounted'
  <2>1. /\ UNCHANGED <<loopvars, rules>>
        /\ \A r \in Rules : internal_fd'[r] = internal_fd[r]
    BY <1>5, ClientWorkFrame, Zenon DEF ELTypeOK
  <2>2. pc = "callback"
    BY <2>1, Zenon DEF loopvars
  <2>3. PICK g \in Rules : g = rules[it]
    BY <1>4, <2>2, Zenon
  <2>4. PICK v \in Wrappers : internal_fd[g] = v
    BY <1>4, <2>2, <2>3, Zenon
  <2>5. PICK j \in Nat : Serviced(g, v, j)
    BY <1>5, <2>2, <2>3, <2>4, WorkIsServiced, Zenon
  <2> QED
    BY <1>3, <2>1, <2>3, <2>4, <2>5, Zenon
<1>6. ASSUME UNCHANGED <<loopvars, services, wrapper>>,
             pc = "callback" => rules'[it] = rules[it]
                                /\ internal_fd'[rules[it]] = internal_fd[rules[it]]
      PROVE  ServicesCounted'
  <2>1. pc = "callback"
    BY <1>6, Zenon DEF loopvars
  <2>2. PICK g \in Rules : g = rules[it]
    BY <1>4, <2>1, Zenon
  <2>3. PICK v \in Wrappers : internal_fd[g] = v
    BY <1>4, <2>1, <2>2, Zenon
  <2>4. PICK j \in Nat : Serviced(g, v, j)
    BY <1>4, <1>6, <2>1, NotServiced, Zenon
  <2> QED
    BY <1>3, <1>6, <2>1, <2>2, <2>3, <2>4, Zenon
<1>7. ASSUME NEW r \in Rules, NEW b \in BOOLEAN, SetInterest(r, b)
      PROVE  ServicesCounted'
  BY <1>6, <1>7, Zenon DEF SetInterest, fdvars
<1>8. ASSUME NEW r \in Rules, NEW h \in Clients, NEW b \in BOOLEAN, AddRule(r, h, b)
      PROVE  ServicesCounted'
  <2>1. /\ UNCHANGED <<loopvars, services, wrapper>>
        /\ rules' = Append(rules, r)
        /\ internal_fd[r] = NoWrapper
        /\ internal_fd' = [internal_fd EXCEPT ![r] = internal_fd[h]]
    BY <1>8, Zenon DEF AddRule, Duplicate
  <2>2. ASSUME pc = "callback"
        PROVE  rules'[it] = rules[it] /\ internal_fd'[rules[it]] = internal_fd[rules[it]]
    <3>1. rules'[it] = rules[it]
      BY <1>4, <2>1, <2>2, AppendProps, SMTT(30) DEF ELTypeOK
    <3>2. rules[it] # r /\ rules[it] \in Handles
      BY <1>4, <2>1, <2>2, FDAssumptions, ELAssumptions, Zenon
    <3> QED
      BY <2>1, <3>1, <3>2, Zenon DEF ELTypeOK, FDTypeOK
  <2> QED
    BY <1>6, <2>1, <2>2, Zenon
<1>9. CASE UNCHANGED vars
  BY <1>6, <1>9, Zenon DEF vars, loopvars, fdvars
<1> QED
  BY <1>1, <1>2, <1>5, <1>7, <1>8, <1>9, NextCases, Zenon

\* A call that has not come back has no result.
ResultPending == pc # "client" => result = "none"

\* Every step keeps ResultPending.
LEMMA ResultPendingStep ==
  ASSUME ELTypeOK, ResultPending, [Next]_vars
  PROVE  ResultPending'
<1>1. CASE Quiet
  BY <1>1, Zenon
  DEF ResultPending, Quiet, WaitNextEvent, SetupCancel, SetupPollfd, SetupExit, SetupDone, Poll,
      PollFails, EnterScan, Leave, ScanError, ScanCancel, ScanCallback, ScanSkip, ScanDone,
      CallbackReturn, ClientThrows
<1>2. CASE SetupCancelReturn \/ ScanCancelReturn
  BY <1>2, Zenon DEF ResultPending, SetupCancelReturn, ScanCancelReturn
<1>3. ASSUME NEW h \in Clients, ClientWork(h)
      PROVE  ResultPending'
  BY <1>3, ClientWorkFrame, Zenon DEF ResultPending, ELTypeOK, loopvars
<1>4. ASSUME NEW r \in Rules, NEW b \in BOOLEAN, SetInterest(r, b)
      PROVE  ResultPending'
  BY <1>4, Zenon DEF ResultPending, SetInterest, loopvars
<1>5. ASSUME NEW r \in Rules, NEW h \in Clients, NEW b \in BOOLEAN, AddRule(r, h, b)
      PROVE  ResultPending'
  BY <1>5, Zenon DEF ResultPending, AddRule, loopvars
<1>6. CASE UNCHANGED vars
  BY <1>6, Zenon DEF ResultPending, vars
<1> QED
  BY <1>1, <1>2, <1>3, <1>4, <1>5, <1>6, NextCases, Zenon

\* Busy waiting is detected exactly: a callback that leaves its rule interested
\* is blamed when nothing that counts was done to the rule's descriptor in the
\* rule's direction, and only then, for any width of the counters that one
\* callback cannot go round.
THEOREM ELBusyWaitExact == Spec => BusyWaitExact
<1> DEFINE Exact ==
      pc = "callback" /\ pc' # "callback" /\ result' # "ClientThrow" =>
        /\ result' = "BusyWait" <=> services.counted = 0 /\ interest[rules[it]]
        /\ result' = "BusyWait" => "returned" \notin services.outcomes
        /\ result' # "BusyWait" /\ interest[rules[it]] => services.outcomes # {}
<1>1. Init => ServicesCounted /\ ResultPending
  BY Zenon DEF Init, ServicesCounted, ResultPending
<1>2. ELTypeOK /\ ELTypeOK' /\ ServicesCounted /\ [Next]_vars => ServicesCounted'
  BY ServicesCountedStep, Zenon
<1>3. ELTypeOK /\ ResultPending /\ [Next]_vars => ResultPending'
  BY ResultPendingStep, Zenon
<1>4. ELTypeOK /\ ServicesCounted /\ ResultPending /\ [Next]_vars => [Exact]_vars
  <2> SUFFICES ASSUME ELTypeOK, ServicesCounted, ResultPending, Next,
                      pc = "callback", pc' # "callback", result' # "ClientThrow"
               PROVE  /\ result' = "BusyWait" <=> services.counted = 0 /\ interest[rules[it]]
                      /\ result' = "BusyWait" => "returned" \notin services.outcomes
                      /\ result' # "BusyWait" /\ interest[rules[it]] => services.outcomes # {}
    BY Zenon
  <2>1. CallbackReturn
    <3>1. ~\E h \in Clients : ClientWork(h)
      BY ClientWorkFrame, Zenon DEF ELTypeOK, loopvars
    <3>2. ~\E r \in Rules, b \in BOOLEAN : SetInterest(r, b)
      BY Zenon DEF SetInterest, loopvars
    <3>3. ~\E r \in Rules, h \in Clients, b \in BOOLEAN : AddRule(r, h, b)
      BY Zenon DEF AddRule, loopvars
    <3>4. Quiet
      BY <3>1, <3>2, <3>3, NextCases, Zenon DEF SetupCancelReturn, ScanCancelReturn
    <3> QED
      BY <3>4, Zenon
      DEF Quiet, WaitNextEvent, SetupCancel, SetupPollfd, SetupExit, SetupDone, Poll, PollFails,
          ScanError, ScanCancel, ScanCallback, ScanSkip, ScanDone, ClientThrows, Leave
  <2>2. result' = "BusyWait" <=> BusyWaiting(rules[it])
    BY <2>1, Zenon DEF CallbackReturn, Leave, ResultPending
  <2>3. /\ it \in 1 .. Len(rules)
        /\ rules[it] \in Rules
        /\ count_before \in 0 .. CountModulus - 1
        /\ services.counted \in 0 .. MaxServices
    BY SMTT(30) DEF ELTypeOK, Services
  <2>4. services.counted \in Nat /\ services.counted < CountModulus
    BY <2>3, ELAssumptions, FDAssumptions
  <2>5. count_before = service_count(rules[it]) <=> services.counted = 0
    <3>1. service_count(rules[it]) \in 0 .. CountModulus - 1
      BY <2>3, ServiceCountType, Zenon DEF ELTypeOK
    <3>2. \/ service_count(rules[it]) = count_before + services.counted
          \/ service_count(rules[it]) = count_before + services.counted - CountModulus
      BY Zenon DEF ServicesCounted
    <3> QED
      BY <2>3, <2>4, <3>1, <3>2, FDAssumptions
  <2>6. result' = "BusyWait" <=> services.counted = 0 /\ interest[rules[it]]
    BY <2>2, <2>5, Zenon DEF BusyWaiting
  <2>7. /\ "returned" \in services.outcomes => services.counted > 0
        /\ services.counted > 0 => services.outcomes # {}
    BY Zenon DEF ServicesCounted
  <2>8. services.counted = 0 \/ services.counted > 0
    BY <2>4
  <2>9. ~(services.counted = 0 /\ services.counted > 0)
    BY <2>4
  <2> QED
    BY <2>6, <2>7, <2>8, <2>9, Zenon
<1> QED
  BY <1>1, <1>2, <1>3, <1>4, ELTypeCorrect, PTL DEF Spec, BusyWaitExact

-----------------------------------------------------------------------------
(***************************************************************************)
(* What the second loop has behind it has been dealt with.                 *)
(***************************************************************************)

\* A pollfd that the second loop may leave behind.
Dealt(p) ==
  /\ ~poll_error(p)
  /\ poll_ready(p) => p.rule \in served
  /\ DefunctHup(p) => p.rule \in cancelled

\* Every pollfd before idx has been dealt with, and the one at idx is being dealt
\* with while client code runs.
DealtSoFar ==
  /\ pc \in {"scan", "callback", "cancel_scan"} =>
       \A i \in 1 .. Len(pollfds) : i < idx => Dealt(pollfds[i])
  /\ pc = "callback" /\ idx <= Len(pollfds) =>
       /\ ~poll_error(pollfds[idx]) /\ ~DefunctHup(pollfds[idx])
       /\ pollfds[idx].rule \in served
  /\ pc = "cancel_scan" /\ idx <= Len(pollfds) =>
       ~poll_error(pollfds[idx]) /\ ~poll_ready(pollfds[idx])

\* The pollfd at idx, when there is one, is the one of the rule at `it'.
LEMMA AtIdx ==
  ASSUME ELTypeOK, LoopsAligned, pc \in {"scan", "callback", "cancel_scan"}
  PROVE  /\ idx \in Nat /\ idx >= 1 /\ Len(pollfds) \in Nat
         /\ idx <= Len(pollfds) => pollfds[idx].rule = rules[it]
<1>1. idx \in Nat /\ it \in Nat /\ Len(pollfds) \in Nat
  BY DEF ELTypeOK
<1>2. idx >= 1
  BY Zenon DEF LoopsAligned
<1>3. ASSUME idx <= Len(pollfds) PROVE pollfds[idx].rule = rules[it]
  <2>1. idx \in idx .. Len(pollfds) /\ it + (idx - idx) = it
    BY <1>1, <1>3
  <2> QED BY <2>1, Zenon DEF LoopsAligned
<1> QED BY <1>1, <1>2, <1>3, Zenon

\* A step over the pollfd at idx, once it is dealt with.
LEMMA PassIdx ==
  ASSUME ELTypeOK, LoopsAligned, DealtSoFar,
         pc \in {"scan", "callback", "cancel_scan"}, pc' = "scan",
         pollfds' = pollfds, idx' = idx + 1,
         served \subseteq served', cancelled \subseteq cancelled',
         idx <= Len(pollfds) =>
           /\ ~poll_error(pollfds[idx])
           /\ poll_ready(pollfds[idx]) => pollfds[idx].rule \in served'
           /\ DefunctHup(pollfds[idx]) => pollfds[idx].rule \in cancelled'
  PROVE  DealtSoFar'
<1>1. idx \in Nat /\ idx >= 1 /\ Len(pollfds) \in Nat
  BY AtIdx, Zenon
<1>2. ASSUME NEW i \in 1 .. Len(pollfds'), i < idx' PROVE Dealt(pollfds[i])'
  <2>1. CASE i = idx
    BY <1>1, <1>2, <2>1 DEF Dealt, poll_error, poll_ready, DefunctHup, poll_hup
  <2>2. CASE i < idx
    <3>1. Dealt(pollfds[i])
      BY <1>2, <2>2, Zenon DEF DealtSoFar
    <3> QED BY <3>1, Zenon DEF Dealt, poll_error, poll_ready, DefunctHup, poll_hup
  <2> QED BY <1>1, <1>2, <2>1, <2>2
<1> QED BY <1>2, Zenon DEF DealtSoFar

\* Every step of the second loop deals with the pollfd it passes.
LEMMA DealtStep ==
  ASSUME ELTypeOK, LoopsAligned, DealtSoFar, [Next]_vars
  PROVE  DealtSoFar'
<1>1. ASSUME UNCHANGED loopvars
      PROVE  DealtSoFar'
  BY <1>1, Zenon DEF DealtSoFar, Dealt, loopvars, locals
<1>2. ASSUME NEW h \in Clients, ClientWork(h)
      PROVE  DealtSoFar'
  BY <1>1, <1>2, ClientWorkFrame, TypeParts, Zenon
<1>3. ASSUME NEW r \in Rules, NEW b \in BOOLEAN, SetInterest(r, b)
      PROVE  DealtSoFar'
  BY <1>1, <1>3, Zenon DEF SetInterest
<1>4. ASSUME NEW r \in Rules, NEW h \in Clients, NEW b \in BOOLEAN, AddRule(r, h, b)
      PROVE  DealtSoFar'
  BY <1>1, <1>4, Zenon DEF AddRule
<1>5. CASE UNCHANGED vars
  BY <1>1, <1>5, Zenon DEF vars, loopvars
<1>6. SetupCancelReturn => DealtSoFar'
  BY Zenon DEF SetupCancelReturn, DealtSoFar
<1>7. ASSUME ScanCancelReturn PROVE DealtSoFar'
  <2>1. /\ pc = "cancel_scan" /\ pc' = "scan" /\ pollfds' = pollfds /\ idx' = idx + 1
        /\ served' = served /\ cancelled' = cancelled \cup {rules[it]}
    BY <1>7, Zenon DEF ScanCancelReturn, Erase
  <2>2. ASSUME idx <= Len(pollfds)
        PROVE  /\ ~poll_error(pollfds[idx]) /\ ~poll_ready(pollfds[idx])
               /\ pollfds[idx].rule \in cancelled'
    <3>1. pollfds[idx].rule = rules[it]
      BY <2>1, <2>2, AtIdx, Zenon
    <3>2. pollfds[idx].rule \in cancelled'
      BY <2>1, <3>1, Zenon
    <3>3. ~poll_error(pollfds[idx]) /\ ~poll_ready(pollfds[idx])
      BY <2>1, <2>2, Zenon DEF DealtSoFar
    <3> QED BY <3>2, <3>3, Zenon
  <2> QED BY <2>1, <2>2, PassIdx, Zenon
<1>8. ASSUME NEW status \in [FdNumbers -> SUBSET {"In", "Out", "HUP", "ERR"}], Poll(status)
      PROVE  DealtSoFar'
  BY <1>8 DEF Poll, Leave, EnterScan, DealtSoFar
<1>9. ASSUME NEW error \in PollFailures, PollFails(error)
      PROVE  DealtSoFar'
  BY <1>9 DEF PollFails, Leave, EnterScan, DealtSoFar
<1>10. WaitNextEvent \/ SetupCancel \/ SetupPollfd \/ SetupDone => DealtSoFar'
  BY Zenon DEF WaitNextEvent, SetupCancel, SetupPollfd, SetupDone, DealtSoFar
<1>11. SetupExit \/ ScanError \/ ScanDone \/ ClientThrows => DealtSoFar'
  BY Zenon DEF SetupExit, ScanError, ScanDone, ClientThrows, Leave, DealtSoFar
<1>12. ASSUME ScanCallback PROVE DealtSoFar'
  <2>1. /\ pc = "scan" /\ pc' = "callback" /\ UNCHANGED <<idx, pollfds, cancelled>>
        /\ served' = served \cup {rules[it]}
    BY <1>12, Zenon DEF ScanCallback
  <2>2. ASSUME idx <= Len(pollfds)
        PROVE  /\ ~poll_error(pollfds[idx]) /\ ~DefunctHup(pollfds[idx])
               /\ pollfds[idx].rule \in served'
    <3>1. pollfds[idx].rule = rules[it]
      BY <2>1, <2>2, AtIdx, Zenon
    <3>2. ~poll_error(pollfds[idx]) /\ ~DefunctHup(pollfds[idx])
      BY <1>12, <2>2, Zenon DEF ScanCallback, PollfdsAt
    <3> QED BY <2>1, <3>1, <3>2, Zenon
  <2>3. ASSUME NEW i \in 1 .. Len(pollfds), i < idx PROVE Dealt(pollfds[i])'
    <3>1. Dealt(pollfds[i])
      BY <2>1, <2>3, Zenon DEF DealtSoFar
    <3> QED BY <2>1, <3>1, Zenon DEF Dealt, poll_error, poll_ready, DefunctHup, poll_hup
  <2> QED BY <2>1, <2>2, <2>3, Zenon DEF DealtSoFar, poll_error, DefunctHup, poll_hup, poll_ready
<1>13. ASSUME ScanCancel PROVE DealtSoFar'
  <2>1. pc = "scan" /\ pc' = "cancel_scan" /\ UNCHANGED <<idx, pollfds, served, cancelled>>
    BY <1>13, Zenon DEF ScanCancel, locals
  <2>2. ASSUME idx <= Len(pollfds)
        PROVE  ~poll_error(pollfds[idx]) /\ ~poll_ready(pollfds[idx])
    BY <1>13, <2>2, Zenon DEF ScanCancel, PollfdsAt, DefunctHup
  <2> QED BY <2>1, <2>2, Zenon DEF DealtSoFar, Dealt
<1>14. ASSUME ScanSkip PROVE DealtSoFar'
  <2>1. /\ pc = "scan" /\ pc' = "scan" /\ idx' = idx + 1
        /\ UNCHANGED <<pollfds, served, cancelled>>
    BY <1>14, Zenon DEF ScanSkip
  <2>2. ASSUME idx <= Len(pollfds)
        PROVE  ~poll_error(pollfds[idx]) /\ ~DefunctHup(pollfds[idx]) /\ ~poll_ready(pollfds[idx])
    BY <1>14, <2>2, Zenon DEF ScanSkip, PollfdsAt
  <2> QED BY <2>1, <2>2, PassIdx, Zenon
<1>15. ASSUME CallbackReturn PROVE DealtSoFar'
  <2>1. CASE pc' = "client"
    BY <2>1, Zenon DEF DealtSoFar
  <2>2. CASE pc' # "client"
    <3>1. /\ pc = "callback" /\ pc' = "scan" /\ idx' = idx + 1
          /\ UNCHANGED <<pollfds, served, cancelled>>
      BY <1>15, <2>2, Zenon DEF CallbackReturn, Leave
    <3>2. ASSUME idx <= Len(pollfds)
          PROVE  /\ ~poll_error(pollfds[idx]) /\ ~DefunctHup(pollfds[idx])
                 /\ pollfds[idx].rule \in served'
      BY <3>1, <3>2, Zenon DEF DealtSoFar
    <3> QED BY <3>1, <3>2, PassIdx, Zenon
  <2> QED BY <2>1, <2>2, Zenon
<1>16. Quiet => DealtSoFar'
  BY <1>8, <1>9, <1>10, <1>11, <1>12, <1>13, <1>14, <1>15, Zenon DEF Quiet
<1> QED
  BY <1>2, <1>3, <1>4, <1>5, <1>6, <1>7, <1>16, NextCases, Zenon

\* Success is returned only after the second loop has passed every pollfd.
LEMMA SuccessStep ==
  ASSUME ELTypeOK, LoopsAligned, DealtSoFar, [Next]_vars,
         pc = "scan", pc' = "client", result' = "Success"
  PROVE  \A i \in 1 .. Len(pollfds) :
           /\ ~poll_error(pollfds[i])
           /\ poll_ready(pollfds[i]) => pollfds[i].rule \in served
           /\ DefunctHup(pollfds[i]) => pollfds[i].rule \in cancelled
<1>1. Quiet
  <2>1. SetupCancelReturn \/ ScanCancelReturn => FALSE
    BY Zenon DEF SetupCancelReturn, ScanCancelReturn
  <2>2. ASSUME NEW h \in Clients, ClientWork(h) PROVE FALSE
    BY <2>2, ClientWorkFrame, TypeParts, Zenon DEF loopvars
  <2>3. ASSUME NEW r \in Rules, NEW b \in BOOLEAN, SetInterest(r, b) PROVE FALSE
    BY <2>3, Zenon DEF SetInterest, loopvars
  <2>4. ASSUME NEW r \in Rules, NEW h \in Clients, NEW b \in BOOLEAN, AddRule(r, h, b)
        PROVE  FALSE
    BY <2>4, Zenon DEF AddRule, loopvars
  <2>5. ~UNCHANGED vars
    BY Zenon DEF vars
  <2> QED BY <2>1, <2>2, <2>3, <2>4, <2>5, NextCases, Zenon
<1>2. ScanDone
  <2>1. ~WaitNextEvent /\ ~SetupCancel /\ ~SetupPollfd /\ ~SetupDone /\ ~SetupExit
    BY Zenon DEF WaitNextEvent, SetupCancel, SetupPollfd, SetupDone, SetupExit
  <2>2. /\ \A status \in [FdNumbers -> SUBSET {"In", "Out", "HUP", "ERR"}] : ~Poll(status)
        /\ \A error \in PollFailures : ~PollFails(error)
    BY Zenon DEF Poll, PollFails
  <2>3. ~ScanError /\ ~ScanCancel /\ ~ScanCallback /\ ~ScanSkip /\ ~ClientThrows /\ ~CallbackReturn
    BY Zenon DEF ScanError, ScanCancel, ScanCallback, ScanSkip, ClientThrows, CallbackReturn, Leave
  <2> QED BY <1>1, <2>1, <2>2, <2>3, Zenon DEF Quiet
<1>3. idx > Len(pollfds)
  <2>1. it > Len(rules) /\ Len(pollfds) - idx <= Len(rules) - it
    BY <1>2, Zenon DEF ScanDone, LoopsAligned
  <2>2. idx \in Nat /\ it \in Nat /\ Len(rules) \in Nat /\ Len(pollfds) \in Nat
    BY DEF ELTypeOK
  <2> QED BY <2>1, <2>2
<1>4. ASSUME NEW i \in 1 .. Len(pollfds) PROVE Dealt(pollfds[i])
  <2>1. i < idx
    BY <1>3, AtIdx
  <2> QED BY <2>1, Zenon DEF DealtSoFar
<1> QED BY <1>4, Zenon DEF Dealt

\* wait_next_event returns Success only when everything that poll(2) reported has
\* been dealt with, for any number of rules and whatever client code does.
THEOREM ELSuccessMeansDealtWith == Spec => SuccessMeansDealtWith
<1>1. Init => DealtSoFar
  BY Zenon DEF Init, DealtSoFar
<1>2. ELTypeOK /\ LoopsAligned /\ DealtSoFar /\ [Next]_vars => DealtSoFar'
  BY DealtStep, Zenon
<1>3. ELTypeOK /\ LoopsAligned /\ DealtSoFar /\ [Next]_vars
        => [pc = "scan" /\ pc' = "client" /\ result' = "Success" =>
              \A i \in 1 .. Len(pollfds) :
                /\ ~poll_error(pollfds[i])
                /\ poll_ready(pollfds[i]) => pollfds[i].rule \in served
                /\ DefunctHup(pollfds[i]) => pollfds[i].rule \in cancelled]_vars
  BY SuccessStep, Zenon
<1> QED
  BY <1>1, <1>2, <1>3, ELTypeCorrect, ELLoopsAligned, PTL DEF Spec, SuccessMeansDealtWith

-----------------------------------------------------------------------------
(***************************************************************************)
(* Only defunct rules leave the list.                                      *)
(***************************************************************************)

\* Client code never resets the flags of a wrapper that a rule holds.
LEMMA ClientKeepsFlags ==
  ASSUME FDTypeOK, NEW h \in Clients, ClientWork(h),
         NEW r \in Rules, internal_fd[r] \in Wrappers
  PROVE  /\ internal_fd'[r] = internal_fd[r]
         /\ RuleFd(r).eof => wrapper'[internal_fd[r]].eof
         /\ RuleFd(r).closed => wrapper'[internal_fd[r]].closed
<1> DEFINE v == internal_fd[r]
           Goal == /\ wrapper[v].eof => wrapper'[v].eof
                   /\ wrapper[v].closed => wrapper'[v].closed
<1>0. /\ internal_fd'[r] = v /\ v \in Wrappers /\ wrapper[v] \in FDWrapper
      /\ h \in Handles /\ r \in Handles /\ h # r
  BY ClientWorkFrame, ELAssumptions, Zenon DEF FDTypeOK, Clients
<1> HIDE DEF v
<1>1. ASSUME NEW limit \in 0 .. MaxRead, NEW n \in 0 .. MaxRead, ClientRead(h, limit, n)
      PROVE  Goal
  <2>1. CASE internal_fd[h] = v
    BY <1>0, <1>1, <2>1, Zenon DEF ClientRead, Read, FDTypeOK, FDWrapper
  <2>2. CASE internal_fd[h] # v
    BY <1>0, <1>1, <2>2, Zenon DEF ClientRead, Read, FDTypeOK
  <2> QED BY <2>1, <2>2, Zenon
<1>2. ASSUME NEW k \in 1 .. MaxWritevs, ClientWrite(h, k)
      PROVE  Goal
  BY <1>0, <1>2, Zenon DEF ClientWrite, Write, FDTypeOK, FDWrapper
<1>3. ASSUME NEW w \in Wrappers, ClientConstruct(h, w)
      PROVE  Goal
  <2>1. w # v
    BY <1>0, <1>3, Zenon DEF ClientConstruct, Construct, Alive, v
  <2> QED BY <1>0, <1>3, <2>1, Zenon DEF ClientConstruct, Construct, FDTypeOK
<1>4. ASSUME ClientClose(h)
      PROVE  Goal
  <2>1. CASE wrapper' = wrapper
    BY <2>1, Zenon
  <2>2. CASE wrapper' # wrapper
    <3>1. wrapper' = [wrapper EXCEPT ![internal_fd[h]] = [@ EXCEPT !.eof = TRUE, !.closed = TRUE]]
      BY <1>4, <2>2, Zenon DEF ClientClose, Close
    <3>2. CASE internal_fd[h] = v
      BY <1>0, <3>1, <3>2, Zenon DEF FDTypeOK, FDWrapper
    <3>3. CASE internal_fd[h] # v
      BY <1>0, <3>1, <3>3, Zenon DEF FDTypeOK
    <3> QED BY <3>2, <3>3, Zenon
  <2> QED BY <2>1, <2>2, Zenon
<1>5. ASSUME ClientDestroy(h)
      PROVE  Goal
  <2>1. Release(h)
    BY <1>5, Zenon DEF ClientDestroy, Destroy
  <2>2. CASE internal_fd[h] = v
    BY <1>0, <2>1, <2>2, Zenon DEF Release, LastHandle, v
  <2>3. CASE internal_fd[h] # v
    BY <1>0, <2>1, <2>3, Zenon DEF Release, FDTypeOK
  <2> QED BY <2>2, <2>3, Zenon
<1>6. ASSUME NEW k, NEW l, Register(h, k, l)
      PROVE  Goal
  BY <1>0, <1>6, Zenon DEF Register, FDTypeOK, FDWrapper
<1> HIDE DEF Goal
<1>7. ASSUME NEW dirs \in {{"In"}, {"Out"}, {"In", "Out"}}, ClientServes(h, dirs)
      PROVE  Goal
  BY <1>6, <1>7, Zenon DEF ClientServes
<1>8. ASSUME NEW dir \in {"In", "Out"}, NEW k \in 0 .. 1, ClientServiceThrows(h, dir, k)
      PROVE  Goal
  BY <1>6, <1>8, Zenon DEF ClientServiceThrows
<1>9. Goal
  BY <1>1, <1>2, <1>3, <1>4, <1>5, <1>7, <1>8, Zenon DEF ClientWork
<1> QED BY <1>0, <1>9, Zenon DEF RuleFd, v, Goal

\* The rule whose cancel() is running has given a reason for it.
CancelHasReason ==
  /\ pc = "cancel_setup" => Defunct(rules[it])
  /\ pc = "cancel_scan" =>
       /\ idx \in 1 .. Len(pollfds)
       /\ pollfds[idx].rule = rules[it]
       /\ "HUP" \in pollfds[idx].revents

\* While the second loop runs and nobody adds rules, there is a pollfd at idx and
\* it is the one of the rule at `it'.
LEMMA ScanAligned ==
  ASSUME ~CallbackMayAdd, ELTypeOK, LoopsAligned, pc = "scan", it <= Len(rules)
  PROVE  idx \in 1 .. Len(pollfds) /\ pollfds[idx].rule = rules[it]
<1>1. pollfds \in Seq(PollFd) /\ rules \in Seq(Rules) /\ it \in Nat /\ idx \in Nat
  BY DEF ELTypeOK
<1>2. idx >= 1 /\ Len(pollfds) - idx = Len(rules) - it
  BY Zenon DEF LoopsAligned
<1>3. idx \in 1 .. Len(pollfds)
  BY <1>1, <1>2
<1> QED BY <1>3, AtIdx

\* Nothing that happens inside cancel() takes its reason away.
LEMMA CancelStep ==
  ASSUME ~CallbackMayAdd, ELTypeOK, LoopsAligned, CancelHasReason, [Next]_vars
  PROVE  CancelHasReason'
<1> USE TypeParts
<1>1. /\ FDTypeOK
      /\ pc \in {"cancel_setup", "cancel_scan"} =>
           /\ it \in 1 .. Len(rules) /\ rules[it] \in Rules
           /\ internal_fd[rules[it]] \in Wrappers
  <2>1. ASSUME pc \in {"cancel_setup", "cancel_scan"}
        PROVE  it \in 1 .. Len(rules) /\ rules[it] \in Rules
    BY <2>1 DEF RulesHeld, ControlOK
  <2>2. ASSUME pc \in {"cancel_setup", "cancel_scan"}
        PROVE  internal_fd[rules[it]] \in Wrappers
    BY <2>1, <2>2, ELAssumptions, Zenon DEF RulesHeld, FDTypeOK
  <2> QED BY <2>1, <2>2, Zenon
<1>2. ASSUME UNCHANGED <<loopvars, rules>>,
             pc = "cancel_setup" =>
               /\ internal_fd'[rules[it]] = internal_fd[rules[it]]
               /\ RuleFd(rules[it]).eof => wrapper'[internal_fd[rules[it]]].eof
               /\ RuleFd(rules[it]).closed => wrapper'[internal_fd[rules[it]]].closed
      PROVE  CancelHasReason'
  BY <1>2, Zenon DEF CancelHasReason, Defunct, RuleFd, loopvars, locals
<1>3. ASSUME NEW h \in Clients, ClientWork(h)
      PROVE  CancelHasReason'
  <2>1. UNCHANGED <<loopvars, rules>>
    BY <1>1, <1>3, ClientWorkFrame, Zenon
  <2> QED BY <1>1, <1>2, <1>3, <2>1, ClientKeepsFlags, Zenon
<1>4. ASSUME UNCHANGED <<fdvars, loopvars, rules>> PROVE CancelHasReason'
  BY <1>2, <1>4, Zenon DEF fdvars, RuleFd
<1>5. ASSUME NEW r \in Rules, NEW b \in BOOLEAN, SetInterest(r, b)
      PROVE  CancelHasReason'
  BY <1>4, <1>5, Zenon DEF SetInterest
<1>6. ASSUME NEW r \in Rules, NEW h \in Clients, NEW b \in BOOLEAN, AddRule(r, h, b)
      PROVE  CancelHasReason'
  <2>1. /\ pc \in {"client", "cancel_setup"} /\ UNCHANGED <<loopvars, wrapper>>
        /\ internal_fd' = [internal_fd EXCEPT ![r] = internal_fd[h]]
        /\ internal_fd[r] = NoWrapper /\ rules' = Append(rules, r)
    BY <1>6, Zenon DEF AddRule, Duplicate
  <2>2. CASE pc = "client"
    BY <2>1, <2>2, Zenon DEF CancelHasReason, loopvars
  <2>3. CASE pc = "cancel_setup"
    <3>1. rules'[it] = rules[it] /\ it' = it /\ pc' = pc
      BY <1>1, <2>1, <2>3, AppendProps DEF RulesHeld, loopvars, locals
    <3>2. rules[it] # r
      BY <1>1, <2>1, <2>3, FDAssumptions, Zenon
    <3>3. internal_fd'[rules[it]] = internal_fd[rules[it]]
      BY <1>1, <2>1, <3>2, ELAssumptions DEF FDTypeOK
    <3>4. Defunct(rules[it])'
      BY <2>1, <2>3, <3>1, <3>3, Zenon DEF CancelHasReason, Defunct, RuleFd
    <3> QED BY <2>3, <3>1, <3>4, Zenon DEF CancelHasReason
  <2> QED BY <2>1, <2>2, <2>3, Zenon
<1>7. CASE UNCHANGED vars
  BY <1>4, <1>7, Zenon DEF vars, loopvars
<1>8. SetupCancelReturn \/ ScanCancelReturn => CancelHasReason'
  BY Zenon DEF SetupCancelReturn, ScanCancelReturn, CancelHasReason
<1>9. ASSUME SetupCancel PROVE CancelHasReason'
  BY <1>9, Zenon DEF SetupCancel, CancelHasReason, Defunct, RuleFd, fdvars, locals
<1>10. ASSUME ScanCancel PROVE CancelHasReason'
  <2>1. idx \in 1 .. Len(pollfds) /\ pollfds[idx].rule = rules[it]
    BY <1>10, ScanAligned, Zenon DEF ScanCancel
  <2>2. "HUP" \in pollfds[idx].revents
    <3>1. PICK p \in PollfdsAt(idx) : DefunctHup(p)
      BY <1>10, Zenon DEF ScanCancel
    <3>2. idx <= Len(pollfds)
      BY <2>1
    <3>3. p = pollfds[idx]
      BY <3>1, <3>2, Zenon DEF PollfdsAt
    <3> QED BY <3>1, <3>3, Zenon DEF DefunctHup, poll_hup
  <2> QED BY <1>10, <2>1, <2>2, Zenon DEF ScanCancel, CancelHasReason, locals
<1>11. ASSUME NEW status \in [FdNumbers -> SUBSET {"In", "Out", "HUP", "ERR"}], Poll(status)
      PROVE  CancelHasReason'
  BY <1>11, Zenon DEF Poll, Leave, EnterScan, CancelHasReason
<1>12. ASSUME NEW error \in PollFailures, PollFails(error)
      PROVE  CancelHasReason'
  BY <1>12, Zenon DEF PollFails, Leave, EnterScan, CancelHasReason
<1>13. WaitNextEvent \/ SetupPollfd \/ SetupDone \/ ScanCallback \/ ScanSkip => CancelHasReason'
  BY Zenon DEF WaitNextEvent, SetupPollfd, SetupDone, ScanCallback, ScanSkip, CancelHasReason
<1>14. SetupExit \/ ScanError \/ ScanDone \/ ClientThrows \/ CallbackReturn => CancelHasReason'
  BY Zenon DEF SetupExit, ScanError, ScanDone, ClientThrows, CallbackReturn, Leave, CancelHasReason
<1>15. Quiet => CancelHasReason'
  BY <1>9, <1>10, <1>11, <1>12, <1>13, <1>14, Zenon DEF Quiet
<1> QED
  BY <1>3, <1>5, <1>6, <1>7, <1>8, <1>15, NextCases, Zenon

\* A rule that a step takes off the list is the one at `it', whose cancel() returns.
LEMMA LeavesByCancel ==
  ASSUME ELTypeOK, [Next]_vars,
         NEW r \in Range(rules) \ Range(rules')
  PROVE  (SetupCancelReturn \/ ScanCancelReturn) /\ r = rules[it] /\ r \in cancelled'
<1> USE TypeParts
<1>1. ASSUME rules' = rules PROVE FALSE
  BY <1>1, Zenon
<1>2. ASSUME Quiet PROVE FALSE
  BY <1>1, <1>2, QuietFrame, Zenon
<1>3. ASSUME NEW h \in Clients, ClientWork(h) PROVE FALSE
  BY <1>1, <1>3, ClientWorkFrame, Zenon
<1>4. ASSUME NEW q \in Rules, NEW b \in BOOLEAN, SetInterest(q, b) PROVE FALSE
  BY <1>1, <1>4, Zenon DEF SetInterest
<1>5. ASSUME NEW q \in Rules, NEW h \in Clients, NEW b \in BOOLEAN, AddRule(q, h, b)
      PROVE  FALSE
  <2>1. rules \in Seq(Rules) /\ rules' = Append(rules, q)
    BY <1>5, Zenon DEF AddRule, RulesHeld
  <2>2. PICK j \in 1 .. Len(rules) : r = rules[j]
    BY <2>1 DEF Range
  <2>3. j \in DOMAIN rules' /\ rules'[j] = r
    BY <2>1, <2>2, AppendProps
  <2> QED BY <2>3, Zenon DEF Range
<1>6. ~UNCHANGED vars
  BY <1>1, Zenon DEF vars
<1>7. ASSUME it \in 1 .. Len(rules), rules' = RemoveAt(rules, it)
      PROVE  r = rules[it]
  <2>1. rules \in Seq(Rules)
    BY Zenon DEF RulesHeld
  <2>2. PICK j \in 1 .. Len(rules) : r = rules[j]
    BY <2>1 DEF Range
  <2>3. /\ Len(rules') = Len(rules) - 1 /\ rules' \in Seq(Rules)
        /\ \A k \in 1 .. Len(rules) - 1 : rules'[k] = IF k < it THEN rules[k] ELSE rules[k + 1]
    BY <1>7, <2>1, RemoveAtProperties, Zenon
  <2>4. Len(rules) \in Nat /\ DOMAIN rules' = 1 .. Len(rules) - 1
    BY <2>1, <2>3
  <2>5. CASE j < it
    <3>1. j \in 1 .. Len(rules) - 1 /\ rules'[j] = rules[j]
      BY <1>7, <2>3, <2>4, <2>5
    <3> QED BY <2>2, <2>4, <3>1, Zenon DEF Range
  <2>6. CASE j > it
    <3>1. j - 1 \in 1 .. Len(rules) - 1 /\ ~(j - 1 < it) /\ (j - 1) + 1 = j
      BY <1>7, <2>4, <2>6
    <3>2. rules'[j - 1] = rules[j]
      BY <2>3, <3>1, Zenon
    <3> QED BY <2>2, <2>4, <3>1, <3>2, Zenon DEF Range
  <2> QED BY <1>7, <2>2, <2>4, <2>5, <2>6
<1>8. ASSUME pc \in {"cancel_setup", "cancel_scan"} PROVE it \in 1 .. Len(rules)
  BY <1>8, Zenon DEF ControlOK
<1>9. ASSUME SetupCancelReturn \/ ScanCancelReturn PROVE r = rules[it] /\ r \in cancelled'
  <2>1. /\ pc \in {"cancel_setup", "cancel_scan"}
        /\ rules' = RemoveAt(rules, it) /\ cancelled' = cancelled \cup {rules[it]}
    BY <1>9, Zenon DEF SetupCancelReturn, ScanCancelReturn, Erase
  <2>2. r = rules[it]
    BY <1>7, <1>8, <2>1, Zenon
  <2> QED BY <2>1, <2>2, Zenon
<1> QED
  BY <1>2, <1>3, <1>4, <1>5, <1>6, <1>9, NextCases, Zenon

\* The rules that a step takes off the list.
LEMMA LeaveStep ==
  ASSUME ELTypeOK, CancelHasReason, [Next]_vars,
         NEW r \in Range(rules) \ Range(rules')
  PROVE  /\ r \in cancelled'
         /\ \/ Defunct(r)
            \/ \E i \in 1 .. Len(pollfds) :
                 pollfds[i].rule = r /\ "HUP" \in pollfds[i].revents
<1>1. (SetupCancelReturn \/ ScanCancelReturn) /\ r = rules[it] /\ r \in cancelled'
  BY LeavesByCancel, Zenon
<1>2. pc \in {"cancel_setup", "cancel_scan"}
  BY <1>1, Zenon DEF SetupCancelReturn, ScanCancelReturn
<1> QED BY <1>1, <1>2, Zenon DEF CancelHasReason

\* Unless client code adds rules while the second loop runs, a rule leaves the list
\* only by being cancelled, at EOF, on a closed descriptor or on a hangup.
THEOREM ELOnlyDefunctRulesLeave ==
  ASSUME ~CallbackMayAdd
  PROVE  Spec => OnlyDefunctRulesLeave
<1>1. Init => CancelHasReason
  BY Zenon DEF Init, CancelHasReason
<1>2. ELTypeOK /\ LoopsAligned /\ CancelHasReason /\ [Next]_vars => CancelHasReason'
  BY CancelStep, Zenon
<1>3. ELTypeOK /\ CancelHasReason /\ [Next]_vars
        => [\A r \in Range(rules) \ Range(rules') :
              /\ r \in cancelled'
              /\ \/ Defunct(r)
                 \/ \E i \in 1 .. Len(pollfds) :
                      pollfds[i].rule = r /\ "HUP" \in pollfds[i].revents]_vars
  BY LeaveStep, Zenon
<1> QED
  BY <1>1, <1>2, <1>3, ELTypeCorrect, ELLoopsAligned, PTL DEF Spec, OnlyDefunctRulesLeave

-----------------------------------------------------------------------------
(***************************************************************************)
(* A defunct rule is defunct for good.                                     *)
(***************************************************************************)

\* Erasing one rule does not touch the wrapper of another one, even when they
\* share it.
LEMMA EraseKeepsOthers ==
  ASSUME FDTypeOK, NEW h \in Handles, NEW q \in Handles, q # h,
         internal_fd[q] # NoWrapper, Destroy(h)
  PROVE  internal_fd'[q] = internal_fd[q] /\ wrapper'[internal_fd[q]] = wrapper[internal_fd[q]]
<1>1. Release(h) /\ internal_fd' = [internal_fd EXCEPT ![h] = NoWrapper]
  BY Zenon DEF Destroy
<1>2. internal_fd'[q] = internal_fd[q]
  BY <1>1, Zenon DEF FDTypeOK
<1>3. internal_fd[q] \in Wrappers
  BY Zenon DEF FDTypeOK
<1>4. CASE internal_fd[h] = internal_fd[q]
  <2>1. ~LastHandle(h)
    BY <1>4, Zenon DEF LastHandle
  <2> QED BY <1>1, <1>2, <2>1, Zenon DEF Release
<1>5. CASE internal_fd[h] # internal_fd[q]
  BY <1>1, <1>2, <1>3, <1>5, Zenon DEF Release, FDTypeOK
<1> QED BY <1>4, <1>5, Zenon

\* A step leaves a defunct rule defunct, or has cancelled it.
LEMMA DefunctStep ==
  ASSUME ELTypeOK, [Next]_vars, NEW r \in Range(rules), Defunct(r)
  PROVE  r \in cancelled' \/ (r \in Range(rules') /\ Defunct(r)')
<1> USE TypeParts
<1>1. r \in Rules /\ r \in Handles /\ internal_fd[r] \in Wrappers /\ internal_fd[r] # NoWrapper
  <2>1. PICK j \in 1 .. Len(rules) : r = rules[j]
    BY DEF Range, RulesHeld
  <2>2. r \in Rules /\ internal_fd[r] # NoWrapper
    BY <2>1 DEF RulesHeld
  <2> QED BY <2>2, ELAssumptions, Zenon DEF FDTypeOK
<1>2. CASE r \notin Range(rules')
  BY <1>2, LeavesByCancel, Zenon
<1>3. CASE r \in Range(rules')
  <2>1. ASSUME internal_fd'[r] = internal_fd[r],
               RuleFd(r).eof => wrapper'[internal_fd[r]].eof,
               RuleFd(r).closed => wrapper'[internal_fd[r]].closed
        PROVE  Defunct(r)'
    BY <2>1, Zenon DEF Defunct, RuleFd
  <2>2. ASSUME UNCHANGED fdvars PROVE Defunct(r)'
    BY <2>1, <2>2, Zenon DEF fdvars, RuleFd
  <2>3. ASSUME Quiet PROVE Defunct(r)'
    BY <2>2, <2>3, QuietFrame, Zenon
  <2>4. ASSUME NEW h \in Clients, ClientWork(h) PROVE Defunct(r)'
    BY <1>1, <2>1, <2>4, ClientKeepsFlags, Zenon
  <2>5. ASSUME NEW q \in Rules, NEW b \in BOOLEAN, SetInterest(q, b) PROVE Defunct(r)'
    BY <2>2, <2>5, Zenon DEF SetInterest
  <2>6. ASSUME NEW q \in Rules, NEW h \in Clients, NEW b \in BOOLEAN, AddRule(q, h, b)
        PROVE  Defunct(r)'
    <3>1. /\ internal_fd' = [internal_fd EXCEPT ![q] = internal_fd[h]] /\ wrapper' = wrapper
          /\ q # r
      BY <2>6, Zenon DEF AddRule, Duplicate
    <3>2. internal_fd'[r] = internal_fd[r]
      BY <1>1, <3>1, Zenon DEF FDTypeOK
    <3> QED BY <2>1, <3>1, <3>2, Zenon DEF RuleFd
  <2>7. ASSUME SetupCancelReturn \/ ScanCancelReturn PROVE r \in cancelled' \/ Defunct(r)'
    <3>1. /\ pc \in {"cancel_setup", "cancel_scan"}
          /\ Destroy(rules[it]) /\ cancelled' = cancelled \cup {rules[it]}
      BY <2>7, Zenon DEF SetupCancelReturn, ScanCancelReturn, Erase
    <3>2. it \in 1 .. Len(rules)
      BY <3>1, Zenon DEF ControlOK
    <3>3. rules[it] \in Rules
      BY <3>2 DEF RulesHeld
    <3>4. rules[it] \in Handles
      BY <3>3, ELAssumptions, Zenon
    <3>5. CASE r = rules[it]
      BY <3>1, <3>5, Zenon
    <3>6. CASE r # rules[it]
      <4>1. internal_fd'[r] = internal_fd[r] /\ wrapper'[internal_fd[r]] = wrapper[internal_fd[r]]
        BY <1>1, <3>1, <3>4, <3>6, EraseKeepsOthers, Zenon
      <4> QED BY <2>1, <4>1, Zenon DEF RuleFd
    <3> QED BY <3>5, <3>6, Zenon
  <2>8. ASSUME UNCHANGED vars PROVE Defunct(r)'
    BY <2>2, <2>8, Zenon DEF vars
  <2> QED BY <1>3, <2>3, <2>4, <2>5, <2>6, <2>7, <2>8, NextCases, Zenon
<1> QED BY <1>2, <1>3, Zenon

\* Nothing revives a rule that is to be cancelled, whatever client code does to
\* its descriptor and whoever shares it.
THEOREM ELDefunctForGood == Spec => DefunctForGood
<1>1. ELTypeOK /\ [Next]_vars
        => [\A r \in Range(rules) : Defunct(r) =>
              r \in cancelled' \/ (r \in Range(rules') /\ Defunct(r)')]_vars
  BY DefunctStep, Zenon
<1> QED
  BY <1>1, ELTypeCorrect, PTL DEF Spec, DefunctForGood

-----------------------------------------------------------------------------
(***************************************************************************)
(* wait_next_event gets on.  With the loops and turns that are left as a   *)
(* measure, in lexicographic order, its own steps go down, and client code *)
(* goes up only by adding rules.                                           *)
(***************************************************************************)

\* The measure, place by place.
LEMMA LeftAt ==
  /\ pc \in {"setup", "cancel_setup"} => LoopsLeft = 3
  /\ pc = "poll" => LoopsLeft = 2
  /\ pc \in {"scan", "callback", "cancel_scan"} => LoopsLeft = 1
  /\ pc = "client" => LoopsLeft = 0
  /\ pc \in {"setup", "scan"} => TurnsLeft = 2 * (Len(rules) + 1 - it) + 1
  /\ pc \notin {"setup", "scan"} => TurnsLeft = 2 * (Len(rules) + 1 - it) + 0
<1>1. /\ pc \in {"setup", "cancel_setup"} => LoopsLeft = 3
      /\ pc = "poll" => LoopsLeft = 2
      /\ pc \in {"scan", "callback", "cancel_scan"} => LoopsLeft = 1
      /\ pc = "client" => LoopsLeft = 0
  BY DEF LoopsLeft
<1>2. /\ pc \in {"setup", "scan"} => TurnsLeft = 2 * (Len(rules) + 1 - it) + 1
      /\ pc \notin {"setup", "scan"} => TurnsLeft = 2 * (Len(rules) + 1 - it) + 0
  BY Zenon DEF TurnsLeft
<1> QED BY <1>1, <1>2, Zenon

\* The same after a step.
LEMMA LeftAfter ==
  /\ pc' \in {"setup", "cancel_setup"} => LoopsLeft' = 3
  /\ pc' = "poll" => LoopsLeft' = 2
  /\ pc' \in {"scan", "callback", "cancel_scan"} => LoopsLeft' = 1
  /\ pc' = "client" => LoopsLeft' = 0
  /\ pc' \in {"setup", "scan"} => TurnsLeft' = 2 * (Len(rules') + 1 - it') + 1
  /\ pc' \notin {"setup", "scan"} => TurnsLeft' = 2 * (Len(rules') + 1 - it') + 0
<1>1. /\ pc' \in {"setup", "cancel_setup"} => LoopsLeft' = 3
      /\ pc' = "poll" => LoopsLeft' = 2
      /\ pc' \in {"scan", "callback", "cancel_scan"} => LoopsLeft' = 1
      /\ pc' = "client" => LoopsLeft' = 0
  BY DEF LoopsLeft
<1>2. /\ pc' \in {"setup", "scan"} => TurnsLeft' = 2 * (Len(rules') + 1 - it') + 1
      /\ pc' \notin {"setup", "scan"} => TurnsLeft' = 2 * (Len(rules') + 1 - it') + 0
  BY Zenon DEF TurnsLeft
<1> QED BY <1>1, <1>2, Zenon

\* The four ways in which a step gets on: it leaves a loop, enters client code, or
\* passes or erases a rule, coming from client code or not.
LEMMA GetsOn ==
  ASSUME ELTypeOK
  PROVE  /\ pc # "client" /\ pc' = "client" => Nearer
         /\ pc = "setup" /\ pc' = "poll" => Nearer
         /\ pc = "poll" /\ pc' = "scan" => Nearer
         /\ /\ \/ pc = "setup" /\ pc' = "cancel_setup"
               \/ pc = "scan" /\ pc' \in {"callback", "cancel_scan"}
            /\ it' = it /\ rules' = rules
            => Nearer
         /\ /\ \/ pc \in {"setup", "cancel_setup"} /\ pc' = "setup"
               \/ pc \in {"scan", "callback", "cancel_scan"} /\ pc' = "scan"
            /\ \/ it' = it + 1 /\ rules' = rules
               \/ it' = it /\ Len(rules') = Len(rules) - 1
            => Nearer
<1>1. pc \in PCs /\ it \in Nat /\ Len(rules) \in Nat
  BY DEF ELTypeOK
<1>2. pc # "client" /\ pc' = "client" => Nearer
  <2>1. pc # "client" => LoopsLeft \in {1, 2, 3}
    BY <1>1, LeftAt, Zenon DEF PCs, ClientCode
  <2>2. pc # "client" => 0 < LoopsLeft
    BY <2>1
  <2> QED BY <2>2, LeftAfter, Zenon DEF Nearer
<1>3. /\ pc = "setup" /\ pc' = "poll" => Nearer
      /\ pc = "poll" /\ pc' = "scan" => Nearer
  BY LeftAt, LeftAfter DEF Nearer
<1>4. ASSUME \/ pc = "setup" /\ pc' = "cancel_setup"
             \/ pc = "scan" /\ pc' \in {"callback", "cancel_scan"},
             it' = it, rules' = rules
      PROVE  Nearer
  <2>1. LoopsLeft' = LoopsLeft
    BY <1>4, LeftAt, LeftAfter, Zenon
  <2>2. TurnsLeft = 2 * (Len(rules) + 1 - it) + 1 /\ TurnsLeft' = 2 * (Len(rules) + 1 - it) + 0
    BY <1>4, LeftAt, LeftAfter
  <2>3. TurnsLeft' < TurnsLeft
    BY ONLY <1>1, <2>2
  <2> QED BY <2>1, <2>3, Zenon DEF Nearer
<1>5. ASSUME \/ pc \in {"setup", "cancel_setup"} /\ pc' = "setup"
             \/ pc \in {"scan", "callback", "cancel_scan"} /\ pc' = "scan",
             \/ it' = it + 1 /\ rules' = rules
             \/ it' = it /\ Len(rules') = Len(rules) - 1
      PROVE  Nearer
  <2>1. LoopsLeft' = LoopsLeft
    BY <1>5, LeftAt, LeftAfter, Zenon
  <2>2. TurnsLeft \in {2 * (Len(rules) + 1 - it) + 1, 2 * (Len(rules) + 1 - it) + 0}
    BY LeftAt, Zenon
  <2>3. TurnsLeft' = 2 * (Len(rules') + 1 - it') + 1
    BY <1>5, LeftAfter, Zenon
  <2>4. Len(rules') + 1 - it' = Len(rules) - it
    BY ONLY <1>1, <1>5
  <2>5. TurnsLeft' < TurnsLeft
    BY ONLY <1>1, <2>2, <2>3, <2>4
  <2> QED BY <2>1, <2>5, Zenon DEF Nearer
<1> QED BY <1>2, <1>3, <1>4, <1>5, Zenon

\* Inside a call every step gets on or is one of client code.
LEMMA ProgressStep ==
  ASSUME ELTypeOK, Next, pc # "client"
  PROVE  TurnsLeft \in Nat /\ (Nearer \/ OnlyAdds)
<1> USE TypeParts
<1>1. pc \in PCs /\ it \in 1 .. Len(rules) + 1 /\ Len(rules) \in Nat /\ rules \in Seq(Rules)
  BY DEF ControlOK, RulesHeld
<1>2. TurnsLeft \in Nat
  <2>1. TurnsLeft \in {2 * (Len(rules) + 1 - it) + 1, 2 * (Len(rules) + 1 - it) + 0}
    BY LeftAt, Zenon
  <2> QED BY ONLY <1>1, <2>1
<1>3. ASSUME Quiet PROVE Nearer
  <2>1. rules' = rules
    BY <1>3, QuietFrame, Zenon
  <2>2. ~WaitNextEvent
    BY Zenon DEF WaitNextEvent
  <2>3. ASSUME NEW res, Leave(res) PROVE Nearer
    BY <2>3, GetsOn, Zenon DEF Leave
  <2>4. SetupExit \/ ScanError \/ ScanDone \/ ClientThrows => Nearer
    BY <2>3, Zenon DEF SetupExit, ScanError, ScanDone, ClientThrows
  <2>5. SetupCancel \/ ScanCancel \/ ScanCallback => Nearer
    BY <2>1, GetsOn, Zenon DEF SetupCancel, ScanCancel, ScanCallback, locals
  <2>6. SetupPollfd \/ ScanSkip => Nearer
    BY <2>1, GetsOn, Zenon DEF SetupPollfd, ScanSkip
  <2>7. SetupDone => Nearer
    BY GetsOn, Zenon DEF SetupDone
  <2>8. ASSUME NEW status \in [FdNumbers -> SUBSET {"In", "Out", "HUP", "ERR"}], Poll(status)
        PROVE  Nearer
    BY <2>3, <2>8, GetsOn, Zenon DEF Poll, EnterScan
  <2>9. ASSUME NEW error \in PollFailures, PollFails(error) PROVE Nearer
    BY <2>3, <2>9, GetsOn, Zenon DEF PollFails, EnterScan
  <2>10. ASSUME CallbackReturn PROVE Nearer
    BY <2>1, <2>3, <2>10, GetsOn, Zenon DEF CallbackReturn
  <2> QED BY <1>3, <2>2, <2>4, <2>5, <2>6, <2>7, <2>8, <2>9, <2>10, Zenon DEF Quiet
<1>4. ASSUME SetupCancelReturn \/ ScanCancelReturn PROVE Nearer
  <2>1. /\ pc \in {"cancel_setup", "cancel_scan"} /\ it' = it /\ rules' = RemoveAt(rules, it)
        /\ pc = "cancel_setup" => pc' = "setup"
        /\ pc = "cancel_scan" => pc' = "scan"
    BY <1>4 DEF SetupCancelReturn, ScanCancelReturn, Erase, locals
  <2>2. it \in 1 .. Len(rules)
    BY <2>1, Zenon DEF ControlOK
  <2>3. Len(rules') = Len(rules) - 1
    BY <1>1, <2>1, <2>2, RemoveAtProperties, Zenon
  <2> QED BY <2>1, <2>3, GetsOn, Zenon
<1>5. ASSUME NEW h \in Clients, ClientWork(h) PROVE OnlyAdds
  <2>1. UNCHANGED <<loopvars, rules>>
    BY <1>5, ClientWorkFrame, Zenon
  <2>2. pc \in ClientCode
    BY <1>5, Zenon DEF ClientWork, ClientRead, ClientWrite, ClientServes, ClientServiceThrows,
                       ClientConstruct, ClientClose, ClientDestroy
  <2> QED BY <2>1, <2>2, Zenon DEF OnlyAdds, loopvars, locals
<1>6. ASSUME NEW r \in Rules, NEW b \in BOOLEAN, SetInterest(r, b) PROVE OnlyAdds
  BY <1>6, Zenon DEF SetInterest, OnlyAdds, loopvars, locals
<1>7. ASSUME NEW r \in Rules, NEW h \in Clients, NEW b \in BOOLEAN, AddRule(r, h, b) PROVE OnlyAdds
  <2>1. pc \in ClientCode
    BY <1>7, Zenon DEF AddRule, ClientCode
  <2> QED BY <1>7, <2>1, Zenon DEF AddRule, OnlyAdds, loopvars, locals
<1> QED BY <1>2, <1>3, <1>4, <1>5, <1>6, <1>7, NextCases, Zenon

\* A call of wait_next_event cannot go round in circles: each of its steps brings it
\* nearer to its end, and client code can only make it longer by adding rules, each
\* of them once.
THEOREM ELWaitProgresses == Spec => WaitProgresses
<1>1. ELTypeOK /\ [Next]_vars
        => [pc # "client" => TurnsLeft \in Nat /\ (Nearer \/ OnlyAdds)]_vars
  BY ProgressStep, Zenon
<1> QED
  BY <1>1, ELTypeCorrect, PTL DEF Spec, WaitProgresses

-----------------------------------------------------------------------------
(***************************************************************************)
(* A call calls a rule back at most once.                                  *)
(***************************************************************************)

\* The rules that have been called back are those the second loop has passed or
\* is at, and no listed rule has been cancelled.
ServedPassed ==
  /\ \A i \in 1 .. Len(rules) : rules[i] \notin cancelled
  /\ pc \in {"setup", "cancel_setup", "poll"} => served = {}
  /\ pc \in {"scan", "cancel_scan"} => \A r \in served : \E i \in 1 .. it - 1 : rules[i] = r
  /\ pc = "callback" => \A r \in served : \E i \in 1 .. it : rules[i] = r

\* Steps of wait_next_event that call no client code.
LEMMA PassedQuiet ==
  ASSUME ELTypeOK, ServedPassed, Quiet
  PROVE  ServedPassed'
<1> USE TypeParts
<1>1. it \in Nat /\ Len(rules) \in Nat /\ rules' = rules
  BY QuietFrame DEF ControlOK, RulesHeld
<1>2. cancelled' = cancelled
  BY Zenon DEF Quiet, WaitNextEvent, SetupCancel, SetupPollfd, SetupExit, SetupDone, Poll, PollFails,
       ScanError, ScanCancel, ScanCallback, ScanSkip, ScanDone, CallbackReturn, ClientThrows
<1>3. \A i \in 1 .. Len(rules') : rules'[i] \notin cancelled'
  BY <1>1, <1>2, Zenon DEF ServedPassed
<1>4. ASSUME pc' = "client" PROVE ServedPassed'
  BY <1>3, <1>4, Zenon DEF ServedPassed
<1>5. ASSUME NEW res, Leave(res) PROVE ServedPassed'
  BY <1>4, <1>5, Zenon DEF Leave
<1>6. SetupExit \/ ScanError \/ ScanDone \/ ClientThrows => ServedPassed'
  BY <1>5, Zenon DEF SetupExit, ScanError, ScanDone, ClientThrows
<1>7. ASSUME served' = {} PROVE ServedPassed'
  BY <1>3, <1>7, Zenon DEF ServedPassed
<1>8. WaitNextEvent => ServedPassed'
  BY <1>7, Zenon DEF WaitNextEvent
<1>9. SetupCancel \/ SetupPollfd \/ SetupDone => ServedPassed'
  BY <1>7, Zenon DEF SetupCancel, SetupPollfd, SetupDone, ServedPassed
<1>10. ASSUME NEW status \in [FdNumbers -> SUBSET {"In", "Out", "HUP", "ERR"}], Poll(status)
       PROVE  ServedPassed'
  BY <1>7, <1>10, Zenon DEF Poll, ServedPassed
<1>11. ASSUME NEW error \in PollFailures, PollFails(error) PROVE ServedPassed'
  BY <1>7, <1>11, Zenon DEF PollFails, ServedPassed
<1>12. ASSUME ScanCancel PROVE ServedPassed'
  <2>1. pc = "scan" /\ pc' = "cancel_scan" /\ it' = it /\ served' = served
    BY <1>12, Zenon DEF ScanCancel, locals
  <2> QED BY <1>1, <1>3, <2>1, Zenon DEF ServedPassed
<1>13. 1 .. it - 1 \subseteq 1 .. it /\ it + 1 - 1 = it
  BY <1>1
<1>14. ASSUME ScanCallback PROVE ServedPassed'
  <2>1. pc = "scan" /\ pc' = "callback" /\ it' = it /\ served' = served \cup {rules[it]}
    BY <1>14, Zenon DEF ScanCallback
  <2>2. it \in 1 .. it
    BY <2>1 DEF ControlOK
  <2>3. \A r \in served' : \E i \in 1 .. it : rules[i] = r
    BY <1>13, <2>1, <2>2, Zenon DEF ServedPassed
  <2> QED BY <1>1, <1>3, <2>1, <2>3, Zenon DEF ServedPassed
<1>15. ASSUME ScanSkip PROVE ServedPassed'
  <2>1. pc = "scan" /\ pc' = "scan" /\ it' = it + 1 /\ served' = served
    BY <1>15, Zenon DEF ScanSkip
  <2>2. \A r \in served : \E i \in 1 .. it : rules[i] = r
    BY <1>13, <2>1, Zenon DEF ServedPassed
  <2>3. it' - 1 = it
    BY <1>1, <2>1
  <2> QED BY <1>1, <1>3, <2>1, <2>2, <2>3, Zenon DEF ServedPassed
<1>16. ASSUME CallbackReturn PROVE ServedPassed'
  <2>1. CASE BusyWaiting(rules[it])
    BY <1>5, <1>16, <2>1, Zenon DEF CallbackReturn
  <2>2. CASE ~BusyWaiting(rules[it])
    <3>1. pc = "callback" /\ pc' = "scan" /\ it' = it + 1 /\ served' = served
      BY <1>16, <2>2, Zenon DEF CallbackReturn
    <3>2. it' - 1 = it
      BY <1>1, <3>1
    <3> QED BY <1>1, <1>3, <3>1, <3>2, Zenon DEF ServedPassed
  <2> QED BY <2>1, <2>2, Zenon
<1> QED
  BY <1>6, <1>8, <1>9, <1>10, <1>11, <1>12, <1>14, <1>15, <1>16, Zenon DEF Quiet

\* cancel() returns: the rule that is erased lies behind those called back.
LEMMA PassedErase ==
  ASSUME ELTypeOK, ServedPassed, SetupCancelReturn \/ ScanCancelReturn
  PROVE  ServedPassed'
<1> USE TypeParts
<1>1. /\ rules' = RemoveAt(rules, it) /\ cancelled' = cancelled \cup {rules[it]}
      /\ served' = served /\ it' = it
      /\ \/ pc = "cancel_setup" /\ pc' = "setup"
         \/ pc = "cancel_scan" /\ pc' = "scan"
  BY DEF SetupCancelReturn, ScanCancelReturn, Erase, locals
<1>2. it \in 1 .. Len(rules) /\ rules \in Seq(Rules)
      /\ \A i, j \in 1 .. Len(rules) : rules[i] = rules[j] => i = j
  BY <1>1, Zenon DEF ControlOK, RulesHeld
<1>3. /\ Len(rules') = Len(rules) - 1
      /\ \A j \in 1 .. Len(rules) - 1 : rules'[j] = IF j < it THEN rules[j] ELSE rules[j + 1]
  BY <1>1, <1>2, RemoveAtProperties, Zenon
<1>4. ASSUME NEW j \in 1 .. Len(rules') PROVE rules'[j] \notin cancelled'
  <2>1. Len(rules) \in Nat /\ j \in 1 .. Len(rules) - 1
    BY <1>2, <1>3
  <2>2. /\ j < it => j \in 1 .. Len(rules) /\ j # it
        /\ ~(j < it) => j + 1 \in 1 .. Len(rules) /\ j + 1 # it
    BY <1>2, <2>1
  <2>3. PICK k \in 1 .. Len(rules) : k # it /\ rules'[j] = rules[k]
    BY <1>3, <2>1, <2>2, Zenon
  <2>4. rules[k] # rules[it] /\ rules[k] \notin cancelled
    BY <1>2, <2>3, Zenon DEF ServedPassed
  <2> QED BY <1>1, <2>3, <2>4, Zenon
<1>5. \A j \in 1 .. it - 1 : rules'[j] = rules[j]
  <2>1. Len(rules) \in Nat
    BY <1>2
  <2>2. \A j \in 1 .. it - 1 : j \in 1 .. Len(rules) - 1 /\ j < it
    BY <1>2, <2>1
  <2> QED BY <1>3, <2>2, Zenon
<1>6. CASE pc = "cancel_setup" /\ pc' = "setup"
  BY <1>1, <1>4, <1>6, Zenon DEF ServedPassed
<1>7. CASE pc = "cancel_scan" /\ pc' = "scan"
  <2>1. \A r \in served' : \E i \in 1 .. it' - 1 : rules'[i] = r
    BY <1>1, <1>5, <1>7, Zenon DEF ServedPassed
  <2> QED BY <1>4, <1>7, <2>1, Zenon DEF ServedPassed
<1> QED BY <1>1, <1>6, <1>7, Zenon

\* add_rule puts the new rule behind them.
LEMMA PassedAdd ==
  ASSUME ELTypeOK, ServedPassed,
         NEW r \in Rules, NEW h \in Clients, NEW b \in BOOLEAN, AddRule(r, h, b)
  PROVE  ServedPassed'
<1>1. rules' = Append(rules, r) /\ r \notin cancelled /\ UNCHANGED <<pc, it, served, cancelled>>
  BY Zenon DEF AddRule, loopvars, locals
<1>2. /\ rules \in Seq(Rules) /\ Len(rules) \in Nat /\ it \in 0 .. Len(rules) + 1
      /\ pc = "callback" => it \in 1 .. Len(rules)
  BY TypeParts DEF ControlOK, RulesHeld
<1>3. /\ Len(rules') = Len(rules) + 1
      /\ \A j \in 1 .. Len(rules) : rules'[j] = rules[j]
      /\ rules'[Len(rules) + 1] = r
  <2>1. rules \in Seq(Rules)
    BY <1>2, Zenon
  <2>2. /\ Len(Append(rules, r)) = Len(rules) + 1
        /\ \A j \in 1 .. Len(rules) : Append(rules, r)[j] = rules[j]
        /\ Append(rules, r)[Len(rules) + 1] = r
    BY <2>1
  <2> QED BY <1>1, <2>2, Zenon
<1>4. \A i \in 1 .. Len(rules') : i \in 1 .. Len(rules) \/ i = Len(rules) + 1
  BY <1>2, <1>3
<1>5. \A i \in 1 .. Len(rules') : rules'[i] \notin cancelled'
  <2> TAKE i \in 1 .. Len(rules')
  <2>1. CASE i \in 1 .. Len(rules)
    BY <1>1, <1>3, <2>1, Zenon DEF ServedPassed
  <2>2. CASE i = Len(rules) + 1
    BY <1>1, <1>3, <2>2, Zenon
  <2> QED BY <1>4, <2>1, <2>2, Zenon
<1>6. /\ \A i \in 1 .. it - 1 : i \in 1 .. Len(rules)
      /\ pc = "callback" => \A i \in 1 .. it : i \in 1 .. Len(rules)
  BY <1>2
<1>7. pc \in {"scan", "cancel_scan"} => \A q \in served : \E i \in 1 .. it - 1 : rules'[i] = q
  BY <1>3, <1>6, Zenon DEF ServedPassed
<1>8. pc = "callback" => \A q \in served : \E i \in 1 .. it : rules'[i] = q
  BY <1>3, <1>6, Zenon DEF ServedPassed
<1> QED BY <1>1, <1>5, <1>7, <1>8, Zenon DEF ServedPassed

\* Every step keeps it.
LEMMA PassedStep ==
  ASSUME ELTypeOK, ServedPassed, [Next]_vars
  PROVE  ServedPassed'
<1> USE TypeParts
<1>1. ASSUME UNCHANGED <<loopvars, rules>> PROVE ServedPassed'
  BY <1>1, Zenon DEF ServedPassed, loopvars, locals
<1>2. ASSUME NEW h \in Clients, ClientWork(h) PROVE ServedPassed'
  BY <1>1, <1>2, ClientWorkFrame, Zenon
<1>3. ASSUME NEW r \in Rules, NEW b \in BOOLEAN, SetInterest(r, b) PROVE ServedPassed'
  BY <1>1, <1>3, Zenon DEF SetInterest
<1>4. ASSUME UNCHANGED vars PROVE ServedPassed'
  BY <1>1, <1>4, Zenon DEF vars, loopvars
<1> QED
  BY <1>2, <1>3, <1>4, PassedQuiet, PassedErase, PassedAdd, NextCases, Zenon

\* The rule that is called back has not been, in this call, and is not cancelled.
LEMMA OnceStep ==
  ASSUME ELTypeOK, ServedPassed, Next, pc = "scan", pc' = "callback"
  PROVE  rules[it] \notin served \cup cancelled
<1> USE TypeParts
<1>1. it <= Len(rules)
  <2>1. ASSUME pc' = pc PROVE FALSE
    BY <2>1, Zenon
  <2>2. ASSUME NEW h \in Clients, ClientWork(h) PROVE FALSE
    BY <2>1, <2>2, ClientWorkFrame, Zenon DEF loopvars
  <2>3. ASSUME NEW r \in Rules, NEW b \in BOOLEAN, SetInterest(r, b) PROVE FALSE
    BY <2>1, <2>3, Zenon DEF SetInterest, loopvars
  <2>4. ASSUME NEW r \in Rules, NEW h \in Clients, NEW b \in BOOLEAN, AddRule(r, h, b) PROVE FALSE
    BY <2>1, <2>4, Zenon DEF AddRule, loopvars
  <2>5. ~SetupCancelReturn /\ ~ScanCancelReturn
    BY Zenon DEF SetupCancelReturn, ScanCancelReturn
  <2>6. Quiet
    BY <2>2, <2>3, <2>4, <2>5, NextCases, Zenon
  <2>7. ScanCallback
    BY <2>6, Zenon DEF Quiet, WaitNextEvent, SetupCancel, SetupPollfd, SetupExit, SetupDone, Poll,
         PollFails, ScanError, ScanCancel, ScanSkip, ScanDone, CallbackReturn, ClientThrows, Leave
  <2> QED BY <2>7, Zenon DEF ScanCallback
<1>2. it \in 1 .. Len(rules) /\ Len(rules) \in Nat
      /\ \A i, j \in 1 .. Len(rules) : rules[i] = rules[j] => i = j
  BY <1>1 DEF ControlOK, RulesHeld
<1>3. \A i \in 1 .. it - 1 : i \in 1 .. Len(rules) /\ i # it
  BY <1>2
<1>4. rules[it] \notin served
  BY <1>2, <1>3, Zenon DEF ServedPassed
<1> QED BY <1>2, <1>4, Zenon DEF ServedPassed

\* One call of wait_next_event calls back each rule at most once and none that has been
\* cancelled, whatever client code adds, closes or throws.
THEOREM ELCalledOnce == Spec => CalledOnce
<1>1. Init => ServedPassed
  BY DEF Init, ServedPassed
<1>2. ELTypeOK /\ ServedPassed /\ [Next]_vars => ServedPassed'
  BY PassedStep, Zenon
<1>3. ELTypeOK /\ ServedPassed /\ [Next]_vars
        => [pc = "scan" /\ pc' = "callback" => rules[it] \notin served \cup cancelled]_vars
  BY OnceStep, Zenon
<1> QED
  BY <1>1, <1>2, <1>3, ELTypeCorrect, PTL DEF Spec, CalledOnce

=============================================================================
