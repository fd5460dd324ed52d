------------------------ MODULE FileDescriptorProofs ------------------------
(***************************************************************************)
(* Proofs about FileDescriptor, for any number of handles, wrappers and    *)
(* descriptor numbers and any width of the counters.                       *)
(***************************************************************************)
EXTENDS FileDescriptor, TLAPS

-----------------------------------------------------------------------------
(***************************************************************************)
(* Type correctness.                                                       *)
(***************************************************************************)

\* The wrapper that FDWrapper's constructor makes is well formed.
LEMMA NewWrapperType ==
  ASSUME NEW n \in FdNumbers
  PROVE  NewWrapper(n) \in FDWrapper
BY FDAssumptions DEF NewWrapper, FDWrapper

\* So is the memory of a wrapper that is not alive.
LEMMA DeadWrapperType == DeadWrapper \in FDWrapper
<1>1. (CHOOSE n \in FdNumbers : TRUE) \in FdNumbers
  BY FDAssumptions
<1> QED
  BY <1>1, NewWrapperType DEF DeadWrapper

\* Counters stay below their modulus.
LEMMA CountersWrap ==
  ASSUME NEW c \in Nat
  PROVE  c % CountModulus \in 0 .. CountModulus - 1
BY FDAssumptions

\* The updates of one wrapper by close(), read(), write() and the
\* register functions are well formed.
LEMMA RecordUpdates ==
  ASSUME NEW r \in FDWrapper, NEW e \in BOOLEAN, NEW c \in 0 .. CountModulus - 1
  PROVE  /\ [r EXCEPT !.eof = TRUE, !.closed = TRUE] \in FDWrapper
         /\ [r EXCEPT !.eof = e, !.read_count = c] \in FDWrapper
         /\ [r EXCEPT !.write_count = c] \in FDWrapper
         /\ \A d \in 0 .. CountModulus - 1 :
              [r EXCEPT !.read_count = c, !.write_count = d] \in FDWrapper
BY Zenon DEF FDWrapper

\* Release, part of every operation that drops a pointer, keeps the types.
LEMMA ReleaseType ==
  ASSUME FDTypeOK, NEW h \in Handles, Release(h)
  PROVE  /\ wrapper' \in [Wrappers -> FDWrapper]
         /\ table' \in [FdNumbers -> Wrappers \cup {"free", "foreign"}]
BY DeadWrapperType DEF FDTypeOK, Release

\* Every step of the code keeps the types.
LEMMA TypeStep == FDTypeOK /\ [FDNext]_fdvars => FDTypeOK'
<1> SUFFICES ASSUME FDTypeOK, [FDNext]_fdvars
             PROVE  FDTypeOK'
  OBVIOUS
<1>1. ASSUME NEW h \in Handles, NEW w \in Wrappers, Construct(h, w)
      PROVE  FDTypeOK'
  BY <1>1, NewWrapperType DEF Construct, FDTypeOK
<1>2. ASSUME NEW h \in Handles, NEW g \in Handles, Duplicate(h, g)
      PROVE  FDTypeOK'
  BY <1>2 DEF Duplicate, FDTypeOK
<1>3. ASSUME NEW h \in Handles, NEW g \in Handles, Move(h, g)
      PROVE  FDTypeOK'
  BY <1>3, ReleaseType DEF Move, FDTypeOK
<1>4. ASSUME NEW h \in Handles, Destroy(h)
      PROVE  FDTypeOK'
  BY <1>4, ReleaseType DEF Destroy, FDTypeOK
<1>5. ASSUME NEW h \in Handles, Close(h)
      PROVE  FDTypeOK'
  <2>1. internal_fd[h] \in Wrappers
    BY <1>5 DEF Close, Usable, FDTypeOK
  <2>2. [wrapper[internal_fd[h]] EXCEPT !.eof = TRUE, !.closed = TRUE] \in FDWrapper
    BY <2>1, RecordUpdates, CountersWrap, Zenon DEF FDTypeOK
  <2>3. wrapper' \in [Wrappers -> FDWrapper]
    BY <1>5, <2>1, <2>2 DEF Close, FDTypeOK
  <2> QED
    BY <1>5, <2>3, Zenon DEF Close, FDTypeOK
<1>6. ASSUME NEW h \in Handles, NEW limit \in 0 .. MaxRead, NEW n \in 0 .. MaxRead,
             Read(h, limit, n)
      PROVE  FDTypeOK'
  <2>1. internal_fd[h] \in Wrappers
    BY <1>6 DEF Read, Usable, FDTypeOK
  <2>2. (wrapper[internal_fd[h]].read_count + 1) % CountModulus \in 0 .. CountModulus - 1
    BY <2>1, CountersWrap DEF FDTypeOK, FDWrapper
  <2> DEFINE new == [wrapper[internal_fd[h]] EXCEPT
                       !.eof = @ \/ (limit > 0 /\ n = 0),
                       !.read_count = (@ + 1) % CountModulus]
  <2>3. new \in FDWrapper
    BY <2>1, <2>2, RecordUpdates, Zenon DEF FDTypeOK
  <2>4. wrapper' = [wrapper EXCEPT ![internal_fd[h]] = new]
    BY <1>6, Zenon DEF Read
  <2> HIDE DEF new
  <2>5. wrapper' \in [Wrappers -> FDWrapper]
    BY <2>1, <2>3, <2>4 DEF FDTypeOK
  <2> QED
    BY <1>6, <2>5 DEF Read, FDTypeOK
<1>7. ASSUME NEW h \in Handles, NEW k \in 1 .. MaxWritevs, Write(h, k)
      PROVE  FDTypeOK'
  <2>1. internal_fd[h] \in Wrappers
    BY <1>7 DEF Write, Usable, FDTypeOK
  <2>2. wrapper[internal_fd[h]].write_count \in Nat
    BY <2>1, FDAssumptions DEF FDTypeOK, FDWrapper
  <2>3. wrapper[internal_fd[h]].write_count + k \in Nat
    BY <2>2
  <2>4. (wrapper[internal_fd[h]].write_count + k) % CountModulus \in 0 .. CountModulus - 1
    BY <2>3, CountersWrap
  <2> DEFINE new == [wrapper[internal_fd[h]] EXCEPT !.write_count = (@ + k) % CountModulus]
  <2>5. new \in FDWrapper
    BY <2>1, <2>4, RecordUpdates, Zenon DEF FDTypeOK
  <2>6. wrapper' = [wrapper EXCEPT ![internal_fd[h]] = new]
    BY <1>7, Zenon DEF Write
  <2> HIDE DEF new
  <2>7. wrapper' \in [Wrappers -> FDWrapper]
    BY <2>1, <2>5, <2>6 DEF FDTypeOK
  <2> QED
    BY <1>7, <2>7 DEF Write, FDTypeOK
<1>8. ASSUME NEW h \in Handles, NEW b \in BOOLEAN, SetBlocking(h, b)
      PROVE  FDTypeOK'
  BY <1>8, Zenon DEF SetBlocking, FDTypeOK
<1>9. ASSUME NEW n \in FdNumbers, ForeignOpen(n) \/ ForeignClose(n)
      PROVE  FDTypeOK'
  BY <1>9, Zenon DEF ForeignOpen, ForeignClose, FDTypeOK
<1>10. CASE UNCHANGED fdvars
  BY <1>10 DEF fdvars, FDTypeOK
<1>11. ASSUME NEW h \in Handles, NEW r \in 0 .. 1, NEW w \in 0 .. 1, Register(h, r, w)
       PROVE  FDTypeOK'
  <2>1. internal_fd[h] \in Wrappers
    BY <1>11 DEF Register, Usable, FDTypeOK
  <2>2. /\ wrapper[internal_fd[h]].read_count \in Nat
        /\ wrapper[internal_fd[h]].write_count \in Nat
    BY <2>1, FDAssumptions DEF FDTypeOK, FDWrapper
  <2>3. /\ wrapper[internal_fd[h]].read_count + r \in Nat
        /\ wrapper[internal_fd[h]].write_count + w \in Nat
    BY <2>2
  <2>4. /\ (wrapper[internal_fd[h]].read_count + r) % CountModulus \in 0 .. CountModulus - 1
        /\ (wrapper[internal_fd[h]].write_count + w) % CountModulus \in 0 .. CountModulus - 1
    BY <2>3, CountersWrap
  <2> DEFINE new == [wrapper[internal_fd[h]] EXCEPT
                       !.read_count = (@ + r) % CountModulus,
                       !.write_count = (@ + w) % CountModulus]
  <2>5. new \in FDWrapper
    BY <2>1, <2>4, RecordUpdates, Zenon DEF FDTypeOK
  <2>6. wrapper' = [wrapper EXCEPT ![internal_fd[h]] = new]
    BY <1>11, Zenon DEF Register
  <2> HIDE DEF new
  <2>7. wrapper' \in [Wrappers -> FDWrapper]
    BY <2>1, <2>5, <2>6 DEF FDTypeOK
  <2> QED
    BY <1>11, <2>7 DEF Register, FDTypeOK
<1> QED
  BY <1>1, <1>2, <1>3, <1>4, <1>5, <1>6, <1>7, <1>8, <1>9, <1>10, <1>11 DEF FDNext

\* The state of FileDescriptor is always well typed, with counters of any
\* width that wrap around.
THEOREM FDTypeCorrect == FDSpec => []FDTypeOK
<1>1. FDInit => FDTypeOK
  BY DeadWrapperType DEF FDInit, FDTypeOK
<1> QED
  BY <1>1, TypeStep, PTL DEF FDSpec

-----------------------------------------------------------------------------
(***************************************************************************)
(* No leaked descriptors, whatever the clients and close(2) do.            *)
(*                                                                         *)
(* The invariant is inductive together with the types.  What it needs of a *)
(* step is: a wrapper that keeps a number keeps a handle, its fd and its   *)
(* open flag.                                                              *)
(***************************************************************************)

\* A pointer that is dropped leaves no number behind: the wrapper either is
\* still shared or has given its number up.
LEMMA ReleaseNoLeak ==
  ASSUME FDTypeOK, NoLeakedDescriptor, NEW h \in Handles, Release(h),
         NEW n \in FdNumbers, table'[n] \in Wrappers
  PROVE  /\ table[n] = table'[n]
         /\ wrapper'[table[n]] = wrapper[table[n]]
         /\ internal_fd[h] = table[n] => \E g \in Handles \ {h} : internal_fd[g] = table[n]
<1> DEFINE w == internal_fd[h]
<1>1. CASE w # NoWrapper /\ LastHandle(h)
  <2>1. w \in Wrappers /\ wrapper[w].fd \in FdNumbers
    BY <1>1 DEF FDTypeOK, FDWrapper
  <2>2. table[n] = table'[n] /\ (~wrapper[w].closed => n # wrapper[w].fd)
    BY <1>1, <2>1, FDAssumptions DEF Release, FDTypeOK
  <2>3. table[n] # w
    BY <2>1, <2>2 DEF NoLeakedDescriptor
  <2> QED
    BY <1>1, <2>1, <2>2, <2>3 DEF Release, FDTypeOK
<1>2. CASE w = NoWrapper
  BY <1>2, FDAssumptions DEF Release
<1>3. CASE w # NoWrapper /\ ~LastHandle(h)
  BY <1>3 DEF Release, LastHandle
<1> QED
  BY <1>1, <1>2, <1>3

\* Every step keeps the numbers in reach.
LEMMA NoLeakStep ==
  FDTypeOK /\ NoLeakedDescriptor /\ [FDNext]_fdvars => NoLeakedDescriptor'
<1> SUFFICES ASSUME FDTypeOK, NoLeakedDescriptor, [FDNext]_fdvars,
                    NEW m \in FdNumbers, table'[m] \in Wrappers
             PROVE  /\ \E x \in Handles : internal_fd'[x] = table'[m]
                    /\ wrapper'[table'[m]].fd = m
                    /\ ~wrapper'[table'[m]].closed
  BY DEF NoLeakedDescriptor, Alive
<1> DEFINE Goal == /\ \E x \in Handles : internal_fd'[x] = table'[m]
                   /\ wrapper'[table'[m]].fd = m
                   /\ ~wrapper'[table'[m]].closed
<1>0. table[m] \in Wrappers =>
        /\ \E x \in Handles : internal_fd[x] = table[m]
        /\ wrapper[table[m]].fd = m
        /\ ~wrapper[table[m]].closed
  BY DEF NoLeakedDescriptor, Alive
<1>1. ASSUME NEW h \in Handles, NEW w \in Wrappers, Construct(h, w)
      PROVE  Goal
  <2>1. PICK n \in FdNumbers : /\ table[n] = "free"
                               /\ table' = [table EXCEPT ![n] = w]
                               /\ wrapper' = [wrapper EXCEPT ![w] = NewWrapper(n)]
    BY <1>1, Zenon DEF Construct, LowestFree
  <2>2. internal_fd' = [internal_fd EXCEPT ![h] = w] /\ internal_fd[h] = NoWrapper
        /\ \A x \in Handles : internal_fd[x] # w
    BY <1>1 DEF Construct, Alive
  <2>3. CASE m = n
    BY <2>1, <2>2, <2>3 DEF FDTypeOK, NewWrapper
  <2>4. CASE m # n
    <3>1. table'[m] = table[m] /\ table[m] # w
      BY <1>0, <2>1, <2>2, <2>4 DEF FDTypeOK
    <3>2. wrapper'[table[m]] = wrapper[table[m]]
      BY <2>1, <3>1 DEF FDTypeOK
    <3>3. PICK x \in Handles : internal_fd[x] = table[m]
      BY <1>0, <3>1
    <3>4. internal_fd'[x] = table[m]
      BY <2>2, <3>1, <3>3, FDAssumptions DEF FDTypeOK
    <3> QED
      BY <1>0, <3>1, <3>2, <3>4
  <2> QED
    BY <2>3, <2>4
<1>2. ASSUME NEW h \in Handles, NEW g \in Handles, Duplicate(h, g)
      PROVE  Goal
  BY <1>0, <1>2, FDAssumptions DEF Duplicate, FDTypeOK
<1>3. ASSUME NEW h \in Handles, NEW g \in Handles, Move(h, g)
      PROVE  Goal
  <2>1. /\ table[m] = table'[m]
        /\ wrapper'[table[m]] = wrapper[table[m]]
        /\ internal_fd[g] = table[m] => \E x \in Handles \ {g} : internal_fd[x] = table[m]
    BY <1>3, ReleaseNoLeak DEF Move
  <2>2. PICK x \in Handles \ {g} : internal_fd[x] = table[m]
    BY <1>0, <2>1
  <2>3. \E y \in Handles : internal_fd'[y] = table[m]
    BY <1>3, <2>2 DEF Move, FDTypeOK
  <2> QED
    BY <1>0, <2>1, <2>3
<1>4. ASSUME NEW h \in Handles, Destroy(h)
      PROVE  Goal
  <2>1. /\ table[m] = table'[m]
        /\ wrapper'[table[m]] = wrapper[table[m]]
        /\ internal_fd[h] = table[m] => \E x \in Handles \ {h} : internal_fd[x] = table[m]
    BY <1>4, ReleaseNoLeak DEF Destroy
  <2>2. PICK x \in Handles \ {h} : internal_fd[x] = table[m]
    BY <1>0, <2>1
  <2>3. internal_fd'[x] = table[m]
    BY <1>4, <2>2 DEF Destroy, FDTypeOK
  <2> QED
    BY <1>0, <2>1, <2>3
<1>5. ASSUME NEW h \in Handles, Close(h)
      PROVE  Goal
  <2> DEFINE w == internal_fd[h]
  <2>1. w \in Wrappers /\ wrapper[w].fd \in FdNumbers
    BY <1>5 DEF Close, Usable, FDTypeOK, FDWrapper
  <2>2. m # wrapper[w].fd /\ table'[m] = table[m]
    BY <1>5, <2>1, FDAssumptions DEF Close, FDTypeOK
  <2>3. table[m] # w
    BY <1>0, <2>1, <2>2
  <2>4. wrapper'[table[m]] = wrapper[table[m]]
    BY <1>5, <2>1, <2>2, <2>3 DEF Close, FDTypeOK
  <2> QED
    BY <1>0, <1>5, <2>2, <2>4 DEF Close
<1>6. ASSUME NEW h \in Handles, NEW limit \in 0 .. MaxRead, NEW n \in 0 .. MaxRead,
             Read(h, limit, n)
      PROVE  Goal
  <2>1. /\ wrapper'[table[m]].fd = wrapper[table[m]].fd
        /\ wrapper'[table[m]].closed = wrapper[table[m]].closed
    BY <1>6 DEF Read, Usable, FDTypeOK, FDWrapper
  <2> QED
    BY <1>0, <1>6, <2>1 DEF Read
<1>7. ASSUME NEW h \in Handles, NEW k \in 1 .. MaxWritevs, Write(h, k)
      PROVE  Goal
  <2>1. /\ wrapper'[table[m]].fd = wrapper[table[m]].fd
        /\ wrapper'[table[m]].closed = wrapper[table[m]].closed
    BY <1>7 DEF Write, Usable, FDTypeOK, FDWrapper
  <2> QED
    BY <1>0, <1>7, <2>1 DEF Write
<1>8. ASSUME NEW h \in Handles, NEW b \in BOOLEAN, SetBlocking(h, b)
      PROVE  Goal
  BY <1>0, <1>8 DEF SetBlocking
<1>9. ASSUME NEW n \in FdNumbers, ForeignOpen(n) \/ ForeignClose(n)
      PROVE  Goal
  BY <1>0, <1>9, FDAssumptions DEF ForeignOpen, ForeignClose, FDTypeOK
<1>10. CASE UNCHANGED fdvars
  BY <1>0, <1>10 DEF fdvars
<1>11. ASSUME NEW h \in Handles, NEW r \in 0 .. 1, NEW w \in 0 .. 1, Register(h, r, w)
       PROVE  Goal
  <2>1. /\ wrapper'[table[m]].fd = wrapper[table[m]].fd
        /\ wrapper'[table[m]].closed = wrapper[table[m]].closed
    BY <1>11 DEF Register, Usable, FDTypeOK, FDWrapper
  <2> QED
    BY <1>0, <1>11, <2>1 DEF Register
<1> QED
  BY <1>1, <1>2, <1>3, <1>4, <1>5, <1>6, <1>7, <1>8, <1>9, <1>10, <1>11 DEF FDNext

\* No sequence of duplications, moves, closes and destructions leaks a
\* descriptor number, even when close(2) reports errors and clients go on using
\* handles they closed.
THEOREM FDNoLeak == FDSpec => []NoLeakedDescriptor
<1>1. FDInit => NoLeakedDescriptor
  BY FDAssumptions DEF FDInit, NoLeakedDescriptor
<1> QED
  BY <1>1, FDTypeCorrect, NoLeakStep, PTL DEF FDSpec

-----------------------------------------------------------------------------
(***************************************************************************)
(* Ownership.  When close(2) does not report errors and clients leave a    *)
(* closed handle alone, _closed tells the truth.  Two wrappers that are    *)
(* alive and open never have the same number, because the kernel holds it  *)
(* for only one of them; so a close or a destructor takes a number from    *)
(* its own wrapper and from no other.                                      *)
(***************************************************************************)

\* What clients and the kernel are trusted with.
Careful == ~CloseMayFail /\ ~UseAfterClose

\* A pointer that is dropped takes the number away from no other wrapper.
LEMMA ReleaseOwns ==
  ASSUME FDTypeOK, LiveWrapperOwnsItsNumber, NEW h \in Handles, Release(h),
         NEW v \in Wrappers, ~wrapper[v].closed,
         NEW g \in Handles \ {h}, internal_fd[g] = v
  PROVE  wrapper'[v] = wrapper[v] /\ table'[wrapper[v].fd] = v
<1> DEFINE w == internal_fd[h]
<1>1. table[wrapper[v].fd] = v /\ wrapper[v].fd \in FdNumbers
  BY DEF LiveWrapperOwnsItsNumber, Alive, FDTypeOK, FDWrapper
<1>2. CASE w # NoWrapper /\ LastHandle(h)
  <2>1. w \in Wrappers /\ w # v
    BY <1>2 DEF LastHandle, FDTypeOK
  <2>2. wrapper'[v] = wrapper[v]
    BY <1>2, <2>1 DEF Release, FDTypeOK
  <2>3. ~wrapper[w].closed => table[wrapper[w].fd] = w
    BY <2>1 DEF LiveWrapperOwnsItsNumber, Alive
  <2> QED
    BY <1>1, <1>2, <2>1, <2>2, <2>3 DEF Release, FDTypeOK
<1>3. CASE ~(w # NoWrapper /\ LastHandle(h))
  BY <1>1, <1>3 DEF Release
<1> QED
  BY <1>2, <1>3

\* Every step of careful clients keeps the numbers with their wrappers.
LEMMA OwnsStep ==
  ASSUME Careful
  PROVE  FDTypeOK /\ LiveWrapperOwnsItsNumber /\ [FDNext]_fdvars => LiveWrapperOwnsItsNumber'
<1> SUFFICES ASSUME FDTypeOK, LiveWrapperOwnsItsNumber, [FDNext]_fdvars,
                    NEW v \in Wrappers,
                    NEW y \in Handles, internal_fd'[y] = v,
                    ~wrapper'[v].closed
             PROVE  table'[wrapper'[v].fd] = v
  BY DEF LiveWrapperOwnsItsNumber, Alive
<1> DEFINE Goal == table'[wrapper'[v].fd] = v
<1>0. ASSUME NEW x \in Handles, internal_fd[x] = v, ~wrapper[v].closed
      PROVE  table[wrapper[v].fd] = v /\ wrapper[v].fd \in FdNumbers
  BY <1>0 DEF LiveWrapperOwnsItsNumber, Alive, FDTypeOK, FDWrapper
<1>1. ASSUME NEW h \in Handles, NEW w \in Wrappers, Construct(h, w)
      PROVE  Goal
  <2>1. PICK n \in FdNumbers : /\ table[n] = "free"
                               /\ table' = [table EXCEPT ![n] = w]
                               /\ wrapper' = [wrapper EXCEPT ![w] = NewWrapper(n)]
    BY <1>1, Zenon DEF Construct, LowestFree
  <2>2. internal_fd' = [internal_fd EXCEPT ![h] = w]
    BY <1>1 DEF Construct
  <2>3. CASE v = w
    BY <2>1, <2>3 DEF FDTypeOK, NewWrapper
  <2>4. CASE v # w
    <3>1. internal_fd[y] = v /\ wrapper'[v] = wrapper[v]
      BY <2>1, <2>2, <2>4 DEF FDTypeOK
    <3>2. table[wrapper[v].fd] = v /\ wrapper[v].fd \in FdNumbers
      BY <1>0, <3>1
    <3> QED
      BY <2>1, <3>1, <3>2, FDAssumptions DEF FDTypeOK
  <2> QED
    BY <2>3, <2>4
<1>2. ASSUME NEW h \in Handles, NEW g \in Handles, Duplicate(h, g)
      PROVE  Goal
  <2>1. internal_fd[y] = v \/ internal_fd[h] = v
    BY <1>2 DEF Duplicate, FDTypeOK
  <2> QED
    BY <1>0, <1>2, <2>1 DEF Duplicate
<1>3. ASSUME NEW h \in Handles, NEW g \in Handles, Move(h, g)
      PROVE  Goal
  <2>1. \E x \in Handles \ {g} : internal_fd[x] = v
    BY <1>3, FDAssumptions DEF Move, FDTypeOK
  <2>2. PICK x \in Handles \ {g} : internal_fd[x] = v
    BY <2>1
  <2>3. wrapper'[v] = wrapper[v]
    BY <1>3, <2>2 DEF Move, Release, LastHandle, FDTypeOK
  <2> QED
    BY <1>3, <2>2, <2>3, ReleaseOwns DEF Move
<1>4. ASSUME NEW h \in Handles, Destroy(h)
      PROVE  Goal
  <2>1. y # h /\ internal_fd[y] = v
    BY <1>4, FDAssumptions DEF Destroy, FDTypeOK
  <2>2. wrapper'[v] = wrapper[v]
    BY <1>4, <2>1 DEF Destroy, Release, LastHandle, FDTypeOK
  <2> QED
    BY <1>4, <2>1, <2>2, ReleaseOwns DEF Destroy
<1>5. ASSUME NEW h \in Handles, Close(h)
      PROVE  Goal
  <2> DEFINE w == internal_fd[h]
  <2>1. w \in Wrappers /\ ~wrapper[w].closed /\ wrapper[w].fd \in FdNumbers
    BY <1>5 DEF Close, Usable, Careful, FDTypeOK, FDWrapper
  <2>2. /\ wrapper' = [wrapper EXCEPT ![w] = [@ EXCEPT !.eof = TRUE, !.closed = TRUE]]
        /\ table' = [table EXCEPT ![wrapper[w].fd] = "free"]
        /\ internal_fd' = internal_fd
    BY <1>5 DEF Close, Careful
  <2>3. v # w
    BY <2>1, <2>2 DEF FDTypeOK, FDWrapper
  <2>4. wrapper'[v] = wrapper[v]
    BY <2>2, <2>3 DEF FDTypeOK
  <2>5. table[wrapper[v].fd] = v /\ table[wrapper[w].fd] = w
    BY <1>0, <2>1, <2>2, <2>4 DEF LiveWrapperOwnsItsNumber, Alive
  <2> QED
    BY <1>0, <2>2, <2>3, <2>4, <2>5 DEF FDTypeOK, FDWrapper
<1>6. ASSUME NEW h \in Handles, NEW limit \in 0 .. MaxRead, NEW n \in 0 .. MaxRead,
             Read(h, limit, n)
      PROVE  Goal
  <2>1. /\ wrapper'[v].fd = wrapper[v].fd
        /\ wrapper'[v].closed = wrapper[v].closed
    BY <1>6 DEF Read, Usable, FDTypeOK, FDWrapper
  <2> QED
    BY <1>0, <1>6, <2>1 DEF Read
<1>7. ASSUME NEW h \in Handles, NEW k \in 1 .. MaxWritevs, Write(h, k)
      PROVE  Goal
  <2>1. /\ wrapper'[v].fd = wrapper[v].fd
        /\ wrapper'[v].closed = wrapper[v].closed
    BY <1>7 DEF Write, Usable, FDTypeOK, FDWrapper
  <2> QED
    BY <1>0, <1>7, <2>1 DEF Write
<1>8. ASSUME NEW h \in Handles, NEW b \in BOOLEAN, SetBlocking(h, b)
      PROVE  Goal
  BY <1>0, <1>8 DEF SetBlocking
<1>9. ASSUME NEW n \in FdNumbers, ForeignOpen(n) \/ ForeignClose(n)
      PROVE  Goal
  BY <1>0, <1>9, FDAssumptions DEF ForeignOpen, ForeignClose, LowestFree, FDTypeOK
<1>10. CASE UNCHANGED fdvars
  BY <1>0, <1>10 DEF fdvars
<1>11. ASSUME NEW h \in Handles, NEW r \in 0 .. 1, NEW w \in 0 .. 1, Register(h, r, w)
       PROVE  Goal
  <2>1. /\ wrapper'[v].fd = wrapper[v].fd
        /\ wrapper'[v].closed = wrapper[v].closed
    BY <1>11 DEF Register, Usable, FDTypeOK, FDWrapper
  <2> QED
    BY <1>0, <1>11, <2>1 DEF Register
<1> QED
  BY <1>1, <1>2, <1>3, <1>4, <1>5, <1>6, <1>7, <1>8, <1>9, <1>10, <1>11 DEF FDNext

\* With careful clients, a wrapper that is alive and not marked closed owns its
\* number: nothing has closed it under the handles that share it.
THEOREM FDOwnership ==
  ASSUME Careful
  PROVE  FDSpec => []LiveWrapperOwnsItsNumber
<1>1. FDInit => LiveWrapperOwnsItsNumber
  BY FDAssumptions DEF FDInit, LiveWrapperOwnsItsNumber, Alive
<1>2. FDTypeOK /\ LiveWrapperOwnsItsNumber /\ [FDNext]_fdvars => LiveWrapperOwnsItsNumber'
  BY OwnsStep
<1> QED
  BY <1>1, <1>2, FDTypeCorrect, PTL DEF FDSpec

\* With careful clients, descriptors that belong to the rest of the process are
\* neither closed nor reconfigured by this code, however numbers are reused.
THEOREM FDForeignUntouched ==
  ASSUME Careful
  PROVE  FDSpec => ForeignDescriptorsUntouched
<1> DEFINE Untouched ==
      \A n \in FdNumbers : table[n] = "foreign" =>
        \/ table'[n] = "foreign" /\ nonblock'[n] = nonblock[n]
        \/ ForeignClose(n)
<1>1. FDTypeOK /\ LiveWrapperOwnsItsNumber /\ [FDNext]_fdvars => [Untouched]_fdvars
  <2> SUFFICES ASSUME FDTypeOK, LiveWrapperOwnsItsNumber, FDNext,
                      NEW m \in FdNumbers, table[m] = "foreign"
               PROVE  \/ table'[m] = "foreign" /\ nonblock'[m] = nonblock[m]
                      \/ ForeignClose(m)
    OBVIOUS
  <2> DEFINE Goal == \/ table'[m] = "foreign" /\ nonblock'[m] = nonblock[m]
                     \/ ForeignClose(m)
  <2>0. ASSUME NEW h \in Handles, internal_fd[h] # NoWrapper, ~wrapper[internal_fd[h]].closed
        PROVE  wrapper[internal_fd[h]].fd # m
    BY <2>0, FDAssumptions DEF LiveWrapperOwnsItsNumber, Alive, FDTypeOK
  <2>1. ASSUME NEW h \in Handles, NEW w \in Wrappers, Construct(h, w)
        PROVE  Goal
    BY <2>1, Zenon DEF Construct, LowestFree, FDTypeOK
  <2>2. ASSUME NEW h \in Handles, NEW g \in Handles, Duplicate(h, g)
        PROVE  Goal
    BY <2>2 DEF Duplicate
  <2>3. ASSUME NEW h \in Handles, Release(h)
        PROVE  table'[m] = "foreign"
    BY <2>0, <2>3 DEF Release, FDTypeOK
  <2>4. ASSUME NEW h \in Handles, NEW g \in Handles, Move(h, g)
        PROVE  Goal
    BY <2>3, <2>4 DEF Move
  <2>5. ASSUME NEW h \in Handles, Destroy(h)
        PROVE  Goal
    BY <2>3, <2>5 DEF Destroy
  <2>6. ASSUME NEW h \in Handles, Close(h)
        PROVE  Goal
    BY <2>0, <2>6 DEF Close, Usable, Careful, FDTypeOK
  <2>7. ASSUME NEW h \in Handles, NEW limit \in 0 .. MaxRead, NEW n \in 0 .. MaxRead,
               Read(h, limit, n)
        PROVE  Goal
    BY <2>7 DEF Read
  <2>8. ASSUME NEW h \in Handles, NEW k \in 1 .. MaxWritevs, Write(h, k)
        PROVE  Goal
    BY <2>8 DEF Write
  <2>9. ASSUME NEW h \in Handles, NEW b \in BOOLEAN, SetBlocking(h, b)
        PROVE  Goal
    BY <2>0, <2>9 DEF SetBlocking, Usable, Careful, FDTypeOK
  <2>10. ASSUME NEW n \in FdNumbers, ForeignOpen(n) \/ ForeignClose(n)
         PROVE  Goal
    BY <2>10 DEF ForeignOpen, ForeignClose, LowestFree, FDTypeOK
  <2>11. ASSUME NEW h \in Handles, NEW r \in 0 .. 1, NEW w \in 0 .. 1, Register(h, r, w)
         PROVE  Goal
    BY <2>11 DEF Register
  <2> QED
    BY <2>1, <2>2, <2>4, <2>5, <2>6, <2>7, <2>8, <2>9, <2>10, <2>11 DEF FDNext
<1>2. FDSpec => []LiveWrapperOwnsItsNumber
  BY FDOwnership
<1>3. FDSpec => [][Untouched]_fdvars
  BY <1>1, <1>2, FDTypeCorrect, PTL DEF FDSpec
<1> QED
  BY <1>3, PTL DEF ForeignDescriptorsUntouched

=============================================================================
