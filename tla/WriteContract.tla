---------------------------- MODULE WriteContract ----------------------------
(***************************************************************************)
(* What FileDescriptor::write promises (libsponge/util/file_descriptor.hh):*)
(* a call has a string of bytes to hand over.  The descriptor takes them   *)
(* from the front, some at a time and never none while there are any; each *)
(* time is counted.  With write_all the call returns when nothing is left, *)
(* without it after the first time, and the value is the number of bytes   *)
(* taken.  At any time it may throw instead, with some bytes taken.        *)
(* Nothing is said of views, of blocks or of how wide the counters are.    *)
(***************************************************************************)
EXTENDS Integers, Sequences

CONSTANT Byte

VARIABLES
  status,     \* "idle", "writing", "returned" or "threw"
  all,        \* write_all
  left,       \* the bytes that have not been taken
  taken,      \* the bytes that have
  counted,    \* how often the descriptor took some
  value       \* what the call returns

wcvars == <<status, all, left, taken, counted, value>>

NoCall ==
  /\ status = "idle"
  /\ all = FALSE
  /\ left = <<>> /\ taken = <<>>
  /\ counted = 0 /\ value = 0

Begin ==
  /\ status = "idle"
  /\ status' = "writing"
  /\ all' \in BOOLEAN
  /\ left' \in Seq(Byte)
  /\ UNCHANGED <<taken, counted, value>>

Take(m) ==
  /\ status = "writing"
  /\ m = 0 => left = <<>>
  /\ taken' = taken \o SubSeq(left, 1, m)
  /\ left' = SubSeq(left, m + 1, Len(left))
  /\ counted' = counted + 1
  /\ IF all /\ left' # <<>>
       THEN UNCHANGED <<status, value>>
       ELSE status' = "returned" /\ value' = Len(taken')
  /\ UNCHANGED all

Throw ==
  /\ status = "writing"
  /\ status' = "threw"
  /\ UNCHANGED <<all, left, taken, counted, value>>

End == status \in {"returned", "threw"} /\ NoCall'

WCNext ==
  \/ Begin
  \/ \E m \in 0 .. Len(left) : Take(m)
  \/ Throw
  \/ End

WCSpec == NoCall /\ [][WCNext]_wcvars

=============================================================================
