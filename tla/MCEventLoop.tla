----------------------------- MODULE MCEventLoop -----------------------------
(***************************************************************************)
(* EventLoop on two rules, one that reads and one that writes, over one or *)
(* two descriptor numbers.  The rules differ in their direction, so only   *)
(* the wrappers are a symmetry set.                                        *)
(***************************************************************************)
EXTENDS EventLoop, TLC

CONSTANTS r1, r2

MCFdNumbers == 0 .. 1
MCOneNumber == {0}

MCDirection == r1 :> "In" @@ r2 :> "Out"

MCSymmetry == Permutations(Wrappers)

=============================================================================
