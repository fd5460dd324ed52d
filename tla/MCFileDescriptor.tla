--------------------------- MODULE MCFileDescriptor ---------------------------
(***************************************************************************)
(* FileDescriptor on three handles, three wrappers and two numbers.        *)
(* Handles and wrappers are interchangeable, so both are symmetry sets.    *)
(***************************************************************************)
EXTENDS FileDescriptor, TLC

MCFdNumbers == 0 .. 1

MCSymmetry == Permutations(Handles) \cup Permutations(Wrappers)

=============================================================================
