------------------------------- MODULE MCHold -------------------------------
(* Instances of Hold for TLC. *)
EXTENDS Hold, TLC

ProcSymmetry == Permutations(Proc)
HoldSymmetry == Permutations(Proc) \cup Permutations(Inode)
=============================================================================
