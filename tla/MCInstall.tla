----------------------------- MODULE MCInstall -----------------------------
(* Instances of Install for TLC: the second design revision drops the      *)
(* layer file the first one ships and adds another.                        *)
EXTENDS Install, TLC

CONSTANTS d1, d2, g1, g2

MCProduces == d1 :> {g1} @@ d2 :> {g2}

ProcSymmetry == Permutations(Proc)
=============================================================================
