---------------------------- MODULE ArtifactSet ----------------------------
(***************************************************************************)
(* The fabrication artifact set of one board as `run.py check-board` sees  *)
(* it, and what a builder may do to it.  Builds are numbered in the order  *)
(* they took the tree's hold; 0 is "no build".                             *)
(*                                                                         *)
(* A check accepts the newest build whose installation was completed, or   *)
(* nothing.  From the moment an installation has replaced one file until   *)
(* some build is installed completely, it accepts nothing.                 *)
(***************************************************************************)
EXTENDS Naturals

CONSTANT MaxBuild

VARIABLES
  newest,     \* the newest build whose record was installed
  torn,       \* a file of the newest build has been replaced or is missing
  accepted    \* the build a check accepts, 0 when it reports a problem

vars == <<newest, torn, accepted>>

Init == newest = 0 /\ torn = FALSE /\ accepted = 0

\* Something that does not belong there appears beside the artifacts, or the
\* design moves on ...
Clutter ==
  /\ accepted' = 0
  /\ UNCHANGED <<newest, torn>>

\* ... and is gone, or back, again.
Tidy ==
  /\ newest # 0 /\ ~torn
  /\ accepted' = newest
  /\ UNCHANGED <<newest, torn>>

\* An installation replaces the first file of the set on disk.
Tear ==
  /\ torn' = TRUE /\ accepted' = 0
  /\ UNCHANGED newest

\* An installation is completed by its record.
Complete(b) ==
  /\ b > newest
  /\ newest' = b /\ torn' = FALSE
  /\ accepted' \in {0, b}

Next == Clutter \/ Tidy \/ Tear \/ \E b \in 1 .. MaxBuild : Complete(b)

Spec == Init /\ [][Next]_vars
=============================================================================
