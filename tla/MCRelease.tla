----------------------------- MODULE MCRelease -----------------------------
(* An instance of Release for TLC: a gate on the design before the two that *)
(* bind the artifacts to it, on boards that differ in what it does with the *)
(* unsound revision, in how the manifest treats it, and in whether the two  *)
(* revisions have the same copper.                                          *)
EXTENDS Release, TLC

CONSTANTS d1, d2

Drc == "DRC.AUTHORITATIVE"

MCGates == <<Drc, Provenance, Parity>>

\* The second revision is sound, the first one is not.
Bad(does) == Drc :> (d1 :> does @@ d2 :> "passes")

All == ToSet(MCGates)

Strict == [outcome |-> Bad("raises"), opted |-> All, advisory |-> {},
           mandatory |-> All, ignored |-> {},
           alike |-> {<<d1, d1>>, <<d2, d2>>}]

MCBoards == {
  [Strict EXCEPT !.outcome = Bad("returns"), !.ignored = {"design"}],
  [Strict EXCEPT !.outcome[Drc][d2] = "fails", !.advisory = {Drc},
                 !.alike = Design \X Design],
  [Strict EXCEPT !.outcome = Bad("not_applicable"),
                 !.opted = All \ {Parity}, !.mandatory = {Drc, Provenance}]}

\* Nothing has been built yet.
FreshInit == Init /\ tree.artifacts = Absent

FreshSpec == FreshInit /\ [][Next]_vars

WriterSymmetry == Permutations(Writer)
=============================================================================
