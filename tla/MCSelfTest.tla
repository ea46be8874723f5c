----------------------------- MODULE MCSelfTest -----------------------------
(* An instance of SelfTest for TLC.  The scripts are the callbacks unittest *)
(* makes for a passing test and for one that skips after two subtests of it *)
(* failed, a test that cannot be loaded (an error) and one that hangs.      *)
EXTENDS SelfTest, TLC

CONSTANTS t1, t2, t3

MCTests   == <<t1, t2, t3>>
MCScripts == {<<"ok">>, <<"subfail", "subfail", "skip">>, <<>>,
              <<"hang">>}

WorkerSymmetry == Permutations(Worker)
=============================================================================
