------------------------------ MODULE Exclusion ------------------------------
(***************************************************************************)
(* What a hold promises the commands that write one project tree: at most  *)
(* one of them is inside at a time, it enters only when nobody is inside,  *)
(* and it leaves by finishing or by dying.  How the promise is kept (lock  *)
(* files, inodes, retries) is module Hold.                                 *)
(***************************************************************************)
CONSTANTS Proc,     \* the processes that may claim the tree
          NoProc    \* nobody, which is not one of them

VARIABLE holder     \* who is inside, or NoProc

Init == holder = NoProc

Acquire(p) ==
  /\ holder = NoProc
  /\ holder' = p

Leave ==
  /\ holder # NoProc
  /\ holder' = NoProc

Next == Leave \/ \E p \in Proc : Acquire(p)

Spec == Init /\ [][Next]_holder
=============================================================================
