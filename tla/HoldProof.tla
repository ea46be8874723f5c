------------------------------ MODULE HoldProof ------------------------------
(***************************************************************************)
(* Proofs about Hold, for any number of processes and inodes and any       *)
(* number of attempts.  The argument: a locker is recorded as the owner of *)
(* exactly the inode it has open, and a process that settled its claim has *)
(* open the very inode the path denotes, because only such a process can   *)
(* change the path while it denotes anything.                              *)
(***************************************************************************)
EXTENDS Hold, TLAPS

\* A descriptor is open exactly in the labels between open and close.
OpenInv == \A p \in Proc : pc[p] \in Opened <=> fd[p] \in Inode

\* The owner of an inode is a process in a locked label with it open ...
OwnerInv ==
  \A i \in Inode, p \in Proc : owner[i] = p => pc[p] \in Locked /\ fd[p] = i

\* ... and every process in a locked label owns the inode it has open.
LockedInv == \A p \in Proc : pc[p] \in Locked => owner[fd[p]] = p

\* A settled claim is a claim on the file the path denotes.
ClaimInv == \A p \in Proc : pc[p] \in Claimed => path = fd[p]

\* An attempt in progress is one of the MaxTries that are allowed.
TriesInv ==
  \A p \in Proc :
    pc[p] \in {"locking", "refusing", "checking"} => tries[p] < MaxTries

IInv == TypeOK /\ OpenInv /\ OwnerInv /\ LockedInv /\ ClaimInv /\ TriesInv

-----------------------------------------------------------------------------

\* IInv holds before any command has started.
LEMMA InitIInv == Init => IInv
BY HoldAssumption DEF Init, IInv, TypeOK, OpenInv, OwnerInv, LockedInv, ClaimInv,
   TriesInv, Opened, Locked, Claimed, Idle

\* Two settled claims are claims of one process: both own the path's inode.
LEMMA IInvExcludes == IInv => MutualExclusion
<1> SUFFICES ASSUME IInv, NEW p \in Proc, NEW q \in Proc,
                    pc[p] \in Claimed, pc[q] \in Claimed
             PROVE  p = q
  BY DEF MutualExclusion
<1>1. fd[p] = path /\ fd[q] = path
  BY DEF IInv, ClaimInv
<1>2. owner[path] = p /\ owner[path] = q
  BY <1>1 DEF IInv, LockedInv, Claimed
<1> QED BY <1>2

\* Every step of every process preserves IInv.
LEMMA NextIInv == IInv /\ [Next]_vars => IInv'
<1> SUFFICES ASSUME IInv, [Next]_vars PROVE IInv'
  OBVIOUS
<1> USE HoldAssumption DEF IInv, TypeOK, OpenInv, OwnerInv, LockedInv, ClaimInv,
        TriesInv, Opened, Locked, Claimed, Idle, Goto
<1>1. ASSUME NEW p \in Proc, Enter(p) PROVE IInv'
  BY <1>1 DEF Enter
<1>2. ASSUME NEW p \in Proc, OpenExisting(p) PROVE IInv'
  BY <1>2 DEF OpenExisting
<1>3. ASSUME NEW p \in Proc, OpenNew(p) PROVE IInv'
  BY <1>3 DEF OpenNew
<1>4. ASSUME NEW p \in Proc, GiveUp(p) PROVE IInv'
  BY <1>4 DEF GiveUp, Restart
<1>5. ASSUME NEW p \in Proc, FlockTaken(p) PROVE IInv'
  BY <1>5 DEF FlockTaken
<1>6. ASSUME NEW p \in Proc, FlockRefused(p) PROVE IInv'
  BY <1>6 DEF FlockRefused
<1>7. ASSUME NEW p \in Proc, Refuse(p) PROVE IInv'
  BY <1>7 DEF Refuse, Restart, Close, DropFile
<1>8. ASSUME NEW p \in Proc, Settle(p) PROVE IInv'
  BY <1>8 DEF Settle, Restart
<1>9. ASSUME NEW p \in Proc, Retry(p) PROVE IInv'
  BY <1>9 DEF Retry, Close, DropFile
<1>10. ASSUME NEW p \in Proc, Truncate(p) PROVE IInv'
  BY <1>10 DEF Truncate
<1>11. ASSUME NEW p \in Proc, WriteRecord(p) PROVE IInv'
  BY <1>11 DEF WriteRecord
<1>12. ASSUME NEW p \in Proc, Exit(p) PROVE IInv'
  BY <1>12 DEF Exit
<1>13. ASSUME NEW p \in Proc, Recheck(p) PROVE IInv'
  BY <1>13 DEF Recheck
<1>14. ASSUME NEW p \in Proc, Unlink(p) PROVE IInv'
  \* The only step that changes what others' claims rest on: nobody else
  \* has one.
  <2>1. \A q \in Proc : pc[q] \in Claimed => q = p
    BY <1>14, IInvExcludes DEF Unlink, MutualExclusion
  <2> QED BY <1>14, <2>1 DEF Unlink
<1>15. ASSUME NEW p \in Proc, Release(p) PROVE IInv'
  BY <1>15 DEF Release, Close, DropFile
<1>16. ASSUME NEW p \in Proc, Crash(p) PROVE IInv'
  BY <1>16 DEF Crash, Restart, Close, DropFile
<1>17. CASE UNCHANGED vars
  BY <1>17 DEF vars
<1> QED
  BY <1>1, <1>2, <1>3, <1>4, <1>5, <1>6, <1>7, <1>8, <1>9, <1>10, <1>11, <1>12,
     <1>13, <1>14, <1>15, <1>16, <1>17 DEF Next, Step

\* The variables keep their types and the four facts above hold throughout.
THEOREM Invariance == Spec => []IInv
<1> QED BY InitIInv, NextIInv, PTL DEF Spec

\* Descriptors, locks and labels keep their types (layout.hold).
THEOREM Typing == Spec => []TypeOK
<1> QED BY Invariance, PTL DEF IInv

\* However opens, locks, unlinks and deaths interleave, two commands never
\* both hold one project tree.
THEOREM HoldExcludes == Spec => []MutualExclusion
<1> QED BY Invariance, IInvExcludes, PTL

-----------------------------------------------------------------------------

\* Only Unlink takes the name away, and its process owns the inode the name
\* denotes: no lock file is removed on behalf of another process's check.
THEOREM HoldNeverStrips == Spec => NeverStripsAnothersFile
<1>1. IInv /\ [Next]_vars =>
        [path # NoInode /\ path' = NoInode =>
           \E p \in Proc : fd[p] = path /\ owner[path] = p]_vars
  <2> SUFFICES ASSUME IInv, Next, path # NoInode, path' = NoInode
               PROVE  \E p \in Proc : fd[p] = path /\ owner[path] = p
    OBVIOUS
  <2>1. PICK p \in Proc : Unlink(p)
    BY HoldAssumption DEF Next, Step, Enter, OpenExisting, OpenNew, GiveUp,
       FlockTaken, FlockRefused, Refuse, Settle, Retry, Truncate, WriteRecord,
       Exit, Recheck, Release, Crash, Close, DropFile
  <2>2. fd[p] = path /\ owner[path] = p
    BY <2>1 DEF Unlink, IInv, ClaimInv, LockedInv, Claimed, Locked, Opened
  <2> QED BY <2>2
<1> QED BY <1>1, Invariance, PTL DEF Spec, NeverStripsAnothersFile

\* A refusal is always the word of a living process that has the same file
\* open: no crash, at any point, keeps a later claim out.
THEOREM HoldRefusalIsLive == Spec => RefusedOnlyByTheLiving
<1>1. IInv /\ [Next]_vars =>
        [\A p \in Proc : pc[p] = "locking" /\ pc'[p] = "refusing" =>
           \E q \in Proc \ {p} : Live(q) /\ fd[q] = fd[p]]_vars
  <2> SUFFICES ASSUME IInv, Next, NEW p \in Proc,
                      pc[p] = "locking", pc'[p] = "refusing"
               PROVE  \E q \in Proc \ {p} : Live(q) /\ fd[q] = fd[p]
    OBVIOUS
  <2>1. FlockRefused(p)
    BY DEF IInv, TypeOK, Next, Step, Enter, OpenExisting, OpenNew, GiveUp,
       FlockTaken, FlockRefused, Refuse, Settle, Retry, Truncate, WriteRecord,
       Exit, Recheck, Unlink, Release, Crash, Goto
  <2>2. fd[p] \in Inode
    BY <2>1 DEF FlockRefused, IInv, OpenInv, Opened
  <2>3. PICK q \in Proc : owner[fd[p]] = q
    BY <2>1, <2>2 DEF FlockRefused, IInv, TypeOK
  <2>4. pc[q] \in Locked /\ fd[q] = fd[p]
    BY <2>2, <2>3 DEF IInv, OwnerInv
  <2> QED BY <2>4 DEF Live, Locked, Opened
<1> QED BY <1>1, Invariance, PTL DEF Spec, RefusedOnlyByTheLiving

\* While somebody has settled a claim, it is the abstract holder.
LEMMA HolderIs ==
  ASSUME IInv, NEW p \in Proc, pc[p] \in Claimed
  PROVE  Holder = p
BY IInvExcludes DEF Holder, MutualExclusion

LEMMA HolderPrimeIs ==
  ASSUME IInv', NEW p \in Proc, pc'[p] \in Claimed
  PROVE  Holder' = p
<1>1. \A q \in Proc : pc'[q] \in Claimed => q = p
  BY DEF IInv, ClaimInv, LockedInv, Claimed
<1> QED BY <1>1 DEF Holder

\* The protocol implements the abstract exclusion: each of its steps enters,
\* leaves, or changes nothing that the abstraction sees.
THEOREM HoldImplementsExclusion == Spec => ImplementsExclusion
<1>1. Init => Abstract!Init
  BY DEF Init, Abstract!Init, Holder, Claimed, Locked, Opened
<1>2. IInv /\ IInv' /\ [Next]_vars => [Abstract!Next]_Holder
  <2> SUFFICES ASSUME IInv, IInv', Next PROVE [Abstract!Next]_Holder
    BY DEF vars, Holder
  <2>1. PICK p \in Proc : Enter(p) \/ Step(p) \/ Exit(p) \/ Crash(p)
    BY DEF Next
  <2>2. \A q \in Proc \ {p} : pc'[q] = pc[q]
    BY <2>1 DEF Step, Enter, OpenExisting, OpenNew, GiveUp, FlockTaken,
       FlockRefused, Refuse, Settle, Retry, Truncate, WriteRecord, Exit,
       Recheck, Unlink, Release, Crash, Goto, IInv, TypeOK
  <2>3. CASE pc[p] \in Claimed /\ pc'[p] \in Claimed
    BY <2>3, HolderIs, HolderPrimeIs
  <2>4. CASE pc[p] \in Claimed /\ pc'[p] \notin Claimed
    <3>1. Holder = p
      BY <2>4, HolderIs
    <3>2. \A q \in Proc : pc'[q] \notin Claimed
      BY <2>2, <2>4, IInvExcludes DEF MutualExclusion
    <3>3. Holder' = NoProc
      BY <3>2 DEF Holder
    <3> QED BY <3>1, <3>3, HoldAssumption DEF Abstract!Next, Abstract!Leave
  <2>5. CASE pc[p] \notin Claimed /\ pc'[p] \in Claimed
    <3>1. Holder' = p
      BY <2>5, HolderPrimeIs
    <3>2. \A q \in Proc : pc[q] \notin Claimed
      <4> SUFFICES ASSUME NEW q \in Proc, pc[q] \in Claimed PROVE FALSE
        OBVIOUS
      <4>1. q # p /\ pc'[q] \in Claimed
        BY <2>2, <2>5
      <4> QED BY <4>1, <2>5, <3>1, HolderPrimeIs
    <3>3. Holder = NoProc
      BY <3>2 DEF Holder
    <3> QED BY <3>1, <3>3 DEF Abstract!Next, Abstract!Acquire
  <2>6. CASE pc[p] \notin Claimed /\ pc'[p] \notin Claimed
    <3>1. \A q \in Proc : pc'[q] \in Claimed <=> pc[q] \in Claimed
      BY <2>2, <2>6
    <3>2. Holder' = Holder
      <4>1. CASE \E q \in Proc : pc[q] \in Claimed
        BY <4>1, <3>1, HolderIs, HolderPrimeIs
      <4>2. CASE ~ \E q \in Proc : pc[q] \in Claimed
        BY <4>2, <3>1 DEF Holder
      <4> QED BY <4>1, <4>2
    <3> QED BY <3>2
  <2> QED BY <2>3, <2>4, <2>5, <2>6
<1> QED
  BY <1>1, <1>2, Invariance, PTL DEF Spec, ImplementsExclusion, Abstract!Spec
=============================================================================
