-------------------------------- MODULE Hold --------------------------------
(***************************************************************************)
(* The advisory hold of pcbqa/layout.py: the commands that write one       *)
(* project tree exclude each other with a kernel flock on a lock file that *)
(* is created on entry and unlinked on release.                            *)
(*                                                                         *)
(* The file system is the part the protocol depends on: `path` is the      *)
(* inode the lock file's name denotes, an inode lives while it is named or *)
(* open, and a freed inode number may be handed out again.  flock belongs  *)
(* to the open file, and the kernel drops it when the process closes the   *)
(* file or dies.  The file's content is a variable of its own, because the *)
(* code promises that exclusion does not depend on it.                     *)
(*                                                                         *)
(* Nothing outside this protocol removes or replaces the lock file.        *)
(***************************************************************************)
EXTENDS Naturals

CONSTANTS Proc,      \* processes that claim the tree
          Inode,     \* inode numbers the file system hands out
          NoProc,    \* no process: an empty or truncated record
          NoInode,   \* no file, or no open descriptor
          MaxTries   \* attempts before a claim gives up (64 in the code)

ASSUME HoldAssumption ==
  /\ NoProc \notin Proc
  /\ NoInode \notin Inode
  /\ MaxTries \in Nat \ {0}

VARIABLES
  pc,       \* where each process is in __enter__ / __exit__
  tries,    \* attempts each process has used up in its claim
  fd,       \* the inode each process has open
  path,     \* the inode the lock file's name denotes
  owner,    \* the process holding the flock of each inode
  record    \* the process named by each inode's content

vars == <<pc, tries, fd, path, owner, record>>

Opened  == {"locking", "refusing", "checking", "truncating", "recording",
            "held", "releasing", "unlinking", "closing"}
Locked  == Opened \ {"locking", "refusing"}
Claimed == Locked \ {"checking", "closing"}
Idle    == {"idle", "dead"}

TypeOK ==
  /\ pc \in [Proc -> Idle \cup {"opening"} \cup Opened]
  /\ tries \in [Proc -> 0 .. MaxTries]
  /\ fd \in [Proc -> Inode \cup {NoInode}]
  /\ path \in Inode \cup {NoInode}
  /\ owner \in [Inode -> Proc \cup {NoProc}]
  /\ record \in [Inode -> Proc \cup {NoProc}]

(* The lock file may be a leftover of a process that crashed earlier: it   *)
(* exists, nobody has it open, and its content is whatever was written.    *)
Init ==
  /\ pc = [p \in Proc |-> "idle"]
  /\ tries = [p \in Proc |-> 0]
  /\ fd = [p \in Proc |-> NoInode]
  /\ path \in Inode \cup {NoInode}
  /\ owner = [i \in Inode |-> NoProc]
  /\ record = [i \in Inode |-> NoProc]

Goto(p, label) == pc' = [pc EXCEPT ![p] = label]

(* The attempts counted belong to the claim in progress and end with it.    *)
Restart(p) == tries' = [tries EXCEPT ![p] = 0]

(* An inode that has lost its name is freed, and its content with it, when *)
(* the last descriptor on it is closed.                                    *)
DropFile(p) ==
  /\ fd' = [fd EXCEPT ![p] = NoInode]
  /\ record' = [i \in Inode |->
                  IF i # path /\ \A q \in Proc \ {p} : fd[q] # i
                    THEN NoProc
                    ELSE record[i]]

(* os.close, or the kernel cleaning up after a death: the descriptor goes  *)
(* and the flock with it.                                                  *)
Close(p) ==
  /\ DropFile(p)
  /\ owner' = [i \in Inode |-> IF owner[i] = p THEN NoProc ELSE owner[i]]

-----------------------------------------------------------------------------

Enter(p) ==
  /\ pc[p] = "idle"
  /\ Goto(p, "opening")
  /\ UNCHANGED <<tries, fd, path, owner, record>>

\* Mutant: the attempts are not bounded.
OpenUnbounded(p) ==
  /\ pc[p] = "opening"
  /\ path # NoInode
  /\ fd' = [fd EXCEPT ![p] = path]
  /\ Goto(p, "locking")
  /\ UNCHANGED <<tries, path, owner, record>>

(* os.open(path, O_CREAT | O_RDWR) on a file that is there.                *)
OpenExisting(p) ==
  /\ pc[p] = "opening" /\ tries[p] < MaxTries
  /\ path # NoInode
  /\ fd' = [fd EXCEPT ![p] = path]
  /\ Goto(p, "locking")
  /\ UNCHANGED <<tries, path, owner, record>>

(* ... and on a name that denotes nothing: a new, empty file on an inode   *)
(* that no descriptor keeps alive.                                         *)
OpenNew(p) ==
  /\ pc[p] = "opening" /\ tries[p] < MaxTries
  /\ path = NoInode
  /\ \E i \in Inode :
       /\ \A q \in Proc : fd[q] # i
       /\ path' = i
       /\ fd' = [fd EXCEPT ![p] = i]
  /\ Goto(p, "locking")
  /\ UNCHANGED <<tries, owner, record>>

(* os.open raised, or every attempt is used up: LayoutError.               *)
GiveUp(p) ==
  /\ pc[p] = "opening"
  /\ Goto(p, "idle")
  /\ Restart(p)
  /\ UNCHANGED <<fd, path, owner, record>>

\* Mutant: the lock is taken shared, so another holder does not stop it.
FlockShared(p) ==
  /\ pc[p] = "locking"
  /\ owner' = [owner EXCEPT ![fd[p]] = p]
  /\ Goto(p, "checking")
  /\ UNCHANGED <<tries, fd, path, record>>

FlockTaken(p) ==
  /\ pc[p] = "locking"
  /\ owner[fd[p]] = NoProc
  /\ owner' = [owner EXCEPT ![fd[p]] = p]
  /\ Goto(p, "checking")
  /\ UNCHANGED <<tries, fd, path, record>>

FlockRefused(p) ==
  /\ pc[p] = "locking"
  /\ owner[fd[p]] # NoProc
  /\ Goto(p, "refusing")
  /\ UNCHANGED <<tries, fd, path, owner, record>>

(* Read the holder's record for the message, close, raise LayoutError.     *)
Refuse(p) ==
  /\ pc[p] = "refusing"
  /\ Close(p)
  /\ Goto(p, "idle")
  /\ Restart(p)
  /\ UNCHANGED path

\* Mutant: the lock is trusted without looking at the path again.
SettleUnchecked(p) ==
  /\ pc[p] = "checking"
  /\ Goto(p, "truncating")
  /\ Restart(p)
  /\ UNCHANGED <<fd, path, owner, record>>

(* os.stat(path) against os.fstat(fd): the claim stands ...                *)
Settle(p) ==
  /\ pc[p] = "checking"
  /\ path = fd[p]
  /\ Goto(p, "truncating")
  /\ Restart(p)
  /\ UNCHANGED <<fd, path, owner, record>>

\* Mutant: an attempt that found the file replaced is not counted.
RetryUncounted(p) ==
  /\ pc[p] = "checking"
  /\ path # fd[p]
  /\ Close(p)
  /\ Goto(p, "opening")
  /\ UNCHANGED <<tries, path>>

(* ... or the locked inode is no longer the file's: close and try again.   *)
Retry(p) ==
  /\ pc[p] = "checking"
  /\ path # fd[p]
  /\ Close(p)
  /\ tries' = [tries EXCEPT ![p] = @ + 1]
  /\ Goto(p, "opening")
  /\ UNCHANGED path

Truncate(p) ==
  /\ pc[p] = "truncating"
  /\ record' = [record EXCEPT ![fd[p]] = NoProc]
  /\ Goto(p, "recording")
  /\ UNCHANGED <<tries, fd, path, owner>>

WriteRecord(p) ==
  /\ pc[p] = "recording"
  /\ record' = [record EXCEPT ![fd[p]] = p]
  /\ Goto(p, "held")
  /\ UNCHANGED <<tries, fd, path, owner>>

(* The with-block ends, normally or by an exception.                       *)
Exit(p) ==
  /\ pc[p] = "held"
  /\ Goto(p, "releasing")
  /\ UNCHANGED <<tries, fd, path, owner, record>>

\* Mutant: the flock is dropped before the file is unlinked.
RecheckUnlocked(p) ==
  /\ pc[p] = "releasing"
  /\ Goto(p, IF path = fd[p] THEN "unlinking" ELSE "closing")
  /\ owner' = [owner EXCEPT ![fd[p]] = NoProc]
  /\ UNCHANGED <<tries, fd, path, record>>

(* __exit__ compares the inodes again before it unlinks anything.          *)
Recheck(p) ==
  /\ pc[p] = "releasing"
  /\ Goto(p, IF path = fd[p] THEN "unlinking" ELSE "closing")
  /\ UNCHANGED <<tries, fd, path, owner, record>>

(* os.unlink removes the name, whatever inode it denotes by then.          *)
Unlink(p) ==
  /\ pc[p] = "unlinking"
  /\ path' = NoInode
  /\ Goto(p, "closing")
  /\ UNCHANGED <<tries, fd, owner, record>>

Release(p) ==
  /\ pc[p] = "closing"
  /\ Close(p)
  /\ Goto(p, "idle")
  /\ UNCHANGED <<tries, path>>

\* Mutant: the lock is the file's existence, which a death does not undo.
CrashKeepsLock(p) ==
  /\ pc[p] \notin Idle
  /\ DropFile(p)
  /\ Goto(p, "dead")
  /\ Restart(p)
  /\ UNCHANGED <<path, owner>>

(* The process dies anywhere; its lock file, if it made one, stays.        *)
Crash(p) ==
  /\ pc[p] \notin Idle
  /\ Close(p)
  /\ Goto(p, "dead")
  /\ Restart(p)
  /\ UNCHANGED path

(* The steps the running code takes by itself.                             *)
Step(p) ==
  \/ OpenExisting(p) \/ OpenNew(p) \/ GiveUp(p)
  \/ FlockTaken(p) \/ FlockRefused(p) \/ Refuse(p)
  \/ Settle(p) \/ Retry(p) \/ Truncate(p) \/ WriteRecord(p)
  \/ Recheck(p) \/ Unlink(p) \/ Release(p)

Next == \E p \in Proc : Enter(p) \/ Step(p) \/ Exit(p) \/ Crash(p)

Spec == Init /\ [][Next]_vars

(* A process that is inside __enter__ or __exit__ keeps running until it   *)
(* returns or dies; nothing is assumed about when commands start or end.   *)
FairSpec == Spec /\ \A p \in Proc : WF_vars(Step(p))

-----------------------------------------------------------------------------

Live(p) == pc[p] # "dead"

(* The docstring's promise: two processes are never both past a successful *)
(* claim, whatever the order of opens, locks, unlinks and deaths was and   *)
(* whatever the lock file contains.                                        *)
MutualExclusion ==
  \A p, q \in Proc : pc[p] \in Claimed /\ pc[q] \in Claimed => p = q

(* __exit__ must "never strip a file some other actor put there": between  *)
(* its stat and its unlink the name can have come to denote another file,  *)
(* so the name only ever disappears while its own locker removes it.       *)
NeverStripsAnothersFile ==
  [][path # NoInode /\ path' = NoInode =>
       \E p \in Proc : fd[p] = path /\ owner[path] = p]_vars

(* There is no staleness heuristic because none is needed: a claim is only *)
(* refused while a process that is alive holds the lock it asked for, so a *)
(* crash never leaves the tree locked behind it.                           *)
RefusedOnlyByTheLiving ==
  [][\A p \in Proc : pc[p] = "locking" /\ pc'[p] = "refusing" =>
       \E q \in Proc \ {p} : Live(q) /\ fd[q] = fd[p]]_vars

(* Every claim comes to an end: it is held, refused or given up (idle), or *)
(* its process is dead; the retry loop cannot run for ever.                *)
ClaimSettles ==
  \A p \in Proc : pc[p] = "opening" ~> pc[p] \in Idle \cup {"held"}

(* The hold is the abstract exclusion: settling a claim is entering, the   *)
(* unlink (or finding the file replaced, or dying) is leaving.             *)
Holder ==
  IF \E p \in Proc : pc[p] \in Claimed
    THEN CHOOSE p \in Proc : pc[p] \in Claimed
    ELSE NoProc

Abstract == INSTANCE Exclusion WITH holder <- Holder
ImplementsExclusion == Abstract!Spec
=============================================================================
