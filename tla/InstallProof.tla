---------------------------- MODULE InstallProof ----------------------------
(***************************************************************************)
(* Proofs about Install, for any number of builders, builds, designs and   *)
(* destinations.  The argument: whoever is past Acquire holds the tree, so *)
(* the builder that writes is alone and its build is the newest one; a     *)
(* rename therefore only ever raises a file to the newest build, and the   *)
(* record's turn comes when no other file of its build is left.            *)
(***************************************************************************)
EXTENDS Install, TLAPS

\* Nothing on disk is of a build that has not been staged, and every staged
\* build was generated from a design.
BuildsInv ==
  /\ \A b \in 1 .. builds : from[b] \in Design
  /\ \A d \in Dest : tree[d] <= builds
  /\ record <= builds

Making == {"staged", "bound", "copying", "renaming", "pruning", "installed"}

Whole(b) == Outputs(b) \cup {FabRecord}

\* A builder past Acquire is the holder, has a build left to make, and then
\* makes the newest one.
AloneInv(p) ==
  /\ pc[p] # "idle" => holder = p
  /\ pc[p] = "held" => builds < MaxBuild
  /\ pc[p] \in Making => build[p] = builds /\ builds # 0

\* Until its own record is renamed, the record in the tree is an older one.
FreshInv(p) ==
  pc[p] \in {"staged", "bound", "copying", "renaming"} => record < builds

\* Each file of the build is still to be copied or is among the temporaries.
CopyInv(p) ==
  pc[p] = "copying" => left[p] \cup mine[p] = Whole(build[p])

\* Each file of the build is still to be renamed or is the build's own, with
\* no temporary beside it; the record is the last.
RenameInv(p) ==
  pc[p] = "renaming" =>
    /\ FabRecord \in left[p]
    /\ \A d \in Outputs(build[p]) \ left[p] : tree[d] = build[p] /\ d \notin temps

\* Once the record is there all of the build is.
PruneInv(p) ==
  pc[p] \in {"pruning", "installed"} =>
    /\ record = build[p]
    /\ \A d \in Outputs(build[p]) : tree[d] = build[p]
    /\ temps \subseteq DirOut

\* An install ends when there is nothing else in the release directories.
PrunedInv(p) ==
  pc[p] = "installed" =>
    /\ temps = {}
    /\ \A d \in DirOut \ Outputs(build[p]) : tree[d] = 0

\* A builder that has not renamed anything has the tree it found.
FoundInv(p) ==
  pc[p] \in {"held", "staged", "bound", "copying"} => Untouched

\* A refused one has it, or its own whole set is there.
RefusedInv(p) ==
  pc[p] = "blocked" => Untouched \/ (rootDir /\ AllInstalled(build[p]))

ProcInv(p) == /\ AloneInv(p) /\ FreshInv(p) /\ CopyInv(p) /\ RenameInv(p) /\ PruneInv(p)
              /\ PrunedInv(p) /\ FoundInv(p)
              /\ RefusedInv(p)

DiskInv == TypeOK /\ BuildsInv /\ RecordNeverAhead

IInv == DiskInv /\ \A p \in Proc : ProcInv(p)

-----------------------------------------------------------------------------

\* IInv holds before any build.
LEMMA InitIInv == Init => IInv
<1> SUFFICES ASSUME Init PROVE IInv
  OBVIOUS
<1>1. TypeOK
  BY InstallAssumption DEF Init, TypeOK, Empty, Build, Dest
<1>2. BuildsInv /\ RecordNeverAhead
  BY InstallAssumption DEF Init, BuildsInv, RecordNeverAhead, Empty
<1>3. ASSUME NEW p \in Proc PROVE ProcInv(p)
  BY DEF Init, ProcInv, AloneInv, FreshInv, CopyInv, RenameInv, PruneInv,
     PrunedInv, FoundInv, RefusedInv, Untouched, AllInstalled, Making
<1> QED BY <1>1, <1>2, <1>3 DEF IInv, DiskInv

\* What a staged build outputs are destinations, the record not among them.
LEMMA OutputsAreDest ==
  ASSUME DiskInv, NEW b \in 1 .. builds
  PROVE  /\ Outputs(b) \subseteq Dest /\ FileOut \subseteq Outputs(b)
         /\ FabRecord \notin Outputs(b)
         /\ Whole(b) \subseteq Named
<1>1. from[b] \in Design
  BY DEF DiskInv, BuildsInv
<1> QED BY <1>1, InstallAssumption DEF Outputs, Whole, Named, Dest

\* While a builder is at work, and when nobody is, all others are idle.
LEMMA OthersIdle ==
  ASSUME IInv, NEW p \in Proc, pc[p] # "idle" \/ holder = NoProc
  PROVE  \A q \in Proc \ {p} : pc[q] = "idle"
BY InstallAssumption DEF IInv, ProcInv, AloneInv

\* So of the processes only the one that moved has anything to preserve.
LEMMA OnlyMover ==
  ASSUME IInv, NEW p \in Proc, pc[p] # "idle" \/ holder = NoProc,
         NEW l, pc' = [pc EXCEPT ![p] = l], DiskInv', ProcInv(p)'
  PROVE  IInv'
<1>1. ASSUME NEW q \in Proc \ {p} PROVE ProcInv(q)'
  <2>1. pc'[q] = "idle"
    BY OthersIdle DEF IInv, DiskInv, TypeOK
  <2> QED BY <2>1 DEF ProcInv, AloneInv, FreshInv, CopyInv, RenameInv, PruneInv,
                      PrunedInv, FoundInv,
                      RefusedInv, Untouched, AllInstalled, Making
<1> QED BY <1>1 DEF IInv

\* A step that only moves a builder to a label with nothing to answer for.
LEMMA Withdraws ==
  ASSUME IInv, NEW p \in Proc, pc[p] # "idle",
         NEW l \in {"blocked", "cleaning", "torn"}, pc' = [pc EXCEPT ![p] = l],
         l = "blocked" => \/ pc[p] \in {"held", "staged", "bound"}
                          \/ pc[p] = "pruning" /\ rootDir,
         temps' \in SUBSET Named, mine' \in [Proc -> SUBSET Named],
         UNCHANGED <<holder, buildVars, left, design, tree, record, found, rootDir>>
  PROVE  IInv'
<1>1. DiskInv'
  <2>1. TypeOK'
    BY DEF IInv, DiskInv, TypeOK, Working, Ended, buildVars
  <2>2. BuildsInv' /\ RecordNeverAhead'
    BY DEF IInv, DiskInv, BuildsInv, RecordNeverAhead, Outputs, buildVars
  <2> QED BY <2>1, <2>2 DEF DiskInv
<1>2. pc'[p] = l
  BY DEF IInv, DiskInv, TypeOK
<1>3. ProcInv(p)'
  BY <1>2 DEF IInv, ProcInv, AloneInv, FreshInv, CopyInv, RenameInv, PruneInv,
     PrunedInv, FoundInv, RefusedInv, Untouched, AllInstalled, Making, Outputs,
     buildVars
<1> QED BY <1>1, <1>3, OnlyMover

\* Every step of every builder, and every edit, preserves IInv.
LEMMA NextIInv == IInv /\ [Next]_vars => IInv'
<1> SUFFICES ASSUME IInv, [Next]_vars PROVE IInv'
  OBVIOUS
<1> USE DEF Goto
<1>0. TypeOK /\ BuildsInv /\ RecordNeverAhead /\ DiskInv
  BY DEF IInv, DiskInv
<1>1. ASSUME NEW p \in Proc, Acquire(p) PROVE IInv'
  <2>1. pc'[p] = "held"
    BY <1>0, <1>1 DEF Acquire, TypeOK
  <2>2. TypeOK'
    BY <1>0, <1>1 DEF Acquire, TypeOK, Working, Ended, diskVars, buildVars
  <2>3. BuildsInv' /\ RecordNeverAhead'
    BY <1>0, <1>1 DEF Acquire, BuildsInv, RecordNeverAhead, Outputs, diskVars,
       buildVars
  <2>4. ProcInv(p)'
    BY <1>1, <2>1 DEF Acquire, diskVars, buildVars, ProcInv, AloneInv,
       FreshInv, CopyInv, RenameInv, PruneInv, PrunedInv, FoundInv,
       RefusedInv, Untouched, AllInstalled, Making
  <2> QED BY <1>1, <2>2, <2>3, <2>4, OnlyMover DEF DiskInv, Acquire
<1>2. ASSUME NEW p \in Proc, Stage(p) PROVE IInv'
  <2>1. builds' = builds + 1 /\ builds' \in 1 .. MaxBuild
    <3>1. builds < MaxBuild
      BY <1>2 DEF Stage, IInv, ProcInv, AloneInv
    <3>2. builds \in Nat /\ builds' = builds + 1
      BY <1>0, <1>2, InstallAssumption DEF Stage, TypeOK, Build
    <3> QED BY <3>1, <3>2, InstallAssumption
  <2>2. pc'[p] = "staged" /\ build'[p] = builds' /\ builds' # 0
    BY <1>0, <1>2 DEF Stage, TypeOK, Build
  <2>3. TypeOK'
    BY <1>0, <1>2, <2>1 DEF Stage, TypeOK, Build, Working, Ended, diskVars
  <2>4. BuildsInv'
    <3>1. from' \in [1 .. MaxBuild -> Design \cup {NoDesign}]
      BY <2>3 DEF TypeOK
    <3>2. ASSUME NEW b \in 1 .. builds' PROVE from'[b] \in Design
      <4>1. b \in 1 .. MaxBuild
        BY <2>1, InstallAssumption
      <4>2. b = builds' \/ b \in 1 .. builds
        BY <1>0, <2>1 DEF TypeOK, Build
      <4>3. from'[b] = IF b = builds' THEN design ELSE from[b]
        BY <1>0, <1>2, <4>1 DEF Stage, TypeOK
      <4> QED BY <1>0, <4>2, <4>3 DEF TypeOK, BuildsInv
    <3>3. (\A e \in Dest : tree'[e] <= builds') /\ record' <= builds'
      BY <1>0, <1>2, <2>1 DEF Stage, TypeOK, BuildsInv, Build, diskVars
    <3> QED BY <3>2, <3>3 DEF BuildsInv
  <2>5. RecordNeverAhead'
    \* The record installed is an earlier build's, whose outputs are known.
    <3>1. record # 0 => record \in 1 .. builds
      BY <1>0 DEF TypeOK, BuildsInv, Build
    <3>2. record # 0 => Outputs(record)' = Outputs(record)
      BY <1>0, <1>2, <3>1 DEF Stage, TypeOK, Build, Outputs, diskVars
    <3> QED BY <1>0, <1>2, <3>2 DEF Stage, RecordNeverAhead, diskVars
  <2>6. record' < builds'
    BY <1>0, <1>2, <2>1 DEF Stage, TypeOK, BuildsInv, Build, diskVars
  <2>7. ProcInv(p)'
    BY <1>2, <2>2, <2>6 DEF Stage, diskVars, IInv, ProcInv, AloneInv,
       FreshInv, CopyInv, RenameInv, PruneInv, PrunedInv, FoundInv,
       RefusedInv, Untouched, AllInstalled, Making
  <2> QED BY <1>2, <2>3, <2>4, <2>5, <2>7, OnlyMover DEF DiskInv, Stage
<1>3. ASSUME NEW p \in Proc, Bind(p) PROVE IInv'
  <2>1. pc'[p] = "bound"
    BY <1>0, <1>3 DEF Bind, TypeOK
  <2>2. TypeOK'
    BY <1>0, <1>3 DEF Bind, TypeOK, Working, Ended, diskVars
  <2>3. BuildsInv' /\ RecordNeverAhead'
    BY <1>0, <1>3 DEF Bind, BuildsInv, RecordNeverAhead, Outputs, diskVars
  <2>4. ProcInv(p)'
    BY <1>3, <2>1 DEF Bind, diskVars, IInv, ProcInv, AloneInv, FreshInv,
       CopyInv, RenameInv, PruneInv, PrunedInv, FoundInv,
       RefusedInv, Untouched, AllInstalled, Making
  <2> QED BY <1>3, <2>2, <2>3, <2>4, OnlyMover DEF DiskInv, Bind
<1>4. ASSUME NEW p \in Proc, Block(p) PROVE IInv'
  BY <1>0, <1>4, Withdraws DEF Block, TypeOK, diskVars, buildVars
<1>5. ASSUME NEW p \in Proc, Prove(p) PROVE IInv'
  <2>1. build[p] = builds /\ builds # 0 /\ builds \in Nat
    BY <1>0, <1>5 DEF Prove, IInv, ProcInv, AloneInv, Making, TypeOK, Build
  <2>2. Whole(build[p]) \subseteq Named
    BY <1>0, <2>1, OutputsAreDest
  <2>3. pc'[p] = "copying" /\ left'[p] = Whole(build[p]) /\ mine'[p] = {}
    BY <1>0, <1>5 DEF Prove, TypeOK, Whole
  <2>4. TypeOK'
    BY <1>0, <1>5, <2>2 DEF Prove, TypeOK, Whole, Working, Ended, diskVars,
       buildVars
  <2>5. BuildsInv' /\ RecordNeverAhead'
    BY <1>0, <1>5 DEF Prove, BuildsInv, RecordNeverAhead, Outputs, diskVars,
       buildVars
  <2>6. ProcInv(p)'
    BY <1>5, <2>3 DEF Prove, diskVars, buildVars, IInv, ProcInv, AloneInv,
       FreshInv, CopyInv, RenameInv, PruneInv, PrunedInv, FoundInv,
       RefusedInv, Untouched, AllInstalled, Making,
       Whole, Outputs
  <2> QED BY <1>5, <2>4, <2>5, <2>6, OnlyMover DEF DiskInv, Prove
<1>6. ASSUME NEW p \in Proc, NEW d \in Named, Copy(p, d) PROVE IInv'
  <2>1. /\ build[p] = builds /\ builds # 0 /\ builds \in Nat
        /\ left[p] \cup mine[p] = Whole(build[p])
    BY <1>0, <1>6 DEF Copy, IInv, ProcInv, AloneInv, FreshInv, CopyInv,
       Making, TypeOK, Build
  <2>2. Whole(build[p])' = Whole(build[p])
    BY <1>6 DEF Copy, Whole, Outputs, buildVars
  <2>3. mine'[p] = mine[p] \cup {d} /\ mine' \in [Proc -> SUBSET Named]
    BY <1>0, <1>6 DEF Copy, TypeOK
  <2>4. TypeOK'
    BY <1>0, <1>6, <2>3 DEF Copy, TypeOK, Working, Ended, buildVars
  <2>5. BuildsInv' /\ RecordNeverAhead'
    BY <1>0, <1>6 DEF Copy, BuildsInv, RecordNeverAhead, Outputs, buildVars
  <2>6. DiskInv'
    BY <2>4, <2>5 DEF DiskInv
  <2>7. CASE left[p] = {d}
    <3>1. pc'[p] = "renaming" /\ left'[p] = Whole(build[p])
      BY <1>0, <1>6, <2>1, <2>3, <2>7 DEF Copy, TypeOK
    <3>2. ProcInv(p)'
      BY <1>6, <2>1, <2>2, <3>1 DEF Copy, buildVars, IInv, ProcInv, AloneInv,
         FreshInv, CopyInv, RenameInv, PruneInv, PrunedInv, FoundInv,
         RefusedInv, Untouched, AllInstalled, Making,
         Whole, Outputs
    <3> QED BY <1>6, <2>6, <2>7, <3>2, OnlyMover DEF Copy
  <2>8. CASE left[p] # {d}
    <3>1. pc' = [pc EXCEPT ![p] = "copying"] /\ pc'[p] = "copying"
      BY <1>0, <1>6, <2>8 DEF Copy, TypeOK
    <3>2. left'[p] = left[p] \ {d}
      BY <1>0, <1>6, <2>8 DEF Copy, TypeOK
    <3>3. ProcInv(p)'
      BY <1>6, <2>1, <2>2, <2>3, <3>1, <3>2 DEF Copy, buildVars, IInv,
         ProcInv, AloneInv, FreshInv, CopyInv, RenameInv, PruneInv, PrunedInv,
         FoundInv, RefusedInv, Untouched, AllInstalled, Making
    <3> QED BY <1>6, <2>6, <3>1, <3>3, OnlyMover DEF Copy
  <2> QED BY <2>7, <2>8
<1>7. ASSUME NEW p \in Proc, NEW d \in Named, CopyFails(p, d) PROVE IInv'
  <2>1. temps' \in SUBSET Named
    BY <1>0, <1>7 DEF CopyFails, TypeOK
  <2> QED BY <1>0, <1>7, <2>1, Withdraws DEF CopyFails, TypeOK, buildVars
<1>8. ASSUME NEW p \in Proc, NEW d \in Named, Rename(p, d) PROVE IInv'
  <2>1. /\ build[p] = builds /\ builds # 0 /\ builds \in Nat
        /\ FabRecord \in left[p]
        /\ \A e \in Outputs(build[p]) \ left[p] : tree[e] = build[p] /\ e \notin temps
    BY <1>0, <1>8 DEF Rename, IInv, ProcInv, AloneInv, RenameInv, Making,
       TypeOK, Build
  <2>2. /\ Outputs(build[p]) \subseteq Dest /\ FileOut \subseteq Outputs(build[p])
        /\ FabRecord \notin Outputs(build[p])
    BY <1>0, <2>1, OutputsAreDest
  <2>3. /\ left' = [left EXCEPT ![p] = @ \ {d}] /\ left'[p] = left[p] \ {d}
        /\ build' = build /\ builds' = builds /\ from' = from /\ holder' = holder
        /\ temps' = temps \ {d}
        /\ \A b : Outputs(b)' = Outputs(b)
    BY <1>0, <1>8 DEF Rename, TypeOK, buildVars, Outputs
  <2>4. mine' \in [Proc -> SUBSET Named] /\ left' \in [Proc -> SUBSET Named]
    BY <1>0, <1>8 DEF Rename, TypeOK
  <2>5. CASE d # FabRecord
    <3>1. /\ pc' = pc /\ tree' = [tree EXCEPT ![d] = build[p]] /\ record' = record
          /\ d \in Dest
      BY <1>8, <2>1, <2>5 DEF Rename, Named
    <3>2. tree' \in [Dest -> Build] /\ \A e \in Dest : tree'[e] \in {tree[e], builds}
      BY <1>0, <2>1, <3>1 DEF TypeOK
    <3>3. TypeOK'
      BY <1>0, <1>8, <2>3, <2>4, <3>1, <3>2 DEF Rename, TypeOK, buildVars
    <3>4. BuildsInv'
      BY <1>0, <2>1, <2>3, <3>1, <3>2 DEF TypeOK, BuildsInv
    <3>5. RecordNeverAhead'
      <4> SUFFICES ASSUME record # 0, NEW e \in Outputs(record)
                   PROVE  tree'[e] >= record
        BY <2>3, <3>1 DEF RecordNeverAhead
      <4>1. record \in 1 .. builds
        BY <1>0 DEF TypeOK, BuildsInv, Build
      <4>2. e \in Dest
        BY <1>0, <4>1, OutputsAreDest
      <4> QED BY <1>0, <2>1, <3>2, <4>1, <4>2 DEF RecordNeverAhead
    <3>6. \A e \in Outputs(build[p]) \ left'[p] :
             tree'[e] = build[p] /\ e \notin temps'
      BY <1>0, <2>1, <2>2, <2>3, <3>1 DEF TypeOK
    <3>7. pc[p] = "renaming" /\ pc' = [pc EXCEPT ![p] = "renaming"]
      BY <1>0, <1>8, <3>1 DEF Rename, TypeOK
    <3>8. ProcInv(p)'
      BY <2>1, <2>3, <2>5, <3>1, <3>6, <3>7 DEF IInv, ProcInv, AloneInv,
         FreshInv, CopyInv, RenameInv, PruneInv, PrunedInv, FoundInv,
         RefusedInv, Untouched, AllInstalled, Making
    <3> QED BY <3>3, <3>4, <3>5, <3>7, <3>8, OnlyMover DEF DiskInv
  <2>6. CASE d = FabRecord
    <3>1. /\ left[p] = {FabRecord} /\ pc[p] = "renaming"
          /\ pc' = [pc EXCEPT ![p] = "pruning"] /\ pc'[p] = "pruning"
          /\ record' = build[p] /\ tree' = tree
      BY <1>0, <1>8, <2>6 DEF Rename, TypeOK
    <3>2. \A e \in Outputs(build[p]) : tree'[e] = build[p] /\ e \notin temps'
      BY <2>1, <2>2, <2>3, <3>1
    <3>3. temps' \subseteq DirOut
      BY <1>0, <2>2, <2>3, <2>6, <3>2 DEF TypeOK, Named, Dest
    <3>4. TypeOK'
      BY <1>0, <1>8, <2>3, <2>4, <3>1 DEF Rename, TypeOK, Working, Ended,
         buildVars
    <3>5. BuildsInv'
      BY <1>0, <2>1, <2>3, <3>1 DEF BuildsInv
    <3>6. RecordNeverAhead'
      BY <2>1, <2>3, <3>1, <3>2 DEF RecordNeverAhead
    <3>7. ProcInv(p)'
      BY <2>1, <2>3, <3>1, <3>2, <3>3 DEF IInv, ProcInv, AloneInv, FreshInv,
         CopyInv, RenameInv, PruneInv, PrunedInv, FoundInv,
         RefusedInv, Untouched, AllInstalled, Making
    <3> QED BY <3>1, <3>4, <3>5, <3>6, <3>7, OnlyMover DEF DiskInv
  <2> QED BY <2>5, <2>6
<1>9. ASSUME NEW p \in Proc, RenameFails(p) PROVE IInv'
  BY <1>0, <1>9, Withdraws DEF RenameFails, TypeOK, diskVars, buildVars
<1>10. ASSUME NEW p \in Proc, NEW d \in Named, Clean(p, d) PROVE IInv'
  <2>1. temps' \in SUBSET Named /\ mine' \in [Proc -> SUBSET Named]
    BY <1>0, <1>10 DEF Clean, TypeOK
  <2>2. pc' = [pc EXCEPT ![p] = "cleaning"]
    BY <1>0, <1>10 DEF Clean, TypeOK
  <2> QED BY <1>0, <1>10, <2>1, <2>2, Withdraws DEF Clean, buildVars
<1>11. ASSUME NEW p \in Proc, CleanEnds(p) PROVE IInv'
  BY <1>0, <1>11, Withdraws DEF CleanEnds, TypeOK, diskVars, buildVars
<1>12. ASSUME NEW p \in Proc, PruneFile(p) PROVE IInv'
  <2>1. /\ pc[p] = "pruning" /\ build[p] = builds /\ builds # 0
        /\ record = build[p] /\ temps \subseteq DirOut
        /\ \A e \in Outputs(build[p]) : tree[e] = build[p]
    BY <1>12 DEF PruneFile, IInv, ProcInv, AloneInv, PruneInv, Making
  <2>2. /\ build' = build /\ builds' = builds /\ from' = from /\ record' = record
        /\ holder' = holder /\ pc' = [pc EXCEPT ![p] = "pruning"]
        /\ pc'[p] = "pruning" /\ \A b : Outputs(b)' = Outputs(b)
    BY <1>0, <1>12 DEF PruneFile, TypeOK, buildVars, Outputs
  <2>3. /\ tree' \in [Dest -> Build] /\ temps' \subseteq temps
        /\ \A e \in Dest : tree'[e] \in {tree[e], 0}
        /\ \A e \in Outputs(build[p]) : tree'[e] = tree[e]
    <3>1. CASE \E d \in Stale(build[p]) : tree' = [tree EXCEPT ![d] = 0]
                                          /\ UNCHANGED temps
      <4>1. PICK d \in Stale(build[p]) : tree' = [tree EXCEPT ![d] = 0]
                                         /\ temps' = temps
        BY <3>1
      <4>2. d \in Dest /\ d \notin Outputs(build[p]) /\ 0 \in Build
        BY <4>1, InstallAssumption DEF Stale, Dest, Build
      <4>3. tree \in [Dest -> Build]
        BY <1>0 DEF TypeOK
      <4>4. Outputs(build[p]) \subseteq Dest
        BY <1>0, <2>1, OutputsAreDest DEF TypeOK, Build
      <4> QED BY <4>1, <4>2, <4>3, <4>4
    <3>2. CASE tree' = tree /\ temps' \subseteq temps
      BY <1>0, <3>2 DEF TypeOK
    <3> QED BY <1>12, <3>1, <3>2 DEF PruneFile, StaleTemps
  <2>4. TypeOK'
    BY <1>0, <1>12, <2>2, <2>3 DEF PruneFile, TypeOK, buildVars
  <2>5. BuildsInv'
    <3>1. 0 <= builds
      BY <1>0 DEF TypeOK, Build
    <3> QED BY <1>0, <2>2, <2>3, <3>1 DEF BuildsInv
  <2>6. RecordNeverAhead'
    BY <1>0, <2>1, <2>2, <2>3 DEF RecordNeverAhead
  <2>7. ProcInv(p)'
    BY <2>1, <2>2, <2>3 DEF IInv, ProcInv, AloneInv, FreshInv, CopyInv,
       RenameInv, PruneInv, PrunedInv, FoundInv,
       RefusedInv, Untouched, AllInstalled, Making
  <2> QED BY <2>1, <2>2, <2>4, <2>5, <2>6, <2>7, OnlyMover DEF DiskInv
<1>13. ASSUME NEW p \in Proc, PruneEnds(p) PROVE IInv'
  <2>1. pc'[p] = "installed"
    BY <1>0, <1>13 DEF PruneEnds, TypeOK
  <2>2. TypeOK'
    BY <1>0, <1>13 DEF PruneEnds, TypeOK, Working, Ended, diskVars, buildVars
  <2>3. BuildsInv' /\ RecordNeverAhead'
    BY <1>0, <1>13 DEF PruneEnds, BuildsInv, RecordNeverAhead, Outputs,
       diskVars, buildVars
  <2>4. ProcInv(p)'
    BY <1>13, <2>1 DEF PruneEnds, Stale, StaleTemps, diskVars, buildVars,
       IInv, ProcInv, AloneInv, FreshInv, CopyInv, RenameInv, PruneInv,
       PrunedInv, FoundInv, RefusedInv, Untouched, AllInstalled, Making, Outputs
  <2> QED BY <1>13, <2>2, <2>3, <2>4, OnlyMover DEF DiskInv, PruneEnds
<1>14. ASSUME NEW p \in Proc, PruneFails(p) PROVE IInv'
  BY <1>0, <1>14, Withdraws DEF PruneFails, TypeOK, diskVars, buildVars
<1>15. ASSUME NEW p \in Proc, PruneRefused(p) PROVE IInv'
  BY <1>0, <1>15, Withdraws DEF PruneRefused, TypeOK, diskVars, buildVars
<1>16. ASSUME NEW p \in Proc, Leave(p) \/ Crash(p) PROVE IInv'
  <2>1. pc[p] # "idle" /\ Vacate(p)
    BY <1>16 DEF Leave, Crash, Working, Ended
  <2>2. pc'[p] = "idle"
    BY <1>0, <2>1 DEF Vacate, TypeOK
  <2>3. TypeOK'
    BY <1>0, <2>1, InstallAssumption DEF Vacate, TypeOK, Build, Empty,
       diskVars
  <2>4. BuildsInv' /\ RecordNeverAhead'
    BY <1>0, <2>1 DEF Vacate, BuildsInv, RecordNeverAhead, Outputs, diskVars
  <2>5. ProcInv(p)'
    BY <2>2 DEF ProcInv, AloneInv, FreshInv, CopyInv, RenameInv, PruneInv,
       PrunedInv, FoundInv, RefusedInv, Untouched, AllInstalled, Making
  <2> QED BY <2>1, <2>3, <2>4, <2>5, OnlyMover DEF DiskInv, Vacate
<1>17. CASE Edit
  <2>1. TypeOK' /\ BuildsInv' /\ RecordNeverAhead'
    BY <1>0, <1>17 DEF Edit, TypeOK, BuildsInv, RecordNeverAhead, Outputs,
       diskVars, buildVars
  <2>2. ASSUME NEW p \in Proc PROVE ProcInv(p)'
    BY <1>17 DEF Edit, diskVars, buildVars, IInv, ProcInv, AloneInv, FreshInv,
       CopyInv, RenameInv, PruneInv, PrunedInv, FoundInv,
       RefusedInv, Untouched, AllInstalled, Whole, Outputs
  <2> QED BY <2>1, <2>2 DEF IInv, DiskInv
<1>18. CASE UNCHANGED vars
  <2>1. TypeOK' /\ BuildsInv' /\ RecordNeverAhead'
    BY <1>0, <1>18 DEF vars, TypeOK, BuildsInv, RecordNeverAhead, Outputs,
       diskVars, buildVars
  <2>2. ASSUME NEW p \in Proc PROVE ProcInv(p)'
    BY <1>18 DEF vars, diskVars, buildVars, IInv, ProcInv, AloneInv, FreshInv,
       CopyInv, RenameInv, PruneInv, PrunedInv, FoundInv,
       RefusedInv, Untouched, AllInstalled, Whole, Outputs
  <2> QED BY <2>1, <2>2 DEF IInv, DiskInv
<1> QED
  BY <1>1, <1>2, <1>3, <1>4, <1>5, <1>6, <1>7, <1>8, <1>9, <1>10, <1>11,
     <1>12, <1>13, <1>14, <1>15, <1>16, <1>17, <1>18 DEF Next, Step

\* The variables keep their types and the facts above hold throughout.
THEOREM Invariance == Spec => []IInv
<1> QED BY InitIInv, NextIInv, PTL DEF Spec

-----------------------------------------------------------------------------

\* The tree, its temporaries and the builders keep their types
\* (Build._install and what surrounds it).
THEOREM Typing == Spec => []TypeOK
<1>1. IInv => TypeOK
  BY DEF IInv, DiskInv
<1> QED BY <1>1, Invariance, PTL

\* Whatever builds were torn, failed or died before, the fabrication record
\* never names a file that its build, or a later one, has not written.
THEOREM RecordIsNeverAhead == Spec => []RecordNeverAhead
<1>1. IInv => RecordNeverAhead
  BY DEF IInv, DiskInv
<1> QED BY <1>1, Invariance, PTL

\* A build that reports success has left its own complete set in the tree,
\* and nothing else in the release directories, whatever it found there.
THEOREM SuccessLeavesOneSet == Spec => []SuccessIsCoherent
<1>1. IInv => SuccessIsCoherent
  BY DEF IInv, ProcInv, AloneInv, PruneInv, PrunedInv, SuccessIsCoherent,
     Accounted, Making
<1> QED BY <1>1, Invariance, PTL

\* A build that was refused has changed nothing, or, where a release directory
\* is the project root, has installed all of its set under its record.
THEOREM BlockedChangesNothing == Spec => []BlockedLeavesOutputs
<1>1. IInv => BlockedLeavesOutputs
  BY DEF IInv, ProcInv, RefusedInv, BlockedLeavesOutputs
<1> QED BY <1>1, Invariance, PTL

-----------------------------------------------------------------------------

\* What the abstraction sees of a step that leaves the record, and the files
\* it names, alone: at most something beside them, the design included, ceases
\* or begins to agree with them.
LEMMA Beside ==
  ASSUME UNCHANGED record, Outputs(record)' = Outputs(record),
         \A d \in Outputs(record) : tree'[d] = tree[d]
  PROVE  [Set!Next]_<<record, Torn, Accepted>>
<1>1. Torn' = Torn
  BY DEF Torn
<1>2. CASE Accepted' = Accepted
  BY <1>1, <1>2
<1>3. CASE Accepted' = 0
  BY <1>1, <1>3 DEF Set!Next, Set!Clutter, Accepted
<1>4. CASE Accepted' # 0
  <2>1. Accounted' /\ Accepted' = record /\ record # 0
    BY <1>4 DEF Accepted
  <2>2. ~Torn
    BY <2>1 DEF Accounted, Torn
  <2> QED BY <1>1, <2>1, <2>2 DEF Set!Next, Set!Tidy, Accepted
<1> QED BY <1>2, <1>3, <1>4

\* Every step of a builder is one of the abstract artifact set's, or nothing.
LEMMA StepImplements ==
  IInv /\ IInv' /\ [Next]_vars => [Set!Next]_<<record, Torn, Accepted>>
<1> SUFFICES ASSUME IInv, IInv', [Next]_vars
             PROVE  [Set!Next]_<<record, Torn, Accepted>>
  OBVIOUS
<1>0. TypeOK /\ BuildsInv /\ DiskInv
  BY DEF IInv, DiskInv
<1>1. ASSUME NEW p \in Proc, Stage(p)
      PROVE  [Set!Next]_<<record, Torn, Accepted>>
  <2>1. builds \in Nat /\ builds' = builds + 1 /\ record' = record /\ tree' = tree
    BY <1>0, <1>1, InstallAssumption DEF Stage, TypeOK, Build, diskVars
  <2>2. CASE record = 0
    BY <2>1, <2>2 DEF Torn, Accepted, Accounted
  <2>3. CASE record # 0
    <3>1. record \in 1 .. builds
      BY <1>0, <2>3 DEF TypeOK, BuildsInv, Build
    <3>2. Outputs(record)' = Outputs(record)
      BY <1>0, <1>1, <2>1, <3>1 DEF Stage, TypeOK, Build, Outputs
    <3> QED BY <2>1, <3>2, Beside
  <2> QED BY <2>2, <2>3
<1>2. ASSUME NEW p \in Proc, NEW d \in Named, Rename(p, d)
      PROVE  [Set!Next]_<<record, Torn, Accepted>>
  <2>1. /\ build[p] = builds /\ builds \in 1 .. MaxBuild /\ record < builds
        /\ from' = from /\ \A b : Outputs(b)' = Outputs(b)
    BY <1>0, <1>2 DEF Rename, IInv, ProcInv, AloneInv, FreshInv, Making,
       TypeOK, Build, buildVars, Outputs
  <2>2. CASE d = FabRecord
    <3>1. record' = builds /\ pc'[p] = "pruning" /\ build'[p] = builds
      <4>1. record' = builds /\ left[p] = {d} /\ build' = build
        BY <1>2, <2>1, <2>2 DEF Rename, buildVars
      <4>2. Goto(p, "pruning")
        BY <1>2, <4>1 DEF Rename
      <4> QED BY <1>0, <2>1, <4>1, <4>2 DEF TypeOK, Goto
    <3>2. ~Torn'
      BY <3>1 DEF IInv, ProcInv, PruneInv, Torn
    <3>3. Accepted' \in {0, builds} /\ record' > record
      BY <1>0, <2>1, <3>1 DEF Accepted, TypeOK, Build
    <3> QED BY <2>1, <3>1, <3>2, <3>3 DEF Set!Next, Set!Complete, Torn, Accepted
  <2>3. CASE d # FabRecord
    <3>1. /\ record' = record /\ d \in Dest /\ builds # 0
          /\ tree' = [tree EXCEPT ![d] = builds] /\ tree'[d] = builds
      BY <1>0, <1>2, <2>1, <2>3 DEF Rename, TypeOK, Named
    <3>2. CASE record # 0 /\ d \in Outputs(record)
      <4>1. builds # record
        BY <1>0, <2>1 DEF TypeOK, Build
      <4>2. Torn' = TRUE /\ Accepted' = 0
        BY <2>1, <3>1, <3>2, <4>1 DEF Torn, Accepted, Accounted
      <4> QED BY <3>1, <4>2 DEF Set!Next, Set!Tear, Torn, Accepted
    <3>3. CASE record # 0 /\ d \notin Outputs(record)
      BY <1>0, <2>1, <3>1, <3>3, Beside DEF TypeOK
    <3>4. CASE record = 0
      BY <3>1, <3>4 DEF Torn, Accepted, Accounted
    <3> QED BY <3>2, <3>3, <3>4
  <2> QED BY <2>2, <2>3
<1>3. ASSUME NEW p \in Proc, PruneFile(p)
      PROVE  [Set!Next]_<<record, Torn, Accepted>>
  <2>1. /\ record' = record /\ record = build[p] /\ Outputs(record)' = Outputs(record)
    BY <1>3 DEF PruneFile, IInv, ProcInv, PruneInv, buildVars, Outputs
  <2>2. \A e \in Outputs(record) : tree'[e] = tree[e]
    <3>1. CASE tree' = tree
      BY <3>1
    <3>2. CASE \E d \in Stale(build[p]) : tree' = [tree EXCEPT ![d] = 0]
      BY <1>0, <2>1, <3>2 DEF Stale, TypeOK
    <3> QED BY <1>3, <3>1, <3>2 DEF PruneFile
  <2> QED BY <2>1, <2>2, Beside
<1>4. ASSUME UNCHANGED <<tree, record, from>>
      PROVE  [Set!Next]_<<record, Torn, Accepted>>
  BY <1>4, Beside DEF Outputs
<1>5. ASSUME NEW p \in Proc, Step(p)
      PROVE  [Set!Next]_<<record, Torn, Accepted>>
  <2>1. ASSUME NEW d \in Named, Copy(p, d) \/ CopyFails(p, d) \/ Clean(p, d)
        PROVE  [Set!Next]_<<record, Torn, Accepted>>
    BY <1>4, <2>1 DEF Copy, CopyFails, Clean, buildVars
  <2>2. ASSUME \/ Acquire(p) \/ Bind(p) \/ Block(p) \/ Prove(p) \/ RenameFails(p)
               \/ CleanEnds(p) \/ PruneEnds(p) \/ PruneFails(p) \/ PruneRefused(p)
               \/ Leave(p) \/ Crash(p)
        PROVE  [Set!Next]_<<record, Torn, Accepted>>
    BY <1>4, <2>2 DEF Acquire, Bind, Block, Prove, RenameFails, CleanEnds,
       PruneEnds, PruneFails, PruneRefused, Leave, Crash, Vacate, buildVars,
       diskVars
  <2> QED BY <1>1, <1>2, <1>3, <1>5, <2>1, <2>2 DEF Step
<1>6. CASE Edit \/ UNCHANGED vars
  BY <1>4, <1>6 DEF Edit, vars, buildVars, diskVars
<1> QED BY <1>5, <1>6 DEF Next

\* Seen through check-board, any interleaving of builds, failures and deaths
\* is the abstract artifact set: a check accepts only the newest complete
\* build, and a torn install stays visible until a later build completes.
THEOREM InstallImplementsArtifactSet == Spec => ImplementsArtifactSet
<1>1. Init => Set!Init
  BY DEF Init, Set!Init, Empty, Torn, Accounted, Accepted
<1>2. IInv /\ IInv' /\ [Next]_vars => [Set!Next]_(Set!vars)
  BY StepImplements DEF Set!vars, Accepted
<1> QED BY <1>1, <1>2, Invariance, PTL DEF Spec, ImplementsArtifactSet, Set!Spec
=============================================================================
