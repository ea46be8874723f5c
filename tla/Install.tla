------------------------------ MODULE Install ------------------------------
(***************************************************************************)
(* `run.py build` and the tree it installs into (pcbqa/build.py).          *)
(*                                                                         *)
(* A builder takes the tree's hold, copies the design aside, generates     *)
(* from the copy, binds the result to the design's source closure, and     *)
(* installs: every artifact is copied to a temporary name beside its       *)
(* destination, then the temporaries are renamed one by one with the       *)
(* fabrication record last, then files an earlier build left in the        *)
(* release directories are pruned.  Any step may fail, and the process may *)
(* die between any two.  The designer edits the design at any time: KiCad  *)
(* does not take the hold.                                                 *)
(*                                                                         *)
(* What the generation steps produce, and when they block, is module       *)
(* Pipeline; here a generation either blocks or yields the design's        *)
(* complete output set.  The content of a file is the build that wrote it, *)
(* so two builds never write the same bytes.                               *)
(***************************************************************************)
EXTENDS Naturals, FiniteSets

CONSTANTS
  Proc,       \* invocations of `run.py build`
  NoProc,
  Design,     \* the revisions the design can have
  NoDesign,
  FileOut,    \* file-role destinations: bom, cpl, archive
  DirOut,     \* destinations inside gerber_dir and reports_dir
  Produces,   \* the DirOut files each design revision produces
  FabRecord,  \* the fabrication record, fabrication.json
  MaxBuild    \* bound: builds that get as far as staging

Dest  == FileOut \cup DirOut
Named == Dest \cup {FabRecord}     \* everything an install renames

ASSUME InstallAssumption ==
  /\ NoProc \notin Proc
  /\ NoDesign \notin Design
  /\ FabRecord \notin Dest
  /\ FileOut \cap DirOut = {}
  /\ Produces \in [Design -> SUBSET DirOut]
  /\ MaxBuild \in Nat

VARIABLES
  holder,    \* who holds the tree (Exclusion)
  pc,        \* where each builder is
  build,     \* the build each builder is making, 0 before it staged
  builds,    \* how many builds have been staged
  from,      \* the design revision each build was generated from
  closure,   \* the design revision each build's record names
  left,      \* what the loop a builder is in has still to do
  mine,      \* the temporaries a builder must clean up (`remaining`)
  design,    \* the design in the tree
  tree,      \* the build each destination was written by, 0 if absent
  record,    \* the build whose fabrication record is installed, 0 if none
  temps,     \* destinations with a temporary beside them
  found,     \* tree and record as the holder found them
  rootDir    \* a declared directory is the project root itself

buildVars == <<build, builds, from, closure>>
diskVars  == <<tree, record, temps>>
vars == <<holder, pc, buildVars, left, mine, design, diskVars, found, rootDir>>

Working == {"held", "staged", "bound", "copying", "renaming", "cleaning",
            "pruning"}
Ended   == {"installed", "blocked", "torn"}

Build == 0 .. MaxBuild

\* The destinations of a build: the declared files, and what its design has.
Outputs(b) == FileOut \cup Produces[from[b]]

TypeOK ==
  /\ holder \in Proc \cup {NoProc}
  /\ pc \in [Proc -> {"idle"} \cup Working \cup Ended]
  /\ build \in [Proc -> Build]
  /\ builds \in Build
  /\ from \in [1 .. MaxBuild -> Design \cup {NoDesign}]
  /\ closure \in [1 .. MaxBuild -> Design \cup {NoDesign}]
  /\ left \in [Proc -> SUBSET Named]
  /\ mine \in [Proc -> SUBSET Named]
  /\ design \in Design
  /\ tree \in [Dest -> Build]
  /\ record \in Build
  /\ temps \in SUBSET Named
  /\ found \in [tree : [Dest -> Build], record : Build]
  /\ rootDir \in BOOLEAN

Empty == [tree |-> [d \in Dest |-> 0], record |-> 0]

Init ==
  /\ holder = NoProc
  /\ pc = [p \in Proc |-> "idle"]
  /\ build = [p \in Proc |-> 0]
  /\ builds = 0
  /\ from = [b \in 1 .. MaxBuild |-> NoDesign]
  /\ closure = [b \in 1 .. MaxBuild |-> NoDesign]
  /\ left = [p \in Proc |-> {}]
  /\ mine = [p \in Proc |-> {}]
  /\ design \in Design
  /\ tree = Empty.tree
  /\ record = 0
  /\ temps = {}
  /\ found = Empty
  /\ rootDir \in BOOLEAN

Goto(p, label) == pc' = [pc EXCEPT ![p] = label]

-----------------------------------------------------------------------------
(* Taking the hold, and generating in scratch.                             *)

\* Mutant: the build does not contend for the tree's hold.
AcquireUnheld(p) ==
  /\ pc[p] = "idle"
  /\ builds < MaxBuild
  /\ holder' = p
  /\ Goto(p, "held")
  /\ found' = [tree |-> tree, record |-> record]
  /\ UNCHANGED <<buildVars, left, mine, design, diskVars, rootDir>>

Acquire(p) ==
  /\ pc[p] = "idle"
  /\ holder = NoProc
  /\ builds < MaxBuild
  /\ holder' = p
  /\ Goto(p, "held")
  /\ found' = [tree |-> tree, record |-> record]
  /\ UNCHANGED <<buildVars, left, mine, design, diskVars, rootDir>>

(* isolate: the design as it is now is copied aside.                       *)
Stage(p) ==
  /\ pc[p] = "held"
  /\ builds' = builds + 1
  /\ build' = [build EXCEPT ![p] = builds']
  /\ from' = [from EXCEPT ![builds'] = design]
  /\ Goto(p, "staged")
  /\ UNCHANGED <<holder, closure, left, mine, design, diskVars, found, rootDir>>

(* generate ... bind_reports: the tools have run on the copy; the closure  *)
(* is that of the design in the tree.                                      *)
Bind(p) ==
  /\ pc[p] = "staged"
  /\ closure' = [closure EXCEPT ![build[p]] = design]
  /\ Goto(p, "bound")
  /\ UNCHANGED <<holder, build, builds, from, left, mine, design, diskVars,
                 found, rootDir>>

\* Mutant: each destination is proven when its turn to be installed comes.
BlockLate(p) ==
  /\ pc[p] \in {"held", "staged", "bound", "renaming"}
  /\ Goto(p, "blocked")
  /\ UNCHANGED <<holder, buildVars, left, mine, design, diskVars, found,
                 rootDir>>

(* A lock file beside the design, a blocker of any step, a destination the *)
(* prove pass refuses, or an interrupt: nothing is installed.              *)
Block(p) ==
  /\ pc[p] \in {"held", "staged", "bound"}
  /\ Goto(p, "blocked")
  /\ UNCHANGED <<holder, buildVars, left, mine, design, diskVars, found,
                 rootDir>>

-----------------------------------------------------------------------------
(* install.                                                                *)

Prove(p) ==
  /\ pc[p] = "bound"
  /\ left' = [left EXCEPT ![p] = Outputs(build[p]) \cup {FabRecord}]
  /\ mine' = [mine EXCEPT ![p] = {}]
  /\ Goto(p, "copying")
  /\ UNCHANGED <<holder, buildVars, design, diskVars, found, rootDir>>

(* shutil.copy2 to the temporary name; after the last one, the renames.    *)
Copy(p, d) ==
  /\ pc[p] = "copying"
  /\ d \in left[p]
  /\ temps' = temps \cup {d}
  /\ mine' = [mine EXCEPT ![p] = @ \cup {d}]
  /\ IF left[p] = {d}
       THEN /\ left' = [left EXCEPT ![p] = mine'[p]]
            /\ Goto(p, "renaming")
       ELSE /\ left' = [left EXCEPT ![p] = @ \ {d}]
            /\ UNCHANGED pc
  /\ UNCHANGED <<holder, buildVars, design, tree, record, found, rootDir>>

(* copy2 raises; what it wrote so far stays, and is not in `remaining`.    *)
CopyFails(p, d) ==
  /\ pc[p] = "copying"
  /\ d \in left[p]
  /\ temps' \in {temps, temps \cup {d}}
  /\ Goto(p, "cleaning")
  /\ UNCHANGED <<holder, buildVars, left, mine, design, tree, record, found,
                 rootDir>>

\* Mutant: the record is renamed in the order the names sort.
RenameAnyOrder(p, d) ==
  /\ pc[p] = "renaming"
  /\ d \in left[p] \cap temps
  /\ IF d = FabRecord
       THEN record' = build[p] /\ UNCHANGED tree
       ELSE tree' = [tree EXCEPT ![d] = build[p]] /\ UNCHANGED record
  /\ temps' = temps \ {d}
  /\ mine' = [mine EXCEPT ![p] = @ \ {d}]
  /\ left' = [left EXCEPT ![p] = @ \ {d}]
  /\ IF left[p] = {d} THEN Goto(p, "pruning") ELSE UNCHANGED pc
  /\ UNCHANGED <<holder, buildVars, design, found, rootDir>>

(* os.replace of one artifact; the record's turn comes last.               *)
Rename(p, d) ==
  /\ pc[p] = "renaming"
  /\ d \in left[p] \cap temps
  /\ d = FabRecord => left[p] = {FabRecord}
  /\ IF d = FabRecord
       THEN record' = build[p] /\ UNCHANGED tree
       ELSE tree' = [tree EXCEPT ![d] = build[p]] /\ UNCHANGED record
  /\ temps' = temps \ {d}
  /\ mine' = [mine EXCEPT ![p] = @ \ {d}]
  /\ left' = [left EXCEPT ![p] = @ \ {d}]
  /\ IF left[p] = {d} THEN Goto(p, "pruning") ELSE UNCHANGED pc
  /\ UNCHANGED <<holder, buildVars, design, found, rootDir>>

(* os.replace raises, or the user interrupts between two renames.          *)
RenameFails(p) ==
  /\ pc[p] = "renaming"
  /\ Goto(p, "cleaning")
  /\ UNCHANGED <<holder, buildVars, left, mine, design, diskVars, found,
                 rootDir>>

(* finally: remove the temporaries that were not renamed.                  *)
Clean(p, d) ==
  /\ pc[p] = "cleaning"
  /\ d \in mine[p]
  /\ temps' = temps \ {d}
  /\ mine' = [mine EXCEPT ![p] = @ \ {d}]
  /\ UNCHANGED <<holder, pc, buildVars, left, design, tree, record, found,
                 rootDir>>

(* All are gone, or one could not be removed: "may be incomplete".         *)
CleanEnds(p) ==
  /\ pc[p] = "cleaning"
  /\ Goto(p, "torn")
  /\ UNCHANGED <<holder, buildVars, left, mine, design, diskVars, found,
                 rootDir>>

\* What _prune finds in the release directories and did not install.
Stale(b)      == {d \in DirOut \ Outputs(b) : tree[d] # 0}
StaleTemps    == temps \cap DirOut

PruneFile(p) ==
  /\ pc[p] = "pruning" /\ ~rootDir
  /\ \/ \E d \in Stale(build[p]) :
          tree' = [tree EXCEPT ![d] = 0] /\ UNCHANGED temps
     \/ \E d \in StaleTemps : temps' = temps \ {d} /\ UNCHANGED tree
  /\ UNCHANGED <<holder, pc, buildVars, left, mine, design, record, found,
                 rootDir>>

\* Mutant: only names an artifact can have are pruned.
PruneEndsEarly(p) ==
  /\ pc[p] = "pruning" /\ ~rootDir
  /\ Stale(build[p]) = {}
  /\ Goto(p, "installed")
  /\ UNCHANGED <<holder, buildVars, left, mine, design, diskVars, found,
                 rootDir>>

PruneEnds(p) ==
  /\ pc[p] = "pruning" /\ ~rootDir
  /\ Stale(build[p]) = {} /\ StaleTemps = {}
  /\ Goto(p, "installed")
  /\ UNCHANGED <<holder, buildVars, left, mine, design, diskVars, found,
                 rootDir>>

PruneFails(p) ==
  /\ pc[p] = "pruning" /\ ~rootDir
  /\ Goto(p, "torn")
  /\ UNCHANGED <<holder, buildVars, left, mine, design, diskVars, found,
                 rootDir>>

(* _prune proves its directory only now, and the root itself is refused:   *)
(* the same BuildError, and the same message, as a refusal to install.     *)
PruneRefused(p) ==
  /\ pc[p] = "pruning" /\ rootDir
  /\ Goto(p, "blocked")
  /\ UNCHANGED <<holder, buildVars, left, mine, design, diskVars, found,
                 rootDir>>

-----------------------------------------------------------------------------
(* The command returns and the hold is released, or the process dies and   *)
(* the kernel releases it.                                                 *)
Vacate(p) ==
  /\ Goto(p, "idle")
  /\ holder' = IF holder = p THEN NoProc ELSE holder
  /\ build' = [build EXCEPT ![p] = 0]
  /\ left' = [left EXCEPT ![p] = {}]
  /\ mine' = [mine EXCEPT ![p] = {}]
  /\ found' = Empty
  /\ UNCHANGED <<builds, from, closure, design, diskVars, rootDir>>

Leave(p) == pc[p] \in Ended /\ Vacate(p)
Crash(p) == pc[p] \in Working /\ Vacate(p)

Edit ==
  /\ design' \in Design \ {design}
  /\ UNCHANGED <<holder, pc, buildVars, left, mine, diskVars, found, rootDir>>

Step(p) ==
  \/ Acquire(p) \/ Stage(p) \/ Bind(p) \/ Block(p) \/ Prove(p)
  \/ \E d \in Named : Copy(p, d) \/ CopyFails(p, d) \/ Rename(p, d) \/ Clean(p, d)
  \/ RenameFails(p) \/ CleanEnds(p)
  \/ PruneFile(p) \/ PruneEnds(p) \/ PruneFails(p) \/ PruneRefused(p)
  \/ Leave(p) \/ Crash(p)

Next == Edit \/ \E p \in Proc : Step(p)

Spec == Init /\ [][Next]_vars

-----------------------------------------------------------------------------
(* What `run.py check-board` asks of the files: every recorded artifact is *)
(* there with the recorded digest, and nothing else is in the release      *)
(* directories.                                                            *)
Accounted ==
  /\ record # 0
  /\ \A d \in Outputs(record) : tree[d] = record
  /\ \A d \in DirOut \ Outputs(record) : tree[d] = 0
  /\ temps \cap DirOut = {}

\* ... and of the record: it names the closure of the design as it is now.
Fresh == closure[record] = design

\* The build that check-board has nothing to report about, 0 if it has.  (What
\* it asks of the other records beside the design is not modelled.)
Accepted == IF Accounted /\ Fresh THEN record ELSE 0

(* install's docstring: "the record never describes a set that was not     *)
(* fully installed before it".  Whatever builds were torn, failed or died, *)
(* each file a record names has been written by that build or a later one. *)
RecordNeverAhead ==
  record # 0 => \A d \in Outputs(record) : tree[d] >= record

(* A build that reports success leaves the tree accounted for by its own   *)
(* record and no temporary anywhere, whatever earlier builds left behind:  *)
(* this is what makes "run build again to restore a coherent set" true.    *)
SuccessIsCoherent ==
  \A p \in Proc :
    pc[p] = "installed" => /\ record = build[p]
                           /\ Accounted
                           /\ temps = {}

(* A build that is refused has changed nothing, or everything: outputs and *)
(* record are as it found them, unless a release directory is the project  *)
(* root, which only the prune refuses (build.py:707).  Then the whole set  *)
(* of the build is there under its record, and the message "nothing was    *)
(* installed; the previous fabrication outputs are untouched" is not true; *)
(* a mixture there never is.                                               *)
Untouched == found = [tree |-> tree, record |-> record]
AllInstalled(b) == record = b /\ \A d \in Outputs(b) : tree[d] = b
BlockedLeavesOutputs ==
  \A p \in Proc :
    pc[p] = "blocked" => Untouched \/ (rootDir /\ AllInstalled(build[p]))

(* Seen through check-board, installs are the abstract artifact set: it    *)
(* accepts only the newest complete build, and a torn install stays        *)
(* visible until a later build completes, whatever the designer edits.     *)
Torn == record # 0 /\ \E d \in Outputs(record) : tree[d] # record
Set == INSTANCE ArtifactSet
         WITH newest <- record, torn <- Torn,
              accepted <- Accepted
ImplementsArtifactSet == Set!Spec

=============================================================================
