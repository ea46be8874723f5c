------------------------------ MODULE Pipeline ------------------------------
(***************************************************************************)
(* The generation pipeline of one `run.py build` (pcbqa/build.py), from    *)
(* the checks on the manifest to the record that names every artifact.     *)
(*                                                                         *)
(* A step that finds something wrong adds a blocker and the pipeline goes  *)
(* on; a step that cannot go on raises.  Either way nothing is installed.  *)
(* The tools (kicad-cli) may fail, or exit 0 without writing a file, and   *)
(* may export any files at all.                                            *)
(*                                                                         *)
(* The manifest is a record of `Manifests`.  Names stand for themselves:   *)
(* two different names are two different paths.                            *)
(***************************************************************************)
EXTENDS FiniteSets, Sequences, Functions

CONSTANTS
  File,       \* files the gerber and drill exports can write
  Row,        \* rows of fabrication_naming.files
  Name,       \* names of files in the staged gerbers, those of File included
  Dir,        \* directories of the project
  Excluded,   \* an export file is matched by fabrication_naming.exclude
  NoRow,      \* ... or by nothing
  None,       \* the manifest declares no such location
  Manifests   \* the manifests considered

Documents  == {"erc", "drc", "cpl", "bom"}
FileRole   == {"bom", "cpl", "archive", "fabrication_manifest",
               "validation_report"}
DirRole    == {"gerber_dir", "reports_dir"}
\* The file staged for a file role has the role's name.
Leaf       == Name \cup Documents \cup FileRole
Place      == [dir : Dir, leaf : Leaf \cup {"design"}]

Manifest == [
  named    : BOOLEAN,                          \* fabrication_naming declared
  row      : [File -> Row \cup {Excluded, NoRow}],
  ship     : [Row -> Name],                    \* ship_as
  approved : SUBSET Name,                      \* archive.allow less .deny
  formats  : SUBSET {"cpl", "bom"},            \* fab_format
  registry : BOOLEAN,                          \* cpl_orientation declared
  complete : BOOLEAN,                          \* ... with what applying it needs
  distinct : BOOLEAN,                          \* steps' output names differ
  files    : [FileRole -> Place \cup {None}],
  dirs     : [DirRole -> Dir \cup {None}],
  inputs   : SUBSET Place]                     \* the design, the manifest itself

ASSUME PipelineAssumption ==
  /\ File \subseteq Name /\ IsFiniteSet(File)
  /\ Name \cap (Documents \cup FileRole) = {}
  /\ Excluded \notin Row /\ NoRow \notin Row /\ Excluded # NoRow
  /\ Manifests \subseteq Manifest
  /\ \A m \in Manifests : m.files.fabrication_manifest # None

VARIABLES
  m,         \* the manifest, which a build never changes
  pc,        \* the next step of Build.run, or how it ended
  blockers,  \* whether any step has added one
  exported,  \* files in the export directory
  doc,       \* state of each document a tool writes
  gerbers,   \* the export file behind each staged gerber name
  archive,   \* the names in the archive
  bound,     \* reports bound to the source closure
  record     \* where each recorded artifact installs to

vars == <<m, pc, blockers, exported, doc, gerbers, archive, bound, record>>

Steps == <<"coherence", "destinations", "isolate", "outputs", "erc", "drc",
           "gerbers", "drill", "cpl", "bom", "generated", "naming",
           "format_cpl", "format_bom", "package", "bind", "record", "deliver">>
Step  == Range(Steps)
FormatStep == [cpl |-> "format_cpl", bom |-> "format_bom"]

Reports == {"erc", "drc"}

TypeOK ==
  /\ m \in Manifests
  /\ pc \in Step \cup {"ready", "refused"}
  /\ blockers \in BOOLEAN
  /\ exported \subseteq File
  /\ doc \in [Documents -> {"absent", "raw", "fab", "oriented"}]
  /\ DOMAIN gerbers \subseteq Name /\ Range(gerbers) \subseteq exported
  /\ archive \subseteq DOMAIN gerbers
  /\ bound \subseteq {d \in Reports : doc[d] # "absent"}
  /\ DOMAIN record \subseteq Leaf /\ Range(record) \subseteq Place

Nothing == [x \in {} |-> x]

Init ==
  /\ m \in Manifests
  /\ pc = "coherence" /\ blockers = FALSE
  /\ exported = {} /\ doc = [d \in Documents |-> "absent"]
  /\ gerbers = Nothing /\ archive = {} /\ bound = {} /\ record = Nothing

At(step) == pc = step

\* The step that follows in Build.run.
Go == \E i \in 1 .. Len(Steps) - 1 : pc = Steps[i] /\ pc' = Steps[i + 1]

BlockIf(problem) == blockers' = (blockers \/ problem)

Unless(problem) == /\ BlockIf(problem)
                   /\ IF problem THEN pc' = "refused" ELSE Go

-----------------------------------------------------------------------------
(* Checks on the manifest, before anything is generated.                   *)

\* Mutant: the registry is asked for, whether a cpl format consumes it is not.
RegistryComplete == m.registry /\ ~m.complete

(* incoherent: the registry is declared, what consumes it is not.          *)
Incoherent == m.registry /\ ~(m.complete /\ "cpl" \in m.formats)

CheckCoherence ==
  /\ At("coherence")
  /\ Unless(Incoherent)
  /\ UNCHANGED <<m, exported, doc, gerbers, archive, bound, record>>

Declared == {r \in FileRole : m.files[r] # None}

\* Mutant: only the files are looked at, not what a prune would delete.
ClobberedByFiles ==
  \/ \E r \in Declared : m.files[r] \in m.inputs
  \/ \E r \in Declared \ {"validation_report"} :
       m.files[r] = m.files.validation_report

(* clobbered_inputs: a role's file is a design input or the verdict, or a  *)
(* pruned directory holds one of them.                                     *)
Clobbers ==
  LET verdict == {m.files[r] : r \in Declared \cap {"validation_report"}}
  IN  \/ \E r \in Declared : m.files[r] \in m.inputs
      \/ \E r \in Declared \ {"validation_report"} : m.files[r] \in verdict
      \/ \E d \in DirRole, p \in m.inputs \cup verdict : p.dir = m.dirs[d]

(* duplicate_destinations: two file roles name one path.                   *)
Duplicates == \E r, s \in Declared : r # s /\ m.files[r] = m.files[s]

CheckDestinations ==
  /\ At("destinations")
  /\ Unless(Clobbers \/ Duplicates)
  /\ UNCHANGED <<m, exported, doc, gerbers, archive, bound, record>>

(* KiCad's lock files may be beside the design; otherwise it is staged.    *)
Isolate ==
  /\ At("isolate")
  /\ \E locked \in BOOLEAN : Unless(locked)
  /\ UNCHANGED <<m, exported, doc, gerbers, archive, bound, record>>

(* declared_outputs: two steps write one file, or one in another's place.  *)
DeclareOutputs ==
  /\ At("outputs")
  /\ Unless(~m.distinct)
  /\ UNCHANGED <<m, exported, doc, gerbers, archive, bound, record>>

-----------------------------------------------------------------------------
(* generate: the tools, in order; a failing one does not stop the next.    *)

RunDocument(d) ==
  /\ At(d)
  /\ \E failed \in BOOLEAN : BlockIf(failed)
  /\ \E written \in {"absent", "raw"} : doc' = [doc EXCEPT ![d] = written]
  /\ Go
  /\ UNCHANGED <<m, exported, gerbers, archive, bound, record>>

RunExport(step) ==
  /\ At(step)
  /\ \E failed \in BOOLEAN : BlockIf(failed)
  /\ \E written \in SUBSET File : exported' = exported \cup written
  /\ Go
  /\ UNCHANGED <<m, doc, gerbers, archive, bound, record>>

\* Mutant: an exit status of 0 is taken for the file.
CheckExported ==
  /\ At("generated")
  /\ BlockIf(exported = {})
  /\ Go
  /\ UNCHANGED <<m, exported, doc, gerbers, archive, bound, record>>

CheckGenerated ==
  /\ At("generated")
  /\ BlockIf(exported = {} \/ \E d \in Documents : doc[d] = "absent")
  /\ Go
  /\ UNCHANGED <<m, exported, doc, gerbers, archive, bound, record>>

-----------------------------------------------------------------------------
(* name_for_fab: what each export file becomes.                            *)

Claims(n)  == {f \in exported : m.row[f] \in Row /\ m.ship[m.row[f]] = n}
Claimed    == {n \in Name : Claims(n) # {}}

\* Mutant: the second file that claims a name replaces the first.
UnnamedOnly ==
  \/ \E f \in exported : m.row[f] = NoRow
  \/ \E r \in Row : m.ship[r] \notin Claimed

NamingProblem ==
  \/ \E f \in exported : m.row[f] = NoRow
  \/ \E n \in Claimed : Cardinality(Claims(n)) > 1
  \/ \E r \in Row : m.ship[r] \notin Claimed

(* Of several files that claim one name the first one listed is shipped.   *)
NameForFab ==
  /\ At("naming")
  /\ IF m.named
       THEN /\ \E g \in [Claimed -> exported] :
                 /\ \A n \in Claimed : g[n] \in Claims(n)
                 /\ gerbers' = g
            /\ BlockIf(NamingProblem)
       ELSE /\ gerbers' = [f \in exported |-> f]
            /\ UNCHANGED blockers
  /\ Go
  /\ UNCHANGED <<m, exported, doc, archive, bound, record>>

(* format_for_fab: without rules, or without the file, it is left alone.   *)
LeaveFormat(d) ==
  /\ At(FormatStep[d])
  /\ d \notin m.formats \/ doc[d] = "absent"
  /\ Go
  /\ UNCHANGED <<m, blockers, exported, doc, gerbers, archive, bound, record>>

(* A source column is absent, or a required column would be: not written.  *)
RefuseFormat(d) ==
  /\ At(FormatStep[d])
  /\ d \in m.formats /\ doc[d] # "absent"
  /\ BlockIf(TRUE)
  /\ Go
  /\ UNCHANGED <<m, exported, doc, gerbers, archive, bound, record>>

(* A value the format cannot say, or a part the registry has not reviewed, *)
(* blocks, but the file is written all the same.                           *)
Format(d) ==
  /\ At(FormatStep[d])
  /\ d \in m.formats /\ doc[d] # "absent"
  /\ \E unsayable \in BOOLEAN : BlockIf(unsayable)
  /\ doc' = [doc EXCEPT ![d] =
               IF d = "cpl" /\ m.registry THEN "oriented" ELSE "fab"]
  /\ Go
  /\ UNCHANGED <<m, exported, gerbers, archive, bound, record>>

\* Mutant: the archive is made before the unapproved files are removed.
PackageAll ==
  /\ At("package")
  /\ gerbers' = Restrict(gerbers, DOMAIN gerbers \cap m.approved)
  /\ archive' = DOMAIN gerbers
  /\ BlockIf(~(DOMAIN gerbers \subseteq m.approved))
  /\ Go
  /\ UNCHANGED <<m, exported, doc, bound, record>>

\* Mutant: the rules are not asked, everything staged is zipped.
PackageUnchecked ==
  /\ At("package")
  /\ archive' = DOMAIN gerbers
  /\ UNCHANGED <<gerbers, blockers>>
  /\ Go
  /\ UNCHANGED <<m, exported, doc, bound, record>>

(* package: an unapproved file is deleted and blocks; the rest is zipped.  *)
Package ==
  /\ At("package")
  /\ gerbers' = Restrict(gerbers, DOMAIN gerbers \cap m.approved)
  /\ archive' = DOMAIN gerbers'
  /\ BlockIf(~(DOMAIN gerbers \subseteq m.approved))
  /\ Go
  /\ UNCHANGED <<m, exported, doc, bound, record>>

(* bind_reports: whichever report is there is given the source closure.    *)
BindReports ==
  /\ At("bind")
  /\ bound' = {d \in Reports : doc[d] # "absent"}
  /\ Go
  /\ UNCHANGED <<m, blockers, exported, doc, gerbers, archive, record>>

-----------------------------------------------------------------------------
(* fabrication_manifest: every staged file has a declared destination.     *)

\* Staged so far: the record itself is written by this step.
StagedNow == DOMAIN gerbers
               \cup {d \in Documents : doc[d] # "absent"} \cup {"archive"}

InDir(role, leaf) == [dir |-> m.dirs[role], leaf |-> leaf]

Destined ==
  LET reached == {s \in StagedNow :
                    CASE s \in DOMAIN gerbers -> m.dirs.gerber_dir # None
                      [] s \in Reports        -> m.dirs.reports_dir # None
                      [] OTHER                -> m.files[s] # None}
  IN  [s \in reached |->
         CASE s \in DOMAIN gerbers -> InDir("gerber_dir", s)
           [] s \in Reports        -> InDir("reports_dir", s)
           [] OTHER                -> m.files[s]]

\* Mutant: that two files share a destination is not noticed.
RecordColliding ==
  /\ At("record")
  /\ Unless(DOMAIN Destined # StagedNow)
  /\ record' = IF pc' = "refused" THEN record ELSE Destined
  /\ UNCHANGED <<m, exported, doc, gerbers, archive, bound>>

Record ==
  /\ At("record")
  /\ Unless(DOMAIN Destined # StagedNow \/ ~IsInjective(Destined))
  /\ record' = IF pc' = "refused" THEN record ELSE Destined
  /\ UNCHANGED <<m, exported, doc, gerbers, archive, bound>>

(* _build: any blocker at all, and nothing is installed; then install      *)
(* proves the destinations together with the record's own.                 *)
Deliver ==
  /\ At("deliver")
  /\ pc' = IF blockers \/ m.files.fabrication_manifest \in Range(record)
             THEN "refused" ELSE "ready"
  /\ UNCHANGED <<m, blockers, exported, doc, gerbers, archive, bound, record>>

(* An exception no step expects, anywhere: fail closed.                    *)
Abort ==
  /\ pc \notin {"ready", "refused"}
  /\ pc' = "refused"
  /\ UNCHANGED <<m, blockers, exported, doc, gerbers, archive, bound, record>>

Next ==
  \/ CheckCoherence \/ CheckDestinations \/ Isolate \/ DeclareOutputs
  \/ \E d \in Documents : RunDocument(d)
  \/ \E s \in {"gerbers", "drill"} : RunExport(s)
  \/ CheckGenerated \/ NameForFab
  \/ \E d \in {"cpl", "bom"} : LeaveFormat(d) \/ RefuseFormat(d) \/ Format(d)
  \/ Package \/ BindReports \/ Record \/ Deliver \/ Abort

Spec == Init /\ [][Next]_vars

-----------------------------------------------------------------------------
\* The archive's members, each with the export file behind it.
Shipped == {<<n, gerbers[n]>> : n \in archive}

(* No export file is lost on the way: of a build that installs, every one  *)
(* is excluded by the manifest or shipped under the name its row gives,    *)
(* and no shipped name stands for two of them.                             *)
NothingExportedIsLost ==
  pc = "ready" =>
    \A f \in exported :
      IF m.named
        THEN m.row[f] # Excluded => <<m.ship[m.row[f]], f>> \in Shipped
        ELSE <<f, f>> \in Shipped

(* A build that installs has all the documents, both reports are bound to  *)
(* the design, and every row the fab reads is shipped.                     *)
InstalledSetIsComplete ==
  pc = "ready" =>
    /\ \A d \in Documents : doc[d] # "absent"
    /\ bound = Reports
    /\ m.named => \A r \in Row : m.ship[r] \in archive

(* COHERENCE's reason: a reviewed orientation registry the build never     *)
(* applied once "shipped a placement file with raw layout angles".         *)
ReviewedAnglesShip ==
  pc = "ready" /\ m.registry => doc["cpl"] = "oriented"

(* The installed gerbers, the archive and the allowlist agree.             *)
ArchiveIsTheInstalledSet ==
  pc = "ready" => /\ archive = DOMAIN gerbers \cap DOMAIN record
                  /\ archive \subseteq m.approved

(* The record names each artifact at a place of its own, so no artifact    *)
(* survives another and every digest check-board compares is a file's own. *)
RecordIsOneToOne ==
  pc = "ready" =>
    \A s, t \in DOMAIN record : record[s] = record[t] => s = t

(* Installing writes the recorded places and prunes the two directories;   *)
(* neither touches a design input, the manifest or the committed verdict.  *)
InputsSurvive ==
  pc = "ready" =>
    LET written == Range(record) \cup {m.files.fabrication_manifest}
        kept    == m.inputs \cup ({m.files.validation_report} \ {None})
    IN  /\ written \cap kept = {}
        /\ \A p \in kept, d \in DirRole : p.dir # m.dirs[d]
=============================================================================
