------------------------------ MODULE Release ------------------------------
(***************************************************************************)
(* From a design in the tree to a commit a release tag may name            *)
(* (run.py: validate --write, build, release-check; pcbqa/core.py:         *)
(* run_all; pcbqa/release.py: readiness).                                  *)
(*                                                                         *)
(* Three parts of the tree travel with a release: the design, the          *)
(* fabrication artifacts with their record, and the validation report.     *)
(* Commands that write one of them take the tree's hold; release-check     *)
(* does not, and neither do the designer's editor and git.  A check reads  *)
(* the tree piece by piece, and each gate judges the design as its         *)
(* Context first loaded it.                                                *)
(*                                                                         *)
(* A digest is unique to its design; "Unavailable" is the error text a     *)
(* closure degrades to when it cannot be computed.                         *)
(***************************************************************************)
EXTENDS Naturals, Sequences, FiniteSets, SequencesExt

CONSTANTS
  Writer,       \* invocations of build and validate --write
  Checker,      \* invocations of release-check, which write nothing
  NoProc,
  Design,       \* revisions of the design, the manifest included
  Absent,       \* no such part in the tree, or in the commit
  Unavailable,  \* a closure that could not be computed
  Gates,        \* the registered gates, in the order they run
  Boards,       \* what gates, manifest and .gitignore may be like
  MaxChange     \* bound: changes to the tree or to HEAD

Proc == Writer \cup Checker
Gate == ToSet(Gates)
Part == {"design", "artifacts", "report"}

\* ARCH.PROVENANCE compares the record's closure with the tree's;
\* STACK.GERBER_PARITY compares the shipped copper with a fresh export's.
Provenance == "ARCH.PROVENANCE"
Parity     == "STACK.GERBER_PARITY"

\* "raises" is an exception or errored(), "returns" is a function that
\* returns without setting a status.
Does == {"passes", "fails", "not_applicable", "raises", "returns"}

Board == [
  outcome   : [Gate \ {Provenance, Parity} -> [Design -> Does]],
  opted     : SUBSET Gate,     \* gates whose required keys are declared
  advisory  : SUBSET Gate,     \* gates demoted, with a reason
  mandatory : SUBSET STRING,   \* release_profile.mandatory_gates
  ignored   : SUBSET Part,     \* parts of the tree git is told to ignore
  alike     : SUBSET (Design \X Design)]
      \* <<from, d>>: no copper layer exported from the one differs from the
      \* other's by more area than the manifest tolerates

ASSUME ReleaseAssumption ==
  /\ NoProc \notin Proc /\ Writer \cap Checker = {}
  /\ Absent \notin Design /\ Unavailable \notin Design /\ Absent # Unavailable
  /\ Gates \in Seq(STRING) /\ IsInjective(Gates)
  /\ Boards \subseteq Board
  /\ MaxChange \in Nat

Status   == {"PASS", "FAIL", "NOT_APPLICABLE", "ERROR", "ADVISORY"}
Blocking == {"FAIL", "ERROR"}

\* What a build installs: the design it was generated from, and the design
\* whose closure its record names.
Artifacts == [from : Design, closure : Design]

\* A validation document.
Report == [closure : Design \cup {Unavailable}, accepted : BOOLEAN,
           partial : BOOLEAN]

Content == [design    : Design \cup {Absent},
            artifacts : Artifacts \cup {Absent},
            report    : Report \cup {Absent}]

VARIABLES
  board,     \* the board's configuration
  tree,      \* the project tree
  head,      \* what HEAD records
  changes,   \* how often tree or head has changed
  holder,    \* who holds the tree
  pc,        \* where each command is
  named,     \* the commit release-check read, and will name
  clean,     \* what git said of it: no problem found
  view,      \* the design each command's Context has loaded
  status,    \* the status of each gate that has run
  closure,   \* the closure of the document each command made
  quiet      \* what has changed since each command started (a history)

runVars == <<pc, named, clean, view, status, closure>>
vars == <<board, tree, head, changes, holder, runVars, quiet>>

TypeOK ==
  /\ board \in Boards
  /\ tree \in Content /\ tree.design # Absent
  /\ head \in Content
  /\ changes \in 0 .. MaxChange
  /\ holder \in Proc \cup {NoProc}
  /\ pc \in [Proc -> {"idle", "installing", "validating", "writing",
                      "status", "tracked", "checking", "verdict", "ready",
                      "blocked"}]
  /\ named \in [Proc -> Content]
  /\ clean \in [Proc -> BOOLEAN]
  /\ view \in [Proc -> Design \cup {Absent}]
  /\ \A p \in Proc : status[p] \in Seq(Status) /\ Len(status[p]) <= Len(Gates)
  /\ closure \in [Proc -> Design \cup {Absent, Unavailable}]
  /\ quiet \in [Proc -> {"quiet", "written", "edited"}]

Nowhere == [design |-> Absent, artifacts |-> Absent, report |-> Absent]

\* The tree may hold the artifacts of an earlier build, which the designer may
\* have edited under.
Init ==
  /\ board \in Boards
  /\ \E d \in Design, a \in Artifacts \cup {Absent} :
       tree = [design |-> d, artifacts |-> a, report |-> Absent]
  /\ head = Nowhere
  /\ changes = 0
  /\ holder = NoProc
  /\ pc = [p \in Proc |-> "idle"]
  /\ named = [p \in Proc |-> Nowhere]
  /\ clean = [p \in Proc |-> TRUE]
  /\ view = [p \in Proc |-> Absent]
  /\ status = [p \in Proc |-> <<>>]
  /\ closure = [p \in Proc |-> Absent]
  /\ quiet = [p \in Proc |-> "quiet"]

Goto(p, label) == pc' = [pc EXCEPT ![p] = label]

Change ==
  /\ changes < MaxChange
  /\ changes' = changes + 1
  /\ board' = board

\* The designer or git changes something under the running commands ...
UserChange ==
  /\ Change
  /\ quiet' = [p \in Proc |-> IF pc[p] = "idle" THEN "quiet" ELSE "edited"]

\* ... or a command writes the tree under the others, as its last step.
Write(p) ==
  /\ Change
  /\ quiet' = [q \in Proc |-> IF q = p \/ pc[q] = "idle" THEN "quiet"
                              ELSE IF quiet[q] = "quiet" THEN "written"
                              ELSE quiet[q]]

-----------------------------------------------------------------------------
\* A command is over, and so is its hold on the tree.
Finish(p) ==
  /\ Goto(p, "idle")
  /\ holder' = IF holder = p THEN NoProc ELSE holder
  /\ named' = [named EXCEPT ![p] = Nowhere]
  /\ clean' = [clean EXCEPT ![p] = TRUE]
  /\ view' = [view EXCEPT ![p] = Absent]
  /\ status' = [status EXCEPT ![p] = <<>>]
  /\ closure' = [closure EXCEPT ![p] = Absent]

-----------------------------------------------------------------------------
(* The designer, and git.                                                  *)

Edit ==
  /\ UserChange
  /\ \E d \in Design \ {tree.design} : tree' = [tree EXCEPT !.design = d]
  /\ UNCHANGED <<head, holder, runVars>>

(* git add --all, git commit: what .gitignore hides is not in the commit.  *)
Commit ==
  /\ UserChange
  /\ head' = [part \in Part |-> IF part \in board.ignored THEN Absent ELSE tree[part]]
  /\ head' # head
  /\ UNCHANGED <<tree, holder, runVars>>

(* "A board script or a stray copy" puts a partial run's document where    *)
(* the verdict belongs.                                                    *)
StrayReport ==
  /\ UserChange
  /\ tree' = [tree EXCEPT !.report =
       [closure |-> tree.design, accepted |-> TRUE, partial |-> TRUE]]
  /\ UNCHANGED <<head, holder, runVars>>

-----------------------------------------------------------------------------
(* build, as far as it matters here; modules Install and Pipeline have it. *)

StartBuild(p) ==
  /\ pc[p] = "idle" /\ holder = NoProc
  /\ holder' = p
  /\ view' = [view EXCEPT ![p] = tree.design]
  /\ Goto(p, "installing")
  /\ UNCHANGED <<board, tree, head, changes, named, clean, status, closure, quiet>>

Installed(p) ==
  /\ pc[p] = "installing"
  /\ Write(p)
  /\ tree' = [tree EXCEPT !.artifacts =
       [from |-> view[p], closure |-> tree.design]]
  /\ Finish(p)
  /\ UNCHANGED head

-----------------------------------------------------------------------------
(* run_all: the gates, one at a time.                                      *)

\* The live closure is the one the record names.
ProvenanceAct ==
  IF tree.artifacts # Absent /\ tree.artifacts.closure = tree.design
    THEN "passes" ELSE "fails"

\* The shipped copper layers against a fresh export of the board the Context
\* loaded: what is not copper (drills, mask, legend, placement, BOM) is not
\* compared, nor is copper that differs within the tolerance.
ParityAct(d) ==
  IF tree.artifacts = Absent THEN "raises"
  ELSE IF <<tree.artifacts.from, d>> \in board.alike THEN "passes" ELSE "fails"

\* What the function of a gate may do, given the design its Context loaded.
\* A closure that cannot be computed and an export that fails are errors.
Acts(gate, d) ==
  CASE gate = Provenance -> {ProvenanceAct, "raises"}
    [] gate = Parity     -> {ParityAct(d), "raises"}
    [] OTHER             -> {board.outcome[gate][d]}

\* Mutant: a function that sets no status leaves the gate without one.
JudgedUnset(gate, does) ==
  IF gate \notin board.opted THEN "NOT_APPLICABLE"
  ELSE CASE does = "passes"                            -> "PASS"
         [] does = "not_applicable"                    -> "NOT_APPLICABLE"
         [] does = "fails" /\ gate \in board.advisory  -> "ADVISORY"
         [] does = "fails"                             -> "FAIL"
         [] does = "raises"                            -> "ERROR"
         [] OTHER                                      -> "None"

(* Not opted in; or run, where the function may still say that it does not *)
(* apply, an exception and a missing status are an error, and only a FAIL  *)
(* is demoted.                                                             *)
Judged(gate, does) ==
  IF gate \notin board.opted THEN "NOT_APPLICABLE"
  ELSE CASE does = "passes"                      -> "PASS"
         [] does = "not_applicable"              -> "NOT_APPLICABLE"
         [] does = "fails" /\ gate \in board.advisory  -> "ADVISORY"
         [] does = "fails"                       -> "FAIL"
         [] OTHER                                -> "ERROR"

Judging(p) == pc[p] \in {"validating", "checking"}

RunGate(p) ==
  /\ Judging(p) /\ Len(status[p]) < Len(Gates)
  /\ LET gate   == Gates[Len(status[p]) + 1]
         loaded == IF gate \in board.opted /\ gate # Provenance /\ view[p] = Absent
                     THEN tree.design ELSE view[p]
     IN  /\ view' = [view EXCEPT ![p] = loaded]
         /\ \E does \in Does :
              /\ gate \in board.opted => does \in Acts(gate, loaded)
              /\ status' = [status EXCEPT ![p] = Append(@, Judged(gate, does))]
  /\ UNCHANGED <<board, tree, head, changes, holder, pc, named, clean, closure, quiet>>

Accepted(p) == \A i \in DOMAIN status[p] : status[p][i] \notin Blocking

(* to_json: the closure is computed when the gates are done, or is the     *)
(* text of why it could not be.                                            *)
Document(p) ==
  /\ Judging(p) /\ Len(status[p]) = Len(Gates)
  /\ \E c \in {tree.design, Unavailable} : closure' = [closure EXCEPT ![p] = c]
  /\ Goto(p, IF pc[p] = "validating" THEN "writing" ELSE "verdict")
  /\ UNCHANGED <<board, tree, head, changes, holder, named, clean, view, status, quiet>>

-----------------------------------------------------------------------------
(* validate --write.                                                       *)

\* Mutant: the writer of the verdict does not contend for the hold.
StartValidateUnheld(p) ==
  /\ pc[p] = "idle"
  /\ Goto(p, "validating")
  /\ UNCHANGED <<board, tree, head, changes, holder, named, clean, view, status,
                 closure, quiet>>

StartValidate(p) ==
  /\ pc[p] = "idle" /\ holder = NoProc
  /\ holder' = p
  /\ Goto(p, "validating")
  /\ UNCHANGED <<board, tree, head, changes, named, clean, view, status, closure,
                 quiet>>

WriteReport(p) ==
  /\ pc[p] = "writing"
  /\ Write(p)
  /\ tree' = [tree EXCEPT !.report =
       [closure |-> closure[p], accepted |-> Accepted(p), partial |-> FALSE]]
  /\ Finish(p)
  /\ UNCHANGED head

-----------------------------------------------------------------------------
(* release-check.                                                          *)

(* readiness: rev-parse HEAD, then status, then ls-files.                  *)
StartCheck(p) ==
  /\ pc[p] = "idle"
  /\ head # Nowhere
  /\ named' = [named EXCEPT ![p] = head]
  /\ Goto(p, "status")
  /\ UNCHANGED <<board, tree, head, changes, holder, clean, view, status, closure,
                 quiet>>

Differs(part) == part \notin board.ignored /\ tree[part] # head[part]

GitStatus(p) ==
  /\ pc[p] = "status"
  /\ clean' = [clean EXCEPT ![p] = @ /\ ~\E part \in Part : Differs(part)]
  /\ Goto(p, "tracked")
  /\ UNCHANGED <<board, tree, head, changes, holder, named, view, status, closure,
                 quiet>>

(* Release artifacts must be there and tracked, design inputs tracked.     *)
Tracked ==
  /\ \A part \in {"artifacts", "report"} : tree[part] # Absent
  /\ \A part \in Part : head[part] # Absent

LsFiles(p) ==
  /\ pc[p] = "tracked"
  /\ clean' = [clean EXCEPT ![p] = @ /\ Tracked]
  /\ Goto(p, "checking")
  /\ UNCHANGED <<board, tree, head, changes, holder, named, view, status, closure,
                 quiet>>

(* There are mandatory gates, and every one of them ran and passed, or its *)
(* finding is advisory; no other gate blocks.                              *)
GatesPass(p) ==
  /\ board.mandatory # {}
  /\ \A gate \in board.mandatory :
       \E i \in DOMAIN Gates : /\ Gates[i] = gate
                               /\ status[p][i] \in {"PASS", "ADVISORY"}
  /\ Accepted(p)

\* Mutant: the two closures are compared as strings, whatever they say.
VerdictMatches(p) ==
  /\ tree.report # Absent
  /\ ~tree.report.partial
  /\ tree.report.accepted
  /\ tree.report.closure = closure[p]

(* _committed_verdict: the report in the tree accepts this same design.    *)
VerdictAccepts(p) ==
  /\ tree.report # Absent
  /\ ~tree.report.partial
  /\ tree.report.accepted
  /\ tree.report.closure # Unavailable /\ closure[p] # Unavailable
  /\ tree.report.closure = closure[p]

Conclude(p) ==
  /\ pc[p] = "verdict"
  /\ Goto(p, IF clean[p] /\ GatesPass(p) /\ VerdictAccepts(p)
               THEN "ready" ELSE "blocked")
  /\ UNCHANGED <<board, tree, head, changes, holder, named, clean, view, status,
                 closure, quiet>>

(* The command dies, or returns having changed nothing.                    *)
Leave(p) ==
  /\ pc[p] # "idle"
  /\ Finish(p)
  /\ quiet' = [quiet EXCEPT ![p] = "quiet"]
  /\ UNCHANGED <<board, tree, head, changes>>

Next ==
  \/ Edit \/ Commit \/ StrayReport
  \/ \E p \in Writer : \/ StartBuild(p) \/ Installed(p)
                       \/ StartValidate(p) \/ WriteReport(p)
  \/ \E p \in Checker : StartCheck(p) \/ GitStatus(p) \/ LsFiles(p) \/ Conclude(p)
  \/ \E p \in Proc : RunGate(p) \/ Document(p) \/ Leave(p)

Spec == Init /\ [][Next]_vars

-----------------------------------------------------------------------------
\* What the gates' functions say of a design: it is accepted where the gate
\* does not apply, and passed where it has to.
Passed(gate, d) ==
  /\ gate \in board.opted
  /\ \/ board.outcome[gate][d] = "passes"
     \/ board.outcome[gate][d] = "fails" /\ gate \in board.advisory

Good(gate, d) ==
  \/ gate \notin board.opted
  \/ board.outcome[gate][d] = "not_applicable"
  \/ Passed(gate, d)

\* What the two gates that bind artifacts to a design can vouch for, where the
\* board is opted in to them and they block: the record names the design, and
\* the copper is the design's within the tolerance.
BoundTo(artifacts, d) ==
  /\ Provenance \in board.opted \ board.advisory =>
       artifacts # Absent /\ artifacts.closure = d
  /\ Parity \in board.opted \ board.advisory =>
       artifacts # Absent /\ <<artifacts.from, d>> \in board.alike

(* release-check: "exits zero only when Git can say the tree is exactly    *)
(* the commit ..., every mandatory gate passes now, and the committed      *)
(* verdict is about this same design".  If nothing changed while it ran,   *)
(* all of it is true of the commit it names: the commit carries a design   *)
(* that no gate blocks on and every mandatory gate applies to and accepts, *)
(* a complete verdict about that design, and artifacts whose record names  *)
(* it and whose copper is its copper.  That the artifacts were made from   *)
(* it is more than the gates can tell: see ReadyIsOfThisDesign.            *)
ReadyMeansReleasable ==
  \A p \in Proc : pc[p] = "ready" /\ quiet[p] = "quiet" =>
    LET c == named[p] IN
      /\ c.design \in Design
      /\ \A gate \in DOMAIN board.outcome :
           /\ Good(gate, c.design)
           /\ gate \in board.mandatory => Passed(gate, c.design)
      /\ board.mandatory \subseteq board.opted
      /\ c.report # Absent /\ c.report.accepted /\ ~c.report.partial
      /\ c.report.closure = c.design
      /\ BoundTo(c.artifacts, c.design)

(* The hold's reason in validate --write: "a verdict that will be recorded *)
(* in the tree is about a tree nothing else is rewriting while it is       *)
(* read".  Unless the designer edits meanwhile, the accepting verdict that *)
(* is about to be recorded names a design no gate blocks on, and the       *)
(* record and the copper of the artifacts it will stand beside agree with  *)
(* that design.                                                            *)
VerdictSound ==
  \A p \in Proc :
    /\ pc[p] = "writing" /\ quiet[p] # "edited"
    /\ Accepted(p) /\ closure[p] # Unavailable
    => /\ \A gate \in DOMAIN board.outcome : Good(gate, closure[p])
       /\ BoundTo(tree.artifacts, closure[p])

(* README: the record installed with the outputs holds "the digest of      *)
(* every artifact and the source closure it came from"; ARCH.PROVENANCE:   *)
(* "artifacts left behind by an earlier design cannot be released beside   *)
(* sources that have moved on".  So where both gates block, the artifacts  *)
(* of a commit that an undisturbed release-check calls ready were made     *)
(* from the design beside them.  They need not be: build computes the      *)
(* closure from the live sources after the tools have worked on the copy   *)
(* it staged, so the record of a build the designer edited under names the *)
(* later design, and parity looks at nothing but the copper.               *)
ReadyIsOfThisDesign ==
  \A p \in Proc :
    /\ pc[p] = "ready" /\ quiet[p] = "quiet"
    /\ {Provenance, Parity} \subseteq board.opted \ board.advisory
    => named[p].artifacts.from = named[p].design
=============================================================================
