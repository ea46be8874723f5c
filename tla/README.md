# A verification project for the PCBA toolkit

The toolkit in this repository takes a KiCad board from design to fabrication:
it validates the board with a registry of *gates*, generates the fabrication
outputs, installs them in the project tree with a record of what they are, and
decides whether a commit may carry a release tag. This directory models the
parts of it that have state, order and failure: TLA+ modules, TLC
configurations that check them on small instances, and TLAPS proofs of the
properties that matter most for instances of any size.

To use it, inside this directory:

    tlc -workers 2 -config Hold.cfg MCHold        # a run, see "Runs"
    tlapm HoldProof.tla                           # a proof module

`PROJECT.json` is the machine-readable inventory: components, runs, a mutant
of the code for every property (an operator whose comment starts with
"Mutant:"), the source lines behind each definition, findings, hazards and
theorems.

## 1. The system

| component | state | operations | interacts with |
|---|---|---|---|
| tree hold (`layout.py`) | a lock file beside the design, its flock, its text | claim, refuse, release, die | every command that writes the tree |
| installer (`build.py`, `artifacts.py`) | artifacts, temporaries, `fabrication.json` in the tree | prove, copy, rename, prune, clean up | hold, pipeline, check-board, release |
| generation pipeline (`build.py`) | staged files, blockers, naming and format rules | the eleven steps of `Build.run` | kicad-cli, manifest |
| parallel self-test (`parallel.py`) | two queues, worker processes, collected records | pull, run, report, collect, time out, summarise | unittest, multiprocessing |
| gate engine (`core.py`) | gate registry, statuses, the Context's cache | run_all, demote, write a verdict | every gate, closure |
| release readiness (`release.py`, `run.py`) | none of its own; reads git and tree | readiness, release-check, committed verdict | gates, validation report, git |
| release-artifact gates (`gates/g_contracts.py`, `g_export_parity.py`, `g_provenance.py`) | none | compare record, artifacts, closure, fresh export | installer |
| design gates (`gates/*`) | none | a function of the board to a status | Context, geometry |
| closure (`closure.py`, `canonical.py`) | none | digest of every design input | record, verdict, gates |
| claims (`claim.py`) | values with a knowledge kind | combine, bound, compare | timing, simulation |
| simulation (`sim/*`, `g_simulation.py`) | an ngspice engine, models and runs cached in the Context | register models, analyse, measure, judge | extraction, claims, gate engine |
| path resistance (`extract.py` over `connectivity.py`) | none | traverse, refuse, sum up, claim | simulation |
| fabricator catalog (`fabricators/acquire.py`, `jlcpcb.py`, `store.py`, `diff.py`, `cli.py`) | a committed snapshot and its evidence, a scratch directory | fetch, parse, write, verify, compare, adopt | the fabricator's site, a reviewer |
| selection (`fabricators/selection.py`) | none | reject or accept a profile, export a stack | catalog |
| impedance (`fabricators/impedance.py`) | none | resolve the facts, invert the closed form, say what the width permits | catalog, selection |
| routing bridge (`krt.py`, `routing_record.py`, `feedback.py`) | a routing record | resolve the router, bind, compare | git, board |
| connectivity and paths (`connectivity.py`, `electrical_path.py`) | derived graphs | trace, classify, resolve declared paths | board |
| timing (`g_timing.py`, `propagation.py`, `component_models.py`) | paths, delay claims and stackup cached in the Context | resolve, walk, conclude a claim, compare a path or a group | paths, claims, gate engine |
| net extraction, placement, rendering, preflight, schemas | none or files | parse, convert, call tools | kicad-cli, pcbnew |

Where it is hard:

* **Two commands on one tree.** `build` and `validate --write` exclude each
  other with a lock *file* that is created and unlinked, so exclusion depends
  on inode identity, not on a name. KiCad, git and `release-check` do not take
  the hold.
* **An install is many renames.** Any of them can fail, the process can die
  between two, and what is left must be visible to a check and repairable by
  the next build.
* **A check is many reads.** The board is loaded once, the record is read
  later, the closure is computed at the end, git was asked before all of it.
* **External tools** exit 0 without writing, write without exiting 0, and
  produce files nobody declared.
* **Knowledge is partial.** A delay is measured, computed, declared, bounded or
  omitted portion by portion, and a verdict on the sum, or on the spread of
  several sums, must not be stronger than the weakest of them.
* **A catalog is many files and a human hand.** It is fetched page by page
  from a site that changes, written file by file by a command that may die, and
  adopted by a person in two parts; what is read from it must still be one
  acquisition, whole.
* **A formula has two branches.** The inverse of the impedance formula is
  searched on a domain cut where production changes branch; a root at the seam
  is easily lost or found twice.
* **Gates share what they computed.** Models and simulation results are cached
  between three gates; what raised is begun again by the next one, perhaps on
  another board and with an engine that has exited.
* **Worker processes** die holding locks and buffers; queues look empty when
  they are not.

Every hazard is listed with its line in `PROJECT.json`.

### What makes each component correct

* *Hold*: at most one settled claim; a crash never keeps a later claim out;
  nobody unlinks another's lock file; a claim comes to an end.
* *Installer*: a check accepts nothing or one complete build, the newest
  completed one; a torn install stays visible; a successful build repairs
  whatever it found; a refused build changed nothing or, refused by its prune, has
  installed all of its set.
* *Pipeline*: what is installed is complete, unambiguous, approved, in the
  reviewed orientation, and neither its installation nor its prune harms a
  design input.
* *Self-test*: OK is said only when every test ran to its end and was good; a
  verdict comes as long as what is in the pipe is whole.
* *Gate engine, release*: an accepting verdict is about the design it names and
  its record and copper; READY is true of the commit it names.
* *Claims*: a PASS or a FAIL is true of every value the claim admits, and
  UNKNOWN is said only where the claim leaves the question open.
* *Timing*: a claim brackets the path's real delay whatever was measured,
  omitted, bounded or ambiguous along it; a board that no timing gate refuses
  keeps its limits; a limit reported as exceeded is exceeded.
* *Catalog, selection, impedance*: whatever is chosen is read off pages whose
  evidence was there, whole and of one acquisition; a review that reports no
  change is right; a profile called feasible, a stack that is exported and a
  width to draw are each within everything the pages state for that copper
  and that layer count; the solver finds every width there is.
* *Path resistance, simulation*: gates that pass assert of the board only what
  its real circuit does, and rest on analyses that were completed.
* *Closure* (not modelled): what cannot be evaluated blocks.

## 2. Modules

| module | models | code |
|---|---|---|
| `Exclusion` | abstract: one holder at a time | the promise of `hold()` |
| `Hold` | the lock-file protocol over inodes | `layout.py:140-248` |
| `HoldProof` | its proofs | |
| `ArtifactSet` | abstract: what check-board may accept | the promise of `build` |
| `Install` | a build from its hold to its prune | `build.py:632-732`, `run.py:264-361` |
| `InstallProof` | its proofs | |
| `Pipeline` | one build's generation, from manifest checks to record | `build.py:37-622`, `735-772` |
| `PipelineProof` | its proofs | |
| `SelfTest` | the parallel runner | `parallel.py:59-364` |
| `SelfTestProof` | its proofs | |
| `Release` | build, verdict, commit, release-check | `core.py:536-565`, `run.py:136-555`, `release.py` |
| `ReleaseProof` | its proofs | |
| `Claim` | knowledge shapes, bounds, requirements, verdict | `claim.py:43-358` |
| `Timing` | paths from their resolution to the timing gates | `g_timing.py:178-982`, `propagation.py:157-288`, `818-918`, `1076-1329`, `component_models.py:46-145` |
| `TimingProof` | its proofs, and that a verdict of `Claim` is sound and complete | |
| `FabPages` | what the adapter reads off the five pages, notes or refuses | `jlcpcb.py` |
| `Selection` | a requirements file against a catalog; the exported stack | `selection.py` |
| `LineWidth` | facts, inversion and permission of a controlled line | `impedance.py`, `transmission_line.py` |
| `Catalog` | acquisition, evidence, review, adoption, and the commands that choose | `acquire.py`, `store.py`, `diff.py`, `cli.py` |
| `CatalogProof` | its proofs, down to what `Selection`, `LineWidth` and `FabPages` answer | |
| `Copper` | the resistance of a path and the claim about it | `extract.py`, `connectivity.py` |
| `Scenario` | one declared experiment and what may be concluded from it | `scenario.py`, `model_registry.py` |
| `Simulation` | the three gates, their caches and the engine | `g_simulation.py`, `ngspice.py` |
| `SimulationProof` | its proofs | |
| `MC*` | values of the constants for TLC | |

**Hold.** `path` is the inode the lock file's name denotes, `fd` what each
process has open, `owner` the flock of each inode, `record` the file's content
(never read by a guard). Each system call of `__enter__` and `__exit__` is an
action; a freed inode number may be handed out again, which is what makes the
comparison of inodes delicate. `Crash` may happen at any label: the kernel
closes the files, the name stays. The directory's creation is left out (it
either exists or the claim gives up), and so is `fstat` failing.

**Install.** The content of a file is the number of the build that wrote it.
`from` and `closure` remember the design each build was generated from and the
one its record names. One action per copy, rename, unlink and prune; the hold
is the abstract `Exclusion` that `Hold` implements. Failures are actions of
their own (`CopyFails`, `RenameFails`, `PruneFails`), a death is `Crash`.
`rootDir` says that a release directory is the project root, the one
destination that only the prune refuses. `Accepted` is what
`run.py check-board` has nothing to say about: every file the record names is
its own and nothing else lies in the release directories (`Accounted`), and the
record names the closure of the design as it is now (`Fresh`). Its comparison of
the routing record is left out.

**Pipeline.** Sequential, but over every manifest of `Manifests` and every
outcome of the tools. Files, rows and names are model values; a document is
absent, raw, in the fab's columns, or oriented. The checks before generation
(`Incoherent`, `Clobbers`, `Duplicates`, lock files, colliding outputs) refuse;
problems during generation add a blocker and the pipeline goes on, as the code
does.

**SelfTest.** A queue is a sequence plus a buffer in each writer. A test is
the sequence of callbacks unittest makes for it, so that what `_Collector`
records is computed, not assumed. `FindsEmpty` contains the two reasons for
which `get_nowait` raises `Empty`.

**Release.** The tree and HEAD hold a design, artifacts (which design they are
*from*, which closure their record names) and a report. `run_all` is a loop of
`RunGate`s over a cached `view` of the design; `release-check` is `rev-parse`,
`status`, `ls-files`, the gates, and the comparison with the committed report,
each at its own moment. Edits, commits and stray reports happen at any time.
The two gates that bind artifacts to a design do what their functions do.
`ProvenanceAct` compares the record's closure with the tree's. `ParityAct`
compares copper: `board.alike` holds the pairs of designs whose copper layers
differ by no more area than the manifest tolerates, which may be any pairs, so
designs that differ in drills, mask, legend, placement or parts, or by little
copper, pass. Every other gate passes, fails, does not apply, raises or sets no
status, design by design.
`quiet` is a history variable that the properties use to say "while nothing
changed".

**Claim.** Operators without state. A claim is a record with both endpoints,
`NoBound` where the code has none; `Lower`/`Upper` are `bounds()`, `Verdict` is
`verdict()`. `Admits` and `Meets` say what a claim and a requirement *mean*,
and are used by properties only.

**Timing.** One action per stage of the analysis: a declared path is resolved
or becomes a problem (`Resolve`), `PathIntegrity` judges that, each resolved
path is walked portion by portion (`Evaluate`, `Conductor`, `Via`, `Component`,
in the order of `evaluate`), and `Conclude` makes the claim. `InterconnectDelay`
and `InterconnectSkew` judge the claims. Beside `evaluate`'s locals the walk
keeps `real`, the delay the portions really have, of which a fixed, computed or
bounded portion says what it says and an unbounded one nothing; at the end the
junctions may shift the real length and delay by their ambiguity. The limits
and the group are chosen when a gate reads them, which no earlier step does.
Whether a portion is *insufficient* (a stackup without the needed figures, a
gap in a reference plane, a model that is not implemented) is a choice.

**FabPages, Selection, LineWidth, Catalog.** A page is the sequence of statements
its probes find, in reading order and with repetitions, each readable to the end,
only in part, or with a number that is none (`float()` raises, and the command
ends in a traceback); `Parse` says what a catalog keeps, notes as not extracted,
and refuses. A record is stored under an identity (`IdentityOf`), and of two
statements with one identity the later is stored over the earlier (`LastOf`),
except where the code looks for duplicates (stackups, restrictions). `Select`, `Export` and
`SolveLine` are operators over a catalog; the closed forms are tables that fall
strictly. `Catalog` is the state machine around them: `Fetch` by `Fetch` from a
site that publishes new pages meanwhile; `RemoveObsolete`, `WriteEvidence` and
`WriteSnapshot` file by file, each torn before it is whole, also where an intact
file of that name was there (opening it empties it); `Review` against the
committed catalog; `Adopt`, which is a person copying one half of a directory
at a time; `ReadApproved` and `VerifyEvidence`, between which anything may have
been adopted; and the three commands that choose. `Crash` may happen at any
step of a command. A digest is the thing it is a digest of. What this finds in
the code and no property states is listed in section 5.

**Copper, Scenario, Simulation.** `Copper` has the traversal, the bridge check,
the claim and the model made of a measured path, and beside them the real
resistance of the network, which only properties use: over the copper that the path's
ends reach, the products of what forests from end to end leave out, divided by those
of what spanning trees leave out, for every assignment of resistances to the vias in
which some tree leaves out a product that is not zero (a ring of vias that have none
determines no current). A tree is a smallest set of pieces that joins all contacts. `Scenario` has the checks before an engine is asked, coverage of
the connected circuit, derived bounds and verdicts. In `Simulation`, the gates
run in the order of their names over the Context's cache: `Load` reads the board
and `Register` hashes it, with an `Edit` possible between; `StartScenario`,
`Analyse`, `FailToConverge`, `Raise` and `Complete` are one scenario, with an
engine of its own process, shared in ours (it may have exited for good), or
absent; what a gate did not cache is begun again by the next.

How they compose: `Install` uses the specification that `Hold` implements
(one variable `holder`, taken only when free, released by death); `Pipeline` is
the part of a build between `Install`'s `Stage` and `Bind`; `Release` uses a
build as one step under the hold, which is what `Install` shows a successful
one to be for those who read through the record. `Timing` extends `Claim`: every
number that passes between its actions is a claim, and it is judged by
`Verdict` alone. `Catalog` extends `LineWidth`, `Selection` and `FabPages`, so a
page that changes reaches a stack or a width through every stage. `Simulation`
extends `Scenario`, `Copper` and `Claim`: a board becomes a claim, the claim a
model, the model an assertion's verdict.

## 3. Runs

| run | checks | states (about) |
|---|---|---|
| `hold` | exclusion, no stripping, no stale refusal, claims settle, refines `Exclusion` | 94 000 |
| `install` | record order, coherent success, refusal leaves all or nothing, refines `ArtifactSet` | 1.5 million |
| `pipeline` | completeness, naming, allowlist, orientation, one-to-one record, inputs survive | 82 000 |
| `selftest` | OK means ran, nothing unread, the deadline ends the run | 2.0 million |
| `release` | READY is true of its commit; a verdict is about its design, record and copper | 3.0 million |
| `timing` | claims bracket delays, acceptance and violations are true, spreads tight | 2.7 million |
| `catalog` | choices come from proven pages and are within them; reviews are right; roots exact | 78 000 |
| `simulation` | passed assertions are true of the board; passing stages were proven | 131 000 |
| `selftest_shrug`, `release_stale`, `sim_shared`, `sim_polarity` | one statement each of the repository that the code does not keep | violations |

Bounds, and why they are enough:

* `hold`: three processes and three inodes. The dangerous pattern needs a
  releasing holder, a claimant with the unlinked inode open, and a newcomer on
  a fresh one, with the numbers recycled; two attempts instead of 64 exercise
  the retry and its exhaustion.
* `install`: two builders, three builds (`MaxBuild`): one complete, one torn,
  one that repairs. Two design revisions produce different files, so that a
  stale file exists; a file-role and a directory-role destination and the
  record. Builders are symmetric.
* `pipeline`: the manifests of `MCPipeline` each differ in one declaration
  that a step decides on; two export files are enough for a collision.
* `selftest`: two workers, three tests, so that one worker can be lost with
  work left; scripts that pass, fail in a subtest, skip after a failure and
  hang.
* `release`: two revisions, one of them unsound; two writers and a checker; three
  changes (`MaxChange`) make an edit or a build, the verdict and the commit; a tree may
  begin with the artifacts of an earlier build, made from any revision under a record
  that names any, so what an edit under a build leaves is there too. Three boards: a
  gate that sets no status and a design git ignores; an advisory gate and revisions of
  one copper; a gate that does not apply and a board without parity. `release_stale` starts without artifacts and has one writer and
  four changes: edit, build, verdict, commit.

* `timing`: two paths (the fewest a spread needs), each with at most one
  conductor, via and component, in every combination of modelled, bounded,
  unbounded and unsupported. The conductor has length 1 at rate 2 and the
  junctions shift it by 0 or 2, so that the lower end meets zero; portions
  take 0 or 1, limits are 1 or absent: with two paths every order of limit,
  lower and upper end occurs. Paths are symmetric. Longer walks are left to
  `TimingProof`.
* `catalog`: each page as it is last known to be written and one change of each
  kind to it (a second construction, a renamed one, a clause and a constant
  stated twice, a clause of an unknown class, a number that is none); one start with
  a committed catalog, one with none and the scratch directory a dead refresh left. One
  publication, one refresh with at most one lost page, two adoptions: the
  committed and the fetched acquisition are two, and two adoptions mix their
  halves. Requests lie at the boundaries: 1, 2, 4 and 5 layers, limits met
  exactly and missed, a thickness the pages restrict, values that are no
  number. The closed forms have six widths, a seam in the middle, and are
  continuous, rising or falling there.
* `simulation`: seven boards (straight with a stub, through a via, a ring, twin
  tracks, a junction of uncertain place, a plane, a track without weight) and
  twenty manifests: dividers with measured, extracted, bounded and assumed
  parts, chains in which the weak part is a node away or behind the ground, op
  and transient at one node, coverage asked for and missing, frozen models of
  another board; resistances and voltages are chosen so that every voltage is
  whole; one board is saved meanwhile.

Deadlock is checked in `install` and `release`; in the others the system
really stops (dead processes, a verdict, a finished build) and the
configuration says so.

Fairness. `Hold`: weak fairness of each process's own steps inside
`__enter__`/`__exit__` (system calls return; when commands start or leave
their with-block is not assumed). `SelfTest`: weak fairness of the parent's
deadline, of the end of its loop and of its summary, because the loop wakes up
at least every five seconds and compares the clock; workers get none.

### What the violations show

* `selftest_shrug`: a skip after a failed subtest hides the failure.
* `release_stale`: a build stages the design, the designer saves a change that leaves
  the copper alone, and the build computes the closure of its record from the live
  design (build.py:515). Validation, commit and an undisturbed release-check follow,
  and READY is said of artifacts that were made from the earlier design.
* `sim_shared`: the in-process engine keeps measured values by node and
  reduction; with an operating point and a transient in one scenario, the
  transient's endpoint answers for the operating point of the same node.
* `sim_polarity`: a bound derived for a series divider takes the direction of
  the resistance and not the sign of the source; below ground it points the
  wrong way, and a false assertion passes as derived.

One more sentence of README.md is not kept as written, and what holds instead is
checked: outputs are not installed "all or nothing" (README.md:113-114) when a
rename fails (build.py:680), but check-board sees it (`ImplementsArtifactSet`) and
the next build repairs it.

What READY does mean for the artifacts is therefore stated no stronger than the
gates can vouch for (`BoundTo`): the record names the design, and the shipped copper
is that design's within the tolerance. This is in `ReadyMeansReleasable` and
`VerdictSound`. In the same way `FeasibleIsStated` is about the limits that stand
(`StandingLimits`), of each of which the last statement counts: that a feasible
profile meets every limit that is written is false (section 5).

## 4. Proofs

`HoldProof` (for any processes, inodes and attempts). The inductive invariant
`IInv` adds to the types: a descriptor is open exactly between open and close;
the owner of an inode has it open and is in a locked label, and conversely;
**a settled claim is a claim on the inode the path denotes**; an attempt in
progress is one of the `MaxTries`. The last but one is the heart: only `Unlink`
takes the name away, and since two settled claims would own the same inode,
the process at `Unlink` is the only one with a claim. Mutual exclusion, the two
action properties and the refinement of `Exclusion` follow.

Typing is a theorem of its own in this module and in every other proof module.

`InstallProof` (for any builders, builds, designs and destinations). `IInv`
is a part about the disk (nothing on it is of a build not yet staged) and a
part about each builder: past `Acquire` it is the holder and, once it staged,
makes the newest build; the record in the tree is older until its own is
renamed; while copying, every file is still to copy or among the temporaries;
while renaming, every file is still to rename or the build's own; once the
record is renamed, all of the build is there. Because the others are idle,
only the builder that moves has anything to preserve (`OnlyMover`), and because
failures only withdraw (`Withdraws`), half the actions are one lemma. From it:
the record is never ahead of its files, a success leaves one set, a refusal
leaves all or nothing, and every step is a step of `ArtifactSet` or a stutter.

`TimingProof` begins with `Claim` (for every claim `validate()` accepts and every
requirement): `PassIsSound` and `FailIsSound` say that a decided verdict is true of every
value the claim admits, `UnknownIsUndecided` that an undecided one is not mere
caution: some admitted value meets the requirement and some does not.

The rest of it is `Timing` (for any finite set of paths, any number of portions
and any natural lengths, rates, delays and limits). `IInv` says of the walk in progress
that its total is at most the real delay, that total and omissions together
are at least the real delay as long as every omission is bounded, and that an
exact walk omitted nothing (`Sound`); every portion keeps it because its claim
admits its real delay (`ContributeSound`). From there the concluded claim is
valid and brackets the real delay (`ClaimsBracketDelays`). What each gate
established by accepting stays true, since nothing changes a claim after
`InterconnectDelay`; an accepted maximum is an upper end at most the limit
(`AcceptedMaximum`), and the upper end of a spread is no less than what two
members can be apart (`SpreadUpperBounds`, which needs that a finite set of
integers has a maximum: `FiniteHasMax`, by a minimal counterexample under strict
inclusion). Together: `AcceptanceIsSound`. The other way round,
`ViolationsAreTrue`: a claim that fails a maximum has its lower end above it, and
the lower end of a spread is no more than the members are apart, whatever values
within their ends they take and however many have no upper end
(`SpreadLowerBounds`). `SpreadIsExact` adds that both ends of a skew claim are
reached by arrivals the members' claims admit together (`SpreadLowerRealised`,
`SpreadUpperRealised`), so the claim is as narrow as what is known allows.

`PipelineProof` (for every manifest, every set of export files and every outcome
of the tools). The steps have one order and the manifest never changes, so
`IInv` says, for each step that establishes something, what holds behind it:
coherence and destinations outright; documents, naming and orientation unless
there is a blocker, which nothing takes back; archive, bound reports and record
by what they were made from. The sets `After...` say how far a build is, and
`Progress` that only the step itself brings it there; a check is one lemma
(`CheckKeeps`), as is a tool (`ToolKeeps`). The six properties of a build that
installs are then consequences of `Established`.

`SelfTestProof` (for any tests, workers and scripts). The argument follows the
last message of a worker: nothing of that worker is behind it, in its buffer or
in the pipe. So a worker that was seen to finish has delivered all it had
(`FinishedDelivered`), a worker that left by itself has its last message
somewhere, and a run that was not cut short reads it (`AllIsRead`). `IInv` adds
which worker has a test in hand, that every record on its way or collected is
of a test that ran, and what the parent has established at each label of its
loop; `OkIsHonest` follows, because an OK counts a good record for every test.

`ReleaseProof` (for any processes, designs, gates and outcomes). The argument is
that the findings of an undisturbed command stay true together: as long as
`quiet` says that nothing changed since a command began, what `git` said, what
each gate saw, the closure and the committed verdict are all about the tree and
the HEAD that are there now. `IInv` says this per process and label (`Knows`), what
the hold excludes meanwhile (`Held`), and what HEAD may carry (`HeadInv`).
`VerdictIsSound` and `ReadyIsReleasable` follow. An edited validation may write a
verdict about a design its gates did not judge; that it makes nothing ready is part of
the second theorem, since release-check runs the gates again. Neither says that
artifacts were made from the design beside them, only what `BoundTo` says, for any
relation `alike`.

`CatalogProof` (for any pages, sessions, requirement files, bounds and closed
forms). A file on disk that holds a snapshot holds one that an acquisition
returned, whole (`TreeInv`); of those only one that lost no page and parsed passes
the checks of a load (`TrustedIsWhole`); and the evidence is compared when a
command has its snapshot in hand, so whatever directories were torn, merged or
half adopted, the command chooses from pages whose every file was there
(`Chosen`). For the solver, `SearchIsExact` and `RootsExact` show that the search
on the two pieces of a domain finds every width at which a falling branch meets
the target, or passes it, and nothing else, wherever the seam is; every problem
the catalog poses is such a problem (`RootsAreExact`).

Its second half reads the answers back to the pages. An answer is a function of
the pages its catalog was read from, so each of these properties is a lemma about
`Parse`: what a catalog keeps was stated, whole and as a number, on one of its
pages (`KeptWasStated`), and what a page states whole is kept or the catalog is
refused (`StatedIsKept`). The invariant `ChosenFromProvenPages` supplies the pages,
the lemmas the rest:

* a profile called feasible meets every limit that stands on the pages for its copper
  at its layer count, headline or class, since a limit is kept unless the same table
  states it again below (`StandingIsKept`), whatever the pages state and however often
  (`FeasibleProfiles`);
* an exported stack has the board's copper count and the profile's copper, which a
  weight converts to by the one equivalence the pages state (`ExactWeight`), and is
  either a construction published for this purpose or composed where none is
  published, from the constant of exactly this layer count and summing exactly to the
  thickness asked for (`ExportedStacks`);
* a usable line lies between the largest lower and the smallest upper end of all
  that bounds it, which exist because a catalog is finite, so its corridor
  (`CorridorOf`) meets every single bound (`UsableLines`);
* when a review says that nothing changed, no catalog holds a record
  that the other lacks, and every choice made with one is made with the other (`NoChangeIsNone`).

`SimulationProof` (for any manifests, boards and engines). What an execution has
completed is in `solved`; it belongs to the results being collected and is forgotten
with them when a gate ends before they are cached, so that nothing an abandoned
attempt completed can vouch for a later one. `IInv` says that a collected result
that ran was allowed to and had its analyses done (`ResultsInv`); that of the
scenario being executed each analysis is done or planned (`PlanInv`); that cached
results are complete, one for each entry (`RunsInv`); and that what the two gates
passed on are the results that are still cached (`ScenariosInv`, `StagesInv`). It
needs the registry to be set once, because the refusals were made for it. What the
coverage check looked at is `Contributors`, a function computed round by round; it
contains everything connected to the measured node (`ConnectedContribute`), because a
round that is not closed brings in another element, of which there are only so many
(`LastIsClosed`). From it `StagesProven`.

`Sound` also says that a result has the values that were asked for: an analysis
writes only the places of its own measurements (`OnePlace`, `ReadAsAsked`), so what
an earlier one left for a measurement stays, unless the engine in this process keeps
both in one place, which `sim_shared` shows. A second invariant, `BoardsInv`, follows
the board: the models are those of the board that was read, bound to the one that was
hashed, and the provenance gate compared that with its own. Hence
`WhatPassedWasMeasured`: when all three gates pass, every asserted value was met by the
circuit of the decks, and the models are of the judged board unless it was replaced
between reading and hashing.

What is left of `PassedAssertionsHold` after that has no state in it: on one board and
for one circuit, what holds with the resistances of the decks must hold with the real
ones (`CircuitsAreBorne`). That has three parts.

* *The resistance of a path* (`ResistanceClaimsHold`). The bridge check says that the
  terminals part when any one track of the path is taken away; hence a set of contacts
  exists that only this track leaves (`ApartUncrossed`), every spanning tree contains
  it (`InEveryTree`), and every tree without one track of the path is a forest
  (`Exchange`). A tree with a track taken away leaves out that track's resistance times
  what the tree leaves out (`LackingWeigh`), so the forests' sum is at least the series
  sum times the trees' sum, and, when the path has no vias, no more than that, because
  then every forest lacks just one of the path's tracks (`ForestsLackBridges`). The
  quotient is therefore at least the claimed sum, and equal to it without vias: whatever
  the vias add, and whatever else is on the net.
* *Silence* (`AgreeingBear`). Where a measurement has no declared knowledge, all that
  contributes to it is exact, so the real circuit and that of the decks agree on every
  element that touches the least closed set of nodes around the measured one
  (`Around`). Then no voltage there is higher in the one than in the other
  (`NoneIsHigher`): at the nodes where they differ the most, some resistance leads out
  (nothing floats), so less current would flow in through each element and strictly less
  through that one, while both sums are zero.
* *Derived bounds* (`VoltageFalls`). A circuit that is recognised as a divider has one
  free node and two resistances (`DividerIs`), so its balance is one equation
  (`DividerBalances`), and with a source that does not pull below the ground the more
  the series element resists the less is left (`LoadFalls`). What is taken of the vector,
  last, least or greatest, keeps that order (`ReducedLess`).

`AssertionsHold` puts these together. The sums and products are those of the community
modules, folds over functions; what the proofs need of them (that the order of the terms
makes no difference, sums over images, unions and smaller terms) is proved from their
definitions, from the smallest set that would lack the claim (`SmallestWithout`), since
an induction rule with an operator for a parameter cannot be used.

Assumptions, all named and evaluated by TLC in the runs of their modules:

* `HoldAssumption`, `InstallAssumption`, `ClaimAssumption`, `TimingAssumption`,
  `PipelineAssumption`, `SelfTestAssumption`, `ReleaseAssumption`: constants are
  distinct, `NoBound` is not a number, the tests are a sequence without repetition,
  export files and declared paths are finitely many, names of gerbers are not names
  of documents, quantities and bounds are naturals;
* `FormsFall`: a closed form is a strictly falling table;
* `StartsAreReal`: a session begins with directories this program wrote, so a
  committed catalog was parsed and has no number that is none; `LimitsAreCounts`;
* `NumbersAreNumbers`: a number in a requirements file is a number or one that the
  reader refuses, and so is the etch of a page; tolerance and grid are naturals;
* `PagesAreRead`: a page holds the statements its probes look for, in any order and any
  number of times, and their quantities are numbers;
* `NoneIsNothing`, `DeclarationsAreLists`: `None` is neither the empty plan nor a board,
  a claim or a path, entries and analyses are lists and a scenario has finitely many
  elements;
* `ViasResist`, `PathsAreNets`: a via adds nothing negative, and a declared path leads
  to pieces of track and vias with two ends and natural lengths and resistances;
* `FrozenModelsAgree`: a frozen model's deck has the resistance at which its claim ends,
  and one that names a path and a board was measured on that board. The program writes
  its own models so (extract.py:744-866); of one that was written by hand nothing
  compares the two (section 5);
* `CircuitsAreTied`: elements have two nodes, a measured node is one of the circuit's,
  and from every set of nodes that no source drives some resistance leads out. An engine
  has no vector for a node that does not exist and no operating point for one that
  floats, and both end in a result that did not run;
* `VoltagesAreWhole`: the resistances of an instance divide current into whole units and
  its voltages are whole numbers within `Rail`. This is the price of integers: it says
  that the instance has been chosen so that rounding plays no part, and that a circuit of
  resistors and sources has a solution.

Nothing else is assumed.

Only model-checked: liveness (`ClaimSettles`, `RunEnds`), since fairness and ENABLED are
outside the prover's reach. Every invariant and every action property of a passing run
is a theorem. Recursive operators are out of the prover's reach as well; the one
recursive function a theorem needs, the rounds of `Contributors`, is shown to exist by
hand, round after round up to the last one, without which there would be a first that
lacks (`UpTo`, `GrowsFor`). That the reference of `Copper` is the resistance of a network
is Kirchhoff's theorem, which is taken as the definition.

## 5. Not modelled, and why

Geometry, field formulas and file formats (polygons, closed forms, S-expressions,
Gerber, the wording of web pages) are real-valued or textual computations
without state; gates are represented by what they return, a closed form by a
falling table, a page by its statements. In `Timing` a declared number is taken
at its word (a fixed delay is the part's delay, an omitted one at most its
declared bound), and numbers are whole units of the sixth decimal, so that the
code's rounding of sums to that decimal, to the nearest and not outwards, does
not occur (listed as a hazard). One endpoint group and one limit of each kind
stand for the several a manifest may declare, which are judged one by one. Run
directories are private to an invocation. Circuits have sources and resistors
only; capacitors and inductors, and with them what a transient does between its
ends, are left out. The exit of the self-test's parent process, partial writes
inside a pipe and path aliases inside the staging directory are below the grain
of the models; the hazards that live there are listed without a property.

Whole components that are left out: the routing bridge (it calls an external
router and compares files), placement (angle arithmetic on one part at a time),
net classification and critical topology (graph searches over polygons), the
closure's worklist and the normalisation before hashing (a digest is an
injective function here), the event-driven digital engine (no gate calls it),
schemas and parsers (no state), tool discovery and rendering.

Observations on the way that no run refutes. Most contradict no document and no test;
where one is quoted, the properties say what holds instead:

* `select` may promise a composition that `export-stackup` then refuses
  (selection.py:449-453).
* A probe that finds nothing on a page leaves no entry in `not_extracted`; the
  largest drill is never compared.
* Of two trace clauses, design rules or constants with one identity the later replaces
  the earlier, also when it is the laxer limit, and nothing says so (jlcpcb.py:880; for
  stackups and restrictions the code looks, jlcpcb.py:334, 1263). A page with two
  clauses for one weight and two layers, 0.13 mm and then 0.10 mm, makes a track of
  0.12 mm feasible. The docstring's "One capability record is emitted per (weight,
  layer-class) clause" (jlcpcb.py:829-831) does not say which of two should stand.
* A build refused by the prune, because a release directory is the project root, has
  installed everything (build.py:691-693, 707), and run.py:330-337 prints "Nothing was
  installed; the previous fabrication outputs are untouched." `BlockedLeavesOutputs`
  says that it is everything, and never a mixture.
* An edit during `validate --write` leaves a verdict about a design that not all of its
  gates judged.
* `normalized_digest` moves with `not_extracted` while `semantic_diff` is silent
  (model.py:93-101).
* A number such as "4.5.1" leaves `acquire` as a ValueError, which the commands do
  not catch (modelled as a traceback).
* `fab refresh --out` may name the committed catalog itself.
* The simulation gates do not read `usable_for_design_decision`;
  `SIM.MODEL_PROVENANCE` requires declared models, so it does not apply to a board
  that has only extracted ones; a board saved between being read and being
  hashed is measured under its successor's digest (`ReadAsHashed` excepts it);
  the registry compares neither a frozen model's deck with its resistance claim nor
  the digest it is bound to with what was extracted (`FrozenModelsAgree`);
  the in-process engine has no timeout.

## 6. Plan

1. (done) Hold, Install, Pipeline, SelfTest, Release, Claim, Timing, with
   proofs of their safety properties.
2. (done) Catalog: pages, selection, impedance, acquisition, review and
   adoption, with proofs that choices come from proven pages and that the
   inversion is exact.
3. (done) Simulation: path resistance, scenarios, engines and the three gates, with
   proofs that passing stages were proven, that the claim about a path's resistance
   holds for any net, and that passed assertions are true of the board.
4. (done) The answers of the catalog proved back to the statements of its pages.
5. Left to model: path resolution below `Timing`'s `Resolve`; the worklist of
   `design_inputs` against the least closed set; the event-driven digital engine
   against a reference; the routing record.
6. Left to prove: nothing a run checks but liveness. The assumption that a circuit has
   a solution could be replaced by one that its resistances are not zero, with rational
   voltages (the determinant of its balance is the sum over its spanning trees).
