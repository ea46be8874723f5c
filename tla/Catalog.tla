------------------------------ MODULE Catalog -------------------------------
(***************************************************************************)
(* The fabricator catalog from the pages it is read off to what a board    *)
(* gets out of it (pcbqa/fabricators/acquire.py, store.py, diff.py,        *)
(* cli.py).                                                                *)
(*                                                                         *)
(* A refresh fetches the pages one by one while the fabricator may change  *)
(* them, parses them, writes snapshot and evidence into a directory file   *)
(* by file and compares the result with the committed catalog.  A person   *)
(* adopts a reviewed directory, and the other commands load the committed  *)
(* snapshot, check it against its evidence and choose from it.  A command  *)
(* may die at any step.                                                    *)
(***************************************************************************)
EXTENDS LineWidth

CONSTANTS
  Absent,       \* no file
  Torn,         \* a file whose writer has not written its last byte
  Pages,        \* [Sources -> set of pages]: what a source may come to state
  Starts,       \* what a session may begin with: [site, committed, scratch]
  Requests,     \* requirement files
  Lines,        \* [Requests -> impedance requests made with such a file]
  Limit,        \* bounds: [what -> how often], see Spend
  MaxFail       \* bound: fetches that fail in one refresh

VARIABLES
  site,       \* [Sources -> page]: what the fabricator states now
  tree,       \* [Places -> directory]: the committed catalog and the scratch
  step,       \* where the command is
  raw,        \* the pages this refresh fetched, by source; once it writes,
              \* those whose bodies it has still to write
  failed,     \* the sources this refresh could not fetch
  snapshot,   \* the snapshot the command holds
  proof,      \* history: the evidence directory as it was when it was checked
  request,    \* the requirements file the command was given
  answer,     \* what the last command said
  spent       \* page changes, adoptions and refreshes so far

vars == <<site, tree, step, raw, failed, snapshot, proof, request, answer, spent>>

Places == {"committed", "scratch"}

-----------------------------------------------------------------------------
(* Snapshots.  The digest of a page is the page: it is equal exactly when  *)
(* the bytes are.  A normalized catalog is named by the pages it was read  *)
(* from, and CatalogOf is what it says.                                    *)
Acquirable == {pages \in [Sources -> UNION {Pages[s] : s \in Sources}] :
                 \A s \in Sources : pages[s] \in Pages[s]}
Catalogs == [pages \in Acquirable |-> Parse(pages)]
CatalogOf(normalized) == Catalogs[normalized]

\* Mutant: only what was fetched is declared.
AcquiredAsFetched(pages, lost) ==
  LET outcome == IF lost = {} THEN "complete" ELSE "incomplete"
  IN  [outcome |-> outcome, sources |-> pages, declared |-> DOMAIN pages,
       normalized |-> None, digest |-> None]

\* What acquire() returns: the sources it fetched with their digests, and a
\* normalized catalog only when every page was fetched and read.
Acquired(pages, lost) ==
  LET outcome == IF lost # {} THEN "incomplete"
                 ELSE IF Parse(pages).refused THEN "parse-failed" ELSE "complete"
      catalog == IF outcome = "complete" THEN pages ELSE None
  IN  [outcome |-> outcome, sources |-> pages, declared |-> Sources,
       normalized |-> catalog, digest |-> catalog]

\* A directory holds approved.json and evidence files, named after a source
\* and the digest of its bytes.
File(source, page) == [source |-> source, digest |-> page, bytes |-> page]
Evidence(s) == {File(src, s.sources[src]) : src \in DOMAIN s.sources}
Directory(s) == [approved |-> s, evidence |-> Evidence(s)]

\* Mutant: evidence nobody recorded does not matter.
EvidenceCovers(s, files) == Evidence(s) \subseteq files

\* verify_evidence(): exactly the recorded files, by content.
EvidenceHolds(s, files) == files = Evidence(s)

\* What _load_snapshot refuses before it looks at the evidence.
Trustworthy(s) ==
  /\ s \notin {Absent, Torn}
  /\ s.outcome = "complete"
  /\ DOMAIN s.sources = s.declared
  /\ s.normalized # None
  /\ s.digest = s.normalized

\* A snapshot that an acquisition returned: every declared source was fetched
\* or lost, and where none was lost every number was one.
IsAcquired(s) ==
  /\ DOMAIN s.sources \subseteq Sources
  /\ s.sources = [src \in DOMAIN s.sources |-> s.sources[src]]
  /\ \A src \in DOMAIN s.sources : s.sources[src] \in Pages[src]
  /\ \E lost \in SUBSET Sources : /\ lost \cup DOMAIN s.sources = Sources
                                  /\ s = Acquired(s.sources, lost)
                                  /\ lost = {} => ~ Nonsense(s.sources)

\* Whatever a directory held before, this program has written it.
ASSUME StartsAreReal ==
  \A start \in Starts :
    /\ start.site \in Acquirable
    /\ start.committed => ~ Nonsense(start.site)
    /\ start.scratch = [approved |-> start.scratch.approved,
                        evidence |-> start.scratch.evidence]
    /\ start.scratch.approved \in {Absent, Torn} \/ IsAcquired(start.scratch.approved)
    /\ \A f \in start.scratch.evidence : f.source \in Sources

ASSUME LimitsAreCounts == Limit \in [{"publish", "adopt", "refresh"} -> Nat]

\* A page is the statements that its probes look for, in any order and any
\* number of times.
ASSUME PagesAreRead == \A s \in Sources : \A page \in Pages[s] : IsPage(Text[page], s)

\* A number that was given is one, and so is what a page says of the etch.
ASSUME NumbersAreNumbers ==
  /\ Tolerance \in Nat /\ Grid \in Nat
  /\ \A q \in Requests :
       /\ \A v \in {q.layers, q.thickness, q.outer, q.track, q.space, q.drill, q.via} :
            v \in {None, Bad} \/ v \in Int
       /\ \A line \in Lines[q] :
            \A v \in {line.target, line.min, line.max} : v = Bad \/ v \in Int
  /\ \A pages \in Acquirable : Trim(Catalogs[pages]) \in Int

-----------------------------------------------------------------------------
(* The semantic difference a person reviews: records of either side that   *)
(* the other one lacks, where a construction that only changed its name is *)
(* one change.                                                             *)
Essence(r) == IF r.what = "construction" THEN [r EXCEPT !.name = None] ELSE r

\* Mutant: the records are compared by name, not by value.
DifferencesByName(approved, observed) ==
  LET names(c) == {r.what : r \in c.kept}
  IN  {<<"added", w>> : w \in names(observed) \ names(approved)}
        \cup {<<"removed", w>> : w \in names(approved) \ names(observed)}

Differences(approved, observed) ==
  LET gone == approved.kept \ observed.kept
      new == observed.kept \ approved.kept
      renamed == {r \in new : \E o \in gone : Essence(o) = Essence(r)}
  IN  {<<"renamed", r>> : r \in renamed}
        \cup {<<"added", r>> : r \in new \ renamed}
        \cup {<<"removed", r>> : r \in
                {r \in gone : ~ \E n \in renamed : Essence(n) = Essence(r)}}

-----------------------------------------------------------------------------
\* The committed catalog of a start is absent or was acquired from its site;
\* the scratch directory is empty or what a refresh that died has left.
NoDirectory == [approved |-> Absent, evidence |-> {}]

Init ==
  /\ \E start \in Starts :
       /\ site = start.site
       /\ tree = [committed |-> IF start.committed
                               THEN Directory(Acquired(start.site, {}))
                               ELSE NoDirectory,
                  scratch |-> start.scratch]
  /\ step = "idle"
  /\ raw = <<>> /\ failed = {}
  /\ snapshot = Absent /\ proof = {} /\ request = None
  /\ answer = [said |-> "nothing"]
  /\ spent = [w \in DOMAIN Limit |-> 0]

Say(what) == answer' = what
At(label) == step = label
Goto(label) == step' = label

\* A command that has said its last word forgets everything.
Finish(what) ==
  /\ Goto("idle") /\ Say(what)
  /\ raw' = <<>> /\ failed' = {} /\ proof' = {}
  /\ snapshot' = Absent /\ request' = None

Spend(what) ==
  /\ spent[what] < Limit[what]
  /\ spent' = [spent EXCEPT ![what] = @ + 1]

\* The fabricator changes a page; only a refresh that is fetching can tell.
SitePublishes ==
  /\ At("fetch") /\ Spend("publish")
  /\ \E s \in Sources : \E p \in Pages[s] \ {site[s]} :
       site' = [site EXCEPT ![s] = p]
  /\ UNCHANGED <<tree, step, raw, failed, snapshot, proof, request, answer>>

-----------------------------------------------------------------------------
(* fab refresh.                                                            *)
StartRefresh ==
  /\ At("idle") /\ Spend("refresh")
  /\ Goto("fetch") /\ Say([said |-> "nothing"])
  /\ UNCHANGED <<site, tree, raw, failed, snapshot, proof, request>>

Tried == DOMAIN raw \cup failed
NextSource == SourceOrder[Cardinality(Tried) + 1]

Fetch ==
  /\ At("fetch") /\ Tried # Sources
  /\ \/ /\ raw' = [s \in DOMAIN raw \cup {NextSource} |->
                     IF s = NextSource THEN site[s] ELSE raw[s]]
        /\ UNCHANGED failed
     \/ /\ Cardinality(failed) < MaxFail
        /\ failed' = failed \cup {NextSource}
        /\ UNCHANGED raw
  /\ UNCHANGED <<site, tree, step, snapshot, proof, request, answer, spent>>

\* Every source was tried.  A number that is none ends the command here, with
\* nothing written.
ReadPages ==
  /\ At("fetch") /\ Tried = Sources
  /\ \/ /\ failed = {} /\ Nonsense(raw)
        /\ Finish([said |-> "traceback"])
     \/ /\ failed # {} \/ ~ Nonsense(raw)
        /\ snapshot' = Acquired(raw, failed)
        /\ Goto("clear")
        /\ UNCHANGED <<raw, failed, proof, request, answer>>
  /\ UNCHANGED <<site, tree, spent>>

\* write_catalog(): evidence the new set does not name is unlinked file by
\* file, then every body is written, then the snapshot.
OutFiles == tree["scratch"].evidence
Named(f) == \E g \in Evidence(snapshot) : g.source = f.source /\ g.digest = f.digest

RemoveObsolete ==
  /\ At("clear")
  /\ \/ \E f \in OutFiles :
          /\ ~ Named(f)
          /\ tree' = [tree EXCEPT !["scratch"].evidence = @ \ {f}]
          /\ UNCHANGED step
     \/ /\ \A f \in OutFiles : Named(f)
        /\ Goto("write")
        /\ UNCHANGED tree
  /\ UNCHANGED <<site, raw, failed, snapshot, proof, request, answer, spent>>

SameName(f, g) == f.source = g.source /\ f.digest = g.digest

First(S) ==
  SourceOrder[CHOOSE i \in 1..5 : /\ SourceOrder[i] \in S
                                  /\ \A j \in 1..(i - 1) : SourceOrder[j] \notin S]

\* The bodies are written in the order of the sources.  Opening a file empties
\* it, also one that held these very bytes, and until its last byte is written
\* it is torn.
WriteEvidence ==
  /\ At("write") /\ DOMAIN raw # {}
  /\ LET f == File(First(DOMAIN raw), raw[First(DOMAIN raw)])
         torn == [f EXCEPT !.bytes = Torn]
         others == {g \in OutFiles : ~ SameName(f, g)}
     IN  \/ /\ torn \notin OutFiles
            /\ tree' = [tree EXCEPT !["scratch"].evidence = others \cup {torn}]
            /\ UNCHANGED raw
         \/ /\ torn \in OutFiles
            /\ tree' = [tree EXCEPT !["scratch"].evidence = others \cup {f}]
            /\ raw' = [s \in DOMAIN raw \ {f.source} |-> raw[s]]
  /\ UNCHANGED <<site, step, failed, snapshot, proof, request, answer, spent>>

WriteSnapshot ==
  /\ At("write") /\ DOMAIN raw = {}
  /\ \/ /\ tree["scratch"].approved # Torn
        /\ tree' = [tree EXCEPT !["scratch"].approved = Torn]
        /\ UNCHANGED step
     \/ /\ tree["scratch"].approved = Torn
        /\ tree' = [tree EXCEPT !["scratch"].approved = snapshot]
        /\ Goto("written")
  /\ UNCHANGED <<site, raw, failed, snapshot, proof, request, answer, spent>>

\* An acquisition that is not complete is reported and left for inspection.
\* One that is goes on to the committed catalog it is compared with.
ReportUnusable ==
  /\ At("written") /\ snapshot.outcome # "complete"
  /\ Finish([said |-> "unusable"])
  /\ UNCHANGED <<site, tree, spent>>

CompareWith(approved) ==
  Finish([said |-> "reviewed", before |-> approved.normalized,
          after |-> snapshot.normalized,
          differences |-> Differences(CatalogOf(approved.normalized),
                                      CatalogOf(snapshot.normalized))])

Loads(directory) ==
  /\ Trustworthy(directory.approved)
  /\ EvidenceHolds(directory.approved, directory.evidence)

Review ==
  /\ At("written") /\ snapshot.outcome = "complete"
  /\ LET committed == tree["committed"]
     IN  \/ /\ committed.approved = Absent
            /\ Finish([said |-> "no baseline"])
         \/ /\ committed.approved # Absent /\ ~ Loads(committed)
            /\ Finish([said |-> "refused"])
         \/ /\ Loads(committed)
            /\ CompareWith(committed.approved)
  /\ UNCHANGED <<site, tree, spent>>

-----------------------------------------------------------------------------
(* A person puts a written directory in place of the committed one.  The   *)
(* two parts of it are replaced one after the other, in either order, and  *)
(* evidence may be copied over without what it replaces being removed.     *)
CopiedOver(old, new) == new \cup {f \in old : ~ \E g \in new : SameName(f, g)}

Adopt ==
  /\ step \in {"idle", "load"} /\ tree["scratch"].approved # Absent
  /\ Spend("adopt")
  /\ \/ tree' = [tree EXCEPT !["committed"].approved = tree["scratch"].approved]
     \/ tree' = [tree EXCEPT !["committed"].evidence = tree["scratch"].evidence]
     \/ tree' = [tree EXCEPT !["committed"].evidence =
                   CopiedOver(tree["committed"].evidence, tree["scratch"].evidence)]
  /\ tree' # tree
  /\ Say([said |-> "nothing"])
  /\ UNCHANGED <<site, step, raw, failed, snapshot, proof, request>>

-----------------------------------------------------------------------------
(* fab select, fab export-stackup and fab impedance.                       *)
ReadApproved ==
  /\ At("idle")
  /\ LET approved == tree["committed"].approved
     IN  \/ /\ ~ Trustworthy(approved)
            /\ Finish([said |-> "refused"])
         \/ /\ Trustworthy(approved)
            /\ snapshot' = approved
            /\ Goto("load") /\ Say([said |-> "nothing"])
            /\ UNCHANGED <<raw, failed, proof, request>>
  /\ UNCHANGED <<site, tree, spent>>

\* The evidence is checked after the snapshot was read: it may have been
\* replaced in between.
VerifyEvidence ==
  /\ At("load")
  /\ LET files == tree["committed"].evidence
     IN  \/ /\ ~ EvidenceHolds(snapshot, files)
            /\ Finish([said |-> "refused"])
         \/ /\ EvidenceHolds(snapshot, files)
            /\ Goto("judge")
            /\ proof' = files
            /\ \E q \in Requests : request' = q
            /\ UNCHANGED <<raw, failed, snapshot, answer>>
  /\ UNCHANGED <<site, tree, spent>>

Judged(said, line, got) ==
  [said |-> said, from |-> snapshot.normalized, request |-> request,
   line |-> line, got |-> got]

SelectProfile ==
  /\ At("judge")
  /\ IF Malformed(request) THEN Finish([said |-> "refused"])
     ELSE \E c \in {CatalogOf(snapshot.normalized)} :
            Finish(Judged("selected", None, {Select(c, request)}))
  /\ UNCHANGED <<site, tree, spent>>

ExportStackup ==
  /\ At("judge") /\ ~ Malformed(request)
  /\ \E c \in {CatalogOf(snapshot.normalized)} :
       \E pick \in {None} \cup {s.name : s \in Stated(c, "construction")},
          boardLayers \in {request.layers, Composable} :
         Finish(Judged("exported", None, Export(c, request, pick, boardLayers)))
  /\ UNCHANGED <<site, tree, spent>>

SolveImpedance ==
  /\ At("judge") /\ ~ Malformed(request)
  /\ \E c \in {CatalogOf(snapshot.normalized)},
        line \in Lines[request], form \in Forms :
       Finish(Judged("solved", line, SolveLine(c, request, line, form)))
  /\ UNCHANGED <<site, tree, spent>>

-----------------------------------------------------------------------------
\* The command dies: its files stay as they are.
Crash ==
  /\ ~ At("idle")
  /\ Finish([said |-> "nothing"])
  /\ UNCHANGED <<site, tree, spent>>

Next ==
  \/ SitePublishes \/ StartRefresh \/ Fetch \/ ReadPages
  \/ RemoveObsolete \/ WriteEvidence \/ WriteSnapshot
  \/ ReportUnusable \/ Review \/ Adopt
  \/ ReadApproved \/ VerifyEvidence
  \/ SelectProfile \/ ExportStackup \/ SolveImpedance
  \/ Crash

Spec == Init /\ [][Next]_vars

-----------------------------------------------------------------------------
\* The types of the variables.
TypeOK ==
  /\ site \in [Sources -> UNION {Pages[s] : s \in Sources}]
  /\ \A d \in Places :
       /\ tree[d].approved \in {Absent, Torn} \/ tree[d].approved.declared = Sources
       /\ \A f \in tree[d].evidence : f.source \in Sources
  /\ step \in {"idle", "fetch", "clear", "write", "written", "load", "judge"}
  /\ DOMAIN raw \subseteq Sources
  /\ failed \subseteq Sources
  /\ snapshot = Absent \/ snapshot.declared = Sources
  /\ request \in Requests \cup {None}
  /\ \A w \in DOMAIN Limit : spent[w] \in 0..Limit[w]

\* What a command chooses from is whole and proven: beside it lay, when it
\* was checked, one intact file for every declared source and nothing else,
\* and its values are what the adapter reads off those very bytes
\* (store.verify_evidence, CatalogStore._load_snapshot).  Deaths in the middle
\* of a write, acquisitions that failed, half of an adoption and evidence
\* merged instead of replaced all leave directories that must not get here.
ChosenFromProvenPages ==
  At("judge") =>
    /\ ~ Parse(snapshot.normalized).refused
    /\ proof = {File(s, snapshot.normalized[s]) : s \in Sources}

\* A review that reports no change is right about it: every requirements file
\* selects and exports the same from the new catalog as from the old one
\* (diff.semantic_diff, selection.select).
NoChangeMeansSameChoices ==
  answer.said = "reviewed" /\ answer.differences = {} =>
    \A old \in {CatalogOf(answer.before)}, new \in {CatalogOf(answer.after)} :
      \A q \in Requests :
        ~ Malformed(q) => /\ Select(old, q) = Select(new, q)
                          /\ Exports(old, q, None) = Exports(new, q, None)

\* What the pages say together.
WholeText(c) == UNION {ToSet(Text[c[s]]) : s \in Sources}

\* Where a page states a limit for tracks: a design rule or a clause of the
\* trace table, where a headline counts in a row that has no classes.
LimitsOn(p) == Emitted(p, {"design rule"}) \cup TracesEmitted(p)

\* The same table states a limit for the same weight and class again below.
Superseded(p, i) == \E j \in LimitsOn(p) : j > i /\ SameIdentity(p[i], p[j])

StandingLimits(c) ==
  UNION {{Text[c[s]][i] : i \in {i \in LimitsOn(Text[c[s]]) :
                                  ~ Superseded(Text[c[s]], i)}} : s \in Sources}

\* The limits a profile comes under: those for its copper at its layer count.
Clear(q, got, limits) ==
  LET copper == {got.outer} \cup (IF q.layers > Composable THEN {got.inner} ELSE {})
  IN  \A r \in limits :
        Covers(r, q.layers) /\ r.weights \cap copper # {} =>
          /\ Given(q.track) => q.track >= r.track
          /\ Given(q.space) => q.space >= r.space

\* A profile called feasible is one the pages offer: it goes under no limit
\* they state for its copper at its layer count, headline or class, trace table
\* or design rule, where of two statements of one limit the last one stands; an
\* ordinary build has no restricted thickness (an impedance build is ordered
\* from the list of its own section, to which the restrictions do not apply); a
\* via it relies on is a plated one; and its layer count is one they list
\* (jlcpcb.py's scoping and selection.select taken together).
FeasibleIsStated ==
  answer.said = "selected" =>
    \A got \in answer.got :
      got.rejections = {} =>
        LET q == answer.request
            text == WholeText(answer.from)
        IN  /\ Clear(q, got, StandingLimits(answer.from))
            /\ \A r \in Of(text, "restriction") :
                 ~ q.impedance => ~ (r.thickness = q.thickness /\ q.layers \in r.excluded)
            /\ Given(q.via) =>
                 /\ \E r \in Whole(text, "via") : ~ r.npth /\ Covers(r, q.layers)
                 /\ \A r \in Whole(text, "via") :
                      ~ r.npth /\ Covers(r, q.layers) => q.via >= r.diameter
            /\ q.layers > Composable =>
                 \E r \in Whole(text, "enumeration") : q.layers \in ImpedanceCounts(r)

\* A stack that is exported describes the board that was asked for: its
\* copper is the profile's, its layers sum to the ordered thickness, a
\* published one was published for this purpose, and a composed one stands
\* beside no published one and takes its constant from a statement about
\* exactly this layer count (selection.export_physical_stackup).
ExportDescribesTheBoard ==
  answer.said = "exported" =>
    \A d \in answer.got :
      LET q == answer.request
          text == WholeText(answer.from)
          weight == Outer(CatalogOf(answer.from), q).weight
      IN  /\ d.coppers = q.layers
          /\ \E e \in Whole(text, "equivalence") : d.copper_um = (weight * e.um) \div 2
          /\ d.composed =>
               /\ ~ \E r \in Of(text, "stackup") : r.coppers = q.layers
               /\ 2 * d.copper_um + d.dielectric = q.thickness
               /\ \E r \in Whole(text, "board class constant") :
                    r.lo = q.layers /\ r.hi = q.layers /\ d.constants = {r.dk}
          /\ ~ d.composed =>
               \E r \in Whole(text, "stackup") :
                 /\ r.name = d.name /\ r.coppers = q.layers
                 /\ Close(r.total, q.thickness)
                 /\ r.default # q.impedance

\* The widths the solver finds are the widths there are: over the closed
\* domain every width at which the production formula meets the target is
\* among its roots once, wherever the seam between the two branches falls,
\* and no root is a one-sided limit that production does not take
\* (impedance._solve_width).
RootsAreTheSolutions ==
  answer.said = "solved" =>
    \A got \in answer.got : \A t \in DOMAIN got.roots :
      got.roots[t] = Solutions(got.problems[t], answer.line.target)

\* What a result lets a designer do can be built: a width to draw is the only
\* one that meets the target, no limit that stands on the pages for that copper
\* at that layer count is wider, the construction is published for this purpose, and a
\* target that is called eligible lies in a range the fabricator states.  A
\* corridor to reserve is not empty, clears the same minima, and ends where
\* the unmasked line would meet the target (impedance._result).
UsableLineIsBuildable ==
  answer.said = "solved" =>
    \A got \in answer.got :
      LET q == answer.request
          line == answer.line
          text == WholeText(answer.from)
          limits == {r \in StandingLimits(answer.from) :
                       Covers(r, q.layers) /\ got.weight \in r.weights}
      IN  /\ got.result.feasible =>
               /\ \A t \in DOMAIN got.problems :
                    Solutions(got.problems[t], line.target) = {got.result.width}
               /\ \A r \in limits : r.track <= Grid * got.result.width[1]
               /\ \E r \in Whole(text, "stackup") :
                    /\ r.name = got.stackup /\ r.coppers = q.layers
                    /\ r.default # q.impedance
          /\ got.result.eligible =>
               /\ got.result.feasible
               /\ \E r \in Whole(text, "impedance range") :
                    r.min <= line.target /\ line.target <= r.max
          /\ got.result.corridor # None =>
               /\ got.result.corridor[1] <= got.result.corridor[2]
               /\ \A r \in limits : r.track <= got.result.corridor[1]
               /\ \E root \in Solutions(got.problems[Bare], line.target) :
                    Grid * root[2] = got.result.corridor[2]
=============================================================================
