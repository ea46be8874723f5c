---------------------------- MODULE Simulation -----------------------------
(***************************************************************************)
(* Circuit simulation in a validation (pcbqa/gates/g_simulation.py over    *)
(* pcbqa/sim/ngspice.py): the three gates in their order, the registry     *)
(* they share, partly extracted from the board while somebody may save     *)
(* another one, and every declared scenario executed by an engine that may *)
(* fail, hang or die.                                                      *)
(*                                                                         *)
(* What the gates cached stays cached; what raised is tried again by the   *)
(* next gate.                                                              *)
(***************************************************************************)
EXTENDS Scenario

CONSTANTS
  Boards,        \* [boards -> [paths -> net]]: what a board file may hold
  Declarations,  \* what a manifest may declare: [frozen, paths, entries, required]
  Engines,       \* engines a machine may have: "binary", "shared", "none"
  Ohms,          \* resistances a part may have
  Rail,          \* bound: the largest voltage
  MaxEdits       \* bound: boards saved during the validation

\* A plan of no analyses is a plan, a board that was saved is a board, what
\* is claimed is a claim and a path has a name.
ASSUME NoneIsNothing ==
  /\ None # <<>> /\ None \notin DOMAIN Boards /\ None \notin Claims
  /\ \A b \in DOMAIN Boards : None \notin DOMAIN Boards[b]

\* Entries and analyses are lists, and a scenario has so many elements.
ASSUME DeclarationsAreLists ==
  \A d \in Declarations :
    /\ d.entries \in Seq(ToSet(d.entries))
    /\ \A i \in DOMAIN d.entries :
         /\ d.entries[i].scenario.analyses \in Seq(ToSet(d.entries[i].scenario.analyses))
         /\ IsFiniteSet(d.entries[i].scenario.elements)

VARIABLES
  declared,   \* the manifest's simulation section
  engine,     \* the engine of this machine
  exited,     \* the in-process engine has made its controlled exit
  board,      \* the board file
  loaded,     \* the board being extracted from, None when none is
  registry,   \* the cached models, None before
  plan,       \* analyses left of the scenario being executed, None between two
  vectors,    \* the values read so far
  results,    \* what the scenarios executed so far gave
  runs,       \* the cached results of all of them, None before
  gate,       \* the gate being run
  status,     \* how the gates before it ended
  solved,     \* history: analyses an engine completed for these results
  extraction, \* history: the board measured, and the one that was hashed
  judged,     \* history: the board the provenance gate hashed
  edits       \* boards saved so far

vars == <<declared, engine, exited, board, loaded, registry, plan,
          vectors, results, runs, gate, status, solved, extraction, judged, edits>>

\* registered(): the gates in the order of their names.
Gates == <<"SIM.MODEL_PROVENANCE", "SIM.SCENARIOS", "SIM.STAGE_COVERAGE">>

Running == gate <= Len(Gates)
Gate == IF Running THEN Gates[gate] ELSE None
ExecutesScenarios == Gate \in {"SIM.SCENARIOS", "SIM.STAGE_COVERAGE"}

\* f, and where f is not defined g.
Merged(f, g) ==
  [x \in DOMAIN f \cup DOMAIN g |-> IF x \in DOMAIN f THEN f[x] ELSE g[x]]

-----------------------------------------------------------------------------
(* Circuits.  Voltages are whole numbers: instances are chosen so that     *)
(* they are.  A source has one terminal on the ground; a pulse is at its   *)
(* first level at the operating point and at its second in the end.        *)

Level(e, instant) == IF e.kind = "vsource_dc" THEN e.value ELSE e.levels[instant]

Sources(s) == {e \in s.elements : IsSource(e)}
Passive(s) == s.elements \ Sources(s)
DrivenNodes(s) == UNION {Signals(e) : e \in Sources(s)}

Driven(s, instant) ==
  LET by(n) == CHOOSE e \in Sources(s) : n \in Nodes(e)
  IN  [n \in DrivenNodes(s) |->
         IF by(n).nodes[1] = n THEN Level(by(n), instant) ELSE -Level(by(n), instant)]

Scale == 12

\* The current into a node through an element, for the voltages there.
Current(e, ohms, volts, node) ==
  LET at(n) == IF n = Ground THEN 0 ELSE volts[n]
      other == IF e.nodes[1] = node THEN e.nodes[2] ELSE e.nodes[1]
  IN  (at(other) - at(node)) * (Scale \div ohms[e.name])

At(s, node) == {e \in Passive(s) : node \in Nodes(e)}

\* No current is left over at a node that no source drives.
Balanced(s, ohms, volts, node) ==
  0 = SumFunction([e \in At(s, node) |-> Current(e, ohms, volts, node)])

Free(s) == (UNION {Signals(e) : e \in s.elements}) \ DrivenNodes(s)

Solutions(s, ohms, instant) ==
  {v \in [Free(s) -> -Rail..Rail] :
     \A n \in Free(s) : Balanced(s, ohms, Merged(v, Driven(s, instant)), n)}

Voltage(s, ohms, instant) ==
  Merged(CHOOSE v \in Solutions(s, ohms, instant) : TRUE, Driven(s, instant))

Instants(analysis) == IF analysis = "op" THEN {1} ELSE {1, 2}

\* _reduce(), of the vector an analysis leaves.
Value(s, ohms, m) ==
  LET points == Instants(Family[m.kind])
      at == [i \in points |-> Voltage(s, ohms, i)[m.node]]
      values == {at[i] : i \in points}
  IN  CASE Reduction[m.kind] = "last" -> at[Max(points)]
        [] Reduction[m.kind] = "min"  -> Min(values)
        [] Reduction[m.kind] = "max"  -> Max(values)

\* What the deck gives every element: its value, or its model's.
Nominal(s, models) ==
  [name \in {e.name : e \in Passive(s)} |->
     LET e == CHOOSE x \in s.elements : x.name = name
     IN  IF IsModel(e) THEN models[e.model].ohms ELSE e.value]

-----------------------------------------------------------------------------
(* Models.                                                                 *)

\* interconnect_model_from_path() and aliased(): what is measured is bound
\* to the digest of a board file.
ModelOf(measured, path, digest) ==
  LET net == Boards[measured][path]
  IN  [claim |-> ResistanceClaim(net, net.from, net.to),
       ohms |-> SeriesOhms(net, net.from, net.to),
       evidence |-> [interconnect_dc |-> "geometry-derived"],
       temperatures |-> {20}, path |-> path, digest |-> digest]

Extractable(d, measured) ==
  \A alias \in DOMAIN d.paths :
    LET net == Boards[measured][d.paths[alias]]
    IN  Measurable(net, net.from, net.to)

Extracted(d, measured, digest) ==
  [alias \in DOMAIN d.paths |-> ModelOf(measured, d.paths[alias], digest)]

Frozen(d) == IF d.frozen = None THEN <<>> ELSE d.frozen

-----------------------------------------------------------------------------
Entry(i) == declared.entries[i].scenario
Asserted(i) == {m \in Entry(i).measurements : m.assertion # None}

NotRun(how) == [status |-> how, values |-> <<>>]

Init ==
  /\ declared \in Declarations
  /\ engine \in Engines
  /\ exited = FALSE
  /\ board \in DOMAIN Boards
  /\ loaded = None /\ registry = None
  /\ plan = None /\ vectors = <<>> /\ results = <<>> /\ runs = None
  /\ gate = 1
  /\ status = <<>>
  /\ solved = {} /\ extraction = None /\ judged = None
  /\ edits = 0

\* A gate ends; what it has not cached is forgotten.
EndGate(how) ==
  /\ gate' = gate + 1
  /\ status' = [g \in DOMAIN status \cup {Gate} |-> IF g = Gate THEN how ELSE status[g]]
  /\ loaded' = None /\ plan' = None /\ vectors' = <<>> /\ results' = <<>>
  /\ solved' = IF runs = None THEN {} ELSE solved

\* Somebody saves another board; a validation does not hold the tree.
Edit ==
  /\ edits < MaxEdits
  /\ board' \in (DOMAIN Boards) \ {board}
  /\ edits' = edits + 1
  /\ UNCHANGED <<declared, engine, exited, loaded, registry, plan, vectors,
                 results, runs, gate, status, solved, extraction, judged>>

\* _extracted() reads the board, and hashes the file after that.
Load ==
  /\ Running /\ registry = None /\ loaded = None
  /\ Gate = "SIM.MODEL_PROVENANCE" => declared.frozen # None
  /\ loaded' = board
  /\ UNCHANGED <<declared, engine, exited, board, registry, plan, vectors,
                 results, runs, gate, status, solved, extraction, judged, edits>>

\* _registry(): the frozen models and the extracted ones, no name twice.
Register ==
  /\ loaded # None /\ registry = None
  /\ Extractable(declared, loaded)
  /\ DOMAIN Frozen(declared) \cap DOMAIN declared.paths = {}
  /\ registry' = Merged(Frozen(declared), Extracted(declared, loaded, board))
  /\ extraction' = [from |-> loaded, digest |-> board]
  /\ loaded' = None
  /\ UNCHANGED <<declared, engine, exited, board, plan, vectors, results, runs,
                 gate, status, solved, judged, edits>>

RefuseModels ==
  /\ loaded # None /\ registry = None
  /\ \/ ~Extractable(declared, loaded)
     \/ DOMAIN Frozen(declared) \cap DOMAIN declared.paths # {}
  /\ EndGate("error")
  /\ UNCHANGED <<declared, engine, exited, board, registry, runs, extraction,
                 judged, edits>>

\* A gate whose manifest key is absent does not apply.
SkipProvenance ==
  /\ Gate = "SIM.MODEL_PROVENANCE" /\ declared.frozen = None
  /\ EndGate("not_applicable")
  /\ UNCHANGED <<declared, engine, exited, board, registry, runs, extraction,
                 judged, edits>>

OfThisBoard(models, digest) ==
  \A i \in DOMAIN models : models[i].digest \in {None, digest}

JudgeProvenance ==
  /\ Gate = "SIM.MODEL_PROVENANCE" /\ registry # None
  /\ judged' = board
  /\ EndGate(IF OfThisBoard(registry, board) THEN "pass" ELSE "fail")
  /\ UNCHANGED <<declared, engine, exited, board, registry, runs, extraction, edits>>

-----------------------------------------------------------------------------
(* _stages(): every scenario once, the first one that raises ending all.   *)

Executing ==
  /\ ExecutesScenarios /\ registry # None /\ runs = None
  /\ Len(results) < Len(declared.entries)

Upcoming == Len(results) + 1

Dead == engine = "shared" /\ exited

StartScenario ==
  /\ Executing /\ plan = None
  /\ Runnable(Entry(Upcoming), registry)
  /\ engine # "none" /\ ~Dead
  /\ plan' = Entry(Upcoming).analyses
  /\ vectors' = <<>>
  /\ UNCHANGED <<declared, engine, exited, board, loaded, registry, results, runs,
                 gate, status, solved, extraction, judged, edits>>

\* No engine: a result that says so.
ReportUnavailable ==
  /\ Executing /\ plan = None
  /\ Runnable(Entry(Upcoming), registry)
  /\ engine = "none"
  /\ results' = Append(results, NotRun("backend-unavailable"))
  /\ UNCHANGED <<declared, engine, exited, board, loaded, registry, plan, vectors,
                 runs, gate, status, solved, extraction, judged, edits>>

\* A refused scenario, and an engine that has exited, raise.
RefuseScenario ==
  /\ Executing /\ plan = None
  /\ ~Runnable(Entry(Upcoming), registry) \/ Dead
  /\ EndGate("error")
  /\ UNCHANGED <<declared, engine, exited, board, registry, runs, extraction,
                 judged, edits>>

\* Where a measured value is kept: a file of its own, or one place for every
\* measurement that takes the same thing from the same node.
Slot(m) == IF engine = "shared" THEN <<m.node, Reduction[m.kind]>> ELSE <<m.name>>

\* One analysis, its vectors read right after it.
Analyse ==
  /\ Executing /\ plan # None
  /\ plan # <<>>
  /\ LET s == Entry(Upcoming)
         mine == {m \in s.measurements : Family[m.kind] = Head(plan)}
         read == [slot \in {Slot(m) : m \in mine} |->
                    Value(s, Nominal(s, registry),
                          CHOOSE m \in mine : Slot(m) = slot)]
     IN  vectors' = Merged(read, vectors)
  /\ plan' = Tail(plan)
  /\ solved' = solved \cup {<<Upcoming, Head(plan)>>}
  /\ UNCHANGED <<declared, engine, exited, board, loaded, registry, results, runs,
                 gate, status, extraction, judged, edits>>

\* A status that is not zero, or an error in the log; the engine that runs in
\* this process may be gone after it.
FailToConverge ==
  /\ Executing /\ plan # None
  /\ exited' \in IF engine = "shared" THEN BOOLEAN ELSE {FALSE}
  /\ results' = Append(results, NotRun("simulation-failed"))
  /\ plan' = None /\ vectors' = <<>>
  /\ UNCHANGED <<declared, engine, board, loaded, registry, runs, gate, status,
                 solved, extraction, judged, edits>>

\* The binary's timeout, and a vector that is missing, raise.
Raise ==
  /\ Executing /\ plan # None
  /\ engine = "binary" \/ plan = <<>>
  /\ EndGate("error")
  /\ UNCHANGED <<declared, engine, exited, board, registry, runs, extraction,
                 judged, edits>>

Complete ==
  /\ Executing /\ plan = <<>>
  /\ LET ms == Entry(Upcoming).measurements
         of(name) == CHOOSE m \in ms : m.name = name
     IN  results' = Append(results,
           [status |-> "ran",
            values |-> [name \in {m.name : m \in ms} |-> vectors[Slot(of(name))]]])
  /\ plan' = None /\ vectors' = <<>>
  /\ UNCHANGED <<declared, engine, exited, board, loaded, registry, runs, gate,
                 status, solved, extraction, judged, edits>>

CacheRuns ==
  /\ ExecutesScenarios /\ registry # None /\ runs = None
  /\ Len(results) = Len(declared.entries)
  /\ runs' = results
  /\ UNCHANGED <<declared, engine, exited, board, loaded, registry, plan, vectors,
                 results, gate, status, solved, extraction, judged, edits>>

-----------------------------------------------------------------------------
(* The verdicts on what was executed.                                      *)

ExecutedAndMet(i) ==
  /\ runs[i].status = "ran"
  /\ \A m \in Asserted(i) : MeasuredVerdict(m, runs[i].values[m.name]) = "PASS"

JudgeScenarios ==
  /\ Gate = "SIM.SCENARIOS" /\ runs # None
  /\ EndGate(IF \A i \in DOMAIN runs : ExecutedAndMet(i) THEN "pass" ELSE "fail")
  /\ UNCHANGED <<declared, engine, exited, board, registry, runs, extraction,
                 judged, edits>>

StageCovered(stage) ==
  \E i \in DOMAIN runs :
    /\ declared.entries[i].stage = stage
    /\ runs[i].status = "ran"
    /\ Asserted(i) # {}

JudgeStageCoverage ==
  /\ Gate = "SIM.STAGE_COVERAGE" /\ runs # None
  /\ EndGate(IF \A stage \in declared.required : StageCovered(stage)
             THEN "pass" ELSE "fail")
  /\ UNCHANGED <<declared, engine, exited, board, registry, runs, extraction,
                 judged, edits>>

Next ==
  \/ Edit \/ Load \/ Register \/ RefuseModels \/ SkipProvenance \/ JudgeProvenance
  \/ StartScenario \/ ReportUnavailable \/ RefuseScenario
  \/ Analyse \/ FailToConverge \/ Raise \/ Complete \/ CacheRuns
  \/ JudgeScenarios \/ JudgeStageCoverage

Spec == Init /\ [][Next]_vars

-----------------------------------------------------------------------------
(* What the models stand for.                                              *)

\* The resistances a model's element may really have, on board b.
Real(model, b) ==
  IF model.path # None
  THEN LET net == Boards[b][model.path] IN RealOhms(net, net.from, net.to)
  ELSE IF model.claim = None THEN {model.ohms}
       ELSE {o \in Ohms : Admits(model.claim, o)}

RealAssignments(s, models, b) ==
  LET of(name) == CHOOSE e \in Passive(s) : e.name = name
      may(name) == IF IsModel(of(name)) THEN Real(models[of(name).model], b)
                   ELSE {of(name).value}
  IN  {f \in [{e.name : e \in Passive(s)} -> Ohms] :
         \A name \in DOMAIN f : f[name] \in may(name)}

\* The models of a declaration, those of its paths measured on one board and
\* bound to the digest of another.
ModelsOf(d, from, digest) == Merged(Frozen(d), Extracted(d, from, digest))

\* Everything declared is measured on board b, no name is used twice, and a
\* model that is bound to a board is bound to b.
AllOf(d, b) ==
  /\ Extractable(d, b)
  /\ DOMAIN Frozen(d) \cap DOMAIN d.paths = {}
  /\ OfThisBoard(ModelsOf(d, b, b), b)

\* A path that is declared is one of the board's.
ASSUME PathsAreNets ==
  \A b \in DOMAIN Boards :
    /\ \A path \in DOMAIN Boards[b] : IsNet(Boards[b][path])
    /\ \A d \in Declarations : \A alias \in DOMAIN d.paths :
         d.paths[alias] \in DOMAIN Boards[b]

\* A model's deck has the resistance at which its claim ends, and a frozen
\* model that is bound to a board was extracted from it.
ASSUME FrozenModelsAgree ==
  \A d \in Declarations : \A i \in DOMAIN Frozen(d) :
    LET model == Frozen(d)[i]
    IN  /\ model.ohms \in Nat
        /\ model.claim # None =>
             /\ model.claim.knowledge \in {"exact", "lower_bound"} =>
                  model.claim.lower = model.ohms
             /\ model.claim.knowledge \in {"exact", "upper_bound"} =>
                  model.claim.upper = model.ohms
        /\ model.path # None =>
             /\ model.digest \in DOMAIN Boards
             /\ model.path \in DOMAIN Boards[model.digest]
             /\ LET net == Boards[model.digest][model.path]
                IN  /\ Measurable(net, net.from, net.to)
                    /\ model.claim = ResistanceClaim(net, net.from, net.to)
                    /\ model.ohms = SeriesOhms(net, net.from, net.to)

\* Elements have two nodes, and some resistance leads out of every set of
\* nodes that no source drives: nothing floats.
ASSUME CircuitsAreTied ==
  \A d \in Declarations : \A i \in DOMAIN d.entries :
    LET s == d.entries[i].scenario
    IN  /\ \A e \in s.elements : e.nodes = <<e.nodes[1], e.nodes[2]>>
        /\ \A m \in s.measurements : \E e \in s.elements : m.node \in Nodes(e)
        /\ \A instant \in {1, 2} : Driven(s, instant) \in [DrivenNodes(s) -> Int]
        /\ \A nodes \in (SUBSET Free(s)) \ {{}} : \E e \in Passive(s) :
             Nodes(e) \cap nodes # {} /\ ~ Nodes(e) \subseteq nodes

\* Every voltage is a whole number, with the resistances of the decks and
\* with those that are real.
ASSUME VoltagesAreWhole ==
  /\ Ohms \subseteq 1..Scale /\ Rail \in Nat
  /\ \A d \in Declarations : \A b \in DOMAIN Boards :
       AllOf(d, b) =>
         \A i \in DOMAIN d.entries :
           LET s == d.entries[i].scenario
               models == ModelsOf(d, b, b)
               nominal == Nominal(s, models)
           IN  Runnable(s, models) =>
                 /\ \A name \in DOMAIN nominal : nominal[name] \in Ohms
                 /\ \A ohms \in RealAssignments(s, models, b) \cup {nominal} :
                      \A instant \in {1, 2} : Solutions(s, ohms, instant) # {}

\* The real circuit does what was asserted of it.
TrueOf(s, m, models, b) ==
  \A ohms \in RealAssignments(s, models, b) : Meets(Value(s, ohms, m), m.assertion)

\* The author's own word, for which the author answers.
Vouched(m) == m.knowledge # None /\ m.knowledge.basis # "derived"

\* No other measurement takes the same thing from the same node.
AnsweredAlone(s, m) ==
  \A n \in s.measurements :
    n.node = m.node /\ Reduction[n.kind] = Reduction[m.kind] =>
      Family[n.kind] = Family[m.kind]

\* Every source raises its node above the ground.
DrivenUp(s) ==
  \A i \in {1, 2} : \A n \in DOMAIN Driven(s, i) : Driven(s, i)[n] >= 0

\* The board was not replaced between its reading and its hashing.
ReadAsHashed == extraction.from = extraction.digest

Ended(g, how) == g \in DOMAIN status /\ status[g] = how
AllPassed == \A g \in ToSet(Gates) : Ended(g, "pass")

\* What is connected to the measured node, as the least set that is closed.
Connected(s, m) ==
  LET nodes == {m.node} \cup UNION {Signals(e) : e \in s.elements}
      closed == {ns \in SUBSET nodes :
                   /\ m.node \in ns
                   /\ \A e \in s.elements :
                        Signals(e) \cap ns # {} => Signals(e) \subseteq ns}
  IN  {e \in s.elements : \A ns \in closed : Signals(e) \cap ns # {}}

-----------------------------------------------------------------------------
\* A validation whose three simulation gates pass asserts only what is true
\* of the board it hashed: whatever the vias that the models leave out add,
\* whatever resistance a bounded part has, and whichever board a model was
\* extracted from.  Exempt are assertions on the author's own word, and the
\* two cases of which SimulationShared and SimulationPolarity show that the
\* code gets them wrong (g_simulation.py, ngspice.py, scenario.py,
\* extract.py).
PassedAssertionsHold ==
  AllPassed /\ ReadAsHashed =>
    \A i \in DOMAIN runs : \A m \in Asserted(i) :
      /\ ~Vouched(m)
      /\ engine = "shared" => AnsweredAlone(Entry(i), m)
      /\ m.knowledge # None => DrivenUp(Entry(i))
      => TrueOf(Entry(i), m, registry, judged)

\* When SIM.SCENARIOS and SIM.STAGE_COVERAGE pass, every analysis of every
\* declared scenario was completed by an engine for the very results that
\* were judged, however often the stages were begun; every required stage
\* has an assertion that was met; and where coverage is required, every
\* model in the connected circuit of a measurement accounts for it
\* (g_simulation.py:136-248, scenario.py:392-535).
PassingStagesWereProven ==
  Ended("SIM.SCENARIOS", "pass") /\ Ended("SIM.STAGE_COVERAGE", "pass") =>
    /\ \A i \in DOMAIN declared.entries : \A a \in ToSet(Entry(i).analyses) :
         <<i, a>> \in solved
    /\ \A stage \in declared.required : \E i \in DOMAIN runs :
         /\ declared.entries[i].stage = stage
         /\ \E m \in Asserted(i) :
              MeasuredVerdict(m, runs[i].values[m.name]) = "PASS"
    /\ \A i \in DOMAIN runs : \A m \in Entry(i).measurements :
         LET s == Entry(i)
             models == {registry[x] : x \in Models(Connected(s, m))}
         IN  /\ s.requirement # None =>
                  \A ph \in DOMAIN s.requirement : \A x \in models :
                    Account(x, ph) \in s.requirement[ph] \cup {"not_applicable"}
             /\ UsableForDesign(s, registry) =>
                  \A e \in Connected(s, m) :
                    ~IsModel(e) => e.name \in DOMAIN s.assumptions

\* "a later analysis must never answer for an earlier one's measurements"
\* (ngspice.py:206-209): what a measurement reports is what its own analysis
\* found.
MeasuredByItsOwnAnalysis ==
  runs # None =>
    \A i \in DOMAIN runs : \A m \in Entry(i).measurements :
      runs[i].status = "ran" =>
        runs[i].values[m.name] = Value(Entry(i), Nominal(Entry(i), registry), m)

\* "unsupported circuits never receive theorem-level provenance"
\* (ngspice.py:578): a bound that was derived from the circuit is a bound.
DerivedBoundsHold ==
  AllPassed /\ ReadAsHashed =>
    \A i \in DOMAIN runs : \A m \in Asserted(i) :
      m.knowledge # None /\ m.knowledge.basis = "derived" =>
        TrueOf(Entry(i), m, registry, judged)
=============================================================================
