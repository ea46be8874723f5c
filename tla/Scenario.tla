------------------------------ MODULE Scenario ------------------------------
(***************************************************************************)
(* Simulation scenarios: one declared experiment, what it may rest on and  *)
(* what may be concluded from it (pcbqa/sim/scenario.py, model_registry.py *)
(* and the checks of ngspice.py that come before an engine).               *)
(*                                                                         *)
(* A scenario has elements between named nodes, measurements of node       *)
(* voltages, and what it asks of the models its elements instantiate.  A   *)
(* registry is a function from identities to models.  Capacitors and       *)
(* inductors are left out: every ideal element but a source is a resistor. *)
(***************************************************************************)
EXTENDS Copper, FiniteSetsExt, SequencesExt

CONSTANT None    \* nothing declared

Ground == "0"

Nodes(e) == ToSet(e.nodes)
Signals(e) == Nodes(e) \ {Ground}
IsModel(e) == e.kind = "model_instance"
IsSource(e) == e.kind \in {"vsource_dc", "vsource_pulse"}
Models(elements) == {e.model : e \in {x \in elements : IsModel(x)}}

\* Which analysis answers a measurement, and what it takes from the vector.
Family == [op_voltage |-> "op", tran_final_voltage |-> "tran",
           tran_min_voltage |-> "tran", tran_max_voltage |-> "tran"]
Reduction == [op_voltage |-> "last", tran_final_voltage |-> "last",
              tran_min_voltage |-> "min", tran_max_voltage |-> "max"]

Knows(kind, basis) == [kind |-> kind, basis |-> basis]

\* validate_knowledge_declaration(), and no interval: a run has one value.
Declarable(k) ==
  /\ k.kind # "interval"
  /\ k.kind \in Bounded => k.basis # "none"
  /\ k.kind = "exact" => k.basis # "assumed"

\* validate_scenario(), its types and key sets aside.
WellFormed(s) ==
  /\ s.elements # {} /\ s.measurements # {} /\ s.analyses # <<>>
  /\ \A e, f \in s.elements : e.name = f.name => e = f
  /\ \A m, n \in s.measurements : m.name = n.name => m = n
  /\ \A i, j \in DOMAIN s.analyses : s.analyses[i] = s.analyses[j] => i = j
  /\ \A e \in s.elements : e.kind = "resistor" => e.value > 0
  /\ \A m \in s.measurements :
       /\ m.kind \in DOMAIN Family /\ Family[m.kind] \in ToSet(s.analyses)
       /\ m.node # Ground
       /\ m.assertion # None => m.assertion \in Requirements
       /\ m.knowledge # None => Declarable(m.knowledge)
  /\ \A name \in DOMAIN s.assumptions :
       \E e \in s.elements : e.name = name /\ ~IsModel(e)

-----------------------------------------------------------------------------
\* Mutant: an element two nodes away contributes nothing.
ContributorsNextDoor(s, m) == {e \in s.elements : m.node \in Nodes(e)}

\* measurement_contributors(): what is connected to the measured node in any
\* way that does not lead through the ground.
Contributors(s, m) ==
  LET touching(nodes) == {e \in s.elements : Signals(e) \cap nodes # {}}
      reach[k \in 0..Cardinality(s.elements)] ==
        IF k = 0 THEN {m.node}
        ELSE reach[k - 1] \cup UNION {Signals(e) : e \in touching(reach[k - 1])}
  IN  touching(reach[Cardinality(s.elements)])

\* How a model accounts for a phenomenon; silence is not irrelevance.
Account(model, phenomenon) ==
  IF phenomenon \in DOMAIN model.evidence
  THEN model.evidence[phenomenon] ELSE "silent"

\* contributor_coverage_report(), of one measurement.
CoverageMet(s, registry, m) ==
  LET models == {registry[i] : i \in Models(Contributors(s, m))}
  IN  \A phenomenon \in DOMAIN s.requirement :
        LET accepted == s.requirement[phenomenon]
        IN  /\ \A x \in models :
                 Account(x, phenomenon) \in accepted \cup {"not_applicable"}
            /\ \E x \in models : Account(x, phenomenon) \in accepted

Covered(s, registry) ==
  s.requirement # None => \A m \in s.measurements : CoverageMet(s, registry, m)

\* condition_coverage(): a model fixed at one temperature covers only that.
ConditionsCovered(s, registry) ==
  s.temperature # None =>
    \A i \in Models(s.elements) :
      LET range == registry[i].temperatures
      IN  range # None /\ s.temperature \in range

Assumed(m) == m.knowledge # None /\ m.knowledge.basis = "assumed"

\* assumption_dependencies(): every ideal contributor declared and accepted.
AssumptionsAccepted(s) ==
  \A m \in s.measurements :
    /\ ~Assumed(m)
    /\ \A e \in Contributors(s, m) :
         ~IsModel(e) => e.name \in DOMAIN s.assumptions /\ s.assumptions[e.name]

\* _attach_result_policy(), of a result that ran.
UsableForDesign(s, registry) ==
  /\ s.requirement # None /\ Covered(s, registry)
  /\ ConditionsCovered(s, registry)
  /\ AssumptionsAccepted(s)

-----------------------------------------------------------------------------
(* What may be said about a measured voltage.                              *)

\* What is known of a two-terminal element's resistance.
ResistanceKnown(e, registry) ==
  IF e.kind = "resistor" THEN "exact"
  ELSE IF IsModel(e) /\ registry[e.model].claim # None
       THEN registry[e.model].claim.knowledge
       ELSE "none"

\* The voltage over the load falls as the series resistance rises.
Opposite == [lower_bound |-> "upper_bound", upper_bound |-> "lower_bound",
             exact |-> "exact"]

Supply(source) ==
  IF source.nodes[1] # Ground THEN source.nodes[1] ELSE source.nodes[2]

\* derive_measurement_knowledge(): the series divider, and nothing else on
\* either node.
Divider(s, m, source, series, load) ==
  /\ {e \in s.elements : e.kind = "vsource_dc"} = {source}
  /\ m.node \notin Nodes(source) /\ Supply(source) # Ground
  /\ s.elements = {source, series, load}
  /\ load.kind = "resistor" /\ Nodes(load) = {m.node, Ground}
  /\ Nodes(series) = {Supply(source), m.node}

DerivedKinds(s, registry, m) ==
  {Opposite[ResistanceKnown(series, registry)] :
     series \in {x \in s.elements :
       /\ \E source, load \in s.elements : Divider(s, m, source, x, load)
       /\ ResistanceKnown(x, registry) \in DOMAIN Opposite}}

\* _verify_derived_knowledge(): a theorem that cannot be reproduced refuses.
DerivationStands(s, registry) ==
  \A m \in s.measurements :
    m.knowledge # None /\ m.knowledge.basis = "derived" =>
      DerivedKinds(s, registry, m) = {m.knowledge.kind}

\* _refuse_undeclared_knowledge(): silence never means exact.
SilenceIsExact(s, registry) ==
  \A m \in s.measurements :
    m.assertion # None /\ m.knowledge = None =>
      \A e \in Contributors(s, m) :
        IsModel(e) /\ registry[e.model].claim # None =>
          registry[e.model].claim.knowledge = "exact"

\* What run_scenario() refuses before it looks for an engine.
Runnable(s, registry) ==
  /\ WellFormed(s)
  /\ Models(s.elements) \subseteq DOMAIN registry
  /\ Covered(s, registry)
  /\ SilenceIsExact(s, registry)
  /\ DerivationStands(s, registry)

\* _assemble_measurements(): the claim a measured value makes.
MeasuredClaim(m, value) ==
  LET k == IF m.knowledge = None THEN Knows("exact", "none") ELSE m.knowledge
      endpoint(side) ==
        IF k.kind \in {"exact", "approximate", side} THEN value ELSE NoBound
  IN  Claimed(k.kind, endpoint("lower_bound"), endpoint("upper_bound"), k.basis,
              k.kind \in Bounded)

MeasuredVerdict(m, value) == Verdict(MeasuredClaim(m, value), m.assertion)
=============================================================================
