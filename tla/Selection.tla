----------------------------- MODULE Selection ------------------------------
(***************************************************************************)
(* What a requirements file gets from the approved catalog                 *)
(* (pcbqa/fabricators/selection.py): a profile or the requirements that    *)
(* reject it, the published constructions that describe it, and the stack  *)
(* that export-stackup writes for a board.                                 *)
(*                                                                         *)
(* Requirements are a record with layers, thickness, impedance, material,  *)
(* outer, inner, track, space, drill and via; a key that is not given is   *)
(* None and one that is no positive finite number is Bad.                  *)
(***************************************************************************)
EXTENDS FabPages

CONSTANT Bad

Composable == 2      \* _COMPOSABLE_COPPER_LAYERS
Given(v) == v # None

Largest(S) == CHOOSE x \in S : \A y \in S : y <= x
Smallest(S) == CHOOSE x \in S : \A y \in S : x <= y

\* Raised before anything is judged: a required key that is missing, or a
\* value that is not a number a check could use.  The inner weight of a board
\* without inner layers is not read as a number, only rejected.
Malformed(q) ==
  \/ q.thickness = None
  \/ \E v \in {q.layers, q.thickness, q.outer, q.track, q.space, q.drill, q.via} : v = Bad
  \/ q.layers > Composable /\ q.inner = Bad

-----------------------------------------------------------------------------
\* The discrete counts decide where the catalog has them; the range is the
\* only evidence where it has not.
LayersOffered(c, q) ==
  LET discrete == Stated(c, "layer options")
  IN  IF discrete # {} THEN \E r \in discrete : q.layers \in r.counts
      ELSE \E r \in Stated(c, "layer range") : Covers(r, q.layers)

Restricted(c, thickness, layers) ==
  \E r \in Stated(c, "restriction") :
    r.thickness = thickness /\ layers \in r.excluded

\* An impedance build is ordered from its layer section's own list, an
\* ordinary one from the global list less the stated restrictions.
ThicknessOffered(c, q) ==
  /\ q.material = "FR4"
  /\ \/ /\ q.impedance
        /\ \E r \in Stated(c, "section thickness") :
             r.section = q.layers /\ q.thickness \in r.values
     \/ /\ ~ q.impedance
        /\ \E r \in Stated(c, "thickness") : q.thickness \in r.values
        /\ ~ Restricted(c, q.thickness, q.layers)

-----------------------------------------------------------------------------
\* The copper options whose stated scope covers this board class.  The
\* stated default is itself a record of the inner position.
CopperKinds(position) ==
  IF position = "outer"
  THEN {"multilayer copper", "2-layer copper", "section outer options",
        "outer options", "heavy outer options"}
  ELSE {"finished inner options", "inner default", "section inner options",
        "inner options"}

CopperRecords(c, position, layers) ==
  {r \in UNION {Stated(c, w) : w \in CopperKinds(position)} : Covers(r, layers)}

Options(records) == UNION {r.weights : r \in records}

\* One weight for one position, or None.  A record whose availability the
\* fabricator itself qualifies leaves nothing but the stated default.
PickWeight(c, position, required, layers) ==
  LET records == CopperRecords(c, position, layers)
      offered == Options({r \in records : ~ r.conditional})
      stated == IF position = "outer" THEN {}
                ELSE Options(Stated(c, "inner default"))
      chosen(w) == [weight |-> w, rejected |-> FALSE]
      rejected == [weight |-> None, rejected |-> TRUE]
  IN  IF records = {} THEN [weight |-> None, rejected |-> Given(required)]
      ELSE IF Given(required)
      THEN IF \/ (\E r \in records : r.conditional) /\ required \notin stated
              \/ required \notin offered
           THEN rejected ELSE chosen(required)
      ELSE IF stated \cap Options(records) # {}
           THEN chosen(CHOOSE w \in stated : TRUE)
           ELSE IF offered = {} THEN rejected ELSE chosen(Smallest(offered))

Outer(c, q) == PickWeight(c, "outer", q.outer, q.layers)

Inner(c, q) ==
  IF q.layers > Composable THEN PickWeight(c, "inner", q.inner, q.layers)
  ELSE [weight |-> None, rejected |-> Given(q.inner)]

-----------------------------------------------------------------------------
\* The limits published for a weight at a layer count: none is borrowed from
\* a neighbour, and the strictest of them decides.
TraceLimits(c, weight, layers) ==
  {r \in Stated(c, "trace") \cup Stated(c, "design rule") :
     weight \in r.weights /\ Covers(r, layers)}

TraceOffered(c, q) ==
  LET weights == {Outer(c, q).weight}
                   \cup (IF q.layers > Composable THEN {Inner(c, q).weight} ELSE {})
  IN  \/ ~ Given(q.track) /\ ~ Given(q.space)
      \/ \A w \in weights :
           /\ Given(w)
           /\ TraceLimits(c, w, q.layers) # {}
           /\ \A r \in TraceLimits(c, w, q.layers) :
                /\ Given(q.track) => q.track >= r.track
                /\ Given(q.space) => q.space >= r.space

\* The one rule of a category for this board class: the covering records
\* intersected, and no rule where that leaves nothing.
DrillOffered(c, q) ==
  LET rules == {r \in Stated(c, "drill") : Covers(r, q.layers)}
  IN  \/ ~ Given(q.drill)
      \/ /\ rules # {}
         /\ Largest({r.min : r \in rules}) <= Smallest({r.max : r \in rules})
         /\ q.drill >= Largest({r.min : r \in rules})

ViaOffered(c, q) ==
  LET rules == {r \in Stated(c, "via") : Covers(r, q.layers)}
  IN  \/ ~ Given(q.via)
      \/ /\ rules # {}
         /\ q.via >= Largest({r.diameter : r \in rules})

-----------------------------------------------------------------------------
\* Mutant: what the construction is published for is not looked at.
CandidatesOfAnyPurpose(c, q) ==
  {s \in Stated(c, "construction") :
     /\ s.coppers = q.layers /\ s.nominal = q.thickness
     /\ Given(Outer(c, q).weight) /\ s.outer = Outer(c, q).weight}

\* A construction is a candidate only for the configuration it is published
\* for: same layers, thickness, purpose and copper.
Candidates(c, q) ==
  {s \in Stated(c, "construction") :
     /\ s.coppers = q.layers
     /\ s.nominal = q.thickness
     /\ s.default # q.impedance
     /\ Given(Outer(c, q).weight) /\ s.outer = Outer(c, q).weight
     /\ q.layers > Composable =>
          Given(Inner(c, q).weight) /\ s.inner = Inner(c, q).weight}

PublishedAt(c, layers) == \E s \in Stated(c, "construction") : s.coppers = layers

ImpedanceOffered(c, q) ==
  q.impedance =>
    /\ \E r \in Stated(c, "impedance counts") : q.layers \in r.counts
    /\ Candidates(c, q) # {}

Rejections(c, q) ==
  {x \in {"copper_layers", "board_thickness_mm", "outer_copper_oz",
          "inner_copper_oz", "min_track_mm", "min_drill_mm",
          "min_via_diameter_mm", "impedance_control"} :
     \/ x = "copper_layers" /\ ~ LayersOffered(c, q)
     \/ x = "board_thickness_mm" /\ ~ ThicknessOffered(c, q)
     \/ x = "outer_copper_oz" /\ Outer(c, q).rejected
     \/ x = "inner_copper_oz" /\ Inner(c, q).rejected
     \/ x = "min_track_mm" /\ ~ TraceOffered(c, q)
     \/ x = "min_drill_mm" /\ ~ DrillOffered(c, q)
     \/ x = "min_via_diameter_mm" /\ ~ ViaOffered(c, q)
     \/ x = "impedance_control" /\ ~ ImpedanceOffered(c, q)}

\* The promise select makes where no construction is published.
PromisesComposition(c, q) ==
  /\ Rejections(c, q) = {}
  /\ Candidates(c, q) = {} /\ ~ q.impedance
  /\ q.layers = Composable /\ ~ PublishedAt(c, Composable)

Select(c, q) ==
  [rejections |-> Rejections(c, q),
   layers |-> q.layers, thickness |-> q.thickness, impedance |-> q.impedance,
   outer |-> Outer(c, q).weight, inner |-> Inner(c, q).weight,
   candidates |-> {s.name : s \in Candidates(c, q)},
   promised |-> PromisesComposition(c, q)]

-----------------------------------------------------------------------------
\* The dielectric constants stated for exactly this layer count.
ExactConstants(c, layers) ==
  {r.dk : r \in {r \in Stated(c, "board class constant") :
                   r.lo = layers /\ r.hi = layers}}

Foil(c, weight) ==
  LET e == CHOOSE e \in Stated(c, "equivalence") : TRUE
  IN  (weight * e.um) \div 2

\* The two-layer stack composed from stated values: two foils on one
\* laminate.  It is refused where one of those values is not stated.
CanCompose(c, q) ==
  LET weight == Outer(c, q).weight
  IN  /\ Given(weight)
      /\ Stated(c, "equivalence") # {}
      /\ q.thickness - 2 * Foil(c, weight) > 0
      /\ Cardinality(ExactConstants(c, Composable)) = 1

Composed(c, q) ==
  [composed |-> TRUE, name |-> "composed", coppers |-> Composable,
   copper_um |-> Foil(c, Outer(c, q).weight),
   dielectric |-> q.thickness - 2 * Foil(c, Outer(c, q).weight),
   constants |-> ExactConstants(c, Composable)]

\* A published layer's constant is looked up as its page names the layer, and
\* stays absent where the catalog states none.
GenericConstant(c, material) ==
  {r.dk : r \in {r \in Stated(c, "generic prepreg") \cup Stated(c, "generic core") :
                   r.name = material}}

Dielectrics(s) == UNION {{s.spans[i][j] : j \in DOMAIN s.spans[i]} : i \in DOMAIN s.spans}

Published(c, s) ==
  [composed |-> FALSE, name |-> s.name, coppers |-> s.coppers,
   copper_um |-> s.copper_um, dielectric |-> s.total,
   constants |-> UNION {GenericConstant(c, d.material) : d \in Dielectrics(s)}]

\* The construction an export writes: the one asked for, the only candidate,
\* or the composed one where nothing is published.  It never takes a
\* construction that selection does not name.
Exports(c, q, pick) ==
  LET candidates == Candidates(c, q)
      named == IF Given(pick) THEN {s \in candidates : s.name = pick}
               ELSE IF Cardinality(candidates) = 1 THEN candidates ELSE {}
  IN  IF Rejections(c, q) # {} THEN {}
      ELSE IF ~ Given(pick) /\ candidates = {} /\ q.layers = Composable
              /\ ~ PublishedAt(c, Composable)
      THEN IF CanCompose(c, q) THEN {Composed(c, q)} ELSE {}
      ELSE {Published(c, s) : s \in named}

Export(c, q, pick, boardLayers) ==
  {d \in Exports(c, q, pick) : d.coppers = boardLayers}
=============================================================================
