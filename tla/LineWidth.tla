------------------------------ MODULE LineWidth ------------------------------
(***************************************************************************)
(* The width a controlled line needs on an approved construction           *)
(* (pcbqa/fabricators/impedance.py): which facts of the catalog the solver *)
(* resolves or refuses, how it inverts a formula that is made of two       *)
(* branches, and what the result may be used for.                          *)
(*                                                                         *)
(* The closed forms are taken as tables: for each topology a narrow and a  *)
(* wide branch over the mean widths 1..Widest, each strictly decreasing,   *)
(* and the width at which production changes from one to the other.  A     *)
(* root is <<w, w>> where a table width meets the target and <<w, w + 1>>  *)
(* where the branch passes it between two of them.                         *)
(***************************************************************************)
EXTENDS Selection

CONSTANTS
  Forms,     \* [Topologies -> closed form] for the constructions considered
  Widest,    \* bound: the widest mean width of a table
  Grid       \* micrometres from one width of a table to the next

Bare == "external-microstrip-bare"
Coated == "external-microstrip-coated"
Stripline == "symmetric-stripline"
Topologies == {Bare, Coated, Stripline}

Falls(z, S) == \A v, w \in S : v < w => z[v] > z[w]

ASSUME FormsFall ==
  /\ Widest \in Nat
  /\ \A form \in Forms : \A topology \in Topologies :
       /\ form[topology].seam \in Int
       /\ \A branch \in {"narrow", "wide"} :
            /\ form[topology][branch] \in [1..Widest -> Int]
            /\ Falls(form[topology][branch], 1..Widest)

One(S) == Cardinality(S) = 1
Only(S) == CHOOSE x \in S : TRUE

-----------------------------------------------------------------------------
(* What is asked: the line is on copper "signal" of a construction, over   *)
(* the planes "references" (a sequence as it was typed).                   *)
WellPosed(line) ==
  /\ line.known                              \* no key the solver does not know
  /\ line.mode = "single-ended"
  /\ line.mask \in BOOLEAN
  /\ Bad \notin {line.target, line.min, line.max}
  /\ line.min < line.max

Referred(line) == {line.references[i] : i \in DOMAIN line.references}

External(s, line) == line.signal \in {1, s.coppers}

\* The planes next to the signal, and the spans of dielectric towards them.
Adjacent(s, line) == {line.signal - 1, line.signal + 1} \cap (1..s.coppers)
Touched(s, line) == {line.signal - 1, line.signal} \cap (1..(s.coppers - 1))

\* The impedance-model constant of one layer: a prepreg by its sheet name
\* within the family, a core by its exact thickness, else by the family's
\* open-ended entry.  Nothing is borrowed from a neighbour.
DielectricRecord(c, family, d) ==
  LET cores == {r \in Stated(c, "model core") : r.family = family}
      exact == {r \in cores : ~ r.open /\ r.thickness = d.thickness}
  IN  IF d.form = "prepreg"
      THEN {r \in Stated(c, "model prepreg") :
              r.family = family /\ r.material = d.material}
      ELSE IF exact # {} THEN exact
           ELSE {r \in cores : r.open /\ d.thickness > r.thickness}

Family(c, layers) == {r \in Stated(c, "material family") : Covers(r, layers)}

ConductorRecord(c, position, weight) ==
  {r \in Stated(c, "finished copper") :
     r.position = position /\ weight \in r.weights}

\* The signal's copper, and the layer of dielectric on each touched side.
Weight(c, q, s, line) ==
  IF External(s, line) THEN Outer(c, q).weight ELSE Inner(c, q).weight
Position(s, line) == IF External(s, line) THEN "external" ELSE "internal"
Sides(s, line) == {s.spans[i][1] : i \in Touched(s, line)}

\* Where the line is: on a copper layer of a construction that selection
\* names, over the planes next to it, each of them declared once.
Placed(c, q, s, line) ==
  /\ Rejections(c, q) = {}
  /\ s \in Candidates(c, q) /\ s.name = line.stackup
  /\ line.signal \in 1..s.coppers
  /\ Len(line.references) = Cardinality(Referred(line))
  /\ Referred(line) = Adjacent(s, line)

\* A mask lies on an outer layer only, and its one constant between that of
\* air and that of the substrate.
MaskAccepted(c, s, line, substrate) ==
  LET masks == Stated(c, "mask constant")
  IN  line.mask => /\ External(s, line)
                   /\ One(masks)
                   /\ 10 <= Only(masks).dk /\ Only(masks).dk <= substrate

\* resolve_context(): every fact of the geometry, each from exactly one
\* record, or a refusal.  A stripline has one dielectric on each side, equal
\* in thickness and record.
Resolves(c, q, s, line) ==
  LET family == Only(Family(c, q.layers)).family
      records == UNION {DielectricRecord(c, family, d) : d \in Sides(s, line)}
  IN  /\ Placed(c, q, s, line)
      /\ One(Family(c, q.layers))
      /\ \A i \in Touched(s, line) : Len(s.spans[i]) = 1
      /\ One({d.thickness : d \in Sides(s, line)})
      /\ \A d \in Sides(s, line) : DielectricRecord(c, family, d) # {}
      /\ One(records)
      /\ One(ConductorRecord(c, Position(s, line), Weight(c, q, s, line)))
      /\ MaskAccepted(c, s, line, Only(records).dk)

Topology(s, line) ==
  IF ~ External(s, line) THEN Stripline ELSE IF line.mask THEN Coated ELSE Bare

\* What the finished trace is narrower at the top than the drawn one, halved:
\* nothing where the catalog does not say.
Trim(c) ==
  IF Stated(c, "trace top width") = {} THEN 0
  ELSE Only(Stated(c, "trace top width")).trim

\* The accepted range binds a target only where the profile orders the
\* controlled process, and then it has to be stated.
TargetAccepted(c, q, line) ==
  q.impedance => \E r \in Stated(c, "impedance range") :
                   r.min <= line.target /\ line.target <= r.max

-----------------------------------------------------------------------------
(* The inverse.  A problem is a closed form over drawn widths lo..hi, with *)
(* its seam and the side that owns the seam: production says "u <= 1" for  *)
(* a microstrip and "< 0.35" for a stripline.                              *)
Owner(topology) == IF topology = Stripline THEN "right" ELSE "left"

Problem(form, topology, trim, lo, hi) ==
  [lo |-> lo, hi |-> hi,
   seam |-> form[topology].seam + trim, owner |-> Owner(topology),
   narrow |-> [w \in lo..hi |-> form[topology].narrow[w - trim]],
   wide |-> [w \in lo..hi |-> form[topology].wide[w - trim]]]

\* The production formula, without a forced branch.
InNarrow(p, w) == w < p.seam \/ (w = p.seam /\ p.owner = "left")
Production(p, w) == IF InNarrow(p, w) THEN p.narrow[w] ELSE p.wide[w]

Piece(a, aClosed, b, bClosed, z) ==
  [a |-> a, aClosed |-> aClosed, b |-> b, bClosed |-> bClosed, z |-> z]

\* Mutant: both pieces own the seam.
PiecesSharingTheSeam(p) ==
  IF p.lo <= p.seam /\ p.seam <= p.hi
  THEN {Piece(p.lo, TRUE, p.seam, TRUE, p.narrow),
        Piece(p.seam, TRUE, p.hi, TRUE, p.wide)}
  ELSE {Piece(p.lo, TRUE, p.hi, TRUE,
              [w \in p.lo..p.hi |-> Production(p, w)])}

\* The closed domain cut at the seam.  The owner's piece keeps the seam, even
\* where that leaves it a single point.
Pieces(p) ==
  IF p.lo <= p.seam /\ p.seam <= p.hi
  THEN {Piece(p.lo, TRUE, p.seam, p.owner = "left", p.narrow),
        Piece(p.seam, p.owner = "right", p.hi, TRUE, p.wide)}
  ELSE {Piece(p.lo, TRUE, p.hi, TRUE,
              [w \in p.lo..p.hi |-> Production(p, w)])}

\* Where bisection ends on a decreasing branch: at the target or around it.
Bisect(x, target) ==
  {<<w, w>> : w \in {w \in x.a..x.b : x.z[w] = target}}
    \cup {<<w, w + 1>> : w \in {w \in x.a..(x.b - 1) :
                                  x.z[w] > target /\ target > x.z[w + 1]}}

\* A target outside the values at the ends is not searched for, nor is the
\* one-sided limit at an end the piece does not own.
Skipped(x, target) ==
  \/ target > x.z[x.a] \/ target < x.z[x.b]
  \/ target = x.z[x.a] /\ ~ x.aClosed
  \/ target = x.z[x.b] /\ ~ x.bClosed

RootsOn(x, target) ==
  IF x.a = x.b
  THEN {<<w, w>> : w \in {w \in {x.a} :
                            x.aClosed /\ x.bClosed /\ x.z[w] = target}}
  ELSE IF Skipped(x, target) THEN {} ELSE Bisect(x, target)

Roots(p, target) == UNION {RootsOn(x, target) : x \in Pieces(p)}

\* The guard against a branch that does not decrease.
Trusted(p) == \A x \in Pieces(p) : x.a = x.b \/ x.z[x.a] > x.z[x.b]

\* What the roots have to be: the widths of the closed domain at which the
\* production formula meets the target, and the gaps between two of them in
\* which the branch that holds there passes it.
Gap(p, w) == IF w < p.seam THEN p.narrow ELSE p.wide
Solutions(p, target) ==
  {<<w, w>> : w \in {w \in p.lo..p.hi : Production(p, w) = target}}
    \cup {<<w, w + 1>> : w \in {w \in p.lo..(p.hi - 1) :
                                  /\ Gap(p, w)[w] > target
                                  /\ target > Gap(p, w)[w + 1]}}

-----------------------------------------------------------------------------
(* The result.                                                             *)
\* Mutant: the most lenient minimum decides.
LaxestTrack(limits) == Smallest({r.track : r \in limits})

StrictestTrack(limits) == Largest({r.track : r \in limits})

\* The strictest published track minimum decides, and without one nothing
\* is established.  A minimum inside the gap of a root is not cleared.
Clears(limits, root) == limits # {} /\ Grid * root[1] >= StrictestTrack(limits)

\* The readings that are solved: a coated line has two.
Readings(topology) == IF topology = Coated THEN {Coated, Bare} ELSE {topology}

\* A point solution is the only root there is; a coated line has none.
Point(topology, roots) ==
  IF topology # Coated /\ One(roots) THEN Only(roots) ELSE None

\* What a coated line gets instead: where its loaded and its bare reading
\* have one root each, in the order loading implies, they bound an interval
\* of the model.  Roots in one gap are not told apart.
Enclosed(loaded, bare) ==
  /\ One(loaded) /\ One(bare)
  /\ loaded = bare \/ Only(loaded)[2] <= Only(bare)[1]

\* The part of that interval from the first width the fabricator routes.
Corridor(limits, loaded, bare) ==
  IF Enclosed(loaded, bare) /\ Clears(limits, Only(bare))
  THEN <<Largest({Grid * Only(loaded)[1], StrictestTrack(limits)}),
         Grid * Only(bare)[2]>>
  ELSE None

\* _result(): each concept of success its own field.
Result(q, topology, limits, roots) ==
  LET point == Point(topology, roots[topology])
      feasible == point # None /\ Clears(limits, point)
  IN  [feasible |-> feasible, width |-> IF feasible THEN point ELSE None,
       eligible |-> feasible /\ q.impedance,
       corridor |-> IF topology = Coated
                    THEN Corridor(limits, roots[Coated], roots[Bare]) ELSE None]

Solve(c, q, s, line, form) ==
  LET topology == Topology(s, line)
      limits == TraceLimits(c, Weight(c, q, s, line), q.layers)
      problems == [t \in Readings(topology) |->
                     Problem(form, t, Trim(c), line.min, line.max)]
      roots == [t \in Readings(topology) |-> Roots(problems[t], line.target)]
  IN  [problems |-> problems, roots |-> roots,
       weight |-> Weight(c, q, s, line), stackup |-> s.name,
       result |-> Result(q, topology, limits, roots)]

\* The widths a table is about; the lower bound is the solver's own refusal.
InTable(c, line) == Trim(c) < line.min /\ line.max - Trim(c) <= Widest

\* solve(): a result, or a refusal.
SolveLine(c, q, line, form) ==
  {Solve(c, q, s, line, form) :
     s \in {s \in Stated(c, "construction") :
              /\ WellPosed(line)
              /\ Resolves(c, q, s, line)
              /\ TargetAccepted(c, q, line)
              /\ InTable(c, line)
              /\ \A t \in Readings(Topology(s, line)) :
                   Trusted(Problem(form, t, Trim(c), line.min, line.max))}}
=============================================================================
