----------------------------- MODULE MCCatalog ------------------------------
(* An instance of Catalog for TLC: the pages as they are last known to be  *)
(* written, and one change of each kind to them.  Lengths in micrometres,  *)
(* weights in half ounces, dielectric constants in tenths.                 *)
EXTENDS Catalog, TLC

CONSTANTS imp1, imp2, imp3, cap1, cap2, cap3, cap4, cap5, cop1, cop2,
          cal1, cal2, thk1, thk2

\* Statements.  They are written out: the coverage of a run expands every
\* definition a constant is made of.
Plain(what) == [what |-> what, reads |-> "whole"]
Part(r) == [r EXCEPT !.reads = "part"]

LayerRange(lo, hi) == [what |-> "layer range", reads |-> "whole", lo |-> lo, hi |-> hi]
Values(what, section, values) ==
  [what |-> what, reads |-> "whole", section |-> section, values |-> values]
Constant(what, name, dk) ==
  [what |-> what, reads |-> "whole", name |-> name, dk |-> dk]
Copper(what, lo, hi, weights, conditional) ==
  [what |-> what, reads |-> "whole", lo |-> lo, hi |-> hi,
   weights |-> weights, conditional |-> conditional]
Row == [what |-> "trace row", reads |-> "whole"]
Trace(w, lo, hi, classed, track) ==
  [what |-> "trace", reads |-> "whole", lo |-> lo, hi |-> hi,
   weights |-> {w}, classed |-> classed, track |-> track, space |-> track]
Rule(cell, lo, hi, track) ==
  [what |-> "design rule", reads |-> "whole", lo |-> lo, hi |-> hi,
   cell |-> cell, weights |-> ToSet(cell), track |-> track, space |-> track]
DrillAndVia(lo, hi, npth, diameter) ==
  <<[what |-> "drill", reads |-> "whole", lo |-> lo, hi |-> hi, min |-> 200, max |-> 6300],
    [what |-> "via", reads |-> "whole", lo |-> lo, hi |-> hi,
     npth |-> npth, diameter |-> diameter]>>
Enumeration(explicit, last) ==
  [what |-> "enumeration", reads |-> "whole", explicit |-> explicit, last |-> last]
BoardConstant(layers, dk, reads) ==
  [what |-> "board class constant", reads |-> reads, lo |-> layers, hi |-> layers,
   dk |-> dk]
Restriction(thickness, excluded) ==
  [what |-> "restriction", reads |-> "whole", thickness |-> thickness,
   excluded |-> excluded]

Most == 32

CapHead == <<
  LayerRange(1, Most), Plain("impedance tolerance"),
  Values("thickness", None, {600, 1600}), Plain("trace coils"),
  Copper("multilayer copper", 4, Most, {2, 4}, FALSE),
  Copper("2-layer copper", 2, 2, {2, 4}, FALSE),
  Copper("inner default", 4, Most, {1}, FALSE)>>

\* The rows of one ounce, two ounces and half an ounce: the last one has a
\* headline alone, and "again" is what the first one states after its clause
\* for two layers.
Traces(twoLayer, again) ==
  <<Row, Trace(2, 1, Most, FALSE, 90), Trace(2, 1, 2, TRUE, twoLayer)>> \o again \o
  <<Trace(2, 4, Most, TRUE, 90), Row, Trace(4, 1, 2, TRUE, 160),
    Row, Trace(1, 1, Most, FALSE, 90)>>

Vias(npth1) == DrillAndVia(1, 1, npth1, 500) \o DrillAndVia(2, 2, FALSE, 450)
                 \o DrillAndVia(4, Most, FALSE, 250)

Cap(traces, counts, vias, constants) ==
  CapHead \o traces \o <<counts>> \o vias \o constants
Ascending == Enumeration(<<4, 6>>, 8)
TwoLayerCore(dk, reads) == BoardConstant(2, dk, reads)

Cop(rule) == <<
  [what |-> "equivalence", reads |-> "whole", um |-> 36],
  Copper("outer options", 1, Most, {2, 4}, FALSE),
  Copper("inner options", 4, Most, {1, 2, 4}, TRUE),
  rule, Part(Rule(<<2>>, 1, 1, 60))>>

Finished(position, weights) ==
  [what |-> "finished copper", reads |-> "whole", position |-> position,
   weights |-> weights]
Sheets(material, dk) ==
  [what |-> "model prepreg", reads |-> "whole", family |-> "NP-155F",
   material |-> material, dk |-> dk]
CalCommon == <<
  Finished("external", {2}), Finished("internal", {1}),
  [what |-> "mask constant", reads |-> "whole", dk |-> 38],
  [what |-> "material family", reads |-> "whole", lo |-> 4, hi |-> Most,
   family |-> "NP-155F"],
  Plain("mask thickness"), Sheets("7628", 44), Sheets("2116", 36),
  [what |-> "model core", reads |-> "whole", family |-> "NP-155F",
   thickness |-> 700, open |-> TRUE, dk |-> 46]>>

ThkBase == <<Plain("stated list"), Restriction(600, {1, 4})>>

Sheet(name) == [form |-> "prepreg", material |-> name, thickness |-> 210]
Core(thickness) == [form |-> "core", material |-> "core", thickness |-> thickness]
Stack(name, default, coded, total) ==
  [what |-> "stackup", reads |-> "whole", name |-> name, section |-> 4,
   coppers |-> 4, default |-> default, coded |-> coded, outer |-> {36},
   inner |-> {15}, clad |-> TRUE, total |-> total,
   spans |-> IF default
             THEN << <<Sheet("7628")>>, <<Sheet("7628")>>,
                     <<Core(400), Sheet("2116")>> >>
             ELSE << <<Sheet("7628")>>, <<Core(1065)>>, <<Sheet("2116")>> >>]

Imp(stacks) == <<
  Constant("generic prepreg", "7628", 44),
  Constant("generic core", "core", 46),
  Values("section thickness", 4, {800, 1600}),
  Copper("section outer options", 4, 4, {2}, FALSE),
  Copper("section inner options", 4, 4, {1}, FALSE),
  Stack("none", TRUE, None, 1580)>> \o stacks

MCPages ==
  [s \in Sources |->
     CASE s = "impedance" -> {imp1, imp2, imp3}
       [] s = "capabilities" -> {cap1, cap2, cap3, cap4, cap5}
       [] s = "copper-weight" -> {cop1, cop2}
       [] s = "impedance-calculator" -> {cal1, cal2}
       [] s = "thickness-options" -> {thk1, thk2}]

MCText ==
  [page \in UNION {MCPages[s] : s \in Sources} |->
     CASE page = imp1 -> Imp(<<Stack("JLC04161H", FALSE, 1600, 1580)>>)
     \* a second construction for the same configuration, under another name too
       [] page = imp2 -> Imp(<<Stack("JLC04161H", FALSE, 1600, 1580),
                               Stack("JLC04161A", FALSE, 1600, 1600)>>)
     \* the impedance-grade construction is renamed
       [] page = imp3 -> Imp(<<Stack("JLC04162H", FALSE, 1600, 1580)>>)
       [] page = cap1 -> Cap(Traces(100, <<>>), Ascending, Vias(TRUE),
                             <<TwoLayerCore(45, "whole")>>)
     \* the dielectric constants are gone, and the 1-layer vias are plated
       [] page = cap2 -> Cap(Traces(100, <<>>), Ascending, Vias(FALSE), <<>>)
     \* the clause for two layers is stated a second time, stricter, with one
     \* of an unknown class beside it, and so is the constant
       [] page = cap3 -> Cap(Traces(100, <<Trace(2, 1, 2, TRUE, 130),
                                           Part(Trace(2, 1, Most, TRUE, 60))>>),
                             Ascending, Vias(TRUE),
                             <<TwoLayerCore(42, "whole"), TwoLayerCore(45, "whole")>>)
     \* the enumeration no longer ascends by two
       [] page = cap4 -> Cap(Traces(100, <<>>), Enumeration(<<4, 6, 9>>, 32),
                             Vias(TRUE), <<TwoLayerCore(45, "whole")>>)
     \* a dielectric constant that is no number
       [] page = cap5 -> Cap(Traces(100, <<>>), Ascending, Vias(TRUE),
                             <<TwoLayerCore(45, "nonsense")>>)
       [] page = cop1 -> Cop(Rule(<<2>>, 1, Most, 120))
       [] page = cop2 -> Cop(Rule(<<2, 4>>, 1, Most, 150))
       [] page = cal1 -> CalCommon \o
            <<[what |-> "impedance range", reads |-> "whole", min |-> 8, max |-> 13],
              [what |-> "trace top width", reads |-> "whole", trim |-> 1],
              Plain("finished inner copper")>>
       [] page = cal2 -> CalCommon
       [] page = thk1 -> ThkBase
       [] page = thk2 -> Append(ThkBase, Restriction(1600, {2}))]

MCMinimum ==
  [group \in {"design rule", "model core", "model prepreg", "generic prepreg",
              "probe", "trace", "drill and via", "restriction", "stackup"} |->
     CASE group \in {"probe", "drill and via"} -> 5
       [] group = "trace" -> 3 [] group = "stackup" -> 2 [] OTHER -> 1]

Start(i, c, w) ==
  [s \in Sources |->
     CASE s = "impedance" -> i [] s = "capabilities" -> c [] s = "copper-weight" -> w
       [] s = "impedance-calculator" -> cal1 [] s = "thickness-options" -> thk1]

HalfWritten == {File("capabilities", cap3), File("impedance", imp1),
          [File("copper-weight", cop1) EXCEPT !.bytes = Torn]}

MCStarts == {
  [site |-> Start(imp1, cap1, cop1), committed |-> TRUE, scratch |-> NoDirectory],
  [site |-> Start(imp1, cap2, cop1), committed |-> FALSE,
   scratch |-> [approved |-> Torn, evidence |-> HalfWritten]]}

MCLimit == [publish |-> 1, adopt |-> 2, refresh |-> 1]

Ask(layers, fields) ==
  fields @@ [layers |-> layers, thickness |-> 1600, impedance |-> FALSE,
             material |-> "FR4", outer |-> None, inner |-> None, track |-> None,
             space |-> None, drill |-> None, via |-> None]

MCRequests == {
  Ask(2, [track |-> 120, space |-> 130, via |-> 450, drill |-> 200]),
  Ask(2, [track |-> 155, outer |-> 4]),
  Ask(2, [thickness |-> 600]),
  Ask(1, [via |-> 500]),
  Ask(4, [impedance |-> TRUE, track |-> 120]),
  Ask(4, [track |-> 120, inner |-> 1, via |-> 300]),
  Ask(4, [inner |-> 4]),
  Ask(4, [thickness |-> 600]),
  Ask(5, [impedance |-> TRUE]),
  Ask(2, [track |-> Bad]),
  Ask(2, [thickness |-> None])}

\* A closed form over six widths: both branches fall by two a step.
Fall(from) == [w \in 1..6 |-> from - 2 * w]
Form(seam, narrow, wide, mask) ==
  [topology \in Topologies |->
     LET raised == IF topology = Coated THEN mask ELSE 0
     IN  [seam |-> seam, narrow |-> Fall(narrow - raised), wide |-> Fall(wide - raised)]]

\* Continuous at the seam, rising there, falling there; in the last one the
\* mask raises the impedance.
MCForms == {Form(3, 16, 16, 2), Form(3, 16, 18, 1), Form(3, 16, 14, -2)}

Line(signal, references, mask, min, target) ==
  [known |-> TRUE, mode |-> "single-ended", mask |-> mask, target |-> target,
   min |-> min, max |-> 6, stackup |-> "JLC04161H", signal |-> signal,
   references |-> references]

\* Two questions come with requirement files that impedance can follow.
MCLines ==
  [q \in MCRequests |->
     IF q = Ask(4, [impedance |-> TRUE, track |-> 120])
     THEN {Line(1, <<2>>, FALSE, min, target) :
             min \in {2, 4}, target \in {8, 10}}
            \cup {Line(1, <<2>>, TRUE, 2, target) : target \in {7, 8, 10}}
            \cup {Line(2, <<1, 3>>, FALSE, 2, 10)}
     ELSE IF q = Ask(4, [track |-> 120, inner |-> 1, via |-> 300])
     THEN {[Line(2, <<1, 3>>, FALSE, 3, target) EXCEPT !.stackup = "none"] :
             target \in {7, 8}}
     ELSE {}]
=============================================================================
