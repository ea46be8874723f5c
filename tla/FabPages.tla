------------------------------ MODULE FabPages ------------------------------
(***************************************************************************)
(* What the adapter reads off the fabricator's pages                       *)
(* (pcbqa/fabricators/jlcpcb.py) and which readings it refuses.            *)
(*                                                                         *)
(* A page is the sequence of the statements its probes find on it.  A      *)
(* probe that is searched for finds one, its first match; a table or a     *)
(* list is read row by row, and may state the same thing twice.  A         *)
(* statement is a record: "what" names the probe and "reads" says how far  *)
(* the text can be read:                                                   *)
(*   "whole"     every quantity of it is there;                            *)
(*   "part"      it is recognised and cannot be read to the end, or it is  *)
(*               outside what the adapter normalizes;                      *)
(*   "nonsense"  its number is not one ("4.5.1"): float() raises an error  *)
(*               that is not a CatalogError, and the command ends with it. *)
(* Lengths are in micrometres and copper weights in half ounces.  A scope  *)
(* is a range lo..hi of copper layer counts.                               *)
(***************************************************************************)
EXTENDS Integers, FiniteSets, SequencesExt

CONSTANTS
  Text,        \* [page -> its statements, in reading order]
  Minimum,     \* [group -> Nat]: how many statements of it a page must carry
  Tolerance,   \* NOMINAL_TOLERANCE_MM
  MostLayers,  \* the upper end of an open scope
  None         \* an absent value

\* The declared sources, in the order in which they are fetched.
SourceOrder == << "impedance", "capabilities", "copper-weight",
                  "impedance-calculator", "thickness-options" >>
Sources == {SourceOrder[i] : i \in 1..5}

Covers(r, layers) == r.lo <= layers /\ layers <= r.hi

\* The kinds of statement the probes of each page look for: a page is read
\* for nothing else.
Probes(source) ==
  CASE source = "impedance" ->
         {"section thickness", "section outer options", "section inner options",
          "generic prepreg", "generic core", "stackup"}
    [] source = "capabilities" ->
         {"layer range", "impedance tolerance", "thickness", "thickness range",
          "multilayer copper", "2-layer copper", "finished inner options",
          "inner default", "heavy thickness", "trace coils",
          "trace row", "trace", "board class constant", "prepreg constant",
          "enumeration", "drill", "via"}
    [] source = "copper-weight" ->
         {"outer options", "heavy outer options", "inner options",
          "equivalence", "design rule"}
    [] source = "impedance-calculator" ->
         {"finished copper", "mask constant", "material family", "mask thickness",
          "finished inner copper", "supported weights", "impedance range",
          "trace top width", "model core", "model prepreg"}
    [] source = "thickness-options" -> {"stated list", "restriction"}

\* The quantities of a statement that are reckoned with.  An equivalence of
\* nothing would be divided by, and ends the command as a number that is none.
CopperStatements == {"multilayer copper", "2-layer copper", "section outer options",
                     "outer options", "heavy outer options",
                     "finished inner options", "inner default",
                     "section inner options", "inner options"}

IsStatement(r) ==
  /\ r.reads \in {"whole", "part", "nonsense"}
  /\ r.what \in CopperStatements => IsFiniteSet(r.weights) /\ r.weights \subseteq Int
  /\ r.what \in {"trace", "design rule"} => r.track \in Int
  /\ r.what = "equivalence" => r.um \in Nat /\ r.um > 0
  /\ r.what = "via" => r \in [what : {"via"}, reads : {"whole", "part", "nonsense"},
                               lo : Int, hi : Int, npth : BOOLEAN, diameter : Int]
  /\ r.what = "section thickness" => IsFiniteSet(r.values)
  /\ r.what = "stackup" => IsFiniteSet(r.outer) /\ r.outer \subseteq Int

IsPage(p, source) ==
  /\ p \in Seq(ToSet(p))
  /\ \A r \in ToSet(p) : r.what \in Probes(source) /\ IsStatement(r)

Of(statements, what) == {r \in statements : r.what = what}
Whole(statements, what) == {r \in Of(statements, what) : r.reads = "whole"}
WholeOf(statements, kinds) == UNION {Whole(statements, w) : w \in kinds}

\* What one probe that found nothing to read leaves behind: a record that it
\* was looked for.
Missing(statements, kinds) == {w \in kinds : Whole(statements, w) = {}}
Unread(statements, what) ==
  {w \in {what} : \E r \in Of(statements, what) : r.reads = "part"}

\* Where a page states something of these kinds that can be read.
Emitted(p, kinds) == {i \in DOMAIN p : p[i].what \in kinds /\ p[i].reads = "whole"}

TooFew(p, group, kinds) == Cardinality(Emitted(p, kinds)) < Minimum[group]

\* The quantities that make up the identity a statement is stored under.  The
\* cell of a design rule is its weights as they are listed.
IdentityOf(what) ==
  CASE what = "trace" -> {"weights", "lo", "hi"}
    [] what = "design rule" -> {"cell", "lo", "hi"}
    [] what = "board class constant" -> {"lo"}
    [] what \in {"prepreg constant", "generic prepreg"} -> {"name"}
    [] what = "model core" -> {"family", "open", "thickness"}
    [] what = "model prepreg" -> {"family", "material"}
    [] what = "section thickness" -> {"section"}
    [] what \in {"section outer options", "section inner options"} -> {"lo"}

SameIdentity(r, s) ==
  r.what = s.what /\ \A f \in IdentityOf(r.what) : r[f] = s[f]

\* What is stored from these places: of two statements with one identity the
\* later one is stored over the earlier, and nothing says so.
LastOf(p, places) ==
  {p[i] : i \in {i \in places : ~ \E j \in places : j > i /\ SameIdentity(p[i], p[j])}}

-----------------------------------------------------------------------------
(* One operator per page.  "refused" is a ParseError, "notes" what goes to *)
(* not_extracted, "kept" the records the catalog gets.                     *)

\* The oz equivalence and the design-rule table are required.  A rule row for
\* anything but rigid FR-4 is noted, not normalized.
CopperWeight(p) ==
  LET says == ToSet(p)
      options == {"outer options", "heavy outer options", "inner options"}
  IN  [refused |-> \/ Whole(says, "equivalence") = {}
                   \/ TooFew(p, "design rule", {"design rule"}),
       notes   |-> Missing(says, options) \cup Unread(says, "design rule"),
       kept    |-> WholeOf(says, options \cup {"equivalence"})
                     \cup LastOf(p, Emitted(p, {"design rule"}))]

\* The two Dk tables of the calculator, one for each material family.
CalculatorTables(p) ==
  [refused |-> \/ TooFew(p, "model core", {"model core"})
               \/ TooFew(p, "model prepreg", {"model prepreg"}),
   kept    |-> LastOf(p, Emitted(p, {"model core", "model prepreg"}))]

\* The finished copper, the soldermask constant and the material families
\* are required, and so are the two Dk tables; the soldermask thicknesses and
\* the finished inner copper are noted when they are gone.  The supported
\* weights, the accepted ranges and the etched trace shape are read when they
\* are there and leave nothing behind when they are not.
ImpedanceCalculator(p) ==
  LET says == ToSet(p)
      required == {"finished copper", "mask constant", "material family"}
      noted == {"mask thickness", "finished inner copper"}
      silent == {"supported weights", "impedance range", "trace top width"}
      tables == CalculatorTables(p)
  IN  [refused |-> Missing(says, required) # {} \/ tables.refused,
       notes   |-> Missing(says, noted),
       kept    |-> WholeOf(says, required \cup noted \cup silent) \cup tables.kept]

\* The dielectric constants stated per board class.  A value not above that
\* of vacuum is noted and skipped, a line in neither published form ends the
\* block with a note, and so does a block that names no board class.
Plausible(r) == r.dk > 10    \* tenths

DielectricNotes(says) ==
  LET classes == Whole(says, "board class constant")
  IN  {w \in {"board class constant"} :
         \/ ~ \E r \in classes : Plausible(r)
         \/ \E r \in classes : ~ Plausible(r)
         \/ Unread(says, "board class constant") # {}}

DielectricsKept(p) ==
  LastOf(p, {i \in Emitted(p, {"board class constant", "prepreg constant"}) :
               Plausible(p[i])})

\* Two clauses of one row of the trace table: no other row begins in between.
SameRow(p, i, j) == \A k \in DOMAIN p : p[k].what = "trace row" => (k < i <=> k < j)

\* A row that has a clause of a layer class, known or not.
HasClasses(p, i) ==
  \E j \in DOMAIN p : p[j].what = "trace" /\ p[j].classed /\ SameRow(p, i, j)

\* The trace table: where a row has clauses by layer class, its headline
\* clause is dropped.  A clause of an unknown class is noted.
TracesEmitted(p) ==
  {i \in Emitted(p, {"trace"}) : p[i].classed \/ ~ HasClasses(p, i)}

\* Mutant: a clause is stored under its weight, whatever its class.
TracesByWeight(p) ==
  {p[i] : i \in {i \in TracesEmitted(p) :
     ~ \E j \in TracesEmitted(p) : j > i /\ p[j].weights = p[i].weights}}

TracesKept(p) == LastOf(p, TracesEmitted(p))

\* The controlled-impedance enumeration "4/6/.../32" is read as continuing by
\* two, and only while its explicit part does.
AscendsByTwo(r) ==
  /\ \A i \in 1..(Len(r.explicit) - 1) : r.explicit[i + 1] - r.explicit[i] = 2
  /\ Len(r.explicit) > 1
  /\ (r.last - r.explicit[Len(r.explicit)]) % 2 = 0
  /\ r.last > r.explicit[Len(r.explicit)]

ImpedanceCounts(r) == {n \in r.explicit[1]..r.last : (n - r.explicit[1]) % 2 = 0}

LayerCountsKept(says) ==
  UNION {{[what |-> "impedance counts", counts |-> ImpedanceCounts(r)],
          [what |-> "layer options", counts |-> {1, 2} \cup ImpedanceCounts(r)]}
         : r \in Whole(says, "enumeration")}

\* Drill and via rules are stated per board class.  A via row the page marks
\* NPTH is stored under a category of its own.
DrillsAndViasKept(says) ==
  Whole(says, "drill")
    \cup {[r EXCEPT !.what = IF r.npth THEN "npth via" ELSE "via"]
          : r \in Whole(says, "via")}

BoardClasses == {1, 2, 4}

DrillNotes(says) ==
  {rule \in {"drill", "via"} \X BoardClasses :
     ~ \E r \in Whole(says, rule[1]) : r.lo = rule[2]}

Capabilities(p) ==
  LET says == ToSet(p)
      probes == {"layer range", "impedance tolerance", "thickness",
                 "thickness range", "multilayer copper", "2-layer copper",
                 "finished inner options", "inner default"}
      noted == {"heavy thickness", "trace coils"}
  IN  [refused |->
         \/ TooFew(p, "probe", probes)
         \/ Cardinality(TracesEmitted(p)) < Minimum["trace"]
         \/ ~ \E r \in Whole(says, "enumeration") : AscendsByTwo(r)
         \/ TooFew(p, "drill and via", {"drill", "via"}),
       notes |-> Missing(says, probes \cup noted) \cup DielectricNotes(says)
                   \cup Unread(says, "trace") \cup DrillNotes(says),
       kept |-> WholeOf(says, probes \cup noted) \cup DielectricsKept(p)
                  \cup TracesKept(p) \cup LayerCountsKept(says)
                  \cup DrillsAndViasKept(says)]

\* Every statement shaped like a restriction must be read whole, and no two
\* may be about one thickness.
ThicknessOptions(p) ==
  LET says == ToSet(p)
      restrictions == {i \in DOMAIN p : p[i].what = "restriction"}
  IN  [refused |->
         \/ Whole(says, "stated list") = {}
         \/ \E i \in restrictions : p[i].reads = "part"
         \/ \E i, j \in restrictions : i # j /\ p[i].thickness = p[j].thickness
         \/ TooFew(p, "restriction", {"restriction"}),
       notes |-> {},
       kept |-> WholeOf(says, {"stated list", "restriction"})]

-----------------------------------------------------------------------------
(* The impedance page: published constructions and what each is for.       *)

\* The weight of the outer copper follows from its thickness only where the
\* stated equivalence makes it a whole number of half ounces.
OuterWeight(r, kept) ==
  LET outer == CHOOSE t \in r.outer : TRUE
      exact == {e \in Whole(kept, "equivalence") : (2 * outer) % e.um = 0}
  IN  IF exact = {} THEN None
      ELSE (2 * outer) \div (CHOOSE e \in exact : TRUE).um

InnerWeight(r) == IF r.clad THEN 1 ELSE None

Close(a, b) == a - b <= Tolerance /\ b - a <= Tolerance

\* The option lists of its section that were read before a construction.
OptionsBefore(p, i) ==
  LastOf(p, {j \in Emitted(p, {"section thickness"}) :
               j < i /\ p[j].section = p[i].section})

\* The board thickness a construction is for: the one its name encodes, else
\* the only stated option of its section near the sum of its layers.
Nominal(p, i) ==
  LET r == p[i]
      near == {t \in UNION {o.values : o \in OptionsBefore(p, i)} :
               r.total # None /\ Close(t, r.total)}
  IN  IF r.coded # None THEN r.coded
      ELSE IF Cardinality(near) = 1 THEN CHOOSE t \in near : TRUE ELSE None

\* What makes a construction unreadable: an unknown row or unit, the wrong
\* section, mixed copper, or a name its own layers contradict.
Contradicts(r) ==
  \/ r.reads = "part"
  \/ r.coppers # r.section
  \/ Cardinality(r.outer) # 1 \/ Cardinality(r.inner) > 1
  \/ r.coded # None /\ (r.total = None \/ ~ Close(r.coded, r.total))

Construction(p, i, before) ==
  LET r == p[i]
  IN  [what |-> "construction", name |-> r.name, coppers |-> r.coppers,
       default |-> r.default, total |-> r.total, spans |-> r.spans,
       outer |-> OuterWeight(r, before), inner |-> InnerWeight(r),
       copper_um |-> CHOOSE t \in r.outer : TRUE,
       nominal |-> Nominal(p, i)]

Impedance(p, before) ==
  LET says == ToSet(p)
      tables == {"section thickness", "section outer options",
                 "section inner options"}
      stackups == {i \in DOMAIN p : p[i].what = "stackup"}
  IN  [refused |->
         \/ TooFew(p, "generic prepreg", {"generic prepreg"})
         \/ \E i \in stackups : Contradicts(p[i])
         \/ \E i, j \in stackups : i # j /\ p[i].name = p[j].name
         \/ Cardinality(stackups) < Minimum["stackup"],
       notes |-> Missing(says, tables \cup {"generic core"}),
       kept |-> IF \E i \in stackups : Contradicts(p[i]) THEN {}
                ELSE Whole(says, "generic core")
                       \cup LastOf(p, Emitted(p, tables \cup {"generic prepreg"}))
                       \cup {Construction(p, i, before) : i \in stackups}]

-----------------------------------------------------------------------------
(* parse(): every declared source, the constructions last because they     *)
(* are derived from what the other pages state.                            *)
PageOf(raw, source) == {Text[raw[source]]}   \* as the set it is taken from

Parse(raw) ==
  LET others == {CopperWeight(p) : p \in PageOf(raw, "copper-weight")}
         \cup {ImpedanceCalculator(p) : p \in PageOf(raw, "impedance-calculator")}
         \cup {Capabilities(p) : p \in PageOf(raw, "capabilities")}
         \cup {ThicknessOptions(p) : p \in PageOf(raw, "thickness-options")}
      pages == others
         \cup {Impedance(p, before) : p \in PageOf(raw, "impedance"),
                                      before \in {UNION {o.kept : o \in others}}}
  IN  [refused |-> \E o \in pages : o.refused,
       notes   |-> UNION {o.notes : o \in pages},
       kept    |-> UNION {o.kept : o \in pages}]

Nonsense(raw) ==
  \E s \in DOMAIN raw : \E r \in ToSet(Text[raw[s]]) : r.reads = "nonsense"

\* The three sections of the catalog that selection and the review read.
Stated(catalog, what) == {r \in catalog.kept : r.what = what}
=============================================================================
