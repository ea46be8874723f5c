--------------------------- MODULE MCSimulation ----------------------------
(* An instance of Simulation for TLC: one supply path on boards that route *)
(* it differently, and scenarios that measure what it feeds.  Resistances  *)
(* and voltages are chosen so that every voltage is a whole number.        *)
EXTENDS Simulation

Track(id, a, b, ohms) ==
  [id |-> id, kind |-> "track", ends |-> {a, b}, ohms |-> ohms, length |-> ohms,
   weighed |-> TRUE, ambiguous |-> FALSE]
Via(id, a, b) == [Track(id, a, b, 0) EXCEPT !.kind = "via"]

Net(pieces) == [pieces |-> pieces, from |-> "p", to |-> "q", plane |-> FALSE]

\* Two pieces in series and a stub; a via between them; a detour; a second
\* track beside the first; a junction of no certain place; a plane.
Straight == Net({Track(1, "p", "x", 1), Track(2, "x", "q", 1), Track(3, "x", "y", 1)})
Layered == Net({Track(1, "p", "x", 1), Via(2, "x", "y"), Track(3, "y", "q", 1)})
Ring == Net({Track(1, "p", "q", 2), Track(2, "p", "x", 1), Track(3, "x", "q", 1)})
Twin == Net({Track(1, "p", "q", 2), Track(2, "p", "q", 2)})
Oblique == Net({[Track(1, "p", "x", 1) EXCEPT !.ambiguous = TRUE], Track(2, "x", "q", 1)})

MCBoards ==
  [straight |-> [feed |-> Straight], layered |-> [feed |-> Layered],
   ring |-> [feed |-> Ring], twin |-> [feed |-> Twin],
   oblique |-> [feed |-> Oblique],
   plane |-> [feed |-> [Straight EXCEPT !.plane = TRUE]],
   thin |-> [feed |-> Net({[Track(1, "p", "q", 2) EXCEPT !.weighed = FALSE]})]]

Part(class, claim, ohms) ==
  [claim |-> claim, ohms |-> ohms, evidence |-> [interconnect_dc |-> class],
   temperatures |-> None, path |-> None, digest |-> None]
Strong == Part("measured", None, 1)
Weak == Part("assumed", None, 1)
AtMost2 == Part("measured", Claimed("upper_bound", NoBound, 2, "direct", TRUE), 2)
Silent == [Strong EXCEPT !.evidence = <<>>]

-----------------------------------------------------------------------------
V(name, plus, minus, volts) ==
  [kind |-> "vsource_dc", name |-> name, nodes |-> <<plus, minus>>, value |-> volts]
Pulse(name, plus, levels) ==
  [kind |-> "vsource_pulse", name |-> name, nodes |-> <<plus, Ground>>, levels |-> levels]
R(name, a, b, ohms) ==
  [kind |-> "resistor", name |-> name, nodes |-> <<a, b>>, value |-> ohms]
X(name, a, b, model) ==
  [kind |-> "model_instance", name |-> name, nodes |-> <<a, b>>, model |-> model]

M(name, kind, node, knowledge, op, value) ==
  [name |-> name, kind |-> kind, node |-> node, knowledge |-> knowledge,
   assertion |-> [op |-> op, value |-> value, tolerance |-> 0]]
Described(m) == [m EXCEPT !.assertion = None]

Derived(kind) == Knows(kind, "derived")

Experiment(elements, measurements) ==
  [elements |-> elements, measurements |-> measurements, analyses |-> <<"op">>,
   requirement |-> None, assumptions |-> <<>>, temperature |-> None]

\* A supply, what it feeds through, a load.
Fed(model, volts) ==
  {V("v", "in", Ground, volts), X("x", "in", "out", model), R("load", "out", Ground, 2)}

Out(knowledge, op, value) == M("out", "op_voltage", "out", knowledge, op, value)

Require == [interconnect_dc |-> {"geometry-derived", "measured"}]

Droop == Experiment(Fed("feed", 12), {Out(Derived("upper_bound"), "<=", 6)})
DroopWrong == Experiment(Fed("feed", 12), {Out(Derived("lower_bound"), ">=", 6)})
DroopMore == Experiment(Fed("feed", 12), {Out(Derived("upper_bound"), ">=", 3)})
Stated == Experiment(Fed("feed", 12), 
                      {[Out(None, "within", 6) EXCEPT !.assertion.tolerance = 1]})
Guessed == Experiment(Fed("feed", 12), {Out(Knows("approximate", "assumed"), "<=", 6)})
Rise == Experiment(Fed("fuse", 12), {Out(Derived("lower_bound"), ">=", 6)})
Sinking == Experiment(Fed("feed", -12), {Out(Derived("upper_bound"), "<=", -6)})
Plain == Experiment(Fed("feed", 12), {Described(Out(None, "<=", 0))})

Usable ==
  [Droop EXCEPT !.requirement = Require, !.temperature = 20,
                !.assumptions = [v |-> TRUE, load |-> TRUE]]

\* A weak part two nodes away from what is measured.
Chain(far, near) ==
  [Experiment({V("v", "in", Ground, 12), X("far", "in", "mid", far),
               X("near", "mid", "out", near), R("load", "out", Ground, 1)},
              {M("out", "op_voltage", "out", None, "<=", 4)})
     EXCEPT !.requirement = Require]

\* A weak part that shares nothing but the ground with what is measured.
Apart ==
  [Experiment(Fed("strong", 6) \cup {V("w", "b", Ground, 6), X("y", "b", "c", "weak"),
                                      R("other", "c", Ground, 2)},
              {Out(None, "<=", 4)})
     EXCEPT !.requirement = Require]

\* The supply drops: an operating point and the end of the transient.
Drop(model, kinds) ==
  [Experiment({Pulse("v", "in", <<12, 6>>), X("x", "in", "out", model),
               R("load", "out", Ground, 2)},
              {M(kind, kind, "out", None, "<=", IF kind = "tran_min_voltage" THEN 4 ELSE 8) :
                 kind \in kinds})
     EXCEPT !.analyses = <<"op", "tran">>]

-----------------------------------------------------------------------------
E1(stage, s) == [stage |-> stage, scenario |-> s]

Parts == [strong |-> Strong, weak |-> Weak, fuse |-> AtMost2, silent |-> Silent]
Feed == [feed |-> "feed"]

Declare(frozen, paths, entries, required) ==
  [frozen |-> frozen, paths |-> paths, entries |-> entries, required |-> required]

\* One stage that needs the scenario, beside one that holds anyway.
Beside(s) == <<E1("entry", Drop("strong", {"op_voltage", "tran_min_voltage"})), E1("power", s)>>

ModelFrom(b) == [claim |-> ResistanceClaim(b.feed, "p", "q"),
                 ohms |-> SeriesOhms(b.feed, "p", "q"),
                 evidence |-> [interconnect_dc |-> "geometry-derived"],
                 temperatures |-> {20}, path |-> "feed"]

Kept(name) == [feed |-> ModelFrom(MCBoards[name]) @@ [digest |-> name]]

MCDeclarations ==
  {Declare(Parts, Feed, Beside(s), {"power"}) :
     s \in {Droop, DroopWrong, DroopMore, Stated, Guessed, Plain, Usable}}
    \cup
  {Declare(Parts, Feed, <<E1("power", s)>>, {"power"}) :
     s \in {Rise, Sinking, Apart, Chain("strong", "feed"), Chain("weak", "feed"),
            Chain("feed", "strong"), Chain("feed", "silent"),
            Drop("feed", {"op_voltage", "tran_final_voltage"}),
            Drop("feed", {"tran_max_voltage", "tran_final_voltage"})}}
    \cup
  {Declare(Kept("straight"), <<>>, <<E1("power", Stated)>>, {"power"}),
   Declare(Kept("layered"), <<>>, <<E1("power", Droop)>>, {"power", "entry"}),
   Declare(Kept("straight"), Feed, <<E1("power", Stated)>>, {"power"}),
   Declare(None, Feed, <<E1("power", Droop)>>, {"power"})}
=============================================================================
