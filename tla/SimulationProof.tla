-------------------------- MODULE SimulationProof --------------------------
(***************************************************************************)
(* Proofs about Simulation, for any declarations, boards and engines.      *)
(*                                                                         *)
(* What an execution has completed is recorded for the results it is       *)
(* collecting, and forgotten with them when a gate ends before they are    *)
(* cached; so the results that are cached, and that both verdicts are      *)
(* about, had every analysis completed by an engine, over the one registry *)
(* the refusals were made for.  What an analysis reads is kept in a place  *)
(* that nothing else writes meanwhile, so a result has the values that     *)
(* were asked for; and the board the models were measured on is, unless it *)
(* was replaced between its reading and its hashing, the one that is       *)
(* judged.                                                                 *)
(*                                                                         *)
(* What is left has no state in it.  A claim about a path admits what the  *)
(* path really resists: each of its tracks is a bridge, so it is in every  *)
(* spanning tree, and every tree without one of them is a forest that the  *)
(* resistance counts.  Resistances that agree on what contributes to a     *)
(* measurement give the same voltage there, because voltages that differ   *)
(* the most would have to draw current out of each other.  And the load of *)
(* a divider has the less voltage the more the series element resists.     *)
(***************************************************************************)
EXTENDS Simulation, FiniteSetTheorems, TLAPS

\* Nothing else asked of an engine in this process answers for it.
Alone(i, m) == engine = "shared" => AnsweredAlone(Entry(i), m)

\* What the circuit as it is declared gives.
Asked(i, m) == Value(Entry(i), Nominal(Entry(i), registry), m)

\* Every result that says it ran was allowed to, had its analyses done, and
\* has the values that were asked for.
Sound(rs) ==
  \A i \in DOMAIN rs :
    rs[i].status = "ran" =>
      /\ Runnable(Entry(i), registry)
      /\ \A a \in ToSet(Entry(i).analyses) : <<i, a>> \in solved
      /\ \A m \in Entry(i).measurements :
           Alone(i, m) => rs[i].values[m.name] = Asked(i, m)

ResultsInv ==
  /\ results \in Seq(ToSet(results))
  /\ Len(results) <= Len(declared.entries)
  /\ results # <<>> => registry # None
  /\ Sound(results)

\* What is not planned any more of the scenario being executed has been read.
ReadAsPlanned ==
  \A m \in Entry(Upcoming).measurements :
    \/ Family[m.kind] \in ToSet(plan)
    \/ /\ Slot(m) \in DOMAIN vectors
       /\ Alone(Upcoming, m) => vectors[Slot(m)] = Asked(Upcoming, m)

\* What is being executed may be, and what is left to do of it is planned.
PlanInv ==
  plan # None =>
    /\ registry # None /\ runs = None
    /\ Len(results) < Len(declared.entries)
    /\ Runnable(Entry(Upcoming), registry)
    /\ plan \in Seq(ToSet(plan))
    /\ \A a \in ToSet(Entry(Upcoming).analyses) :
         <<Upcoming, a>> \in solved \/ a \in ToSet(plan)
    /\ ReadAsPlanned

RunsInv ==
  runs # None =>
    /\ registry # None
    /\ runs \in Seq(ToSet(runs))
    /\ Len(runs) = Len(declared.entries)
    /\ Sound(runs)

\* What passed was judged by results that are still the cached ones.
ScenariosInv ==
  Ended("SIM.SCENARIOS", "pass") =>
    runs # None /\ \A i \in DOMAIN runs : ExecutedAndMet(i)

StagesInv ==
  Ended("SIM.STAGE_COVERAGE", "pass") =>
    runs # None /\ \A stage \in declared.required : StageCovered(stage)

IInv ==
  /\ declared \in Declarations
  /\ ResultsInv /\ PlanInv /\ RunsInv /\ ScenariosInv /\ StagesInv

-----------------------------------------------------------------------------
(* Sequences.                                                              *)

\* A sequence is one of its own elements.
LEMMA OfItself ==
  ASSUME NEW S, NEW s \in Seq(S)
  PROVE  s \in Seq(ToSet(s))
<1>1. s \in [1..Len(s) -> ToSet(s)] /\ Len(s) \in Nat
  BY DEF ToSet
<1> QED BY <1>1

LEMMA Appended ==
  ASSUME NEW s, s \in Seq(ToSet(s)), NEW x
  PROVE  LET t == Append(s, x)
         IN  /\ t \in Seq(ToSet(t)) /\ Len(t) = Len(s) + 1 /\ t # <<>>
             /\ DOMAIN t = DOMAIN s \cup {Len(s) + 1}
             /\ \A i \in DOMAIN s : t[i] = s[i] /\ i # Len(s) + 1
             /\ t[Len(s) + 1] = x
<1> DEFINE S == ToSet(s) \cup {x}
           t == Append(s, x)
<1>1. s \in Seq(S)
  <2>1. s \in [1..Len(s) -> S] /\ Len(s) \in Nat
    BY DEF ToSet
  <2> QED BY <2>1
<1>2. t \in Seq(S) /\ x \in S
  BY <1>1
<1> HIDE DEF S
<1>3. t \in Seq(ToSet(t))
  BY <1>2, OfItself
<1> QED BY <1>1, <1>2, <1>3

LEMMA InSequence ==
  ASSUME NEW s, s \in Seq(ToSet(s))
  PROVE  /\ \A i \in 1..Len(s) : s[i] \in ToSet(s)
         /\ \A a \in ToSet(s) : \E i \in 1..Len(s) : a = s[i]
<1>1. DOMAIN s = 1..Len(s)
  OBVIOUS
<1> QED BY <1>1 DEF ToSet

\* What is left of a plan after its first analysis.
LEMMA HeadAndTail ==
  ASSUME NEW s, s \in Seq(ToSet(s)), s # <<>>
  PROVE  /\ Tail(s) \in Seq(ToSet(Tail(s)))
         /\ \A a \in ToSet(s) : a = Head(s) \/ a \in ToSet(Tail(s))
<1>1. Tail(s) \in Seq(ToSet(s))
  OBVIOUS
<1>2. Tail(s) \in Seq(ToSet(Tail(s)))
  BY <1>1, OfItself
<1>3. ASSUME NEW i \in 1..Len(s), s[i] # Head(s)
      PROVE  s[i] \in ToSet(Tail(s))
  <2>1. i # 1 /\ i - 1 \in 1..Len(Tail(s)) /\ Tail(s)[i - 1] = s[i]
    BY <1>3
  <2> QED BY <1>2, <2>1, InSequence
<1> QED BY <1>2, <1>3, InSequence

-----------------------------------------------------------------------------
LEMMA InitIInv == Init => IInv
<1> SUFFICES ASSUME Init PROVE IInv
  OBVIOUS
<1>1. /\ declared \in Declarations /\ plan = None /\ results = <<>> /\ runs = None
      /\ status = <<>>
  BY DEF Init
<1>2. Len(declared.entries) \in Nat
  BY <1>1, DeclarationsAreLists
<1>3. ResultsInv
  <2>1. <<>> \in Seq(ToSet(<<>>)) /\ Len(<<>>) = 0 /\ DOMAIN <<>> = {}
    BY DEF ToSet
  <2> QED BY <1>1, <1>2, <2>1 DEF ResultsInv, Sound
<1>4. \A g, how : ~ Ended(g, how)
  BY <1>1 DEF Ended
<1> QED BY <1>1, <1>3, <1>4 DEF IInv, PlanInv, RunsInv, ScenariosInv, StagesInv

\* What a result stands on: the scenarios, the registry and the analyses.
LEMMA StaysSound ==
  ASSUME UNCHANGED <<declared, engine, registry>>, solved \subseteq solved'
  PROVE  \A rs : Sound(rs) => Sound(rs)'
<1>1. \A i : /\ Entry(i)' = Entry(i)
            /\ \A m : Asked(i, m)' = Asked(i, m) /\ (Alone(i, m)' <=> Alone(i, m))
  BY DEF Asked, Alone, Entry
<1> QED BY <1>1 DEF Sound

\* What was asked stays what was asked, while a scenario is executed.
LEMMA StaysRead ==
  ASSUME UNCHANGED <<declared, engine, registry, results>>,
         \A m \in Entry(Upcoming).measurements :
           \/ Family[m.kind] \in ToSet(plan')
           \/ /\ Slot(m) \in DOMAIN vectors'
              /\ Alone(Upcoming, m) => vectors'[Slot(m)] = Asked(Upcoming, m)
  PROVE  ReadAsPlanned'
<1>1. Upcoming' = Upcoming /\ Entry(Upcoming)' = Entry(Upcoming)
  BY DEF Upcoming, Entry
<1>2. ASSUME NEW m \in Entry(Upcoming)'.measurements
      PROVE  \/ Family[m.kind] \in ToSet(plan')
             \/ /\ Slot(m)' \in DOMAIN vectors'
                /\ Alone(Upcoming, m)' => vectors'[Slot(m)'] = Asked(Upcoming, m)'
  <2>1. m \in Entry(Upcoming).measurements
    BY <1>1, <1>2
  <2>2. Slot(m)' = Slot(m)
    BY DEF Slot
  <2>3. Asked(Upcoming, m)' = Asked(Upcoming, m)
    BY <1>1 DEF Asked
  <2>4. Alone(Upcoming, m)' => Alone(Upcoming, m)
    BY <1>1 DEF Alone
  <2>5. CASE Family[m.kind] \in ToSet(plan')
    BY <2>5
  <2>6. CASE Family[m.kind] \notin ToSet(plan')
    <3>1. /\ Slot(m) \in DOMAIN vectors'
          /\ Alone(Upcoming, m) => vectors'[Slot(m)] = Asked(Upcoming, m)
      BY <2>1, <2>6
    <3> QED BY <2>2, <2>3, <2>4, <3>1
  <2> QED BY <2>5, <2>6
<1> QED BY <1>2 DEF ReadAsPlanned

\* A gate ends.
LEMMA EndKeeps ==
  ASSUME IInv, NEW how, EndGate(how), UNCHANGED <<declared, engine, registry, runs>>,
         how = "pass" /\ Gate = "SIM.SCENARIOS" =>
           runs # None /\ \A i \in DOMAIN runs : ExecutedAndMet(i),
         how = "pass" /\ Gate = "SIM.STAGE_COVERAGE" =>
           runs # None /\ \A stage \in declared.required : StageCovered(stage)
  PROVE  IInv'
<1>1. /\ plan' = None /\ results' = <<>> /\ status' = [g \in DOMAIN status \cup {Gate} |-> IF g = Gate THEN how ELSE status[g]]
      /\ runs # None => solved' = solved
  BY DEF EndGate
<1>2. declared' \in Declarations /\ Len(declared'.entries) \in Nat
  BY DeclarationsAreLists DEF IInv
<1>3. ResultsInv'
  <2>1. <<>> \in Seq(ToSet(<<>>)) /\ Len(<<>>) = 0 /\ DOMAIN <<>> = {}
    BY DEF ToSet
  <2> QED BY <1>1, <1>2, <2>1 DEF ResultsInv, Sound
<1>4. PlanInv'
  BY <1>1 DEF PlanInv
<1>5. RunsInv'
  <2>1. runs # None => Sound(runs)'
    BY <1>1, StaysSound DEF IInv, RunsInv
  <2> QED BY <2>1 DEF IInv, RunsInv
<1>6. \A g : Ended(g, "pass")' => Ended(g, "pass") \/ (g = Gate /\ how = "pass")
  BY <1>1 DEF Ended
<1>7. \A i : ExecutedAndMet(i)' = ExecutedAndMet(i)
  BY DEF ExecutedAndMet, Asserted, Entry
<1>8. \A stage : StageCovered(stage)' = StageCovered(stage)
  BY DEF StageCovered, Asserted, Entry
<1>9. ScenariosInv'
  BY <1>6, <1>7 DEF IInv, ScenariosInv
<1>10. StagesInv'
  BY <1>6, <1>8 DEF IInv, StagesInv
<1> QED BY <1>2, <1>3, <1>4, <1>5, <1>9, <1>10 DEF IInv

\* The verdicts stand as long as what they are about does.
LEMMA VerdictsStay ==
  ASSUME IInv, UNCHANGED <<declared, status>>, runs # None => runs' = runs
  PROVE  ScenariosInv' /\ StagesInv'
<1>1. \A g : Ended(g, "pass")' = Ended(g, "pass")
  BY DEF Ended
<1>2. CASE runs # None
  <2>1. \A i : ExecutedAndMet(i)' = ExecutedAndMet(i)
    BY <1>2 DEF ExecutedAndMet, Asserted, Entry
  <2>2. \A stage : StageCovered(stage)' = StageCovered(stage)
    BY <1>2 DEF StageCovered, Asserted, Entry
  <2> QED BY <1>1, <1>2, <2>1, <2>2 DEF IInv, ScenariosInv, StagesInv
<1>3. CASE runs = None
  BY <1>1, <1>3 DEF IInv, ScenariosInv, StagesInv
<1> QED BY <1>2, <1>3

\* A result is appended.
LEMMA ResultKeeps ==
  ASSUME IInv, Executing, NEW r, results' = Append(results, r), plan' = None,
         UNCHANGED <<declared, engine, registry, runs, status, solved>>,
         r.status = "ran" =>
           /\ Runnable(Entry(Upcoming), registry)
           /\ \A a \in ToSet(Entry(Upcoming).analyses) : <<Upcoming, a>> \in solved
           /\ \A m \in Entry(Upcoming).measurements :
                Alone(Upcoming, m) => r.values[m.name] = Asked(Upcoming, m)
  PROVE  IInv'
<1>1. /\ registry # None /\ runs = None /\ Len(results) < Len(declared.entries)
  BY DEF Executing
<1>2. /\ results \in Seq(ToSet(results)) /\ Sound(results)
      /\ declared \in Declarations
  BY DEF IInv, ResultsInv
<1>3. /\ results' \in Seq(ToSet(results')) /\ Len(results') = Len(results) + 1
      /\ results' # <<>>
      /\ DOMAIN results' = DOMAIN results \cup {Upcoming}
      /\ \A i \in DOMAIN results : results'[i] = results[i] /\ i # Upcoming
      /\ results'[Upcoming] = r
  BY <1>2, Appended DEF Upcoming
<1>4. Len(results) \in Nat /\ Len(declared.entries) \in Nat
  BY <1>2, DeclarationsAreLists
<1>5. Len(results') <= Len(declared.entries)
  BY <1>1, <1>3, <1>4
<1>6. Sound(results')
  BY <1>2, <1>3 DEF Sound
<1>7. Sound(results)'
  <2>1. Sound(results') => Sound(results)'
    BY DEF Sound, Entry, Alone, Asked
  <2> QED BY <1>6, <2>1
<1>8. ResultsInv'
  BY <1>1, <1>3, <1>5, <1>7 DEF ResultsInv
<1>9. PlanInv' /\ RunsInv'
  BY <1>1 DEF PlanInv, RunsInv
<1>10. ScenariosInv' /\ StagesInv'
  BY VerdictsStay
<1> QED BY <1>2, <1>8, <1>9, <1>10 DEF IInv

\* What a measurement's value depends on.
LEMMA SameValue ==
  ASSUME NEW s, NEW ohms, NEW m, NEW n, m.node = n.node,
         Family[m.kind] = Family[n.kind], Reduction[m.kind] = Reduction[n.kind]
  PROVE  Value(s, ohms, m) = Value(s, ohms, n)
BY DEF Value

\* What is kept in one place takes the same thing from the same node, and
\* with an engine of its own process it is one measurement.
LEMMA OnePlace ==
  ASSUME NEW s, WellFormed(s), NEW m \in s.measurements, NEW n \in s.measurements,
         Slot(m) = Slot(n)
  PROVE  /\ engine = "shared" => m.node = n.node /\ Reduction[m.kind] = Reduction[n.kind]
         /\ engine # "shared" => m = n
<1>1. CASE engine = "shared"
  <2>1. <<m.node, Reduction[m.kind]>> = <<n.node, Reduction[n.kind]>>
    BY <1>1 DEF Slot
  <2> QED BY <1>1, <2>1
<1>2. CASE engine # "shared"
  <2>1. <<m.name>> = <<n.name>>
    BY <1>2 DEF Slot
  <2> QED BY <1>2, <2>1 DEF WellFormed
<1> QED BY <1>1, <1>2

\* What an analysis reads is what was asked of it, and it overwrites nothing
\* that another analysis read for a measurement that is alone.
LEMMA ReadAsAsked ==
  ASSUME IInv, Analyse, NEW m \in Entry(Upcoming).measurements,
         \A a \in ToSet(plan) : a = Head(plan) \/ a \in ToSet(plan'),
         Family[m.kind] \notin ToSet(plan')
  PROVE  /\ Slot(m) \in DOMAIN vectors'
         /\ Alone(Upcoming, m) => vectors'[Slot(m)] = Asked(Upcoming, m)
<1> DEFINE s == Entry(Upcoming)
           mine == {x \in s.measurements : Family[x.kind] = Head(plan)}
           first(slot) == CHOOSE x \in mine : Slot(x) = slot
           read == [slot \in {Slot(x) : x \in mine} |->
                      Value(s, Nominal(s, registry), first(slot))]
<1>1. plan # None /\ vectors' = Merged(read, vectors)
  BY DEF Analyse
<1>2. WellFormed(s)
  BY <1>1 DEF IInv, PlanInv, Runnable
<1>3. DOMAIN vectors' = DOMAIN read \cup DOMAIN vectors
  BY <1>1 DEF Merged
<1>4. CASE Family[m.kind] = Head(plan)
  <2>1. m \in mine /\ Slot(m) \in DOMAIN read
    BY <1>4
  <2>2. vectors'[Slot(m)] = Value(s, Nominal(s, registry), first(Slot(m)))
    BY <1>1, <2>1 DEF Merged
  <2>3. first(Slot(m)) \in mine /\ Slot(first(Slot(m))) = Slot(m)
    BY <2>1
  <2> DEFINE x == first(Slot(m))
  <2>4. Value(s, Nominal(s, registry), x) = Value(s, Nominal(s, registry), m)
    <3>1. x \in s.measurements /\ Family[x.kind] = Family[m.kind] /\ Slot(x) = Slot(m)
      BY <1>4, <2>3
    <3> HIDE DEF x, s
    <3>2. m \in s.measurements
      BY DEF s
    <3>3. \/ x = m
          \/ x.node = m.node /\ Reduction[x.kind] = Reduction[m.kind]
      BY <1>2, <3>1, <3>2, OnePlace
    <3> QED BY <3>1, <3>3, SameValue
  <2> QED BY <1>3, <2>1, <2>2, <2>4 DEF Asked
<1>5. CASE Family[m.kind] # Head(plan)
  <2>1. /\ Slot(m) \in DOMAIN vectors
        /\ Alone(Upcoming, m) => vectors[Slot(m)] = Asked(Upcoming, m)
    BY <1>1, <1>5 DEF IInv, PlanInv, ReadAsPlanned
  <2>2. Alone(Upcoming, m) => Slot(m) \notin DOMAIN read
    <3> SUFFICES ASSUME Alone(Upcoming, m), NEW x \in mine, Slot(x) = Slot(m)
                 PROVE  FALSE
      OBVIOUS
    <3>1. x \in s.measurements /\ Family[x.kind] = Head(plan)
      OBVIOUS
    <3> HIDE DEF mine
    <3>2. \/ x = m
          \/ /\ engine = "shared"
             /\ x.node = m.node /\ Reduction[x.kind] = Reduction[m.kind]
      BY <1>2, <3>1, OnePlace
    <3> QED BY <1>5, <3>1, <3>2 DEF Alone, AnsweredAlone
  <2>3. Alone(Upcoming, m) => vectors'[Slot(m)] = vectors[Slot(m)]
    BY <1>1, <2>1, <2>2 DEF Merged
  <2> QED BY <1>3, <2>1, <2>3
<1> QED BY <1>4, <1>5

\* One analysis is done.
LEMMA AnalyseKeeps == IInv /\ Analyse => IInv'
<1> SUFFICES ASSUME IInv, Analyse PROVE IInv'
  OBVIOUS
<1>1. /\ Executing /\ plan # None /\ plan # <<>> /\ plan' = Tail(plan)
      /\ solved' = solved \cup {<<Upcoming, Head(plan)>>}
      /\ UNCHANGED <<declared, engine, registry, results, runs, status>>
  BY DEF Analyse
<1>2. solved \subseteq solved'
  BY <1>1
<1>3. ResultsInv'
  BY <1>1, <1>2, StaysSound DEF IInv, ResultsInv
<1>4. RunsInv'
  BY <1>1, <1>2, StaysSound DEF IInv, RunsInv
<1>5. PlanInv'
  <2>1. /\ registry # None /\ runs = None
        /\ Len(results) < Len(declared.entries)
        /\ Runnable(Entry(Upcoming), registry)
        /\ plan \in Seq(ToSet(plan))
        /\ \A a \in ToSet(Entry(Upcoming).analyses) :
             <<Upcoming, a>> \in solved \/ a \in ToSet(plan)
    BY <1>1 DEF IInv, PlanInv
  <2>2. /\ plan' \in Seq(ToSet(plan'))
        /\ \A a \in ToSet(plan) : a = Head(plan) \/ a \in ToSet(plan')
    BY <1>1, <2>1, HeadAndTail
  <2>3. \A a \in ToSet(Entry(Upcoming).analyses) :
          <<Upcoming, a>> \in solved' \/ a \in ToSet(plan')
    BY <1>1, <2>1, <2>2
  <2>4. Upcoming' = Upcoming /\ Entry(Upcoming)' = Entry(Upcoming)
    BY <1>1 DEF Upcoming, Entry
  <2>5. \A m \in Entry(Upcoming).measurements :
          \/ Family[m.kind] \in ToSet(plan')
          \/ /\ Slot(m) \in DOMAIN vectors'
             /\ Alone(Upcoming, m) => vectors'[Slot(m)] = Asked(Upcoming, m)
    BY <2>2, ReadAsAsked
  <2>6. ReadAsPlanned'
    BY <1>1, <2>5, StaysRead
  <2> QED BY <1>1, <2>1, <2>2, <2>3, <2>4, <2>6 DEF PlanInv
<1>6. ScenariosInv' /\ StagesInv'
  BY <1>1, VerdictsStay
<1> QED BY <1>1, <1>3, <1>4, <1>5, <1>6 DEF IInv

\* A scenario that is begun may be run, and all of it is planned.
LEMMA StartKeeps == IInv /\ StartScenario => IInv'
<1> SUFFICES ASSUME IInv, StartScenario PROVE IInv'
  OBVIOUS
<1>1. /\ Executing /\ Runnable(Entry(Upcoming), registry)
      /\ plan' = Entry(Upcoming).analyses
      /\ UNCHANGED <<declared, engine, registry, results, runs, status, solved>>
  BY DEF StartScenario
<1>2. ResultsInv' /\ RunsInv'
  BY <1>1, StaysSound DEF IInv, ResultsInv, RunsInv
<1>3. /\ registry # None /\ runs = None /\ Len(results) < Len(declared.entries)
  BY <1>1 DEF Executing
<1>4. Entry(Upcoming).analyses \in Seq(ToSet(Entry(Upcoming).analyses))
  <2>1. declared \in Declarations /\ results \in Seq(ToSet(results))
    BY DEF IInv, ResultsInv
  <2>2. declared.entries \in Seq(ToSet(declared.entries))
    BY <2>1, DeclarationsAreLists
  <2>3. Upcoming \in DOMAIN declared.entries
    BY <1>3, <2>1, <2>2 DEF Upcoming
  <2> QED BY <2>1, <2>3, DeclarationsAreLists DEF Entry
<1>5. PlanInv'
  <2>1. Upcoming' = Upcoming /\ Entry(Upcoming)' = Entry(Upcoming)
    BY <1>1 DEF Upcoming, Entry
  <2>2. ReadAsPlanned'
    BY <1>1, <2>1 DEF Runnable, WellFormed, ReadAsPlanned
  <2> QED BY <1>1, <1>3, <1>4, <2>1, <2>2 DEF PlanInv
<1>6. ScenariosInv' /\ StagesInv'
  BY <1>1, VerdictsStay
<1> QED BY <1>1, <1>2, <1>5, <1>6 DEF IInv

\* The results of all scenarios are cached.
LEMMA CacheKeeps == IInv /\ CacheRuns => IInv'
<1> SUFFICES ASSUME IInv, CacheRuns PROVE IInv'
  OBVIOUS
<1>1. /\ registry # None /\ runs = None /\ runs' = results
      /\ Len(results) = Len(declared.entries)
      /\ UNCHANGED <<declared, engine, registry, plan, results, status, solved>>
  BY DEF CacheRuns
<1>2. ResultsInv' /\ Sound(results)'
  BY <1>1, StaysSound DEF IInv, ResultsInv
<1>3. RunsInv'
  <2>1. Sound(results)' => Sound(runs)'
    BY <1>1 DEF Sound, Entry, Alone, Asked
  <2> QED BY <1>1, <1>2, <2>1 DEF IInv, ResultsInv, RunsInv
<1>4. PlanInv'
  <2>1. plan = None
    <3>1. Len(declared.entries) \in Nat
      BY DeclarationsAreLists DEF IInv
    <3> QED BY <1>1, <3>1 DEF IInv, PlanInv
  <2> QED BY <1>1, <2>1 DEF PlanInv
<1>5. ScenariosInv' /\ StagesInv'
  BY <1>1, VerdictsStay
<1> QED BY <1>1, <1>2, <1>3, <1>4, <1>5 DEF IInv

\* Models are registered once, before anything is executed.
LEMMA RegisterKeeps == IInv /\ Register => IInv'
<1> SUFFICES ASSUME IInv, Register PROVE IInv'
  OBVIOUS
<1>1. /\ registry = None
      /\ UNCHANGED <<declared, engine, plan, vectors, results, runs, status, solved>>
  BY DEF Register
<1>2. results = <<>> /\ plan = None /\ runs = None
  BY <1>1 DEF IInv, ResultsInv, PlanInv, RunsInv
<1>3. ResultsInv'
  <2>1. DOMAIN <<>> = {}
    OBVIOUS
  <2> QED BY <1>1, <1>2, <2>1 DEF IInv, ResultsInv, Sound
<1>4. PlanInv' /\ RunsInv'
  BY <1>1, <1>2 DEF PlanInv, RunsInv
<1>5. ScenariosInv' /\ StagesInv'
  BY <1>1, <1>2, VerdictsStay
<1> QED BY <1>1, <1>3, <1>4, <1>5 DEF IInv

\* A step that the invariant does not look at.
LEMMA AsideKeeps ==
  ASSUME IInv, UNCHANGED <<declared, engine, registry, plan, vectors, results, runs, status, solved>>
  PROVE  IInv'
<1>1. ResultsInv' /\ RunsInv'
  BY StaysSound DEF IInv, ResultsInv, RunsInv
<1>2. PlanInv'
  <2>1. Upcoming' = Upcoming /\ Entry(Upcoming)' = Entry(Upcoming)
    BY DEF Upcoming, Entry
  <2>2. ReadAsPlanned => ReadAsPlanned'
    <3>1. ASSUME ReadAsPlanned
          PROVE  \A m \in Entry(Upcoming).measurements :
                   \/ Family[m.kind] \in ToSet(plan')
                   \/ /\ Slot(m) \in DOMAIN vectors'
                      /\ Alone(Upcoming, m) => vectors'[Slot(m)] = Asked(Upcoming, m)
      BY <3>1 DEF ReadAsPlanned
    <3> QED BY <3>1, StaysRead
  <2> QED BY <2>1, <2>2 DEF IInv, PlanInv
<1>3. ScenariosInv' /\ StagesInv'
  BY VerdictsStay
<1> QED BY <1>1, <1>2, <1>3 DEF IInv

\* The gates that end.
LEMMA EndingsKeep ==
  ASSUME IInv,
         \/ RefuseModels \/ SkipProvenance \/ JudgeProvenance \/ RefuseScenario
         \/ Raise \/ JudgeScenarios \/ JudgeStageCoverage
  PROVE  IInv'
<1>1. CASE RefuseModels \/ SkipProvenance \/ RefuseScenario \/ Raise
  <2>1. /\ EndGate("error") \/ EndGate("not_applicable")
        /\ UNCHANGED <<declared, engine, registry, runs>>
    BY <1>1 DEF RefuseModels, SkipProvenance, RefuseScenario, Raise
  <2> QED BY <2>1, EndKeeps
<1>2. CASE JudgeProvenance
  <2>1. /\ Gate = "SIM.MODEL_PROVENANCE" /\ UNCHANGED <<declared, engine, registry, runs>>
        /\ EndGate(IF OfThisBoard(registry, board) THEN "pass" ELSE "fail")
    BY <1>2 DEF JudgeProvenance
  <2> QED BY <2>1, EndKeeps
<1>3. CASE JudgeScenarios
  <2> DEFINE how == IF \A i \in DOMAIN runs : ExecutedAndMet(i) THEN "pass" ELSE "fail"
  <2>1. /\ Gate = "SIM.SCENARIOS" /\ runs # None /\ UNCHANGED <<declared, engine, registry, runs>>
        /\ EndGate(how)
    BY <1>3 DEF JudgeScenarios
  <2>2. how = "pass" => \A i \in DOMAIN runs : ExecutedAndMet(i)
    OBVIOUS
  <2> HIDE DEF how
  <2> QED BY <2>1, <2>2, EndKeeps
<1>4. CASE JudgeStageCoverage
  <2> DEFINE how == IF \A stage \in declared.required : StageCovered(stage)
                    THEN "pass" ELSE "fail"
  <2>1. /\ Gate = "SIM.STAGE_COVERAGE" /\ runs # None
        /\ UNCHANGED <<declared, engine, registry, runs>> /\ EndGate(how)
    BY <1>4 DEF JudgeStageCoverage
  <2>2. how = "pass" => \A stage \in declared.required : StageCovered(stage)
    OBVIOUS
  <2> HIDE DEF how
  <2> QED BY <2>1, <2>2, EndKeeps
<1> QED BY <1>1, <1>2, <1>3, <1>4

LEMMA NextIInv == IInv /\ [Next]_vars => IInv'
<1> SUFFICES ASSUME IInv, [Next]_vars PROVE IInv'
  OBVIOUS
<1>1. CASE Edit \/ Load \/ UNCHANGED vars
  BY <1>1, AsideKeeps DEF Edit, Load, vars
<1>2. CASE ReportUnavailable \/ FailToConverge
  <2>1. /\ Executing /\ plan' = None
        /\ UNCHANGED <<declared, engine, registry, runs, status, solved>>
        /\ \E how \in {"backend-unavailable", "simulation-failed"} :
             results' = Append(results, NotRun(how))
    BY <1>2 DEF ReportUnavailable, FailToConverge
  <2>2. \A how \in {"backend-unavailable", "simulation-failed"} : NotRun(how).status # "ran"
    BY DEF NotRun
  <2> QED BY <2>1, <2>2, ResultKeeps
<1>3. CASE Complete
  <2> DEFINE ms == Entry(Upcoming).measurements
             of(name) == CHOOSE m \in ms : m.name = name
             r == [status |-> "ran",
                   values |-> [name \in {m.name : m \in ms} |-> vectors[Slot(of(name))]]]
  <2>1. /\ Executing /\ plan = <<>> /\ plan' = None /\ results' = Append(results, r)
        /\ UNCHANGED <<declared, engine, registry, runs, status, solved>>
    BY <1>3, Zenon DEF Complete
  <2>2. \A m \in ms : of(m.name) \in ms /\ of(m.name).name = m.name
    OBVIOUS
  <2>3. r.status = "ran" /\ \A m \in ms : r.values[m.name] = vectors[Slot(of(m.name))]
    OBVIOUS
  <2> HIDE DEF r
  <2>4. plan # None => /\ Runnable(Entry(Upcoming), registry)
                       /\ \A a \in ToSet(Entry(Upcoming).analyses) :
                            <<Upcoming, a>> \in solved \/ a \in ToSet(plan)
                       /\ \A m \in ms :
                            \/ Family[m.kind] \in ToSet(plan)
                            \/ Alone(Upcoming, m) =>
                                 vectors[Slot(m)] = Asked(Upcoming, m)
    BY DEF IInv, PlanInv, ReadAsPlanned
  <2>5. ToSet(plan) = {}
    BY <2>1 DEF ToSet
  <2>6. /\ Runnable(Entry(Upcoming), registry)
        /\ \A a \in ToSet(Entry(Upcoming).analyses) : <<Upcoming, a>> \in solved
        /\ \A m \in ms : Alone(Upcoming, m) => vectors[Slot(m)] = Asked(Upcoming, m)
    BY <2>1, <2>4, <2>5, NoneIsNothing
  <2>7. \A m \in ms : Alone(Upcoming, m) => r.values[m.name] = Asked(Upcoming, m)
    <3>1. \A m, n \in ms : m.name = n.name => m = n
      BY <2>6 DEF Runnable, WellFormed
    <3> QED BY <2>2, <2>3, <2>6, <3>1
  <2> QED BY <2>1, <2>6, <2>7, ResultKeeps
<1> QED BY <1>1, <1>2, <1>3, AnalyseKeeps, StartKeeps, CacheKeeps, RegisterKeeps,
           EndingsKeep DEF Next

-----------------------------------------------------------------------------
(* What a measured node is connected to.                                   *)

Touching(s, nodes) == {e \in s.elements : Signals(e) \cap nodes # {}}
Spread(s, nodes) == nodes \cup UNION {Signals(e) : e \in Touching(s, nodes)}

\* The first k of the node sets that measurement_contributors() works through.
Grows(s, m, reach, k) ==
  reach = [i \in 0..k |-> IF i = 0 THEN {m.node} ELSE Spread(s, reach[i - 1])]

\* A property of every number up to n, from the least that would lack it.
LEMMA UpTo ==
  ASSUME NEW n \in Nat, NEW S, 0 \in S,
         \A k \in 0..n : k \in S /\ k < n => k + 1 \in S
  PROVE  n \in S
<1> DEFINE lacking == {T \in SUBSET (0..n) : \E k \in 0..n : T = 0..k /\ k \notin S}
<1> SUFFICES ASSUME n \notin S PROVE FALSE
  OBVIOUS
<1>1. lacking \subseteq SUBSET (0..n) /\ lacking # {}
  <2>1. 0..n \in lacking
    OBVIOUS
  <2> QED BY <2>1
<1>2. IsWellFoundedOn(StrictSubsetOrdering(0..n), SUBSET (0..n))
  <2> DEFINE whole == 0..n
  <2>1. IsFiniteSet(whole)
    BY FS_Interval
  <2> HIDE DEF whole
  <2>2. FiniteSubsetsOf(whole) = SUBSET whole
    BY <2>1, FS_FiniteSubsetsOfFinite
  <2>3. IsWellFoundedOn(StrictSubsetOrdering(whole), FiniteSubsetsOf(whole))
    BY FS_StrictSubsetOrderingWellFounded
  <2> QED BY <2>2, <2>3 DEF whole
<1>3. PICK T \in lacking : \A U \in lacking : <<U, T>> \notin StrictSubsetOrdering(0..n)
  <2> HIDE DEF lacking
  <2> QED BY <1>1, <1>2, WFMin
<1>4. PICK k \in 0..n : T = 0..k /\ k \notin S
  BY <1>3
<1>5. k # 0 /\ k - 1 \in 0..n /\ k - 1 < n
  BY <1>4
<1>6. CASE k - 1 \in S
  <2>1. (k - 1) + 1 \in S
    BY <1>5, <1>6
  <2> QED BY <1>4, <2>1
<1>7. CASE k - 1 \notin S
  <2>1. 0..(k - 1) \in lacking
    BY <1>5, <1>7
  <2>2. <<0..(k - 1), T>> \in StrictSubsetOrdering(0..n)
    <3>1. k \in T /\ k \notin 0..(k - 1) /\ 0..(k - 1) \subseteq T /\ T \subseteq 0..n
      BY <1>4
    <3> QED BY <3>1 DEF StrictSubsetOrdering
  <2> QED BY <1>3, <2>1, <2>2
<1> QED BY <1>6, <1>7

\* The node sets exist, so the recursive definition describes them.
LEMMA GrowsFor ==
  ASSUME NEW s, NEW m, NEW n \in Nat
  PROVE  \E reach : Grows(s, m, reach, n)
<1> DEFINE S == {k \in 0..n : \E reach : Grows(s, m, reach, k)}
<1>1. 0 \in S
  <2> DEFINE reach == [i \in 0..0 |-> {m.node}]
  <2>1. Grows(s, m, reach, 0)
    BY DEF Grows
  <2> QED BY <2>1
<1>2. ASSUME NEW k \in 0..n, k \in S, k < n
      PROVE  k + 1 \in S
  <2>1. PICK old : Grows(s, m, old, k)
    BY <1>2
  <2> DEFINE reach == [i \in 0..(k + 1) |-> IF i <= k THEN old[i] ELSE Spread(s, old[k])]
  <2>2. \A i \in 0..k : old[i] = IF i = 0 THEN {m.node} ELSE Spread(s, old[i - 1])
    BY <2>1 DEF Grows
  <2>3. \A i \in 0..(k + 1) :
          reach[i] = IF i = 0 THEN {m.node} ELSE Spread(s, reach[i - 1])
    <3> TAKE i \in 0..(k + 1)
    <3>1. CASE i = 0
      BY <2>2, <3>1
    <3>2. CASE i \in 1..k
      <4>1. reach[i] = old[i] /\ reach[i - 1] = old[i - 1]
        BY <3>2
      <4> QED BY <2>2, <3>2, <4>1
    <3>3. CASE i = k + 1
      <4>1. reach[i] = Spread(s, old[k]) /\ reach[i - 1] = old[k]
        BY <3>3
      <4> QED BY <3>3, <4>1
    <3> QED BY <3>1, <3>2, <3>3
  <2>4. Grows(s, m, reach, k + 1)
    <3>1. reach = [i \in 0..(k + 1) |-> reach[i]]
      OBVIOUS
    <3> HIDE DEF reach
    <3> QED BY <2>3, <3>1 DEF Grows
  <2> QED BY <1>2, <2>4
<1>3. n \in S
  <2> HIDE DEF S
  <2> QED BY <1>1, <1>2, UpTo
<1> QED BY <1>3

LEMMA ReachOf ==
  ASSUME NEW s, NEW m, Cardinality(s.elements) \in Nat
  PROVE  \E reach : /\ Grows(s, m, reach, Cardinality(s.elements))
                    /\ Contributors(s, m) = Touching(s, reach[Cardinality(s.elements)])
<1> DEFINE n == Cardinality(s.elements)
           reach[k \in 0..n] ==
             IF k = 0 THEN {m.node}
             ELSE reach[k - 1] \cup UNION {Signals(e) : e \in
                    {e \in s.elements : Signals(e) \cap reach[k - 1] # {}}}
<1>1. Contributors(s, m) = {e \in s.elements : Signals(e) \cap reach[n] # {}}
  BY Zenon DEF Contributors
<1>2. PICK r : Grows(s, m, r, n)
  BY GrowsFor
<1>3. reach = [k \in 0..n |->
                 IF k = 0 THEN {m.node}
                 ELSE reach[k - 1] \cup UNION {Signals(e) : e \in
                        {e \in s.elements : Signals(e) \cap reach[k - 1] # {}}}]
  BY <1>2, Zenon DEF Grows, Spread, Touching
<1> HIDE DEF reach
<1>4. Grows(s, m, reach, n)
  BY <1>3, Zenon DEF Grows, Spread, Touching
<1> QED BY <1>1, <1>4 DEF Touching

Closed(s, nodes) ==
  \A e \in s.elements : Signals(e) \cap nodes # {} => Signals(e) \subseteq nodes

\* As long as a node set is not closed, each round brings another element in;
\* so after as many rounds as there are elements it is.
LEMMA LastIsClosed ==
  ASSUME NEW s, NEW m, IsFiniteSet(s.elements), NEW reach,
         Grows(s, m, reach, Cardinality(s.elements))
  PROVE  Closed(s, reach[Cardinality(s.elements)])
<1> DEFINE n == Cardinality(s.elements)
           S == {k \in 0..n : \/ Closed(s, reach[k])
                              \/ Cardinality(Touching(s, reach[k])) > k}
<1>1. n \in Nat
  BY FS_CardinalityType
<1>2. \A nodes : /\ IsFiniteSet(Touching(s, nodes))
                 /\ Cardinality(Touching(s, nodes)) \in Nat
                 /\ Cardinality(Touching(s, nodes)) <= n
  <2> TAKE nodes
  <2>1. Touching(s, nodes) \subseteq s.elements
    BY DEF Touching
  <2> QED BY <2>1, FS_Subset, FS_CardinalityType
<1>3. 0 \in S
  <2>1. CASE Touching(s, reach[0]) = {}
    <3>1. Closed(s, reach[0])
      BY <2>1 DEF Closed, Touching
    <3> QED BY <1>1, <3>1
  <2>2. CASE Touching(s, reach[0]) # {}
    <3>1. Cardinality(Touching(s, reach[0])) # 0
      BY <1>2, <2>2, FS_EmptySet
    <3> QED BY <1>1, <1>2, <3>1
  <2> QED BY <2>1, <2>2
<1>4. ASSUME NEW k \in 0..n, k \in S, k < n
      PROVE  k + 1 \in S
  <2>1. reach[k + 1] = Spread(s, reach[k]) /\ k + 1 \in 0..n
    <3>1. k + 1 \in 0..n /\ k + 1 # 0 /\ (k + 1) - 1 = k
      BY <1>1, <1>4
    <3> QED BY <3>1 DEF Grows
  <2>2. CASE Closed(s, reach[k])
    <3>1. Spread(s, reach[k]) = reach[k]
      BY <2>2 DEF Closed, Spread, Touching
    <3> QED BY <2>1, <2>2, <3>1
  <2>3. CASE Touching(s, reach[k + 1]) = Touching(s, reach[k])
    <3>1. Closed(s, reach[k + 1])
      BY <2>1, <2>3 DEF Closed, Spread, Touching
    <3> QED BY <2>1, <3>1
  <2>4. CASE /\ ~ Closed(s, reach[k])
             /\ Touching(s, reach[k + 1]) # Touching(s, reach[k])
    <3> DEFINE now == Touching(s, reach[k])
               next == Touching(s, reach[k + 1])
    <3>1. now \subseteq next
      BY <2>1 DEF Spread, Touching
    <3>2. /\ IsFiniteSet(now) /\ IsFiniteSet(next)
          /\ Cardinality(now) \in Nat /\ Cardinality(next) \in Nat
      BY <1>2
    <3>3. Cardinality(now) < Cardinality(next)
      <4>1. now # next
        BY <2>4
      <4> HIDE DEF now, next
      <4>2. Cardinality(now) <= Cardinality(next)
        BY <3>1, <3>2, FS_Subset
      <4>3. Cardinality(now) # Cardinality(next)
        BY <3>1, <3>2, <4>1, FS_Subset
      <4> QED BY <3>2, <4>2, <4>3
    <3>4. Cardinality(now) > k
      BY <1>4, <2>4
    <3>5. Cardinality(next) > k + 1
      <4> HIDE DEF now, next
      <4> QED BY <3>2, <3>3, <3>4
    <3> QED BY <2>1, <3>5
  <2> QED BY <2>2, <2>3, <2>4
<1>5. n \in S
  <2> HIDE DEF S, n
  <2> QED BY <1>1, <1>3, <1>4, UpTo
<1>6. ~ (Cardinality(Touching(s, reach[n])) > n)
  <2> DEFINE touched == Cardinality(Touching(s, reach[n]))
  <2>1. touched \in Nat /\ touched <= n
    BY <1>2
  <2> HIDE DEF touched, n
  <2> QED BY <1>1, <2>1 DEF touched
<1> QED BY <1>5, <1>6

\* What is connected to a measured node contributes to it
\* (scenario.measurement_contributors).
LEMMA ConnectedContribute ==
  ASSUME NEW s, NEW m, IsFiniteSet(s.elements)
  PROVE  Connected(s, m) \subseteq Contributors(s, m)
<1> DEFINE n == Cardinality(s.elements)
           nodes == {m.node} \cup UNION {Signals(e) : e \in s.elements}
<1>1. n \in Nat
  BY FS_CardinalityType
<1>2. PICK reach : /\ Grows(s, m, reach, n)
                   /\ Contributors(s, m) = Touching(s, reach[n])
  BY <1>1, ReachOf
<1>3. Closed(s, reach[n])
  BY <1>2, LastIsClosed
<1> DEFINE S == {k \in 0..n : m.node \in reach[k] /\ reach[k] \subseteq nodes}
<1>4. n \in S
  <2>1. 0 \in S
    BY <1>1, <1>2 DEF Grows
  <2>2. ASSUME NEW k \in 0..n, k \in S, k < n
        PROVE  k + 1 \in S
    <3>1. k + 1 \in 0..n /\ k + 1 # 0 /\ (k + 1) - 1 = k
      BY <1>1, <2>2
    <3>2. reach[k + 1] = Spread(s, reach[k])
      BY <1>2, <3>1 DEF Grows
    <3>3. Spread(s, reach[k]) \subseteq nodes /\ m.node \in Spread(s, reach[k])
      BY <2>2 DEF Spread, Touching
    <3> QED BY <3>1, <3>2, <3>3
  <2> HIDE DEF S, n
  <2> QED BY <1>1, <2>1, <2>2, UpTo
<1>5. /\ m.node \in reach[n] /\ reach[n] \in SUBSET nodes
      /\ \A e \in s.elements : Signals(e) \cap reach[n] # {} => Signals(e) \subseteq reach[n]
  BY <1>3, <1>4 DEF Closed
<1>6. ASSUME NEW e \in Connected(s, m)
      PROVE  e \in Touching(s, reach[n])
  <2>1. e \in s.elements /\ Signals(e) \cap reach[n] # {}
    <3> HIDE DEF n
    <3> QED BY <1>5, <1>6 DEF Connected, nodes
  <2> QED BY <2>1 DEF Touching
<1> QED BY <1>2, <1>6

-----------------------------------------------------------------------------
\* When SIM.SCENARIOS and SIM.STAGE_COVERAGE pass, every analysis of every
\* declared scenario was completed for the results that were judged, every
\* required stage met an assertion, and every model connected to what was
\* measured accounts for what is required of it (g_simulation.py:136-248,
\* scenario.py:392-535), whatever is declared and however the engine fails.
THEOREM StagesProven == Spec => []PassingStagesWereProven
<1>1. IInv => PassingStagesWereProven
  <2> SUFFICES ASSUME IInv, Ended("SIM.SCENARIOS", "pass"),
                      Ended("SIM.STAGE_COVERAGE", "pass")
               PROVE  /\ \A i \in DOMAIN declared.entries :
                           \A a \in ToSet(Entry(i).analyses) : <<i, a>> \in solved
                      /\ \A stage \in declared.required : \E i \in DOMAIN runs :
                           /\ declared.entries[i].stage = stage
                           /\ \E m \in Asserted(i) :
                                MeasuredVerdict(m, runs[i].values[m.name]) = "PASS"
                      /\ \A i \in DOMAIN runs : \A m \in Entry(i).measurements :
                           LET s == Entry(i)
                               models == {registry[x] : x \in Models(Connected(s, m))}
                           IN  /\ s.requirement # None =>
                                    \A ph \in DOMAIN s.requirement : \A x \in models :
                                      Account(x, ph) \in s.requirement[ph]
                                                           \cup {"not_applicable"}
                               /\ UsableForDesign(s, registry) =>
                                    \A e \in Connected(s, m) :
                                      ~IsModel(e) => e.name \in DOMAIN s.assumptions
    BY Zenon DEF PassingStagesWereProven
  <2>1. /\ runs # None
        /\ \A i \in DOMAIN runs : ExecutedAndMet(i)
        /\ \A stage \in declared.required : StageCovered(stage)
    BY DEF IInv, ScenariosInv, StagesInv
  <2>2. DOMAIN runs = DOMAIN declared.entries
    <3>1. runs \in Seq(ToSet(runs)) /\ Len(runs) = Len(declared.entries)
      BY <2>1 DEF IInv, RunsInv
    <3>2. declared.entries \in Seq(ToSet(declared.entries))
      BY DeclarationsAreLists DEF IInv
    <3> QED BY <3>1, <3>2
  <2>3. \A i \in DOMAIN runs :
          /\ Runnable(Entry(i), registry)
          /\ \A a \in ToSet(Entry(i).analyses) : <<i, a>> \in solved
    BY <2>1 DEF IInv, RunsInv, Sound, ExecutedAndMet
  <2>4. \A stage \in declared.required : \E i \in DOMAIN runs :
          /\ declared.entries[i].stage = stage
          /\ \E m \in Asserted(i) :
               MeasuredVerdict(m, runs[i].values[m.name]) = "PASS"
    BY <2>1 DEF StageCovered, ExecutedAndMet
  <2>5. ASSUME NEW i \in DOMAIN runs, NEW m \in Entry(i).measurements
        PROVE  LET s == Entry(i)
                   models == {registry[x] : x \in Models(Connected(s, m))}
               IN  /\ s.requirement # None =>
                        \A ph \in DOMAIN s.requirement : \A x \in models :
                          Account(x, ph) \in s.requirement[ph] \cup {"not_applicable"}
                   /\ UsableForDesign(s, registry) =>
                        \A e \in Connected(s, m) :
                          ~IsModel(e) => e.name \in DOMAIN s.assumptions
    <3> DEFINE s == Entry(i)
    <3>1. Connected(s, m) \subseteq Contributors(s, m)
      <4>1. IsFiniteSet(s.elements)
        BY <2>2, DeclarationsAreLists DEF IInv, Entry
      <4> HIDE DEF s
      <4> QED BY <4>1, ConnectedContribute
    <3>2. Covered(s, registry)
      BY <2>3 DEF Runnable
    <3> HIDE DEF s
    <3>3. s.requirement # None =>
            \A ph \in DOMAIN s.requirement :
              \A x \in {registry[y] : y \in Models(Contributors(s, m))} :
                Account(x, ph) \in s.requirement[ph] \cup {"not_applicable"}
      BY <3>2 DEF Covered, CoverageMet, s
    <3>4. Models(Connected(s, m)) \subseteq Models(Contributors(s, m))
      BY <3>1 DEF Models
    <3>5. UsableForDesign(s, registry) =>
            \A e \in Contributors(s, m) :
              ~IsModel(e) => e.name \in DOMAIN s.assumptions
      BY DEF UsableForDesign, AssumptionsAccepted, s
    <3> QED BY <3>1, <3>3, <3>4, <3>5 DEF s
  <2> QED BY <2>2, <2>3, <2>4, <2>5
<1> QED BY <1>1, InitIInv, NextIInv, PTL DEF Spec

-----------------------------------------------------------------------------
(* What a validation that passes has measured.  The models are those of    *)
(* the board that was read, bound to the one that was hashed; a provenance *)
(* gate that passes has compared that with the board it hashed itself.  So *)
(* what an edit during the validation can spoil is either refused, or the  *)
(* board was read before and hashed after it.                              *)

LoadedInv ==
  /\ board \in DOMAIN Boards
  /\ loaded # None => loaded \in DOMAIN Boards

RegistryInv ==
  registry # None =>
    /\ extraction.from \in DOMAIN Boards /\ extraction.digest \in DOMAIN Boards
    /\ Extractable(declared, extraction.from)
    /\ DOMAIN Frozen(declared) \cap DOMAIN declared.paths = {}
    /\ registry = ModelsOf(declared, extraction.from, extraction.digest)

ProvenanceInv ==
  Ended("SIM.MODEL_PROVENANCE", "pass") =>
    /\ registry # None
    /\ judged \in DOMAIN Boards
    /\ OfThisBoard(registry, judged)

BoardsInv == LoadedInv /\ RegistryInv /\ ProvenanceInv

\* A gate that does not judge the models ends.
LEMMA EndKeepsBoards ==
  ASSUME BoardsInv, NEW how, EndGate(how),
         how = "pass" => Gate # "SIM.MODEL_PROVENANCE",
         UNCHANGED <<declared, board, registry, extraction, judged>>
  PROVE  BoardsInv'
<1>1. loaded' = None
      /\ status' = [g \in DOMAIN status \cup {Gate} |->
                      IF g = Gate THEN how ELSE status[g]]
  BY DEF EndGate
<1>2. Ended("SIM.MODEL_PROVENANCE", "pass")' => Ended("SIM.MODEL_PROVENANCE", "pass")
  BY <1>1 DEF Ended
<1>3. LoadedInv' /\ RegistryInv'
  BY <1>1 DEF BoardsInv, LoadedInv, RegistryInv
<1>4. ProvenanceInv'
  BY <1>2 DEF BoardsInv, ProvenanceInv
<1> QED BY <1>3, <1>4 DEF BoardsInv

LEMMA NextBoardsInv == BoardsInv /\ [Next]_vars => BoardsInv'
<1> SUFFICES ASSUME BoardsInv, [Next]_vars PROVE BoardsInv'
  OBVIOUS
<1> USE DEF BoardsInv
<1>1. CASE Edit \/ Load
  <2>1. UNCHANGED <<declared, registry, status, extraction, judged>>
    BY <1>1 DEF Edit, Load
  <2>2. LoadedInv'
    BY <1>1 DEF Edit, Load, LoadedInv
  <2> QED BY <2>1, <2>2 DEF RegistryInv, ProvenanceInv, Ended
<1>2. CASE Register
  <2>1. /\ loaded # None /\ registry = None /\ Extractable(declared, loaded)
        /\ DOMAIN Frozen(declared) \cap DOMAIN declared.paths = {}
        /\ registry' = ModelsOf(declared, loaded, board)
        /\ extraction' = [from |-> loaded, digest |-> board]
        /\ loaded' = None
        /\ UNCHANGED <<declared, board, status, judged>>
    BY <1>2 DEF Register, ModelsOf
  <2>2. LoadedInv' /\ RegistryInv'
    BY <2>1 DEF LoadedInv, RegistryInv
  <2>3. ProvenanceInv'
    BY <2>1 DEF ProvenanceInv, Ended
  <2> QED BY <2>2, <2>3
<1>3. CASE RefuseModels \/ SkipProvenance \/ RefuseScenario \/ Raise
  <2>1. /\ EndGate("error") \/ EndGate("not_applicable")
        /\ UNCHANGED <<declared, board, registry, extraction, judged>>
    BY <1>3 DEF RefuseModels, SkipProvenance, RefuseScenario, Raise
  <2> QED BY <2>1, EndKeepsBoards
<1>4. CASE JudgeProvenance
  <2> DEFINE how == IF OfThisBoard(registry, board) THEN "pass" ELSE "fail"
  <2>1. /\ Gate = "SIM.MODEL_PROVENANCE" /\ registry # None /\ judged' = board
        /\ EndGate(how)
        /\ UNCHANGED <<declared, board, registry, extraction>>
    BY <1>4 DEF JudgeProvenance
  <2>2. /\ loaded' = None
        /\ status' = [g \in DOMAIN status \cup {Gate} |->
                        IF g = Gate THEN how ELSE status[g]]
    BY <2>1 DEF EndGate
  <2>3. LoadedInv' /\ RegistryInv'
    BY <2>1, <2>2 DEF LoadedInv, RegistryInv
  <2>4. Ended("SIM.MODEL_PROVENANCE", "pass")' => OfThisBoard(registry, board)
    BY <2>1, <2>2 DEF Ended
  <2>5. ProvenanceInv'
    BY <2>1, <2>4 DEF ProvenanceInv, LoadedInv
  <2> QED BY <2>3, <2>5
<1>5. CASE JudgeScenarios \/ JudgeStageCoverage
  <2>1. /\ Gate # "SIM.MODEL_PROVENANCE" /\ \E how : EndGate(how)
        /\ UNCHANGED <<declared, board, registry, extraction, judged>>
    BY <1>5 DEF JudgeScenarios, JudgeStageCoverage
  <2> QED BY <2>1, EndKeepsBoards
<1>6. CASE \/ StartScenario \/ ReportUnavailable \/ Analyse \/ FailToConverge
           \/ Complete \/ CacheRuns \/ UNCHANGED vars
  <2>1. UNCHANGED <<declared, board, loaded, registry, status, extraction, judged>>
    BY <1>6 DEF StartScenario, ReportUnavailable, Analyse, FailToConverge, Complete,
                CacheRuns, vars
  <2> QED BY <2>1 DEF LoadedInv, RegistryInv, ProvenanceInv, Ended
<1> QED BY <1>1, <1>2, <1>3, <1>4, <1>5, <1>6 DEF Next

\* When all three gates pass: every asserted value was met by what the
\* declared circuit gives with the resistances the decks used - no value is
\* of another scenario, of an attempt that was abandoned, or of another
\* measurement, but for those that share one place of the engine in this
\* process - and the models are of the board the provenance gate hashed, if
\* it was that board that was read (g_simulation.py:47-248, ngspice.py).
PassedWasMeasured ==
  AllPassed =>
    /\ \A i \in DOMAIN runs : \A m \in Asserted(i) :
         /\ Runnable(Entry(i), registry)
         /\ Alone(i, m) => MeasuredVerdict(m, Asked(i, m)) = "PASS"
    /\ ReadAsHashed =>
         /\ judged \in DOMAIN Boards /\ AllOf(declared, judged)
         /\ registry = ModelsOf(declared, judged, judged)
    /\ OfThisBoard(registry, judged)

LEMMA AllOfThem ==
  AllPassed => Ended("SIM.MODEL_PROVENANCE", "pass") /\ Ended("SIM.SCENARIOS", "pass")
<1>1. DOMAIN Gates = 1..3
  BY DEF Gates
<1>2. "SIM.MODEL_PROVENANCE" \in ToSet(Gates) /\ "SIM.SCENARIOS" \in ToSet(Gates)
  BY <1>1 DEF Gates, ToSet
<1> QED BY <1>2 DEF AllPassed

LEMMA InvPassed == IInv /\ BoardsInv => PassedWasMeasured
<1> SUFFICES ASSUME IInv, BoardsInv, AllPassed PROVE
      /\ \A i \in DOMAIN runs : \A m \in Asserted(i) :
           /\ Runnable(Entry(i), registry)
           /\ Alone(i, m) => MeasuredVerdict(m, Asked(i, m)) = "PASS"
      /\ ReadAsHashed =>
           /\ judged \in DOMAIN Boards /\ AllOf(declared, judged)
           /\ registry = ModelsOf(declared, judged, judged)
      /\ OfThisBoard(registry, judged)
  BY DEF PassedWasMeasured
<1>1. Ended("SIM.MODEL_PROVENANCE", "pass") /\ Ended("SIM.SCENARIOS", "pass")
  BY AllOfThem
<1>2. /\ runs # None /\ \A i \in DOMAIN runs : ExecutedAndMet(i)
      /\ Sound(runs)
  BY <1>1 DEF IInv, ScenariosInv, RunsInv
<1>3. ASSUME NEW i \in DOMAIN runs, NEW m \in Asserted(i)
      PROVE  /\ Runnable(Entry(i), registry)
             /\ Alone(i, m) => MeasuredVerdict(m, Asked(i, m)) = "PASS"
  <2>1. m \in Entry(i).measurements
    BY DEF Asserted
  <2>2. /\ runs[i].status = "ran"
        /\ MeasuredVerdict(m, runs[i].values[m.name]) = "PASS"
    BY <1>2 DEF ExecutedAndMet
  <2>3. /\ Runnable(Entry(i), registry)
        /\ Alone(i, m) => runs[i].values[m.name] = Asked(i, m)
    BY <1>2, <2>1, <2>2 DEF Sound
  <2> QED BY <2>2, <2>3
<1>4. /\ registry # None /\ judged \in DOMAIN Boards /\ OfThisBoard(registry, judged)
  BY <1>1 DEF BoardsInv, ProvenanceInv
<1>5. ASSUME ReadAsHashed
      PROVE  /\ AllOf(declared, judged)
             /\ registry = ModelsOf(declared, judged, judged)
  <2> DEFINE b == extraction.from
  <2>1. /\ b \in DOMAIN Boards /\ Extractable(declared, b)
        /\ DOMAIN Frozen(declared) \cap DOMAIN declared.paths = {}
        /\ registry = ModelsOf(declared, b, b)
    BY <1>4, <1>5 DEF BoardsInv, RegistryInv, ReadAsHashed
  <2> HIDE DEF b
  <2>2. CASE DOMAIN declared.paths = {}
    <3>1. Extracted(declared, b, b) = Extracted(declared, judged, judged)
      BY <2>2 DEF Extracted
    <3> QED BY <1>4, <2>1, <2>2, <3>1 DEF AllOf, Extractable, ModelsOf
  <2>3. CASE DOMAIN declared.paths # {}
    <3>1. PICK alias \in DOMAIN declared.paths : TRUE
      BY <2>3
    <3>2. /\ alias \in DOMAIN registry
          /\ registry[alias] = ModelOf(b, declared.paths[alias], b)
      BY <2>1, <3>1 DEF ModelsOf, Merged, Extracted
    <3>3. ModelOf(b, declared.paths[alias], b).digest = b
      BY DEF ModelOf
    <3>4. b \in {None, judged} /\ b # None
      BY <1>4, <2>1, <3>2, <3>3, NoneIsNothing DEF OfThisBoard
    <3> QED BY <1>4, <2>1, <3>4 DEF AllOf
  <2> QED BY <2>2, <2>3
<1> QED BY <1>3, <1>4, <1>5

\* When all three gates pass, PassedWasMeasured holds: every value rests on its
\* own circuit and run, and the models are of the board that was judged if that
\* board was the one read (g_simulation.py). IInv carries the runs, BoardsInv
\* what is known of a board saved again between two reads.
THEOREM WhatPassedWasMeasured == Spec => []PassedWasMeasured
<1>1. Init => BoardsInv
  BY DEF Init, BoardsInv, LoadedInv, RegistryInv, ProvenanceInv, Ended
<1> QED BY <1>1, InitIInv, NextIInv, NextBoardsInv, InvPassed, PTL DEF Spec

-----------------------------------------------------------------------------
(* Sums and products over finite sets.                                     *)

\* What not every subset of a finite set has, a smallest one lacks.
LEMMA SmallestWithout ==
  ASSUME NEW S, IsFiniteSet(S), NEW P, S \notin P
  PROVE  \E T \in SUBSET S : T \notin P /\ \A U \in SUBSET T : U # T => U \in P
<1> DEFINE lacking == {T \in SUBSET S : T \notin P}
<1>1. lacking \subseteq SUBSET S /\ S \in lacking
  OBVIOUS
<1>2. IsWellFoundedOn(StrictSubsetOrdering(S), SUBSET S)
  <2>1. FiniteSubsetsOf(S) = SUBSET S
    BY FS_FiniteSubsetsOfFinite
  <2>2. IsWellFoundedOn(StrictSubsetOrdering(S), FiniteSubsetsOf(S))
    BY FS_StrictSubsetOrderingWellFounded
  <2> QED BY <2>1, <2>2
<1>3. PICK T \in lacking : \A U \in lacking : <<U, T>> \notin StrictSubsetOrdering(S)
  <2> HIDE DEF lacking
  <2> QED BY <1>1, <1>2, WFMin
<1>4. ASSUME NEW U \in SUBSET T, U # T, U \notin P PROVE FALSE
  <2>1. U \in lacking /\ U \subseteq S /\ T \subseteq S
    BY <1>4
  <2>2. <<U, T>> \in StrictSubsetOrdering(S)
    BY <1>4, <2>1 DEF StrictSubsetOrdering
  <2> QED BY <1>3, <2>1, <2>2
<1> QED BY <1>3, <1>4

\* A sum and a product differ in what two terms are made into.
Unit(times) == IF times THEN 1 ELSE 0
Combined(times, x, y) == IF times THEN x * y ELSE x + y
Some(S) == CHOOSE x \in S : TRUE

Folded(times, f, S) ==
  IF times THEN FoldFunctionOnSet(LAMBDA x, y : x * y, 1, f, S)
           ELSE SumFunctionOnSet(f, S)

\* The function of sets that the fold works through.
Unfolds(times, f, S, g) ==
  g = [T \in SUBSET S |->
         IF T = {} THEN Unit(times) ELSE Combined(times, f[Some(T)], g[T \ {Some(T)}])]

LEMMA UnfoldsAlike ==
  ASSUME NEW times, NEW f, NEW S, NEW R, NEW g, NEW h,
         Unfolds(times, f, S, g), Unfolds(times, f, R, h),
         NEW T, T \subseteq S, T \subseteq R, IsFiniteSet(T)
  PROVE  g[T] = h[T]
<1> DEFINE P == {U \in SUBSET T : g[U] = h[U]}
<1> SUFFICES ASSUME T \notin P PROVE FALSE
  OBVIOUS
<1>1. PICK U \in SUBSET T : U \notin P /\ \A V \in SUBSET U : V # U => V \in P
  <2> HIDE DEF P
  <2> QED BY SmallestWithout
<1>2. /\ g[U] = IF U = {} THEN Unit(times)
                ELSE Combined(times, f[Some(U)], g[U \ {Some(U)}])
      /\ h[U] = IF U = {} THEN Unit(times)
                ELSE Combined(times, f[Some(U)], h[U \ {Some(U)}])
  <2>1. U \in SUBSET S /\ U \in SUBSET R
    OBVIOUS
  <2> QED BY <2>1 DEF Unfolds
<1>3. U # {} => g[U \ {Some(U)}] = h[U \ {Some(U)}]
  BY <1>1 DEF Some
<1>4. g[U] = h[U]
  BY <1>2, <1>3
<1> QED BY <1>1, <1>4

LEMMA UnfoldsFor ==
  ASSUME NEW times, NEW f, NEW S, IsFiniteSet(S)
  PROVE  \E g : Unfolds(times, f, S, g)
<1> DEFINE P == {T \in SUBSET S : \E g : Unfolds(times, f, T, g)}
<1> SUFFICES ASSUME S \notin P PROVE FALSE
  OBVIOUS
<1>1. PICK T \in SUBSET S : T \notin P /\ \A U \in SUBSET T : U # T => U \in P
  <2> HIDE DEF P
  <2> QED BY SmallestWithout
<1> DEFINE of(U) == CHOOSE g : Unfolds(times, f, U, g)
           less(U) == U \ {Some(U)}
           g == [U \in SUBSET T |->
                   IF U = {} THEN Unit(times)
                   ELSE Combined(times, f[Some(U)], of(less(U))[less(U)])]
<1>2. \A U \in SUBSET T : U # T => Unfolds(times, f, U, of(U))
  BY <1>1
<1>3. ASSUME NEW U \in SUBSET T, U # {}
      PROVE  less(U) \in SUBSET T /\ less(U) # T /\ IsFiniteSet(less(U))
  BY <1>3, FS_Subset DEF Some
<1>4. ASSUME NEW U \in SUBSET T, U # {}
      PROVE  g[less(U)] = of(less(U))[less(U)]
  <2> DEFINE V == less(U)
  <2>1. V \in SUBSET T /\ V # T /\ IsFiniteSet(V)
    BY <1>3, <1>4
  <2>2. Unfolds(times, f, V, of(V))
    BY <1>2, <2>1
  <2> HIDE DEF V, of
  <2>3. of(V)[V] = IF V = {} THEN Unit(times)
                   ELSE Combined(times, f[Some(V)], of(V)[less(V)])
    BY <2>2 DEF Unfolds
  <2>4. g[V] = IF V = {} THEN Unit(times)
               ELSE Combined(times, f[Some(V)], of(less(V))[less(V)])
    BY <2>1
  <2>5. CASE V = {}
    <3>1. g[V] = of(V)[V]
      BY <2>3, <2>4, <2>5
    <3> QED BY <3>1 DEF V
  <2>6. CASE V # {}
    <3>1. /\ less(V) \in SUBSET T /\ less(V) # T /\ IsFiniteSet(less(V))
          /\ less(V) \subseteq V
      BY <1>3, <2>1, <2>6
    <3>2. Unfolds(times, f, less(V), of(less(V)))
      BY <1>2, <3>1
    <3> DEFINE W == less(V)
    <3> HIDE DEF W, less
    <3>3. of(V)[W] = of(W)[W]
      BY <2>2, <3>1, <3>2, UnfoldsAlike DEF W
    <3>4. g[V] = of(V)[V]
      BY <2>3, <2>4, <2>6, <3>3 DEF W
    <3> QED BY <3>4 DEF V
  <2> QED BY <2>5, <2>6
<1>5. g = [U \in SUBSET T |->
             IF U = {} THEN Unit(times) ELSE Combined(times, f[Some(U)], g[less(U)])]
  <2>1. \A U \in SUBSET T :
          g[U] = IF U = {} THEN Unit(times) ELSE Combined(times, f[Some(U)], g[less(U)])
    <3> HIDE DEF of, less
    <3> QED BY <1>4
  <2>2. g = [U \in SUBSET T |-> g[U]]
    OBVIOUS
  <2> HIDE DEF g
  <2> QED BY <2>1, <2>2
<1>6. Unfolds(times, f, T, g)
  <2> HIDE DEF g
  <2> QED BY <1>5 DEF Unfolds
<1> QED BY <1>1, <1>6

LEMMA FoldedUnfolds ==
  ASSUME NEW times \in BOOLEAN, NEW f, NEW S, IsFiniteSet(S)
  PROVE  \E g : Unfolds(times, f, S, g) /\ Folded(times, f, S) = g[S]
<1>1. PICK g : Unfolds(times, f, S, g)
  BY UnfoldsFor
<1>2. CASE times
  <2> DEFINE iter[s \in SUBSET S] ==
               IF s = {} THEN 1
               ELSE f[CHOOSE x \in s : TRUE] * iter[s \ {CHOOSE x \in s : TRUE}]
  <2>1. FoldFunctionOnSet(LAMBDA x, y : x * y, 1, f, S) = iter[S]
    BY Zenon DEF FoldFunctionOnSet, MapThenFoldSet
  <2>2. g = [s \in SUBSET S |->
               IF s = {} THEN 1
               ELSE f[CHOOSE x \in s : TRUE] * g[s \ {CHOOSE x \in s : TRUE}]]
    BY <1>1, <1>2 DEF Unfolds, Unit, Combined, Some
  <2>3. iter = [s \in SUBSET S |->
                  IF s = {} THEN 1
                  ELSE f[CHOOSE x \in s : TRUE] * iter[s \ {CHOOSE x \in s : TRUE}]]
    BY <2>2, Zenon
  <2> HIDE DEF iter
  <2>4. Unfolds(times, f, S, iter)
    BY <1>2, <2>3 DEF Unfolds, Unit, Combined, Some
  <2> QED BY <1>2, <2>1, <2>4 DEF Folded
<1>3. CASE ~times
  <2> DEFINE iter[s \in SUBSET S] ==
               IF s = {} THEN 0
               ELSE f[CHOOSE x \in s : TRUE] + iter[s \ {CHOOSE x \in s : TRUE}]
  <2>1. SumFunctionOnSet(f, S) = iter[S]
    BY Zenon DEF SumFunctionOnSet, FoldFunctionOnSet, MapThenFoldSet
  <2>2. g = [s \in SUBSET S |->
               IF s = {} THEN 0
               ELSE f[CHOOSE x \in s : TRUE] + g[s \ {CHOOSE x \in s : TRUE}]]
    BY <1>1, <1>3 DEF Unfolds, Unit, Combined, Some
  <2>3. iter = [s \in SUBSET S |->
                  IF s = {} THEN 0
                  ELSE f[CHOOSE x \in s : TRUE] + iter[s \ {CHOOSE x \in s : TRUE}]]
    BY <2>2, Zenon
  <2> HIDE DEF iter
  <2>4. Unfolds(times, f, S, iter)
    BY <1>3, <2>3 DEF Unfolds, Unit, Combined, Some
  <2> QED BY <1>3, <2>1, <2>4 DEF Folded
<1> QED BY <1>2, <1>3

LEMMA FoldedSteps ==
  ASSUME NEW times \in BOOLEAN, NEW f, NEW S, IsFiniteSet(S)
  PROVE  /\ S = {} => Folded(times, f, S) = Unit(times)
         /\ S # {} => Folded(times, f, S)
                        = Combined(times, f[Some(S)], Folded(times, f, S \ {Some(S)}))
<1>1. PICK g : Unfolds(times, f, S, g) /\ Folded(times, f, S) = g[S]
  BY FoldedUnfolds
<1>2. g[S] = IF S = {} THEN Unit(times)
             ELSE Combined(times, f[Some(S)], g[S \ {Some(S)}])
  <2>1. S \in SUBSET S
    OBVIOUS
  <2> QED BY <1>1, <2>1 DEF Unfolds
<1> DEFINE R == S \ {Some(S)}
<1>3. IsFiniteSet(R) /\ R \subseteq S
  BY FS_Subset
<1> HIDE DEF R
<1>4. PICK h : Unfolds(times, f, R, h) /\ Folded(times, f, R) = h[R]
  BY <1>3, FoldedUnfolds
<1>5. g[R] = h[R]
  BY <1>1, <1>3, <1>4, UnfoldsAlike
<1> QED BY <1>1, <1>2, <1>4, <1>5 DEF R

LEMMA FoldedWhole ==
  ASSUME NEW times \in BOOLEAN, NEW f, NEW S, IsFiniteSet(S)
  PROVE  /\ (\A x \in S : f[x] \in Int) => Folded(times, f, S) \in Int
         /\ (\A x \in S : f[x] \in Nat) => Folded(times, f, S) \in Nat
<1>1. ASSUME NEW K, K \in {Int, Nat}, \A x \in S : f[x] \in K
      PROVE  Folded(times, f, S) \in K
  <2> DEFINE P == {T \in SUBSET S : Folded(times, f, T) \in K}
  <2> SUFFICES ASSUME S \notin P PROVE FALSE
    OBVIOUS
  <2>1. PICK T \in SUBSET S : T \notin P /\ \A U \in SUBSET T : U # T => U \in P
    <3> HIDE DEF P
    <3> QED BY SmallestWithout
  <2>2. IsFiniteSet(T)
    BY FS_Subset
  <2>3. CASE T = {}
    <3>1. Folded(times, f, T) = Unit(times)
      BY <2>2, <2>3, FoldedSteps
    <3> QED BY <1>1, <2>1, <3>1 DEF Unit
  <2>4. CASE T # {}
    <3> DEFINE x == Some(T)
               rest == Folded(times, f, T \ {x})
    <3>1. x \in T
      BY <2>4 DEF Some
    <3>2. f[x] \in K /\ rest \in K
      BY <1>1, <2>1, <3>1
    <3>3. Folded(times, f, T) = Combined(times, f[x], rest)
      BY <2>2, <2>4, FoldedSteps
    <3> HIDE DEF x, rest
    <3>4. Combined(times, f[x], rest) \in K
      <4>1. CASE K = Int
        BY <3>2, <4>1 DEF Combined
      <4>2. CASE K = Nat
        BY <3>2, <4>2 DEF Combined
      <4> QED BY <1>1, <4>1, <4>2
    <3> QED BY <2>1, <3>3, <3>4
  <2> QED BY <2>3, <2>4
<1> QED BY <1>1

\* Which element is taken first makes no difference.
LEMMA FoldedTakes ==
  ASSUME NEW times \in BOOLEAN, NEW f, NEW S, IsFiniteSet(S),
         \A y \in S : f[y] \in Int, NEW x \in S
  PROVE  Folded(times, f, S) = Combined(times, f[x], Folded(times, f, S \ {x}))
<1> DEFINE P == {T \in SUBSET S : \A y \in T :
                   Folded(times, f, T) = Combined(times, f[y], Folded(times, f, T \ {y}))}
<1> SUFFICES ASSUME S \notin P PROVE FALSE
  OBVIOUS
<1>1. PICK T \in SUBSET S : T \notin P /\ \A U \in SUBSET T : U # T => U \in P
  <2> HIDE DEF P
  <2> QED BY SmallestWithout
<1>2. PICK y \in T :
        Folded(times, f, T) # Combined(times, f[y], Folded(times, f, T \ {y}))
  BY <1>1
<1> DEFINE c == Some(T)
           both == Folded(times, f, (T \ {c}) \ {y})
<1>3. /\ IsFiniteSet(T) /\ IsFiniteSet(T \ {c}) /\ IsFiniteSet((T \ {c}) \ {y})
      /\ c \in T
  BY <1>2, FS_Subset DEF Some
<1>4. Folded(times, f, T) = Combined(times, f[c], Folded(times, f, T \ {c}))
  BY <1>2, <1>3, FoldedSteps
<1>5. c # y
  BY <1>2, <1>4
<1>6. Folded(times, f, T \ {c}) = Combined(times, f[y], both)
  <2>1. T \ {c} \in P /\ y \in T \ {c}
    BY <1>1, <1>3, <1>5
  <2> QED BY <2>1
<1>7. Folded(times, f, T \ {y}) = Combined(times, f[c], both)
  <2>1. T \ {y} \in P /\ c \in T \ {y} /\ (T \ {y}) \ {c} = (T \ {c}) \ {y}
    BY <1>1, <1>3, <1>5
  <2> QED BY <2>1
<1>8. f[c] \in Int /\ f[y] \in Int /\ both \in Int
  BY <1>3, FoldedWhole
<1> HIDE DEF c, both
<1>9. Combined(times, f[c], Combined(times, f[y], both))
        = Combined(times, f[y], Combined(times, f[c], both))
  BY <1>8 DEF Combined
<1> QED BY <1>2, <1>4, <1>6, <1>7, <1>9

LEMMA FoldedSame ==
  ASSUME NEW times \in BOOLEAN, NEW f, NEW g, NEW S, IsFiniteSet(S),
         \A x \in S : f[x] = g[x]
  PROVE  Folded(times, f, S) = Folded(times, g, S)
<1> DEFINE P == {T \in SUBSET S : Folded(times, f, T) = Folded(times, g, T)}
<1> SUFFICES ASSUME S \notin P PROVE FALSE
  OBVIOUS
<1>1. PICK T \in SUBSET S : T \notin P /\ \A U \in SUBSET T : U # T => U \in P
  <2> HIDE DEF P
  <2> QED BY SmallestWithout
<1>2. IsFiniteSet(T)
  BY FS_Subset
<1>3. CASE T = {}
  BY <1>1, <1>2, <1>3, FoldedSteps
<1>4. CASE T # {}
  <2>1. Some(T) \in T
    BY <1>4 DEF Some
  <2>2. f[Some(T)] = g[Some(T)]
    BY <2>1
  <2>3. Folded(times, f, T \ {Some(T)}) = Folded(times, g, T \ {Some(T)})
    BY <1>1, <2>1
  <2> QED BY <1>1, <1>2, <1>4, <2>2, <2>3, FoldedSteps
<1> QED BY <1>3, <1>4

\* The two folds that the models are built from.
Sum(f, S) == Folded(FALSE, f, S)
Product(f, S) == Folded(TRUE, f, S)

LEMMA SumIs ==
  ASSUME NEW f PROVE SumFunction(f) = Sum(f, DOMAIN f)
BY DEF SumFunction, Sum, Folded

LEMMA Sums ==
  ASSUME NEW f, NEW S, IsFiniteSet(S), \A x \in S : f[x] \in Int
  PROVE  /\ Sum(f, S) \in Int
         /\ S = {} => Sum(f, S) = 0
         /\ (\A x \in S : f[x] \in Nat) => Sum(f, S) \in Nat
         /\ \A x \in S : Sum(f, S) = f[x] + Sum(f, S \ {x})
<1>1. S = {} => Sum(f, S) = 0
  BY FoldedSteps DEF Sum, Unit
<1>2. ASSUME NEW x \in S PROVE Sum(f, S) = f[x] + Sum(f, S \ {x})
  <2>1. \A times \in BOOLEAN :
          Folded(times, f, S) = Combined(times, f[x], Folded(times, f, S \ {x}))
    BY FoldedTakes
  <2>2. Folded(FALSE, f, S) = f[x] + Folded(FALSE, f, S \ {x})
    BY <2>1 DEF Combined
  <2> QED BY <2>2 DEF Sum
<1> QED BY <1>1, <1>2, FoldedWhole DEF Sum

LEMMA Products ==
  ASSUME NEW f, NEW S, IsFiniteSet(S), \A x \in S : f[x] \in Nat
  PROVE  /\ Product(f, S) \in Nat
         /\ \A x \in S : Product(f, S) = f[x] * Product(f, S \ {x})
<1>1. ASSUME NEW x \in S PROVE Product(f, S) = f[x] * Product(f, S \ {x})
  <2>1. \A y \in S : f[y] \in Int
    OBVIOUS
  <2>2. \A times \in BOOLEAN :
          Folded(times, f, S) = Combined(times, f[x], Folded(times, f, S \ {x}))
    BY <2>1, FoldedTakes
  <2>3. Folded(TRUE, f, S) = f[x] * Folded(TRUE, f, S \ {x})
    BY <2>2 DEF Combined
  <2> QED BY <2>3 DEF Product
<1> QED BY <1>1, FoldedWhole DEF Product

\* Terms that are nowhere larger do not make a larger sum, and a smaller one
\* as soon as one of them is smaller.
LEMMA SumsCompare ==
  ASSUME NEW f, NEW g, NEW S, IsFiniteSet(S),
         \A x \in S : f[x] \in Int /\ g[x] \in Int /\ f[x] <= g[x]
  PROVE  /\ Sum(f, S) <= Sum(g, S)
         /\ (\E x \in S : f[x] < g[x]) => Sum(f, S) < Sum(g, S)
<1> DEFINE P == {T \in SUBSET S : Sum(f, T) <= Sum(g, T)}
<1>1. ASSUME NEW T \in SUBSET S PROVE T \in P
  <2> SUFFICES ASSUME T \notin P PROVE FALSE
    OBVIOUS
  <2>1. PICK U \in SUBSET T : U \notin P /\ \A V \in SUBSET U : V # U => V \in P
    <3>1. IsFiniteSet(T)
      BY FS_Subset
    <3> HIDE DEF P
    <3> QED BY <3>1, SmallestWithout
  <2>2. IsFiniteSet(U) /\ \A x \in U : f[x] \in Int /\ g[x] \in Int /\ f[x] <= g[x]
    BY FS_Subset
  <2>3. CASE U = {}
    BY <2>1, <2>2, <2>3, Sums
  <2>4. CASE U # {}
    <3>1. PICK x \in U : TRUE
      BY <2>4
    <3>2. IsFiniteSet(U \ {x}) /\ Sum(f, U \ {x}) <= Sum(g, U \ {x})
      BY <2>1, <2>2, FS_Subset
    <3>3. /\ Sum(f, U) = f[x] + Sum(f, U \ {x}) /\ Sum(g, U) = g[x] + Sum(g, U \ {x})
          /\ Sum(f, U \ {x}) \in Int /\ Sum(g, U \ {x}) \in Int
      BY <2>2, <3>2, Sums
    <3>4. f[x] \in Int /\ g[x] \in Int /\ f[x] <= g[x]
      BY <2>2
    <3>5. Sum(f, U) <= Sum(g, U)
      BY <3>2, <3>3, <3>4
    <3> QED BY <2>1, <3>5
  <2> QED BY <2>3, <2>4
<1>2. ASSUME NEW x \in S, f[x] < g[x] PROVE Sum(f, S) < Sum(g, S)
  <2>1. S \ {x} \in P /\ IsFiniteSet(S \ {x})
    BY <1>1, FS_Subset
  <2>2. /\ Sum(f, S) = f[x] + Sum(f, S \ {x}) /\ Sum(g, S) = g[x] + Sum(g, S \ {x})
        /\ Sum(f, S \ {x}) \in Int /\ Sum(g, S \ {x}) \in Int
    BY <2>1, Sums
  <2> QED BY <1>2, <2>1, <2>2
<1> QED BY <1>1, <1>2

-----------------------------------------------------------------------------
(* Cuts: sets of contacts, and the pieces that lead out of them.           *)

Crosses(p, side) == p.ends \cap side # {} /\ ~ p.ends \subseteq side
Link(p) == \E x, y \in p.ends : p.ends = {x, y}

\* Copper that leads from a to b crosses whatever keeps them apart.
LEMMA JoinedCrosses ==
  ASSUME NEW P, NEW a, NEW b, Joined(P, a, b), NEW side, a \in side, b \notin side
  PROVE  \E p \in P : Crosses(p, side)
<1> DEFINE ends == UNION {p.ends : p \in P}
<1>1. \A others \in SUBSET (ends \ {b}) : \E p \in P :
        p.ends \cap (others \cup {a}) # {} /\ ~ p.ends \subseteq others \cup {a}
  BY DEF Joined
<1>2. \A p \in P : p.ends \subseteq ends
  OBVIOUS
<1> HIDE DEF ends
<1> DEFINE others == side \cap (ends \ {b})
<1>3. PICK p \in P : p.ends \cap (others \cup {a}) # {} /\ ~ p.ends \subseteq others \cup {a}
  BY <1>1
<1> QED BY <1>2, <1>3 DEF Crosses

LEMMA ApartUncrossed ==
  ASSUME NEW P, NEW a, NEW b, ~Joined(P, a, b)
  PROVE  \E side : a \in side /\ b \notin side /\ \A p \in P : ~Crosses(p, side)
<1> DEFINE ends == UNION {p.ends : p \in P}
<1>1. PICK others \in SUBSET (ends \ {b}) :
        a # b /\ ~ \E p \in P : /\ p.ends \cap (others \cup {a}) # {}
                                /\ ~ p.ends \subseteq others \cup {a}
  BY DEF Joined
<1> HIDE DEF ends
<1> QED BY <1>1 DEF Crosses

LEMMA SpanCrosses ==
  ASSUME NEW P, NEW C, Spans(P, C), NEW side, NEW x \in C, x \in side,
         NEW y \in C, y \notin side
  PROVE  \E p \in P : Crosses(p, side)
BY JoinedCrosses DEF Spans

LEMMA SpanlessUncrossed ==
  ASSUME NEW P, NEW C, ~Spans(P, C)
  PROVE  \E side : /\ \E x, y \in C : x \in side /\ y \notin side
                   /\ \A p \in P : ~Crosses(p, side)
<1>1. PICK x \in C, y \in C : ~Joined(P, x, y)
  BY DEF Spans
<1> QED BY <1>1, ApartUncrossed

\* The contacts on exactly one of two sides: a piece leads out of these when
\* it leads out of exactly one of the two.
Differ(S, R) == (S \ R) \cup (R \ S)

LEMMA CrossesDiffer ==
  ASSUME NEW p, Link(p), NEW S, NEW R
  PROVE  /\ Crosses(p, S) /\ ~Crosses(p, R) => Crosses(p, Differ(S, R))
         /\ ~Crosses(p, S) /\ ~Crosses(p, R) => ~Crosses(p, Differ(S, R))
         /\ Crosses(p, S) /\ Crosses(p, R) => ~Crosses(p, Differ(S, R))
<1>1. PICK x \in p.ends, y \in p.ends : p.ends = {x, y}
  BY DEF Link
<1>2. \A side : Crosses(p, side) <=> \/ x \in side /\ y \notin side
                                     \/ y \in side /\ x \notin side
  BY <1>1 DEF Crosses
<1> QED BY <1>2 DEF Differ

\* In a tree every piece is the only one that leads out of some side.
LEMMA TreeCut ==
  ASSUME NEW T, NEW C, Tree(T, C), NEW p \in T
  PROVE  \E side : /\ \E x, y \in C : x \in side /\ y \notin side
                   /\ Crosses(p, side)
                   /\ \A q \in T \ {p} : ~Crosses(q, side)
<1>1. PICK side : /\ \E x, y \in C : x \in side /\ y \notin side
                  /\ \A q \in T \ {p} : ~Crosses(q, side)
  BY SpanlessUncrossed DEF Tree
<1>2. \E q \in T : Crosses(q, side)
  BY <1>1, SpanCrosses DEF Tree
<1> QED BY <1>1, <1>2

\* A piece of a tree can be replaced by any other that leads out of a side
\* out of which nothing else of the tree leads.
LEMMA Exchange ==
  ASSUME NEW T, NEW C, Tree(T, C), NEW t \in T, NEW p, NEW S,
         \A q \in T \cup {p} : Link(q) /\ q.ends \subseteq C,
         Crosses(t, S), \A q \in T \ {t} : ~Crosses(q, S), Crosses(p, S)
  PROVE  Tree((T \ {t}) \cup {p}, C)
<1> DEFINE N == (T \ {t}) \cup {p}
<1>1. \A q \in T \cup {p} : \A side : Crosses(q, side) =>
        \E x, y \in C : x \in side /\ y \notin side
  BY DEF Crosses
<1>2. Spans(N, C)
  <2> SUFFICES ASSUME ~Spans(N, C) PROVE FALSE
    OBVIOUS
  <2>1. PICK X : /\ \E x, y \in C : x \in X /\ y \notin X
                 /\ \A q \in N : ~Crosses(q, X)
    BY SpanlessUncrossed
  <2>2. Crosses(t, X)
    <3>1. \E q \in T : Crosses(q, X)
      BY <2>1, SpanCrosses DEF Tree
    <3> QED BY <2>1, <3>1
  <2>3. \A q \in T : ~Crosses(q, Differ(X, S))
    BY <2>1, <2>2, CrossesDiffer
  <2>4. Crosses(p, Differ(S, X))
    BY <2>1, CrossesDiffer
  <2>5. Differ(S, X) = Differ(X, S)
    BY DEF Differ
  <2>6. \E x, y \in C : x \in Differ(X, S) /\ y \notin Differ(X, S)
    BY <1>1, <2>4, <2>5
  <2> QED BY <2>3, <2>6, SpanCrosses DEF Tree
<1>3. ASSUME NEW q \in N, Spans(N \ {q}, C) PROVE FALSE
  <2>1. CASE q = p
    <3>1. \E x, y \in C : x \in S /\ y \notin S
      BY <1>1
    <3>2. \E r \in N \ {q} : Crosses(r, S)
      BY <1>3, <3>1, SpanCrosses
    <3> QED BY <2>1, <3>2
  <2>2. CASE q # p
    <3>1. q \in T /\ q # t
      BY <2>2
    <3>2. PICK Y : /\ \E x, y \in C : x \in Y /\ y \notin Y
                   /\ Crosses(q, Y) /\ \A r \in T \ {q} : ~Crosses(r, Y)
      BY <3>1, TreeCut
    <3>3. CASE ~Crosses(p, Y)
      <4>1. \E r \in N \ {q} : Crosses(r, Y)
        BY <1>3, <3>2, SpanCrosses
      <4> QED BY <3>2, <3>3, <4>1
    <3>4. CASE Crosses(p, Y)
      <4>1. Crosses(q, Differ(Y, S))
        BY <3>1, <3>2, CrossesDiffer
      <4>2. \A r \in N \ {q} : ~Crosses(r, Differ(Y, S))
        BY <3>2, <3>4, CrossesDiffer
      <4>3. \E x, y \in C : x \in Differ(Y, S) /\ y \notin Differ(Y, S)
        BY <1>1, <3>1, <4>1
      <4>4. \E r \in N \ {q} : Crosses(r, Differ(Y, S))
        BY <1>3, <4>3, SpanCrosses
      <4> QED BY <4>2, <4>4
    <3> QED BY <3>3, <3>4
  <2> QED BY <2>1, <2>2
<1> QED BY <1>2, <1>3 DEF Tree

-----------------------------------------------------------------------------
(* Bridges: pieces without which two contacts of a net part.               *)

Parts(net, a, b, p) ==
  \E side : /\ a \in side /\ b \notin side /\ Crosses(p, side)
            /\ \A q \in net.pieces \ {p} : ~Crosses(q, side)

\* All that joins a and b leads through B.
Bridges(B, a, b) ==
  \A side : Crosses(Bridge(a, b), side) => \E p \in B : Crosses(p, side)

Linked(net) ==
  /\ IsFiniteSet(net.pieces)
  /\ \A p \in net.pieces : Link(p) /\ p.kind \in {"track", "via"}

LEMMA InEveryTree ==
  ASSUME NEW net, Linked(net), NEW a \in Contacts(net), NEW b \in Contacts(net),
         NEW p \in net.pieces, Parts(net, a, b, p), NEW T \in Trees(net)
  PROVE  p \in T /\ T \ {p} \in Forests(net, a, b)
<1> DEFINE C == Contacts(net)
<1>1. PICK S : /\ a \in S /\ b \notin S /\ Crosses(p, S)
               /\ \A q \in net.pieces \ {p} : ~Crosses(q, S)
  BY DEF Parts
<1>2. T \subseteq net.pieces /\ Tree(T, C)
  BY DEF Trees
<1>3. p \in T
  <2>1. \E q \in T : Crosses(q, S)
    BY <1>1, <1>2, SpanCrosses DEF Tree
  <2> QED BY <1>1, <1>2, <2>1
<1>4. \A q \in T \cup {Bridge(a, b)} : Link(q) /\ q.ends \subseteq C
  <2>1. Link(Bridge(a, b)) /\ Bridge(a, b).ends \subseteq C
    BY DEF Link, Bridge
  <2>2. \A q \in net.pieces : q.ends \subseteq C
    BY DEF Contacts
  <2> QED BY <1>2, <2>1, <2>2 DEF Linked
<1>5. Crosses(Bridge(a, b), S)
  BY <1>1 DEF Crosses, Bridge
<1>6. Tree((T \ {p}) \cup {Bridge(a, b)}, C)
  <2> HIDE DEF C
  <2> QED BY <1>1, <1>2, <1>3, <1>4, <1>5, Exchange
<1> QED BY <1>2, <1>3, <1>6 DEF Forests

\* Where all that joins a and b are bridges, every forest is a tree that
\* lacks one of them.
LEMMA ForestsLackBridges ==
  ASSUME NEW net, Linked(net), NEW a \in Contacts(net), NEW b \in Contacts(net),
         NEW B \in SUBSET net.pieces,
         Bridges(B, a, b), NEW f \in Forests(net, a, b)
  PROVE  \E T \in Trees(net), p \in B : f = T \ {p}
<1> DEFINE C == Contacts(net)
           bridge == Bridge(a, b)
<1>1. f \subseteq net.pieces /\ Tree(f \cup {bridge}, C)
  BY DEF Forests
<1>2. bridge \notin net.pieces
  BY DEF Linked, Bridge
<1>3. PICK S : Crosses(bridge, S) /\ \A q \in f : ~Crosses(q, S)
  <2> HIDE DEF bridge, C
  <2>1. \E S : /\ Crosses(bridge, S)
               /\ \A q \in (f \cup {bridge}) \ {bridge} : ~Crosses(q, S)
    BY <1>1, TreeCut
  <2> QED BY <1>1, <1>2, <2>1
<1>4. PICK p \in B : Crosses(p, S)
  BY <1>3 DEF Bridges
<1>5. \A q \in (f \cup {bridge}) \cup {p} : Link(q) /\ q.ends \subseteq C
  <2>1. Link(bridge) /\ bridge.ends \subseteq C
    BY DEF Link, Bridge
  <2>2. \A q \in net.pieces : q.ends \subseteq C
    BY DEF Contacts
  <2> QED BY <1>1, <2>1, <2>2 DEF Linked
<1> HIDE DEF bridge, C
<1>6. Tree(((f \cup {bridge}) \ {bridge}) \cup {p}, C)
  BY <1>1, <1>3, <1>4, <1>5, Exchange
<1>7. (f \cup {bridge}) \ {bridge} = f /\ p \notin f
  BY <1>1, <1>2, <1>3, <1>4
<1>8. f \cup {p} \in Trees(net) /\ f = (f \cup {p}) \ {p}
  BY <1>1, <1>6, <1>7 DEF Trees, C
<1> QED BY <1>8

-----------------------------------------------------------------------------
(* Sums over trees and forests.                                            *)

\* Terms that belong to each other in pairs, all in one proportion.
LEMMA SumMapped ==
  ASSUME NEW S, IsFiniteSet(S), NEW to, NEW k \in Int, NEW v, NEW w,
         \A x, y \in S : to[x] = to[y] => x = y,
         \A x \in S : v[x] \in Int /\ w[to[x]] = k * v[x]
  PROVE  /\ IsFiniteSet({to[x] : x \in S})
         /\ Sum(w, {to[x] : x \in S}) = k * Sum(v, S)
<1> DEFINE Image(T) == {to[x] : x \in T}
           P == {T \in SUBSET S : /\ IsFiniteSet(Image(T))
                                  /\ Sum(w, Image(T)) = k * Sum(v, T)}
<1> SUFFICES ASSUME S \notin P PROVE FALSE
  OBVIOUS
<1>1. PICK T \in SUBSET S : T \notin P /\ \A U \in SUBSET T : U # T => U \in P
  <2> HIDE DEF P
  <2> QED BY SmallestWithout
<1>2. IsFiniteSet(T) /\ \A x \in T : v[x] \in Int /\ w[to[x]] \in Int
  BY FS_Subset
<1>3. CASE T = {}
  <2>1. Image(T) = {} /\ IsFiniteSet({})
    BY <1>3, FS_EmptySet
  <2>2. Sum(w, {}) = 0 /\ Sum(v, {}) = 0 /\ k * 0 = 0
    BY <2>1, Sums
  <2> HIDE DEF Image
  <2>3. Sum(w, Image(T)) = k * Sum(v, T)
    BY <1>3, <2>1, <2>2
  <2> QED BY <1>1, <2>1, <2>3
<1>4. CASE T # {}
  <2>1. PICK x \in T : TRUE
    BY <1>4
  <2> DEFINE U == T \ {x}
  <2>2. U \in P /\ x \in S
    BY <1>1
  <2>3. Image(T) = Image(U) \cup {to[x]} /\ to[x] \notin Image(U)
    OBVIOUS
  <2>4. IsFiniteSet(Image(T))
    <3>1. IsFiniteSet(Image(U))
      BY <2>2
    <3> HIDE DEF Image, U
    <3>2. IsFiniteSet(Image(U) \cup {to[x]})
      BY <3>1, FS_AddElement
    <3> QED BY <2>3, <3>2, Zenon
  <2>5. Sum(v, T) = v[x] + Sum(v, U) /\ Sum(v, U) \in Int
    <3>1. IsFiniteSet(U)
      BY <1>2, FS_Subset
    <3> QED BY <1>2, <3>1, Sums
  <2>6. Sum(w, Image(T)) = w[to[x]] + Sum(w, Image(T) \ {to[x]})
    <3>1. /\ \A z \in Image(T) : w[z] \in Int
          /\ to[x] \in Image(T)
      BY <1>2
    <3> HIDE DEF Image
    <3> QED BY <2>4, <3>1, Sums
  <2>7. Image(T) \ {to[x]} = Image(U)
    <3> HIDE DEF Image
    <3> QED BY <2>3
  <2>8. Sum(w, Image(U)) = k * Sum(v, U)
    BY <2>2
  <2>9. w[to[x]] = k * v[x] /\ v[x] \in Int
    BY <2>2
  <2> HIDE DEF Image, U
  <2>10. Sum(w, Image(T)) = k * Sum(v, T)
    <3>1. \A x1, x2 \in Int : k * (x1 + x2) = k * x1 + k * x2
      OBVIOUS
    <3>2. Sum(w, Image(T)) = k * v[x] + k * Sum(v, U)
      BY <2>6, <2>7, <2>8, <2>9
    <3> QED BY <2>5, <2>9, <3>1, <3>2
  <2> QED BY <1>1, <2>4, <2>10
<1> QED BY <1>3, <1>4

LEMMA SumUnion ==
  ASSUME NEW S, NEW R, IsFiniteSet(S), IsFiniteSet(R), S \cap R = {}, NEW f,
         \A x \in S \cup R : f[x] \in Int
  PROVE  Sum(f, S \cup R) = Sum(f, S) + Sum(f, R)
<1> DEFINE P == {T \in SUBSET S : Sum(f, T \cup R) = Sum(f, T) + Sum(f, R)}
<1> SUFFICES ASSUME S \notin P PROVE FALSE
  OBVIOUS
<1>1. PICK T \in SUBSET S : T \notin P /\ \A U \in SUBSET T : U # T => U \in P
  <2> HIDE DEF P
  <2> QED BY SmallestWithout
<1>2. IsFiniteSet(T) /\ IsFiniteSet(T \cup R)
  BY FS_Subset, FS_Union
<1>3. CASE T = {}
  <2>1. Sum(f, T) = 0 /\ T \cup R = R
    BY <1>2, <1>3, Sums
  <2>2. Sum(f, R) \in Int
    BY Sums
  <2>3. Sum(f, T \cup R) = Sum(f, T) + Sum(f, R)
    <3>1. Sum(f, T \cup R) = Sum(f, R)
      BY <2>1, Zenon
    <3> QED BY <2>1, <2>2, <3>1
  <2> QED BY <1>1, <2>3
<1>4. CASE T # {}
  <2>1. PICK x \in T : TRUE
    BY <1>4
  <2>2. /\ T \ {x} \in P /\ (T \cup R) \ {x} = (T \ {x}) \cup R
        /\ IsFiniteSet(T \ {x}) /\ f[x] \in Int
    BY <1>1, <1>2, FS_Subset
  <2>3. Sum(f, T \cup R) = f[x] + Sum(f, (T \cup R) \ {x})
    BY <1>2, Sums
  <2>4. Sum(f, T) = f[x] + Sum(f, T \ {x})
    BY <1>2, Sums
  <2>5. Sum(f, T \ {x}) \in Int /\ Sum(f, R) \in Int
    BY <2>2, Sums
  <2> QED BY <1>1, <2>2, <2>3, <2>4, <2>5
<1> QED BY <1>3, <1>4

LEMMA SumOfMore ==
  ASSUME NEW S, IsFiniteSet(S), NEW T \in SUBSET S, NEW f, \A x \in S : f[x] \in Nat
  PROVE  Sum(f, T) <= Sum(f, S)
<1>1. IsFiniteSet(T) /\ IsFiniteSet(S \ T) /\ T \cup (S \ T) = S
  BY FS_Subset
<1>2. Sum(f, S) = Sum(f, T) + Sum(f, S \ T)
  BY <1>1, SumUnion
<1>3. Sum(f, T) \in Nat /\ Sum(f, S \ T) \in Nat
  BY <1>1, Sums
<1> QED BY <1>2, <1>3

\* What each choice of pieces weighs.
Weights(net, ohms) == [c \in SUBSET net.pieces |-> LeftOut(net, c, ohms)]

LEMMA WeightsAre ==
  ASSUME NEW net, IsFiniteSet(net.pieces), NEW ohms,
         \A p \in net.pieces : ohms[p] \in Nat
  PROVE  /\ \A c \in SUBSET net.pieces : Weights(net, ohms)[c] \in Nat
         /\ \A T \in SUBSET net.pieces : \A p \in T :
              Weights(net, ohms)[T \ {p}] = ohms[p] * Weights(net, ohms)[T]
         /\ \A choices \in SUBSET SUBSET net.pieces :
              /\ IsFiniteSet(choices)
              /\ Over(net, choices, ohms) = Sum(Weights(net, ohms), choices)
<1>1. \A c : LeftOut(net, c, ohms) = Product(ohms, net.pieces \ c)
  BY Zenon DEF LeftOut, Product, Folded
<1>2. ASSUME NEW c \in SUBSET net.pieces PROVE Weights(net, ohms)[c] \in Nat
  <2>1. IsFiniteSet(net.pieces \ c)
    BY FS_Subset
  <2>2. Product(ohms, net.pieces \ c) \in Nat
    BY <2>1, Products
  <2> QED BY <1>1, <2>2 DEF Weights
<1>3. ASSUME NEW T \in SUBSET net.pieces, NEW p \in T
      PROVE  Weights(net, ohms)[T \ {p}] = ohms[p] * Weights(net, ohms)[T]
  <2> DEFINE left == net.pieces \ (T \ {p})
  <2>1. p \in left /\ left \ {p} = net.pieces \ T /\ left \subseteq net.pieces
    OBVIOUS
  <2>2. IsFiniteSet(left)
    BY <2>1, FS_Subset
  <2>3. Product(ohms, left) = ohms[p] * Product(ohms, left \ {p})
    <3> HIDE DEF left
    <3> QED BY <2>1, <2>2, Products
  <2> QED BY <1>1, <2>1, <2>3 DEF Weights
<1>4. ASSUME NEW choices \in SUBSET SUBSET net.pieces
      PROVE  /\ IsFiniteSet(choices)
             /\ Over(net, choices, ohms) = Sum(Weights(net, ohms), choices)
  <2>1. IsFiniteSet(choices)
    <3>1. IsFiniteSet(SUBSET net.pieces)
      BY FS_SUBSET
    <3> QED BY <3>1, FS_Subset
  <2> DEFINE f == [c \in choices |-> LeftOut(net, c, ohms)]
  <2>2. \A c \in choices : f[c] = Weights(net, ohms)[c]
    BY DEF Weights
  <2>3. Sum(f, choices) = Sum(Weights(net, ohms), choices)
    <3> HIDE DEF f
    <3>1. \A times \in BOOLEAN :
            Folded(times, f, choices) = Folded(times, Weights(net, ohms), choices)
      BY <2>1, <2>2, FoldedSame
    <3> QED BY <3>1 DEF Sum
  <2>4. SumFunction(f) = Sum(f, choices)
    BY SumIs
  <2> QED BY <2>1, <2>3, <2>4 DEF Over
<1> QED BY <1>2, <1>3, <1>4

\* The forests that lack one of these bridges weigh what the trees do, times
\* the resistance of the bridges.
Lacking(net, B) == {T \ {p} : T \in Trees(net), p \in B}

LEMMA LackingWeigh ==
  ASSUME NEW net, Linked(net), NEW a \in Contacts(net), NEW b \in Contacts(net),
         NEW B \in SUBSET net.pieces, \A p \in B : Parts(net, a, b, p),
         NEW ohms, \A p \in net.pieces : ohms[p] \in Nat
  PROVE  Over(net, Lacking(net, B), ohms)
           = Sum(ohms, B) * Over(net, Trees(net), ohms)
<1> DEFINE w == Weights(net, ohms)
           trees == Trees(net)
           lacking(U) == Lacking(net, U)
           P == {U \in SUBSET B : Sum(w, lacking(U)) = Sum(ohms, U) * Sum(w, trees)}
<1>0. IsFiniteSet(net.pieces)
  BY DEF Linked
<1>1. /\ trees \in SUBSET SUBSET net.pieces
      /\ \A U \in SUBSET B : lacking(U) \in SUBSET SUBSET net.pieces
  BY DEF Trees, Lacking
<1>2. /\ IsFiniteSet(trees) /\ Over(net, trees, ohms) = Sum(w, trees)
      /\ \A U \in SUBSET B : /\ IsFiniteSet(lacking(U))
                             /\ Over(net, lacking(U), ohms) = Sum(w, lacking(U))
  <2> HIDE DEF lacking, trees, w
  <2>1. \A choices \in SUBSET SUBSET net.pieces :
          IsFiniteSet(choices) /\ Over(net, choices, ohms) = Sum(w, choices)
    BY <1>0, WeightsAre DEF w
  <2> QED BY <1>1, <2>1
<1>3. /\ \A c \in SUBSET net.pieces : w[c] \in Nat
      /\ \A T \in SUBSET net.pieces : \A p \in T : w[T \ {p}] = ohms[p] * w[T]
  BY <1>0, WeightsAre
<1>4. \A T \in trees : \A p \in B : p \in T
  BY InEveryTree
<1> HIDE DEF w
<1>5. ASSUME NEW p \in B
      PROVE  Sum(w, lacking({p})) = ohms[p] * Sum(w, trees)
  <2> DEFINE to == [T \in trees |-> T \ {p}]
  <2>1. \A T, U \in trees : to[T] = to[U] => T = U
    BY <1>4
  <2>2. ASSUME NEW T \in trees PROVE w[T] \in Int /\ w[to[T]] = ohms[p] * w[T]
    <3>1. to[T] = T \ {p} /\ p \in T /\ T \in SUBSET net.pieces
      BY <1>1, <1>4
    <3> HIDE DEF to
    <3> QED BY <1>3, <3>1
  <2>3. {to[T] : T \in trees} = lacking({p})
    BY DEF Lacking
  <2>4. ohms[p] \in Int
    OBVIOUS
  <2> HIDE DEF to, trees, lacking
  <2>5. Sum(w, {to[T] : T \in trees}) = ohms[p] * Sum(w, trees)
    BY <1>2, <2>1, <2>2, <2>4, SumMapped
  <2> QED BY <2>3, <2>5
<1>6. B \in P
  <2> SUFFICES ASSUME B \notin P PROVE FALSE
    OBVIOUS
  <2>1. PICK U \in SUBSET B : U \notin P /\ \A V \in SUBSET U : V # U => V \in P
    <3>1. IsFiniteSet(B)
      BY <1>0, FS_Subset
    <3> HIDE DEF P
    <3> QED BY <3>1, SmallestWithout
  <2>2. IsFiniteSet(U) /\ \A p \in U : ohms[p] \in Int
    BY <1>0, FS_Subset
  <2>3. Sum(w, trees) \in Int
    BY <1>1, <1>2, <1>3, Sums
  <2>4. CASE U = {}
    <3>1. lacking(U) = {}
      BY <2>4 DEF Lacking
    <3>2. Sum(w, {}) = 0 /\ Sum(ohms, U) = 0
      BY <2>2, <2>4, FS_EmptySet, Sums
    <3> HIDE DEF trees, lacking
    <3>3. Sum(w, lacking(U)) = Sum(ohms, U) * Sum(w, trees)
      BY <2>3, <3>1, <3>2
    <3> QED BY <2>1, <3>3
  <2>5. CASE U # {}
    <3>1. PICK p \in U : TRUE
      BY <2>5
    <3> DEFINE V == U \ {p}
    <3>2. V \in P /\ V \in SUBSET B /\ {p} \in SUBSET B /\ IsFiniteSet(V)
      BY <2>1, <2>2, FS_Subset
    <3>3. lacking(U) = lacking(V) \cup lacking({p})
      BY DEF Lacking
    <3>4. lacking(V) \cap lacking({p}) = {}
      <4> SUFFICES ASSUME NEW T \in trees, NEW q \in V, NEW R \in trees,
                          T \ {q} = R \ {p}
                   PROVE  FALSE
        BY DEF Lacking
      <4>1. q # p /\ q \in R
        BY <1>4
      <4> QED BY <4>1
    <3>5. Sum(w, lacking(U)) = Sum(w, lacking(V)) + Sum(w, lacking({p}))
      <4>1. \A c \in lacking(V) \cup lacking({p}) : w[c] \in Int
        BY <1>1, <1>3, <3>2
      <4>2. IsFiniteSet(lacking(V)) /\ IsFiniteSet(lacking({p}))
        <5> HIDE DEF lacking, V
        <5> QED BY <1>2, <3>2
      <4> DEFINE S == lacking(V)
                 R == lacking({p})
      <4> HIDE DEF S, R
      <4>3. Sum(w, S \cup R) = Sum(w, S) + Sum(w, R)
        BY <3>4, <4>1, <4>2, SumUnion DEF S, R
      <4> QED BY <3>3, <4>3 DEF S, R
    <3>6. Sum(w, lacking(V)) = Sum(ohms, V) * Sum(w, trees)
      BY <3>2
    <3>7. Sum(ohms, U) = ohms[p] + Sum(ohms, V)
      BY <2>2, Sums
    <3>8. Sum(ohms, V) \in Int /\ ohms[p] \in Int
      BY <2>2, <3>2, Sums
    <3>9. Sum(w, lacking({p})) = ohms[p] * Sum(w, trees)
      BY <1>5
    <3> HIDE DEF V, lacking, trees
    <3>10. Sum(w, lacking(U)) = Sum(ohms, U) * Sum(w, trees)
      BY <2>3, <3>5, <3>6, <3>7, <3>8, <3>9
    <3> QED BY <2>1, <3>10
  <2> QED BY <2>4, <2>5
<1> QED BY <1>2, <1>6

-----------------------------------------------------------------------------
(* What is said of a path's resistance.                                    *)

LEMMA LeastOf ==
  ASSUME NEW S \in SUBSET Nat, S # {}
  PROVE  \E x \in S : \A y \in S : x <= y
<1> SUFFICES ASSUME \A x \in S : \E y \in S : y < x PROVE FALSE
  OBVIOUS
<1>1. PICK n \in S : TRUE
  OBVIOUS
<1> DEFINE P == {k \in 0..n : \A j \in 0..k : j \notin S}
<1>2. 0 \in P
  OBVIOUS
<1>3. ASSUME NEW k \in 0..n, k \in P, k < n PROVE k + 1 \in P
  <2>1. \A j \in 0..(k + 1) : j \in 0..k \/ j = k + 1
    OBVIOUS
  <2>2. k + 1 \notin S
    <3>1. \A y \in S : y < k + 1 => y \in 0..k
      OBVIOUS
    <3> QED BY <1>3, <3>1
  <2> QED BY <1>3, <2>1, <2>2
<1>4. n \in P
  <2> HIDE DEF P
  <2> QED BY <1>2, <1>3, UpTo
<1> QED BY <1>1, <1>4

LEMMA TraceExists ==
  ASSUME NEW net, IsNet(net), NEW a, NEW b, Routes(net, a, b) # {}
  PROVE  Traced(net, a, b) \in Routes(net, a, b)
<1> DEFINE routes == Routes(net, a, b)
           lengths == {Length(r) : r \in routes}
<1>1. ASSUME NEW r \in routes PROVE Length(r) \in Nat
  <2> DEFINE f == [p \in r |-> p.length]
  <2>1. r \subseteq net.pieces /\ IsFiniteSet(r)
    BY FS_Subset DEF Routes, IsNet
  <2>2. \A p \in r : f[p] \in Nat
    BY <2>1 DEF IsNet
  <2>3. Sum(f, r) \in Nat
    <3> HIDE DEF f
    <3> QED BY <2>1, <2>2, Sums
  <2>4. SumFunction(f) = Sum(f, r)
    BY SumIs
  <2> QED BY <2>3, <2>4 DEF Length
<1>2. lengths \in SUBSET Nat /\ lengths # {}
  BY <1>1
<1>3. PICK x \in lengths : \A y \in lengths : x <= y
  <2> HIDE DEF lengths
  <2> QED BY <1>2, LeastOf
<1>4. \E r \in routes : \A other \in routes : Length(r) <= Length(other)
  BY <1>3
<1> QED BY <1>4 DEF Traced

\* No piece leads out of what can be reached.
LEMMA ReachedWhole ==
  ASSUME NEW net, IsNet(net), NEW a, NEW p \in net.pieces,
         NEW x \in p.ends, Joined(net.pieces, a, x)
  PROVE  p \in Reached(net, a).pieces
<1>1. Reached(net, a).pieces
        = {q \in net.pieces : \A c \in q.ends : Joined(net.pieces, a, c)}
  BY DEF Reached
<1>2. ASSUME NEW y \in p.ends, ~Joined(net.pieces, a, y) PROVE FALSE
  <2>1. PICK side : /\ a \in side /\ y \notin side
                    /\ \A q \in net.pieces : ~Crosses(q, side)
    BY <1>2, ApartUncrossed
  <2>2. x \in side
    BY <2>1, JoinedCrosses
  <2>3. Crosses(p, side)
    BY <1>2, <2>1, <2>2 DEF Crosses
  <2> QED BY <2>1, <2>3
<1> QED BY <1>1, <1>2

LEMMA ReachedNet ==
  ASSUME NEW net, IsNet(net), NEW a
  PROVE  /\ Reached(net, a).pieces \subseteq net.pieces
         /\ Linked(Reached(net, a))
<1>1. Reached(net, a).pieces
        = {q \in net.pieces : \A c \in q.ends : Joined(net.pieces, a, c)}
  BY DEF Reached
<1> QED BY <1>1, FS_Subset DEF IsNet, Linked, Link

LEMMA ReachedEnds ==
  ASSUME NEW net, IsNet(net), NEW a, NEW b, a # b, Joined(net.pieces, a, b)
  PROVE  a \in Contacts(Reached(net, a)) /\ b \in Contacts(Reached(net, a))
<1>1. a \in Contacts(Reached(net, a))
  <2>1. PICK p \in net.pieces : Crosses(p, {a})
    BY JoinedCrosses
  <2>2. a \in p.ends
    BY <2>1 DEF Crosses
  <2>3. Joined(net.pieces, a, a)
    BY DEF Joined
  <2> QED BY <2>2, <2>3, ReachedWhole DEF Contacts
<1>2. b \in Contacts(Reached(net, a))
  <2> DEFINE side == (Contacts(net) \cup {a}) \ {b}
  <2>1. PICK p \in net.pieces : Crosses(p, side)
    <3>1. a \in side /\ b \notin side
      OBVIOUS
    <3> HIDE DEF side
    <3> QED BY <3>1, JoinedCrosses
  <2>2. b \in p.ends
    <3>1. p.ends \subseteq Contacts(net)
      BY DEF Contacts
    <3> QED BY <2>1, <3>1 DEF Crosses
  <2> QED BY <2>2, ReachedWhole DEF Contacts
<1> QED BY <1>1, <1>2

\* Every track that _series_bridge_check() let pass is a bridge, of the part
\* of the net that a can reach.
LEMMA TracksPart ==
  ASSUME NEW net, IsNet(net), NEW a, NEW b, Measurable(net, a, b),
         NEW p \in Tracks(Traced(net, a, b))
  PROVE  /\ p \in Reached(net, a).pieces
         /\ Parts(Reached(net, a), a, b, p)
<1> DEFINE route == Traced(net, a, b)
           part == Reached(net, a)
<1>1. route \subseteq net.pieces /\ Joined(route, a, b) /\ p \in route
  BY TraceExists DEF Measurable, Routes, Tracks
<1>2. PICK side : /\ a \in side /\ b \notin side
                  /\ \A q \in net.pieces \ {p} : ~Crosses(q, side)
  <2>1. ~Joined(net.pieces \ {p}, a, b)
    BY DEF Measurable, Series
  <2> QED BY <2>1, ApartUncrossed
<1>3. Crosses(p, side)
  <2>1. \E q \in route : Crosses(q, side)
    BY <1>1, <1>2, JoinedCrosses
  <2> QED BY <1>1, <1>2, <2>1
<1>4. p \in part.pieces
  <2> DEFINE reached == {c \in Contacts(net) \cup {a} : Joined(net.pieces, a, c)}
  <2>1. a \in side \cap reached /\ b \notin side \cap reached
    BY <1>2 DEF Joined
  <2>2. PICK q \in route : Crosses(q, side \cap reached)
    <3> HIDE DEF reached
    <3> QED BY <1>1, <2>1, JoinedCrosses
  <2>3. PICK x \in q.ends : x \in reached
    BY <2>2 DEF Crosses
  <2>4. q \in part.pieces
    BY <1>1, <2>3, ReachedWhole
  <2>5. q.ends \subseteq reached
    <3>1. \A c \in q.ends : Joined(net.pieces, a, c)
      BY <2>4 DEF Reached
    <3>2. q.ends \subseteq Contacts(net)
      BY <1>1 DEF Contacts
    <3> QED BY <3>1, <3>2
  <2>6. Crosses(q, side)
    <3> HIDE DEF reached
    <3> QED BY <2>2, <2>5 DEF Crosses
  <2> QED BY <1>1, <1>2, <2>4, <2>6
<1>5. part.pieces \subseteq net.pieces
  BY ReachedNet
<1> QED BY <1>2, <1>3, <1>4, <1>5 DEF Parts

\* The assignments that RealOhms() ranges over.
Assigned(net) ==
  {[p \in net.pieces |-> IF p.kind = "track" THEN p.ohms ELSE vias[p]] :
     vias \in [Vias(net.pieces) -> ViaOhms]}

LEMMA AssignedOhms ==
  ASSUME NEW net, IsNet(net), NEW a, NEW ohms \in Assigned(Reached(net, a))
  PROVE  \A p \in Reached(net, a).pieces :
           ohms[p] \in Nat /\ (p.kind = "track" => ohms[p] = p.ohms)
<1> TAKE p \in Reached(net, a).pieces
<1>1. PICK vias \in [Vias(Reached(net, a).pieces) -> ViaOhms] :
        ohms = [q \in Reached(net, a).pieces |->
                  IF q.kind = "track" THEN q.ohms ELSE vias[q]]
  BY DEF Assigned
<1>2. p \in net.pieces
  BY ReachedNet
<1>3. CASE p.kind = "track"
  BY <1>1, <1>2, <1>3 DEF IsNet
<1>4. CASE p.kind # "track"
  <2>1. p \in Vias(Reached(net, a).pieces)
    BY <1>2, <1>4 DEF IsNet, Vias
  <2> QED BY <1>1, <1>4, <2>1, ViasResist
<1> QED BY <1>3, <1>4

LEMMA SeriesOhmsAre ==
  ASSUME NEW net, IsNet(net), NEW a, NEW b, Measurable(net, a, b),
         NEW ohms \in Assigned(Reached(net, a))
  PROVE  /\ SeriesOhms(net, a, b) \in Nat
         /\ SeriesOhms(net, a, b) = Sum(ohms, Tracks(Traced(net, a, b)))
<1> DEFINE tracks == Tracks(Traced(net, a, b))
           f == [p \in tracks |-> p.ohms]
<1>1. tracks \subseteq Reached(net, a).pieces
  BY TracksPart
<1>2. IsFiniteSet(tracks)
  <2>1. IsFiniteSet(Reached(net, a).pieces)
    BY ReachedNet DEF Linked
  <2> QED BY <1>1, <2>1, FS_Subset
<1>3. \A p \in tracks : f[p] = ohms[p] /\ ohms[p] \in Nat
  BY <1>1, AssignedOhms DEF Tracks
<1>4. SeriesOhms(net, a, b) = Sum(f, tracks)
  BY SumIs DEF SeriesOhms
<1> HIDE DEF f, tracks
<1>5. \A times \in BOOLEAN : Folded(times, f, tracks) = Folded(times, ohms, tracks)
  BY <1>2, <1>3, FoldedSame
<1>6. Sum(f, tracks) = Sum(ohms, tracks)
  BY <1>5 DEF Sum
<1>7. Sum(ohms, tracks) \in Nat
  BY <1>2, <1>3, Sums
<1> QED BY <1>4, <1>6, <1>7 DEF tracks

\* The two sums whose quotient the resistance is.
LEMMA SumsOverTrees ==
  ASSUME NEW net, IsNet(net), NEW a, NEW b, Measurable(net, a, b),
         NEW ohms \in Assigned(Reached(net, a))
  PROVE  LET part == Reached(net, a)
             forests == Over(part, Forests(part, a, b), ohms)
             trees == Over(part, Trees(part), ohms)
             series == SeriesOhms(net, a, b)
         IN  /\ trees \in Nat /\ forests \in Nat
             /\ series * trees <= forests
             /\ Vias(Traced(net, a, b)) = {} => forests = series * trees
<1> DEFINE part == Reached(net, a)
           route == Traced(net, a, b)
           B == Tracks(route)
           w == Weights(part, ohms)
           trees == Over(part, Trees(part), ohms)
           forests == Over(part, Forests(part, a, b), ohms)
           series == SeriesOhms(net, a, b)
<1>1. Linked(part) /\ IsFiniteSet(part.pieces) /\ part.pieces \subseteq net.pieces
  BY ReachedNet DEF Linked
<1>2. /\ route \subseteq net.pieces /\ Joined(route, a, b)
      /\ \A p \in route : ~Joined(route \ {p}, a, b)
  BY TraceExists DEF Measurable, Routes
<1>3. B \in SUBSET part.pieces /\ \A p \in B : Parts(part, a, b, p)
  BY TracksPart
<1>4. \A p \in part.pieces : ohms[p] \in Nat
  BY AssignedOhms
<1>5. /\ \A c \in SUBSET part.pieces : w[c] \in Nat
      /\ \A choices \in SUBSET SUBSET part.pieces :
           IsFiniteSet(choices) /\ Over(part, choices, ohms) = Sum(w, choices)
  <2> HIDE DEF part
  <2> QED BY <1>1, <1>4, WeightsAre
<1>6. series \in Nat /\ series = Sum(ohms, B)
  BY SeriesOhmsAre
<1>7. /\ Trees(part) \in SUBSET SUBSET part.pieces
      /\ Forests(part, a, b) \in SUBSET SUBSET part.pieces
      /\ Lacking(part, B) \in SUBSET SUBSET part.pieces
  BY DEF Trees, Forests, Lacking
<1> HIDE DEF w, part
<1>8. \A choices \in SUBSET SUBSET part.pieces : Sum(w, choices) \in Nat
  <2> TAKE choices \in SUBSET SUBSET part.pieces
  <2>1. IsFiniteSet(choices) /\ \A c \in choices : w[c] \in Nat
    BY <1>5
  <2> QED BY <2>1, Sums
<1>9. trees \in Nat /\ forests \in Nat
  BY <1>5, <1>7, <1>8
<1>10. CASE a = b
  <2>1. route = {}
    BY <1>2, <1>10 DEF Joined
  <2>2. series = 0
    <3>1. B = {} /\ IsFiniteSet(B)
      BY <2>1, FS_EmptySet DEF Tracks
    <3> HIDE DEF B, series
    <3>2. \A x \in B : ohms[x] \in Int
      BY <3>1
    <3> QED BY <1>6, <3>1, <3>2, Sums
  <2>3. Forests(part, a, b) = {}
    <3> SUFFICES ASSUME NEW f \in Forests(part, a, b) PROVE FALSE
      OBVIOUS
    <3>1. PICK side : Crosses(Bridge(a, b), side)
      <4>1. Bridge(a, b) \in f \cup {Bridge(a, b)}
        OBVIOUS
      <4> QED BY <4>1, TreeCut DEF Forests
    <3> QED BY <1>10, <3>1 DEF Crosses, Bridge
  <2>4. forests = 0
    <3>1. Sum(w, {}) = 0
      BY FS_EmptySet, Sums
    <3> QED BY <1>5, <1>7, <2>3, <3>1
  <2> HIDE DEF series, trees, forests
  <2> QED BY <1>9, <2>2, <2>4 DEF part, series, trees, forests
<1>11. CASE a # b
  <2>1. Joined(net.pieces, a, b)
    <3> SUFFICES ASSUME ~Joined(net.pieces, a, b) PROVE FALSE
      OBVIOUS
    <3>1. PICK side : /\ a \in side /\ b \notin side
                      /\ \A p \in net.pieces : ~Crosses(p, side)
      BY ApartUncrossed
    <3>2. \E p \in route : Crosses(p, side)
      BY <1>2, <3>1, JoinedCrosses
    <3> QED BY <1>2, <3>1, <3>2
  <2>2. a \in Contacts(part) /\ b \in Contacts(part)
    BY <1>11, <2>1, ReachedEnds DEF part
  <2>3. Over(part, Lacking(part, B), ohms) = series * trees
    <3> HIDE DEF B, series
    <3> QED BY <1>1, <1>3, <1>4, <1>6, <2>2, LackingWeigh
  <2>4. Lacking(part, B) \subseteq Forests(part, a, b)
    <3> HIDE DEF B
    <3> QED BY <1>1, <1>3, <2>2, InEveryTree DEF Lacking
  <2>5. series * trees <= forests
    <3>1. /\ IsFiniteSet(Forests(part, a, b))
          /\ \A c \in Forests(part, a, b) : w[c] \in Nat
          /\ forests = Sum(w, Forests(part, a, b))
          /\ series * trees = Sum(w, Lacking(part, B))
      BY <1>5, <1>7, <2>3
    <3> HIDE DEF B, series, trees, forests
    <3>2. Sum(w, Lacking(part, B)) <= Sum(w, Forests(part, a, b))
      BY <2>4, <3>1, SumOfMore
    <3> QED BY <3>1, <3>2
  <2>6. ASSUME Vias(route) = {} PROVE forests = series * trees
    <3>1. route = B
      BY <1>2, <2>6 DEF Tracks, Vias, IsNet
    <3>2. ASSUME NEW side, Crosses(Bridge(a, b), side)
          PROVE  \E p \in B : Crosses(p, side)
      <4>1. CASE a \in side /\ b \notin side
        BY <1>2, <3>1, <4>1, JoinedCrosses
      <4>2. CASE b \in side /\ a \notin side
        <5> DEFINE other == (Contacts(net) \cup {a}) \ side
        <5>1. a \in other /\ b \notin other
          BY <4>2
        <5> HIDE DEF other
        <5>2. PICK p \in route : Crosses(p, other)
          BY <1>2, <5>1, JoinedCrosses
        <5>3. p.ends \subseteq Contacts(net)
          BY <1>2 DEF Contacts
        <5>4. Crosses(p, side)
          BY <5>2, <5>3, <4>2 DEF Crosses, other
        <5> QED BY <3>1, <5>4
      <4> QED BY <3>2, <4>1, <4>2 DEF Crosses, Bridge
    <3>3. Forests(part, a, b) \subseteq Lacking(part, B)
      <4> HIDE DEF B
      <4>0. Bridges(B, a, b)
        BY <3>2 DEF Bridges
      <4>1. ASSUME NEW f \in Forests(part, a, b)
            PROVE  \E T \in Trees(part), p \in B : f = T \ {p}
        BY <1>1, <1>3, <2>2, <4>0, ForestsLackBridges
      <4> QED BY <4>1 DEF Lacking
    <3>4. Forests(part, a, b) = Lacking(part, B)
      BY <2>4, <3>3
    <3> HIDE DEF B, series, trees
    <3> QED BY <2>3, <3>4
  <2> HIDE DEF series, trees, forests, route
  <2> QED BY <1>9, <2>5, <2>6 DEF part, series, trees, forests, route
<1> QED BY <1>10, <1>11

LEMMA Quotient ==
  ASSUME NEW n \in Nat, NEW d \in Nat, d # 0
  PROVE  /\ n \div d \in Nat
         /\ d * (n \div d) <= n /\ n < d * (n \div d) + d
OBVIOUS

LEMMA LessTimes ==
  ASSUME NEW d \in Nat, NEW x \in Int, NEW y \in Int, d * x < d * y
  PROVE  x < y
<1> SUFFICES ASSUME y <= x PROVE FALSE
  OBVIOUS
<1>1. PICK k \in Nat : x = y + k
  <2>1. x - y \in Nat /\ x = y + (x - y)
    OBVIOUS
  <2> QED BY <2>1
<1>2. d * (y + k) = d * y + d * k /\ d * k \in Nat /\ d * y \in Int
  OBVIOUS
<1>3. d * x = d * y + d * k
  BY <1>1, <1>2
<1> QED BY <1>2, <1>3

\* What is claimed of a path's resistance admits the resistance that the path
\* has, over all the copper of its net, whatever its vias add: a lower bound
\* where vias are left out, and the sum of its tracks where there are none
\* (extract.py:500-741).
THEOREM ResistanceClaimsHold ==
  ASSUME NEW net, IsNet(net), NEW a, NEW b, Measurable(net, a, b),
         NEW o \in RealOhms(net, a, b)
  PROVE  Admits(ResistanceClaim(net, a, b), o)
<1> DEFINE part == Reached(net, a)
           route == Traced(net, a, b)
           series == SeriesOhms(net, a, b)
<1>1. PICK ohms \in Assigned(part) :
        /\ Over(part, Trees(part), ohms) # 0
        /\ o = Effective(part, a, b, ohms)
  BY DEF RealOhms, Assigned
<1> DEFINE trees == Over(part, Trees(part), ohms)
           forests == Over(part, Forests(part, a, b), ohms)
<1>2. /\ trees \in Nat /\ forests \in Nat /\ series * trees <= forests
      /\ Vias(route) = {} => forests = series * trees
  BY SumsOverTrees
<1>3. series \in Nat
  BY SeriesOhmsAre
<1>4. o = forests \div trees /\ trees # 0
  BY <1>1 DEF Effective
<1> HIDE DEF part, route, series, trees, forests
<1>5. series <= o /\ (Vias(route) = {} => o = series)
  <2>1. o \in Nat /\ forests < trees * o + trees /\ trees * o <= forests
    BY <1>2, <1>4, Quotient
  <2>2. trees * (o + 1) = trees * o + trees /\ trees * (series + 1) = trees * series + trees
    BY <1>2, <1>3, <2>1
  <2>3. trees * series = series * trees
    BY <1>2, <1>3
  <2>4. series < o + 1
    <3> DEFINE below == trees * series
               above == trees * (o + 1)
    <3>1. below < above
      <4>1. below \in Int /\ above \in Int /\ below <= forests /\ forests < above
        BY <1>2, <1>3, <2>1, <2>2, <2>3
      <4> HIDE DEF below, above
      <4> QED BY <1>2, <4>1
    <3> QED BY <1>2, <1>3, <2>1, <3>1, LessTimes
  <2>5. ASSUME Vias(route) = {} PROVE o < series + 1
    <3>1. trees * series \in Int /\ trees * series = forests
      BY <1>2, <1>3, <2>3, <2>5
    <3>2. trees * o < trees * (series + 1)
      BY <1>2, <1>4, <2>1, <2>2, <3>1
    <3> QED BY <1>2, <1>3, <2>1, <3>2, LessTimes
  <2> QED BY <1>3, <2>1, <2>4, <2>5
<1>6. ResistanceClaim(net, a, b) =
        IF \E p \in route : p.ambiguous
        THEN Claimed("approximate", series, series, "derived", Vias(route) # {})
        ELSE IF Vias(route) # {}
             THEN Claimed("lower_bound", series, NoBound, "derived", TRUE)
             ELSE Claimed("exact", series, series, "derived", FALSE)
  BY DEF ResistanceClaim, route, series
<1>7. CASE \E p \in route : p.ambiguous
  BY <1>6, <1>7 DEF Admits, Lower, Upper, Claimed
<1>8. CASE ~(\E p \in route : p.ambiguous) /\ Vias(route) # {}
  BY <1>5, <1>6, <1>8 DEF Admits, Lower, Upper, Claimed
<1>9. CASE ~(\E p \in route : p.ambiguous) /\ Vias(route) = {}
  BY <1>3, <1>5, <1>6, <1>9 DEF Admits, Lower, Upper, Claimed
<1> QED BY <1>7, <1>8, <1>9

-----------------------------------------------------------------------------
(* What the decks give the elements, and what is real.                     *)

\* What a model's claim says of resistance o beside the one its deck has.
Bears(model, o) ==
  /\ (model.claim = None \/ model.claim.knowledge = "exact") => o = model.ohms
  /\ (model.claim # None /\ model.claim.knowledge = "lower_bound") => model.ohms <= o
  /\ (model.claim # None /\ model.claim.knowledge = "upper_bound") => o <= model.ohms

LEMMA OhmsAre ==
  Ohms \subseteq 1..12
BY VoltagesAreWhole DEF Scale

LEMMA PathBears ==
  ASSUME NEW net, IsNet(net), NEW a, NEW b, Measurable(net, a, b),
         NEW o \in RealOhms(net, a, b), NEW model,
         model.claim = ResistanceClaim(net, a, b), model.ohms = SeriesOhms(net, a, b)
  PROVE  Bears(model, o) /\ o \in Int
<1> DEFINE part == Reached(net, a)
           series == SeriesOhms(net, a, b)
           route == Traced(net, a, b)
<1>1. PICK ohms \in Assigned(part) :
        /\ Over(part, Trees(part), ohms) # 0
        /\ o = Over(part, Forests(part, a, b), ohms) \div Over(part, Trees(part), ohms)
  BY DEF RealOhms, Assigned, Effective
<1>2. o \in Int
  <2>1. Over(part, Trees(part), ohms) \in Nat /\ Over(part, Forests(part, a, b), ohms) \in Nat
    BY SumsOverTrees
  <2> QED BY <1>1, <2>1, Quotient
<1>3. series \in Nat /\ series # NoBound
  BY SeriesOhmsAre, ClaimAssumption
<1>4. Admits(ResistanceClaim(net, a, b), o)
  BY ResistanceClaimsHold
<1> HIDE DEF part, series, route
<1>5. ResistanceClaim(net, a, b) =
        IF \E p \in route : p.ambiguous
        THEN Claimed("approximate", series, series, "derived", Vias(route) # {})
        ELSE IF Vias(route) # {}
             THEN Claimed("lower_bound", series, NoBound, "derived", TRUE)
             ELSE Claimed("exact", series, series, "derived", FALSE)
  BY DEF ResistanceClaim, route, series
<1>6. model.claim # None
  <2>1. ResistanceClaim(net, a, b) \in Claims
    BY <1>3, <1>5 DEF Claimed, Claims, Endpoint, Bases, Knowledge, Bounded
  <2> QED BY <2>1, NoneIsNothing
<1>7. model.ohms = series
  BY DEF series
<1>8. CASE \E p \in route : p.ambiguous
  BY <1>2, <1>5, <1>6, <1>8 DEF Bears, Claimed
<1>9. CASE ~(\E p \in route : p.ambiguous) /\ Vias(route) # {}
  BY <1>2, <1>3, <1>4, <1>5, <1>6, <1>7, <1>9 DEF Bears, Claimed, Admits, Lower, Upper
<1>10. CASE ~(\E p \in route : p.ambiguous) /\ Vias(route) = {}
  BY <1>2, <1>3, <1>4, <1>5, <1>6, <1>7, <1>10 DEF Bears, Claimed, Admits, Lower, Upper
<1> QED BY <1>2, <1>8, <1>9, <1>10

\* On a board from which all models are, every model bears what its part or
\* its path really has.
LEMMA ModelsBear ==
  ASSUME NEW d \in Declarations, NEW b \in DOMAIN Boards, AllOf(d, b),
         NEW i \in DOMAIN ModelsOf(d, b, b), NEW o \in Real(ModelsOf(d, b, b)[i], b)
  PROVE  Bears(ModelsOf(d, b, b)[i], o)
<1> DEFINE model == ModelsOf(d, b, b)[i]
<1>1. CASE i \in DOMAIN Frozen(d)
  <2>1. model = Frozen(d)[i]
    BY <1>1 DEF ModelsOf, Merged
  <2> HIDE DEF model
  <2>2. /\ model.ohms \in Nat
        /\ model.claim # None =>
             /\ model.claim.knowledge \in {"exact", "lower_bound"} =>
                  model.claim.lower = model.ohms
             /\ model.claim.knowledge \in {"exact", "upper_bound"} =>
                  model.claim.upper = model.ohms
    BY <1>1, <2>1, FrozenModelsAgree
  <2>3. CASE model.path # None
    <3> DEFINE net == Boards[model.digest][model.path]
    <3>1. /\ model.digest \in DOMAIN Boards /\ model.path \in DOMAIN Boards[model.digest]
          /\ Measurable(net, net.from, net.to)
          /\ model.claim = ResistanceClaim(net, net.from, net.to)
          /\ model.ohms = SeriesOhms(net, net.from, net.to)
      BY <1>1, <2>1, <2>3, FrozenModelsAgree
    <3>2. model.digest = b
      <4>1. model.digest \in {None, b}
        BY DEF AllOf, OfThisBoard, model
      <4> QED BY <3>1, <4>1, NoneIsNothing
    <3>3. IsNet(net)
      BY <3>1, PathsAreNets
    <3>4. o \in RealOhms(net, net.from, net.to)
      BY <2>3, <3>2 DEF Real, model
    <3> HIDE DEF net
    <3>5. Bears(model, o)
      BY <3>1, <3>3, <3>4, PathBears
    <3> QED BY <3>5 DEF model
  <2>4. CASE model.path = None
    <3>1. o \in IF model.claim = None THEN {model.ohms}
                ELSE {r \in Ohms : Admits(model.claim, r)}
      BY <2>4 DEF Real, model
    <3>2. CASE model.claim = None
      BY <3>1, <3>2 DEF Bears, model
    <3>3. CASE model.claim # None
      <4>1. o \in Int /\ Admits(model.claim, o)
        <5>1. o \in Ohms /\ Admits(model.claim, o)
          BY <3>1, <3>3
        <5> QED BY <5>1, OhmsAre
      <4>2. model.ohms # NoBound
        BY <2>2, ClaimAssumption
      <4>3. Bears(model, o)
        BY <2>2, <3>3, <4>1, <4>2 DEF Bears, Admits, Lower, Upper
      <4> QED BY <4>3 DEF model
    <3> QED BY <3>2, <3>3
  <2> QED BY <2>3, <2>4
<1>2. CASE i \notin DOMAIN Frozen(d)
  <2> DEFINE net == Boards[b][d.paths[i]]
  <2>1. i \in DOMAIN d.paths /\ model = ModelOf(b, d.paths[i], b)
    BY <1>2 DEF ModelsOf, Merged, Extracted
  <2>2. Measurable(net, net.from, net.to)
    BY <2>1 DEF AllOf, Extractable
  <2>3. IsNet(net)
    BY <2>1, PathsAreNets
  <2>4. /\ model.path = d.paths[i]
        /\ model.claim = ResistanceClaim(net, net.from, net.to)
        /\ model.ohms = SeriesOhms(net, net.from, net.to)
    BY <2>1 DEF ModelOf
  <2>5. model.path # None
    BY <2>1, <2>4, PathsAreNets, NoneIsNothing
  <2>6. o \in RealOhms(net, net.from, net.to)
    BY <2>4, <2>5 DEF Real
  <2> HIDE DEF net, model
  <2>7. Bears(model, o)
    BY <2>2, <2>3, <2>4, <2>6, PathBears
  <2> QED BY <2>7 DEF model
<1> QED BY <1>1, <1>2

\* The resistance a model's element has in the deck, and one it may have.
LEMMA ElementsBear ==
  ASSUME NEW d \in Declarations, NEW b \in DOMAIN Boards, AllOf(d, b), NEW s,
         Runnable(s, ModelsOf(d, b, b)),
         NEW f \in RealAssignments(s, ModelsOf(d, b, b), b), NEW e \in Passive(s)
  PROVE  LET nominal == Nominal(s, ModelsOf(d, b, b))
         IN  /\ e.name \in DOMAIN nominal /\ f[e.name] \in Ohms
             /\ IsModel(e) => /\ nominal[e.name] = ModelsOf(d, b, b)[e.model].ohms
                              /\ Bears(ModelsOf(d, b, b)[e.model], f[e.name])
             /\ ~IsModel(e) => f[e.name] = nominal[e.name]
<1> DEFINE models == ModelsOf(d, b, b)
           nominal == Nominal(s, models)
           real(name) == CHOOSE x \in Passive(s) : x.name = name
           deck(name) == CHOOSE x \in s.elements : x.name = name
<1>1. e \in s.elements /\ \A x, y \in s.elements : x.name = y.name => x = y
  BY DEF Runnable, WellFormed, Passive
<1>2. real(e.name) = e /\ deck(e.name) = e
  <2>1. Passive(s) \subseteq s.elements
    BY DEF Passive
  <2> QED BY <1>1, <2>1
<1>3. /\ f \in [{x.name : x \in Passive(s)} -> Ohms]
      /\ \A name \in DOMAIN f :
           f[name] \in IF IsModel(real(name)) THEN Real(models[real(name).model], b)
                       ELSE {real(name).value}
  BY DEF RealAssignments
<1>4. e.name \in {x.name : x \in Passive(s)}
  OBVIOUS
<1>5. f[e.name] \in Ohms
  BY <1>3, <1>4
<1>6. f[e.name] \in IF IsModel(e) THEN Real(models[e.model], b) ELSE {e.value}
  <2>1. e.name \in DOMAIN f
    BY <1>3, <1>4
  <2> HIDE DEF real, models
  <2> QED BY <1>2, <1>3, <2>1
<1>7. /\ e.name \in DOMAIN nominal
      /\ nominal[e.name] = IF IsModel(e) THEN models[e.model].ohms ELSE e.value
  <2>1. nominal = [name \in {x.name : x \in Passive(s)} |->
                     IF IsModel(deck(name)) THEN models[deck(name).model].ohms
                     ELSE deck(name).value]
    BY DEF Nominal
  <2> HIDE DEF nominal, deck, models
  <2> QED BY <1>2, <1>4, <2>1
<1>8. ASSUME IsModel(e) PROVE Bears(models[e.model], f[e.name])
  <2>1. e.model \in DOMAIN models
    <3>1. e.model \in Models(s.elements)
      BY <1>1, <1>8 DEF Models
    <3> QED BY <3>1 DEF Runnable
  <2> QED BY <1>6, <1>8, <2>1, ModelsBear
<1> QED BY <1>5, <1>6, <1>7, <1>8

-----------------------------------------------------------------------------
(* Circuits whose resistances agree around what is measured.               *)

\* The voltage of a node, the ground's among them.
Lifted(s, v, instant, n) ==
  IF n = Ground THEN 0 ELSE Merged(v, Driven(s, instant))[n]

\* The other end of an element.
Beyond(e, n) == IF e.nodes[1] = n THEN e.nodes[2] ELSE e.nodes[1]

LEMMA Conducts ==
  ASSUME NEW r \in Ohms
  PROVE  /\ Scale \div r \in Nat /\ Scale \div r > 0
         /\ \A q \in Ohms : r <= q => Scale \div q <= Scale \div r
<1>1. \A q \in Ohms : q \in {1, 2, 3, 4, 5, 6, 7, 8, 9, 10, 11, 12}
  BY OhmsAre
<1> DEFINE all == {1, 2, 3, 4, 5, 6, 7, 8, 9, 10, 11, 12}
<1>2. /\ 12 \div 1 = 12 /\ 12 \div 2 = 6 /\ 12 \div 3 = 4 /\ 12 \div 4 = 3
      /\ 12 \div 5 = 2 /\ 12 \div 6 = 2 /\ 12 \div 7 = 1 /\ 12 \div 8 = 1
      /\ 12 \div 9 = 1 /\ 12 \div 10 = 1 /\ 12 \div 11 = 1 /\ 12 \div 12 = 1
  OBVIOUS
<1>3. \A p, q \in all : p <= q => 12 \div q <= 12 \div p
  BY <1>2
<1>4. \A p \in all : 12 \div p \in Nat /\ 12 \div p > 0
  BY <1>2
<1> QED BY <1>1, <1>3, <1>4 DEF Scale

LEMMA Scaled ==
  ASSUME NEW x \in Int, NEW y \in Int, NEW g \in Nat, g > 0
  PROVE  /\ x * g \in Int
         /\ x <= y => x * g <= y * g
         /\ x < y => x * g < y * g
<1>1. ASSUME x <= y PROVE x * g <= y * g /\ (x < y => x * g < y * g)
  <2>1. PICK k \in Nat : y = x + k
    <3>1. y - x \in Nat /\ y = x + (y - x)
      BY <1>1
    <3> QED BY <3>1
  <2>2. (x + k) * g = x * g + k * g /\ k * g \in Nat /\ x * g \in Int
    OBVIOUS
  <2>3. k # 0 => k * g > 0
    OBVIOUS
  <2>4. x < y => k # 0
    BY <2>1
  <2>5. y * g = x * g + k * g
    BY <2>1, <2>2
  <2> QED BY <2>2, <2>3, <2>4, <2>5
<1> QED BY <1>1

\* What is needed of a declared scenario and of its solutions.
Tied(s) ==
  /\ IsFiniteSet(s.elements)
  /\ \A e \in s.elements : e.nodes = <<e.nodes[1], e.nodes[2]>>
  /\ \A m \in s.measurements : \E e \in s.elements : m.node \in Nodes(e)
  /\ \A instant \in {1, 2} : Driven(s, instant) \in [DrivenNodes(s) -> Int]
  /\ \A nodes \in (SUBSET Free(s)) \ {{}} : \E e \in Passive(s) :
       Nodes(e) \cap nodes # {} /\ ~ Nodes(e) \subseteq nodes

LEMMA DeclaredAreTied ==
  ASSUME NEW d \in Declarations, NEW i \in DOMAIN d.entries
  PROVE  Tied(d.entries[i].scenario)
<1> DEFINE s == d.entries[i].scenario
<1>1. IsFiniteSet(s.elements)
  BY DeclarationsAreLists
<1>2. /\ \A e \in s.elements : e.nodes = <<e.nodes[1], e.nodes[2]>>
      /\ \A m \in s.measurements : \E e \in s.elements : m.node \in Nodes(e)
      /\ \A instant \in {1, 2} : Driven(s, instant) \in [DrivenNodes(s) -> Int]
      /\ \A nodes \in (SUBSET Free(s)) \ {{}} : \E e \in Passive(s) :
           Nodes(e) \cap nodes # {} /\ ~ Nodes(e) \subseteq nodes
  BY CircuitsAreTied
<1> QED BY <1>1, <1>2 DEF Tied

LEMMA EndsOf ==
  ASSUME NEW s, Tied(s), NEW e \in s.elements
  PROVE  /\ Nodes(e) = {e.nodes[1], e.nodes[2]}
         /\ \A n \in Nodes(e) : Nodes(e) = {n, Beyond(e, n)}
         /\ \A n \in Nodes(e) : n = Ground \/ n \in Free(s) \/ n \in DrivenNodes(s)
<1>1. e.nodes = <<e.nodes[1], e.nodes[2]>>
  BY DEF Tied
<1> DEFINE x == e.nodes[1]
           y == e.nodes[2]
<1>2. Nodes(e) = {x, y}
  <2> HIDE DEF x, y
  <2>1. e.nodes = <<x, y>>
    BY <1>1 DEF x, y
  <2>2. DOMAIN <<x, y>> = {1, 2} /\ <<x, y>>[1] = x /\ <<x, y>>[2] = y
    OBVIOUS
  <2>3. ToSet(<<x, y>>) = {x, y}
    BY <2>2 DEF ToSet
  <2> QED BY <2>1, <2>3 DEF Nodes
<1>3. \A n \in Nodes(e) : n # Ground => n \in UNION {Signals(z) : z \in s.elements}
  BY DEF Signals
<1> QED BY <1>2, <1>3 DEF Beyond, Free

\* A solution's voltages are numbers.
LEMMA LiftedIs ==
  ASSUME NEW s, Tied(s), NEW instant \in {1, 2}, NEW ohms,
         NEW v \in Solutions(s, ohms, instant)
  PROVE  /\ Lifted(s, v, instant, Ground) = 0
         /\ \A n \in Free(s) : n # Ground /\ Lifted(s, v, instant, n) = v[n]
                               /\ v[n] \in -Rail..Rail
         /\ \A n \in DrivenNodes(s) :
              /\ n # Ground /\ Lifted(s, v, instant, n) = Driven(s, instant)[n]
              /\ Driven(s, instant)[n] \in Int
<1>1. v \in [Free(s) -> -Rail..Rail]
  BY DEF Solutions
<1>2. Driven(s, instant) \in [DrivenNodes(s) -> Int]
  BY DEF Tied
<1>3. \A n \in Free(s) : n # Ground /\ n \notin DrivenNodes(s)
  BY DEF Free, Signals
<1>4. \A n \in DrivenNodes(s) : n # Ground
  BY DEF DrivenNodes, Signals
<1> QED BY <1>1, <1>2, <1>3, <1>4 DEF Lifted, Merged

LEMMA CurrentIs ==
  ASSUME NEW s, Tied(s), NEW instant \in {1, 2}, NEW ohms, NEW v,
         NEW n, NEW e
  PROVE  Current(e, ohms, Merged(v, Driven(s, instant)), n) =
           (Lifted(s, v, instant, Beyond(e, n)) - Lifted(s, v, instant, n))
             * (Scale \div ohms[e.name])
BY DEF Current, Lifted, Beyond

\* Where resistances agree around a closed set of nodes, no voltage there is
\* higher with the ones than with the others: the nodes whose voltages differ
\* the most would have to draw current out of each other.
LEMMA NoneIsHigher ==
  ASSUME NEW s, Tied(s), NEW instant \in {1, 2}, NEW f, NEW g,
         NEW v \in Solutions(s, f, instant), NEW w \in Solutions(s, g, instant),
         NEW K, Ground \notin K, Closed(s, K),
         \A e \in Passive(s) :
           Nodes(e) \cap K # {} => f[e.name] \in Ohms /\ g[e.name] = f[e.name],
         NEW node \in K \cap Free(s)
  PROVE  v[node] <= w[node]
<1> SUFFICES ASSUME ~(v[node] <= w[node]) PROVE FALSE
  OBVIOUS
<1> DEFINE A == K \cap Free(s)
           up(n) == Lifted(s, v, instant, n)
           low(n) == Lifted(s, w, instant, n)
           apart(n) == up(n) - low(n)
           rest == {2 * Rail - apart(n) : n \in A}
<1>1. Rail \in Nat
  BY VoltagesAreWhole
<1>2. \A n \in Free(s) : /\ n # Ground /\ up(n) = v[n] /\ low(n) = w[n]
                         /\ v[n] \in -Rail..Rail /\ w[n] \in -Rail..Rail
  BY LiftedIs
<1>3. \A n \in A : apart(n) \in Int /\ 2 * Rail - apart(n) \in Nat
  BY <1>1, <1>2
<1>4. PICK high \in A : \A n \in A : apart(n) <= apart(high)
  <2>1. rest \in SUBSET Nat /\ rest # {}
    BY <1>3
  <2>2. PICK x \in rest : \A y \in rest : x <= y
    <3> HIDE DEF rest
    <3> QED BY <2>1, LeastOf
  <2>3. PICK n \in A : x = 2 * Rail - apart(n)
    BY <2>2
  <2>4. \A k \in A : 2 * Rail - apart(n) <= 2 * Rail - apart(k)
    BY <2>2, <2>3
  <2>5. \A k \in A : apart(k) <= apart(n)
    <3> TAKE k \in A
    <3>1. 2 * Rail - apart(n) <= 2 * Rail - apart(k)
      BY <2>4
    <3>2. apart(n) \in Int /\ apart(k) \in Int
      BY <1>3
    <3> HIDE DEF apart
    <3> QED BY <1>1, <3>1, <3>2
  <2> QED BY <2>5
<1> DEFINE top == apart(high)
           ns == {n \in A : apart(n) = top}
<1>5. top \in Int /\ top > 0
  <2>1. apart(node) > 0 /\ apart(node) \in Int
    BY <1>1, <1>2
  <2>2. top \in Int /\ apart(node) <= top
    BY <1>3, <1>4
  <2> HIDE DEF apart, top
  <2> QED BY <2>1, <2>2
<1>6. PICK e \in Passive(s) : Nodes(e) \cap ns # {} /\ ~ Nodes(e) \subseteq ns
  <2>1. ns \in (SUBSET Free(s)) \ {{}}
    BY <1>4
  <2> HIDE DEF ns
  <2> QED BY <2>1 DEF Tied
<1>7. PICK n \in ns : n \in Nodes(e)
  BY <1>6
<1>8. n \in A /\ apart(n) = top /\ n \in Free(s) /\ n # Ground /\ n \in K
  BY <1>2, <1>7
<1> DEFINE S == At(s, n)
           more == [x \in S |-> Current(x, f, Merged(v, Driven(s, instant)), n)]
           less == [x \in S |-> Current(x, g, Merged(w, Driven(s, instant)), n)]
<1>9. IsFiniteSet(S) /\ S \subseteq Passive(s) /\ Passive(s) \subseteq s.elements
  <2>1. S \subseteq s.elements
    BY DEF At, Passive
  <2> QED BY <2>1, FS_Subset DEF Tied, At, Passive
<1>10. ASSUME NEW x \in S
       PROVE  LET far == Beyond(x, n)
              IN  /\ Nodes(x) = {n, far} /\ f[x.name] \in Ohms /\ g[x.name] = f[x.name]
                  /\ up(far) \in Int /\ low(far) \in Int /\ apart(far) <= top
                  /\ far \notin ns => apart(far) < top
  <2> DEFINE far == Beyond(x, n)
  <2>1. x \in Passive(s) /\ x \in s.elements /\ n \in Nodes(x)
    BY <1>9 DEF At
  <2>2. /\ Nodes(x) = {n, far}
        /\ far = Ground \/ far \in Free(s) \/ far \in DrivenNodes(s)
    <3>1. Nodes(x) = {n, far}
      BY <2>1, EndsOf
    <3> HIDE DEF far
    <3> QED BY <2>1, <3>1, EndsOf
  <2>3. f[x.name] \in Ohms /\ g[x.name] = f[x.name]
    BY <1>8, <2>1
  <2>4. n \in Signals(x)
    BY <1>8, <2>1 DEF Signals
  <2>5. far # Ground => far \in K
    BY <1>8, <2>1, <2>2, <2>4 DEF Closed, Signals
  <2> HIDE DEF far
  <2>6. CASE far = Ground
    <3>1. up(far) = 0 /\ low(far) = 0
      BY <2>6, LiftedIs
    <3> QED BY <1>5, <2>2, <2>3, <3>1 DEF far
  <2>7. CASE far \in DrivenNodes(s)
    <3>1. /\ up(far) = Driven(s, instant)[far] /\ low(far) = Driven(s, instant)[far]
          /\ Driven(s, instant)[far] \in Int
      BY <2>7, LiftedIs
    <3>2. up(far) \in Int /\ low(far) \in Int /\ apart(far) = 0
      BY <3>1
    <3> HIDE DEF top
    <3> QED BY <1>5, <2>2, <2>3, <3>2 DEF far
  <2>8. CASE far \in Free(s) /\ far # Ground
    <3>1. far \in A
      BY <2>5, <2>8
    <3>2. up(far) \in Int /\ low(far) \in Int
      BY <1>1, <1>2, <2>8
    <3>3. apart(far) <= top /\ apart(far) \in Int
      BY <1>3, <1>4, <3>1
    <3>4. far \notin ns => apart(far) # top
      BY <3>1
    <3> HIDE DEF top, apart, A, ns
    <3>5. far \notin ns => apart(far) < top
      BY <1>5, <3>3, <3>4
    <3> QED BY <2>2, <2>3, <3>2, <3>3, <3>5 DEF far
  <2> QED BY <2>2, <2>6, <2>7, <2>8
<1>11. ASSUME NEW x \in S
       PROVE  /\ more[x] \in Int /\ less[x] \in Int /\ more[x] <= less[x]
              /\ Beyond(x, n) \notin ns => more[x] < less[x]
  <2> DEFINE far == Beyond(x, n)
             c == Scale \div f[x.name]
             mine == up(far) - up(n)
             yours == low(far) - low(n)
  <2>1. more[x] = mine * c /\ less[x] = yours * c
    <3>1. g[x.name] = f[x.name]
      BY <1>10
    <3>2. more[x] = mine * c
      BY CurrentIs
    <3>3. less[x] = yours * (Scale \div g[x.name])
      BY CurrentIs
    <3> QED BY <3>1, <3>2, <3>3
  <2>2. c \in Nat /\ c > 0
    BY <1>10, Conducts
  <2>3. up(n) \in Int /\ low(n) \in Int
    BY <1>1, <1>2, <1>8
  <2>4. up(far) \in Int /\ low(far) \in Int
    BY <1>10
  <2>5. apart(far) <= top /\ (far \notin ns => apart(far) < top)
    BY <1>10
  <2>6. mine \in Int /\ yours \in Int /\ mine <= yours /\ (far \notin ns => mine < yours)
    <3>1. up(far) - low(far) <= up(n) - low(n)
      BY <1>8, <2>5
    <3>2. far \notin ns => up(far) - low(far) < up(n) - low(n)
      BY <1>8, <2>5
    <3> HIDE DEF up, low, ns, far
    <3> QED BY <2>3, <2>4, <3>1, <3>2
  <2> HIDE DEF more, less, mine, yours, c, ns
  <2> QED BY <2>1, <2>2, <2>6, Scaled
<1>12. e \in S /\ Beyond(e, n) \notin ns
  <2>1. e \in S
    BY <1>6, <1>7 DEF At
  <2>2. Nodes(e) = {n, Beyond(e, n)}
    BY <1>10, <2>1
  <2> HIDE DEF ns
  <2> QED BY <1>6, <1>7, <2>1, <2>2
<1>13. Sum(more, S) < Sum(less, S)
  <2>1. \A x \in S : more[x] \in Int /\ less[x] \in Int /\ more[x] <= less[x]
    BY <1>11
  <2>2. \E x \in S : more[x] < less[x]
    BY <1>11, <1>12
  <2> HIDE DEF more, less, S
  <2> QED BY <1>9, <2>1, <2>2, SumsCompare
<1>14. Sum(more, S) = 0 /\ Sum(less, S) = 0
  <2>1. /\ Balanced(s, f, Merged(v, Driven(s, instant)), n)
        /\ Balanced(s, g, Merged(w, Driven(s, instant)), n)
    BY <1>8 DEF Solutions
  <2>2. SumFunction(more) = 0 /\ SumFunction(less) = 0
    BY <2>1 DEF Balanced
  <2>3. DOMAIN more = S /\ DOMAIN less = S
    OBVIOUS
  <2> HIDE DEF more, less, S
  <2> QED BY <2>2, <2>3, SumIs
<1> QED BY <1>13, <1>14

\* The least closed set of nodes around a measurement: what is connected.
Around(s, m) ==
  LET nodes == {m.node} \cup UNION {Signals(e) : e \in s.elements}
  IN  {n \in nodes : \A ns \in SUBSET nodes : m.node \in ns /\ Closed(s, ns) => n \in ns}

LEMMA AroundIs ==
  ASSUME NEW s, NEW m, IsFiniteSet(s.elements), m.node # Ground
  PROVE  /\ m.node \in Around(s, m) /\ Ground \notin Around(s, m)
         /\ Closed(s, Around(s, m))
         /\ \A e \in s.elements :
              Nodes(e) \cap Around(s, m) # {} => e \in Contributors(s, m)
<1> DEFINE nodes == {m.node} \cup UNION {Signals(e) : e \in s.elements}
           K == Around(s, m)
<1>1. Ground \notin nodes
  BY DEF Signals
<1>2. K = {n \in nodes : \A ns \in SUBSET nodes : m.node \in ns /\ Closed(s, ns) => n \in ns}
  BY DEF Around
<1>3. \A e \in s.elements : Signals(e) \subseteq nodes
  OBVIOUS
<1> HIDE DEF K
<1>4. m.node \in K /\ Ground \notin K
  BY <1>1, <1>2
<1>5. Closed(s, K)
  <2> SUFFICES ASSUME NEW e \in s.elements, NEW x \in Signals(e) \cap K, NEW y \in Signals(e)
               PROVE  y \in K
    BY DEF Closed
  <2>1. ASSUME NEW ns \in SUBSET nodes, m.node \in ns, Closed(s, ns)
        PROVE  y \in ns
    <3>1. x \in ns
      BY <1>2, <2>1
    <3> QED BY <2>1, <3>1 DEF Closed
  <2> QED BY <1>2, <1>3, <2>1
<1>6. ASSUME NEW e \in s.elements, NEW x \in Nodes(e) \cap K
      PROVE  e \in Contributors(s, m)
  <2>1. x \in Signals(e)
    BY <1>4 DEF Signals
  <2>2. \A ns \in SUBSET nodes : m.node \in ns /\ Closed(s, ns) => x \in ns
    BY <1>2
  <2>3. e \in Connected(s, m)
    BY <2>1, <2>2 DEF Connected, Closed
  <2> QED BY <2>3, ConnectedContribute
<1>7. \A e \in s.elements : Nodes(e) \cap K # {} => e \in Contributors(s, m)
  BY <1>6
<1> QED BY <1>4, <1>5, <1>7 DEF K

LEMMA VoltageIs ==
  ASSUME NEW s, NEW ohms, NEW instant, Solutions(s, ohms, instant) # {}, NEW n, n # Ground
  PROVE  \E v \in Solutions(s, ohms, instant) :
           Voltage(s, ohms, instant)[n] = Lifted(s, v, instant, n)
BY DEF Voltage, Lifted

\* What is measured depends only on the resistances of what contributes.
LEMMA VoltagesAgree ==
  ASSUME NEW s, Tied(s), NEW m \in s.measurements, m.node # Ground,
         NEW instant \in {1, 2}, NEW f, NEW g,
         Solutions(s, f, instant) # {}, Solutions(s, g, instant) # {},
         \A e \in Passive(s) : f[e.name] \in Ohms,
         \A e \in Passive(s) : e \in Contributors(s, m) => g[e.name] = f[e.name]
  PROVE  Voltage(s, f, instant)[m.node] = Voltage(s, g, instant)[m.node]
<1> DEFINE K == Around(s, m)
<1>1. IsFiniteSet(s.elements)
  BY DEF Tied
<1>2. /\ m.node \in K /\ Ground \notin K /\ Closed(s, K)
      /\ \A e \in s.elements : Nodes(e) \cap K # {} => e \in Contributors(s, m)
  BY <1>1, AroundIs
<1> HIDE DEF K
<1>3. \A e \in Passive(s) :
        Nodes(e) \cap K # {} =>
          f[e.name] \in Ohms /\ g[e.name] \in Ohms /\ g[e.name] = f[e.name]
    BY <1>2 DEF Passive
<1>4. PICK v \in Solutions(s, f, instant) :
        Voltage(s, f, instant)[m.node] = Lifted(s, v, instant, m.node)
  BY VoltageIs
<1>5. PICK w \in Solutions(s, g, instant) :
        Voltage(s, g, instant)[m.node] = Lifted(s, w, instant, m.node)
  BY VoltageIs
<1>6. CASE m.node \in Free(s)
  <2>1. v[m.node] <= w[m.node]
    BY <1>2, <1>3, <1>6, NoneIsHigher
  <2>2. w[m.node] <= v[m.node]
    BY <1>2, <1>3, <1>6, NoneIsHigher
  <2>3. /\ Lifted(s, v, instant, m.node) = v[m.node] /\ v[m.node] \in -Rail..Rail
        /\ Lifted(s, w, instant, m.node) = w[m.node] /\ w[m.node] \in -Rail..Rail
    BY <1>6, LiftedIs
  <2>4. v[m.node] = w[m.node]
    BY <2>1, <2>2, <2>3, VoltagesAreWhole
  <2> QED BY <1>4, <1>5, <2>3, <2>4
<1>7. CASE m.node \in DrivenNodes(s)
  BY <1>4, <1>5, <1>7, LiftedIs
<1>8. m.node \in Free(s) \/ m.node \in DrivenNodes(s)
  <2>1. PICK e \in s.elements : m.node \in Nodes(e)
    BY DEF Tied
  <2> QED BY <2>1, EndsOf
<1> QED BY <1>6, <1>7, <1>8

\* What is taken of a vector.
Reduced(m, at) ==
  LET points == Instants(Family[m.kind])
      values == {at[i] : i \in points}
  IN  CASE Reduction[m.kind] = "last" -> at[Max(points)]
        [] Reduction[m.kind] = "min"  -> Min(values)
        [] Reduction[m.kind] = "max"  -> Max(values)

Vector(s, ohms, m) ==
  [i \in Instants(Family[m.kind]) |-> Voltage(s, ohms, i)[m.node]]

LEMMA ValueIs ==
  ASSUME NEW s, NEW ohms, NEW m
  PROVE  Value(s, ohms, m) = Reduced(m, Vector(s, ohms, m))
BY Zenon DEF Value, Reduced, Vector

LEMMA SameVectors ==
  ASSUME NEW s, NEW f, NEW g, NEW m,
         \A i \in {1, 2} : Voltage(s, f, i)[m.node] = Voltage(s, g, i)[m.node]
  PROVE  Value(s, f, m) = Value(s, g, m)
<1>1. \A i \in Instants(Family[m.kind]) : i \in {1, 2}
  BY DEF Instants
<1>2. Vector(s, f, m) = Vector(s, g, m)
  BY <1>1 DEF Vector
<1> QED BY <1>2, ValueIs

\* A verdict that passes is met by the value it was given on.
LEMMA PassedIsMet ==
  ASSUME NEW m, NEW value, MeasuredVerdict(m, value) = "PASS",
         (IF m.knowledge = None THEN "exact" ELSE m.knowledge.kind) = "exact"
  PROVE  Meets(value, m.assertion)
<1> DEFINE k == IF m.knowledge = None THEN Knows("exact", "none") ELSE m.knowledge
           c == MeasuredClaim(m, value)
<1>1. k.kind = "exact"
  BY DEF Knows
<1> DEFINE endpoint(side) ==
             IF k.kind \in {"exact", "approximate", side} THEN value ELSE NoBound
<1>2. c = Claimed(k.kind, endpoint("lower_bound"), endpoint("upper_bound"), k.basis,
                  k.kind \in Bounded)
  BY Zenon DEF MeasuredClaim
<1> HIDE DEF c, k
<1>3. Lower(c) = value /\ Upper(c) = value
  BY <1>1, <1>2 DEF Claimed, Lower, Upper
<1>4. Passes(c, m.assertion)
  BY DEF MeasuredVerdict, Verdict, c
<1> QED BY <1>3, <1>4 DEF Passes, AtMost, Meets

-----------------------------------------------------------------------------
(* The series divider.                                                     *)

DividerFound(s, m, models, source, series, load) ==
  /\ WellFormed(s) /\ Tied(s) /\ m \in s.measurements
  /\ source \in s.elements /\ series \in s.elements /\ load \in s.elements
  /\ Divider(s, m, source, series, load)
  /\ ResistanceKnown(series, models) \in DOMAIN Opposite

LEMMA DividerIs ==
  ASSUME NEW s, NEW m, NEW models, NEW source, NEW series, NEW load,
         DividerFound(s, m, models, source, series, load)
  PROVE  /\ series # load /\ ~IsModel(load)
         /\ Passive(s) = {series, load} /\ At(s, m.node) = {series, load}
         /\ Free(s) = {m.node} /\ m.node # Ground
         /\ Beyond(series, m.node) = Supply(source) /\ Supply(source) \in DrivenNodes(s)
         /\ Beyond(load, m.node) = Ground
<1> USE DEF DividerFound
<1> DEFINE in == Supply(source)
           out == m.node
<1>1. /\ {e \in s.elements : e.kind = "vsource_dc"} = {source}
      /\ out \notin Nodes(source) /\ in # Ground
      /\ s.elements = {source, series, load}
      /\ load.kind = "resistor" /\ Nodes(load) = {out, Ground}
      /\ Nodes(series) = {in, out}
  BY DEF Divider
<1>2. out # Ground
  BY DEF WellFormed
<1>3. in \in Nodes(source) /\ Nodes(source) = {source.nodes[1], source.nodes[2]}
  BY EndsOf DEF Supply
<1> HIDE DEF in
<1>4. in # out
  BY <1>1, <1>3
<1>5. series # load /\ series # source /\ load # source
  BY <1>1, <1>2, <1>3, <1>4
<1>6. IsSource(source) /\ ~IsSource(load) /\ ~IsModel(load)
  <2>1. source.kind = "vsource_dc"
    BY <1>1
  <2> QED BY <1>1, <2>1 DEF IsSource, IsModel
<1>7. ~IsSource(series)
  <2>1. series.kind = "resistor" \/ IsModel(series)
    BY DEF ResistanceKnown, Opposite
  <2> QED BY <2>1 DEF IsSource, IsModel
<1>8. Passive(s) = {series, load} /\ Sources(s) = {source}
  BY <1>1, <1>5, <1>6, <1>7 DEF Passive, Sources
<1>9. At(s, out) = {series, load}
  BY <1>1, <1>8 DEF At
<1>10. DrivenNodes(s) = Signals(source)
  BY <1>8 DEF DrivenNodes
<1>11. in \in DrivenNodes(s) /\ out \notin DrivenNodes(s)
  BY <1>1, <1>3, <1>10 DEF Signals
<1>12. Free(s) = {out}
  <2>1. Signals(series) = {in, out} /\ Signals(load) = {out}
    BY <1>1, <1>2 DEF Signals
  <2>2. UNION {Signals(e) : e \in s.elements} = Signals(source) \cup {in, out}
    BY <1>1, <2>1
  <2> QED BY <1>10, <1>11, <2>2 DEF Free
<1>13. Beyond(series, out) = in
  <2>1. Nodes(series) = {out, Beyond(series, out)}
    BY <1>1, EndsOf
  <2> QED BY <1>1, <1>4, <2>1
<1>14. Beyond(load, out) = Ground
  <2>1. Nodes(load) = {out, Beyond(load, out)}
    BY <1>1, EndsOf
  <2> QED BY <1>1, <1>2, <2>1
<1> QED BY <1>2, <1>5, <1>6, <1>8, <1>9, <1>11, <1>12, <1>13, <1>14 DEF in

\* What flows in through the series element flows out through the load.
LEMMA DividerBalances ==
  ASSUME NEW s, Tied(s), NEW m, NEW series, NEW load, series # load,
         At(s, m.node) = {series, load}, Free(s) = {m.node},
         Beyond(series, m.node) \in DrivenNodes(s), Beyond(load, m.node) = Ground,
         NEW instant \in {1, 2}, NEW ohms, ohms[series.name] \in Ohms,
         ohms[load.name] \in Ohms, NEW v \in Solutions(s, ohms, instant)
  PROVE  LET supply == Driven(s, instant)[Beyond(series, m.node)]
         IN  (supply - v[m.node]) * (Scale \div ohms[series.name])
               = v[m.node] * (Scale \div ohms[load.name])
<1> DEFINE n == m.node
           volts == Merged(v, Driven(s, instant))
           S == At(s, n)
           in == [e \in S |-> Current(e, ohms, volts, n)]
           supply == Driven(s, instant)[Beyond(series, n)]
           gs == Scale \div ohms[series.name]
           gl == Scale \div ohms[load.name]
<1>1. /\ Lifted(s, v, instant, n) = v[n] /\ v[n] \in Int
      /\ Lifted(s, v, instant, Ground) = 0
      /\ Lifted(s, v, instant, Beyond(series, n)) = supply /\ supply \in Int
  <2>1. n \in Free(s) /\ Rail \in Nat
    BY VoltagesAreWhole
  <2> QED BY <2>1, LiftedIs
<1>2. gs \in Nat /\ gl \in Nat /\ gs > 0 /\ gl > 0
  BY Conducts
<1>3. in[series] = (supply - v[n]) * gs /\ in[load] = (0 - v[n]) * gl
  <2>1. series \in S /\ load \in S
    OBVIOUS
  <2>2. /\ in[series] = (Lifted(s, v, instant, Beyond(series, n))
                           - Lifted(s, v, instant, n)) * gs
        /\ in[load] = (Lifted(s, v, instant, Beyond(load, n))
                         - Lifted(s, v, instant, n)) * gl
    BY <2>1, CurrentIs
  <2> HIDE DEF in, gs, gl, supply
  <2> QED BY <1>1, <2>2
<1>4. 0 = Sum(in, S)
  <2>1. Balanced(s, ohms, volts, n)
    BY DEF Solutions
  <2>2. 0 = SumFunction(in)
    BY <2>1 DEF Balanced
  <2>3. DOMAIN in = S
    OBVIOUS
  <2> HIDE DEF in, S
  <2> QED BY <2>2, <2>3, SumIs
<1>5. supply - v[n] \in Int /\ 0 - v[n] \in Int
  BY <1>1
<1>6. in[series] \in Int /\ in[load] \in Int
  <2> DEFINE x == supply - v[n]
             y == 0 - v[n]
  <2> HIDE DEF x, y, gs, gl, in
  <2>1. x * gs \in Int /\ y * gl \in Int
    BY <1>2, <1>5, Scaled DEF x, y
  <2> QED BY <1>3, <2>1 DEF x, y
<1>7. Sum(in, S) = in[series] + in[load]
  <2> HIDE DEF in
  <2>1. IsFiniteSet(S) /\ IsFiniteSet({load}) /\ IsFiniteSet({})
    <3>1. S = {load} \cup {series}
      OBVIOUS
    <3>2. IsFiniteSet({load}) /\ IsFiniteSet({load} \cup {series})
      BY FS_Singleton, FS_AddElement
    <3> QED BY <3>1, <3>2, FS_EmptySet
  <2>2. \A x \in {series, load} : in[x] \in Int
    BY <1>6
  <2>3. Sum(in, {series, load}) = in[series] + Sum(in, {series, load} \ {series})
    BY <2>1, <2>2, Sums
  <2>4. Sum(in, {load}) = in[load] + Sum(in, {load} \ {load})
    BY <2>1, <2>2, Sums
  <2>5. Sum(in, {}) = 0
    BY <2>1, Sums
  <2>6. {series, load} \ {series} = {load} /\ {load} \ {load} = {}
    OBVIOUS
  <2>7. Sum(in, {series, load} \ {series}) = Sum(in, {load})
    BY <2>6, Zenon
  <2>8. Sum(in, {load} \ {load}) = Sum(in, {})
    BY <2>6, Zenon
  <2>9. Sum(in, S) = Sum(in, {series, load})
    BY Zenon
  <2> QED BY <1>6, <2>3, <2>4, <2>5, <2>7, <2>8, <2>9
<1>8. (0 - v[n]) * gl = -(v[n] * gl) /\ v[n] * gl \in Int
  <2> DEFINE x == v[n]
  <2> HIDE DEF x, gl, in
  <2> QED BY <1>1, <1>2 DEF x
<1> DEFINE x == (supply - v[n]) * gs
           y == v[n] * gl
<1>9. x \in Int /\ y \in Int /\ 0 = x + (-y)
  BY <1>3, <1>4, <1>6, <1>7, <1>8
<1>10. x = y
  <2> HIDE DEF x, y
  <2> QED BY <1>9
<1> QED BY <1>10

\* The more the series element resists, the less is left over the load.
LEMMA LoadFalls ==
  ASSUME NEW supply \in Nat, NEW x \in Int, NEW y \in Int,
         NEW gs \in Nat, NEW hs \in Nat, NEW gl \in Nat, gs > 0, hs > 0, gl > 0,
         hs <= gs, (supply - x) * gs = x * gl, (supply - y) * hs = y * gl
  PROVE  y <= x
<1> SUFFICES ASSUME x < y PROVE FALSE
  OBVIOUS
<1> DEFINE p == supply - x
           q == supply - y
<1>1. p \in Int /\ q \in Int /\ q < p
  OBVIOUS
<1>2. x * gl < y * gl /\ x * gl \in Int /\ y * gl \in Int
  BY Scaled
<1> HIDE DEF p, q
<1>3. p * gs \in Int /\ q * gs \in Int /\ q * hs \in Int /\ q * gs < p * gs
  BY <1>1, Scaled
<1>4. p * gs = x * gl /\ q * hs = y * gl
  BY DEF p, q
<1>5. q >= 0
  <2> SUFFICES ASSUME q < 0 PROVE FALSE
    BY <1>1
  <2>1. q * hs < 0 * hs /\ 0 * hs = 0
    BY <1>1, Scaled
  <2>2. y > 0
    BY DEF q
  <2>3. 0 * gl < y * gl /\ 0 * gl = 0
    BY <2>2, Scaled
  <2> QED BY <1>2, <1>3, <1>4, <2>1, <2>3
<1>6. q * hs <= q * gs
  <2>1. q = 0 => q * hs = 0 /\ q * gs = 0
    OBVIOUS
  <2>2. q > 0 => hs * q <= gs * q
    BY <1>1, <1>5, Scaled
  <2>3. hs * q = q * hs /\ gs * q = q * gs
    BY <1>1
  <2> QED BY <1>1, <1>3, <1>5, <2>1, <2>2, <2>3
<1> QED BY <1>2, <1>3, <1>4, <1>6

\* What is taken of a vector that is nowhere above another is not above what
\* is taken of that one.
LEMMA ReducedLess ==
  ASSUME NEW m, m.kind \in DOMAIN Family, NEW at, NEW bt,
         \A i \in {1, 2} : at[i] \in Int /\ bt[i] \in Int /\ at[i] <= bt[i]
  PROVE  /\ Reduced(m, at) <= Reduced(m, bt)
         /\ Reduced(m, at) \in Int /\ Reduced(m, bt) \in Int
<1> DEFINE points == Instants(Family[m.kind])
<1>1. /\ points = {1} \/ points = {1, 2}
      /\ Reduction[m.kind] \in {"last", "min", "max"}
  BY DEF Instants, Family, Reduction
<1> HIDE DEF points
<1>2. Max(points) \in {1, 2}
  <2>1. \E x \in points : \A y \in points : x >= y
    BY <1>1
  <2>2. Max(points) \in points
    BY <2>1 DEF Max
  <2> QED BY <1>1, <2>2
<1>3. ASSUME NEW f, \A i \in {1, 2} : f[i] \in Int
      PROVE  LET values == {f[i] : i \in points}
             IN  /\ Min(values) \in values /\ \A x \in values : Min(values) <= x
                 /\ Max(values) \in values /\ \A x \in values : x <= Max(values)
  <2> DEFINE values == {f[i] : i \in points}
  <2>1. values = {f[1]} \/ values = {f[1], f[2]}
    BY <1>1
  <2> HIDE DEF values
  <2>2. /\ \E x \in values : \A y \in values : x <= y
        /\ \E x \in values : \A y \in values : x >= y
        /\ \A x \in values : x \in Int
    BY <1>3, <2>1
  <2>3. Min(values) \in values /\ \A x \in values : Min(values) <= x
    BY <2>2 DEF Min
  <2>4. Max(values) \in values /\ \A x \in values : Max(values) >= x
    BY <2>2 DEF Max
  <2> QED BY <2>2, <2>3, <2>4 DEF values
<1> DEFINE as == {at[i] : i \in points}
           bs == {bt[i] : i \in points}
<1>4. /\ Min(as) \in as /\ \A x \in as : Min(as) <= x
      /\ Max(as) \in as /\ \A x \in as : x <= Max(as)
  BY <1>3
<1>5. /\ Min(bs) \in bs /\ \A x \in bs : Min(bs) <= x
      /\ Max(bs) \in bs /\ \A x \in bs : x <= Max(bs)
  BY <1>3
<1>6. \A i \in points : at[i] \in Int /\ bt[i] \in Int /\ at[i] <= bt[i]
  BY <1>1
<1>7. /\ \A x \in as : x \in Int /\ \E y \in bs : x <= y
      /\ \A y \in bs : y \in Int /\ \E x \in as : x <= y
  BY <1>6
<1> HIDE DEF as, bs
<1>8. Min(as) <= Min(bs) /\ Max(as) <= Max(bs)
  <2>1. PICK x \in as : x <= Min(bs)
    BY <1>5, <1>7
  <2>2. PICK y \in bs : Max(as) <= y
    BY <1>4, <1>7
  <2>3. Min(as) \in Int /\ Min(bs) \in Int /\ Max(as) \in Int /\ Max(bs) \in Int
        /\ x \in Int /\ y \in Int
    BY <1>4, <1>5, <1>7
  <2>4. Min(as) <= x /\ y <= Max(bs)
    BY <1>4, <1>5
  <2> DEFINE la == Min(as)
             lb == Min(bs)
             ha == Max(as)
             hb == Max(bs)
  <2>5. la <= x /\ x <= lb /\ ha <= y /\ y <= hb
    BY <2>1, <2>2, <2>4
  <2>6. la \in Int /\ lb \in Int /\ ha \in Int /\ hb \in Int /\ x \in Int /\ y \in Int
    BY <2>3
  <2> HIDE DEF la, lb, ha, hb
  <2>7. la <= lb /\ ha <= hb
    BY <2>5, <2>6
  <2> QED BY <2>7 DEF la, lb, ha, hb
<1>9. /\ Reduction[m.kind] = "last" =>
           Reduced(m, at) = at[Max(points)] /\ Reduced(m, bt) = bt[Max(points)]
      /\ Reduction[m.kind] = "min" => Reduced(m, at) = Min(as) /\ Reduced(m, bt) = Min(bs)
      /\ Reduction[m.kind] = "max" => Reduced(m, at) = Max(as) /\ Reduced(m, bt) = Max(bs)
  BY DEF Reduced, points, as, bs
<1>10. /\ Min(as) \in Int /\ Min(bs) \in Int /\ Max(as) \in Int /\ Max(bs) \in Int
  BY <1>4, <1>5, <1>7
<1> QED BY <1>1, <1>2, <1>8, <1>9, <1>10

LEMMA VoltageFalls ==
  ASSUME NEW s, Tied(s), DrivenUp(s), NEW m, m.node # Ground,
         NEW series, NEW load, series # load,
         At(s, m.node) = {series, load}, Free(s) = {m.node},
         Beyond(series, m.node) \in DrivenNodes(s), Beyond(load, m.node) = Ground,
         NEW instant \in {1, 2}, NEW f, NEW g,
         Solutions(s, f, instant) # {}, Solutions(s, g, instant) # {},
         f[series.name] \in Ohms, g[series.name] \in Ohms, g[series.name] <= f[series.name],
         f[load.name] \in Ohms, g[load.name] = f[load.name]
  PROVE  /\ Voltage(s, f, instant)[m.node] <= Voltage(s, g, instant)[m.node]
         /\ Voltage(s, f, instant)[m.node] \in Int
         /\ Voltage(s, g, instant)[m.node] \in Int
<1> DEFINE supply == Driven(s, instant)[Beyond(series, m.node)]
           hs == Scale \div f[series.name]
           gs == Scale \div g[series.name]
           gl == Scale \div f[load.name]
<1>1. PICK v \in Solutions(s, f, instant) :
        Voltage(s, f, instant)[m.node] = Lifted(s, v, instant, m.node)
  BY VoltageIs
<1>2. PICK w \in Solutions(s, g, instant) :
        Voltage(s, g, instant)[m.node] = Lifted(s, w, instant, m.node)
  BY VoltageIs
<1> DEFINE y == v[m.node]
           x == w[m.node]
<1>3. /\ Lifted(s, v, instant, m.node) = y /\ Lifted(s, w, instant, m.node) = x
      /\ x \in Int /\ y \in Int
  <2>1. m.node \in Free(s) /\ Rail \in Nat
    BY VoltagesAreWhole
  <2>2. Lifted(s, v, instant, m.node) = y /\ y \in -Rail..Rail
    BY <2>1, LiftedIs
  <2>3. Lifted(s, w, instant, m.node) = x /\ x \in -Rail..Rail
    BY <2>1, LiftedIs
  <2> HIDE DEF x, y
  <2> QED BY <2>1, <2>2, <2>3
<1>4. supply \in Nat
  <2>1. Driven(s, instant) \in [DrivenNodes(s) -> Int]
    BY DEF Tied
  <2> QED BY <2>1 DEF DrivenUp
<1>5. (supply - y) * hs = y * gl
  BY DividerBalances
<1>6. (supply - x) * gs = x * gl
  <2>1. (supply - x) * gs = x * (Scale \div g[load.name])
    BY DividerBalances
  <2> QED BY <2>1
<1>7. /\ hs \in Nat /\ gs \in Nat /\ gl \in Nat /\ hs > 0 /\ gs > 0 /\ gl > 0
      /\ hs <= gs
  BY Conducts
<1>8. y <= x
  <2> HIDE DEF supply, hs, gs, gl, x, y
  <2> QED BY <1>3, <1>4, <1>5, <1>6, <1>7, LoadFalls
<1> QED BY <1>1, <1>2, <1>3, <1>8

LEMMA ValueFalls ==
  ASSUME NEW s, NEW m, m.kind \in DOMAIN Family, NEW f, NEW g,
         \A i \in {1, 2} :
           /\ Voltage(s, f, i)[m.node] <= Voltage(s, g, i)[m.node]
           /\ Voltage(s, f, i)[m.node] \in Int /\ Voltage(s, g, i)[m.node] \in Int
  PROVE  /\ Value(s, f, m) <= Value(s, g, m)
         /\ Value(s, f, m) \in Int /\ Value(s, g, m) \in Int
<1> DEFINE at == [i \in {1, 2} |-> Voltage(s, f, i)[m.node]]
           bt == [i \in {1, 2} |-> Voltage(s, g, i)[m.node]]
<1>1. /\ Reduced(m, at) <= Reduced(m, bt)
      /\ Reduced(m, at) \in Int /\ Reduced(m, bt) \in Int
  <2>1. \A i \in {1, 2} : at[i] \in Int /\ bt[i] \in Int /\ at[i] <= bt[i]
    OBVIOUS
  <2> HIDE DEF at, bt
  <2> QED BY <2>1, ReducedLess
<1>2. Reduced(m, at) = Value(s, f, m) /\ Reduced(m, bt) = Value(s, g, m)
  <2> DEFINE points == Instants(Family[m.kind])
             a == Vector(s, f, m)
             b == Vector(s, g, m)
  <2>1. points = {1} \/ points = {1, 2}
    BY DEF Instants
  <2>2. Max(points) \in points
    <3> HIDE DEF points
    <3>1. \E x \in points : \A y \in points : x >= y
      BY <2>1
    <3> QED BY <3>1 DEF Max
  <2>3. \A i \in points : a[i] = at[i] /\ b[i] = bt[i]
    BY <2>1 DEF Vector
  <2> HIDE DEF a, b, at, bt
  <2>4. /\ {a[i] : i \in points} = {at[i] : i \in points}
        /\ {b[i] : i \in points} = {bt[i] : i \in points}
    BY <2>3
  <2>5. Reduced(m, a) = Reduced(m, at)
    <3>1. a[Max(points)] = at[Max(points)]
      BY <2>2, <2>3
    <3> QED BY <2>4, <3>1, Zenon DEF Reduced
  <2>6. Reduced(m, b) = Reduced(m, bt)
    <3>1. b[Max(points)] = bt[Max(points)]
      BY <2>2, <2>3
    <3> QED BY <2>4, <3>1, Zenon DEF Reduced
  <2> QED BY <2>5, <2>6, ValueIs DEF a, b
<1> QED BY <1>1, <1>2

\* A bound that passes is met by what is on its other side.
LEMMA BoundIsMet ==
  ASSUME NEW m, m.knowledge # None, m.assertion \in Requirements,
         NEW value \in Int, MeasuredVerdict(m, value) = "PASS", NEW x \in Int,
         \/ m.knowledge.kind = "upper_bound" /\ x <= value
         \/ m.knowledge.kind = "lower_bound" /\ value <= x
  PROVE  Meets(x, m.assertion)
<1> DEFINE k == m.knowledge
           endpoint(side) ==
             IF k.kind \in {"exact", "approximate", side} THEN value ELSE NoBound
           c == MeasuredClaim(m, value)
           r == m.assertion
<1>1. c = Claimed(k.kind, endpoint("lower_bound"), endpoint("upper_bound"), k.basis,
                  k.kind \in Bounded)
  BY Zenon DEF MeasuredClaim
<1> HIDE DEF c
<1>2. Passes(c, r)
  BY DEF MeasuredVerdict, Verdict, c
<1>3. /\ r.op \in {"<=", ">=", "within"} /\ r.value \in Int /\ r.tolerance \in Int
      /\ r.op # "within" => r.tolerance = 0
  BY DEF Requirements
<1> HIDE DEF r
<1>4. CASE m.knowledge.kind = "upper_bound" /\ x <= value
  <2>1. Upper(c) = value /\ Lower(c) = NoBound
    BY <1>1, <1>4 DEF Claimed, Upper, Lower
  <2> HIDE DEF k, endpoint
  <2>2. r.op = "<=" /\ value <= r.value + r.tolerance
    BY <1>2, <1>3, <2>1 DEF Passes, AtMost
  <2>3. Meets(x, r)
    BY <1>3, <1>4, <2>2 DEF Meets
  <2> QED BY <2>3 DEF r
<1>5. CASE m.knowledge.kind = "lower_bound" /\ value <= x
  <2>1. Lower(c) = value /\ Upper(c) = NoBound
    BY <1>1, <1>5 DEF Claimed, Upper, Lower
  <2> HIDE DEF k, endpoint
  <2>2. r.op = ">=" /\ r.value - r.tolerance <= value
    BY <1>2, <1>3, <2>1 DEF Passes, AtMost
  <2>3. Meets(x, r)
    BY <1>3, <1>5, <2>2 DEF Meets
  <2> QED BY <2>3 DEF r
<1> QED BY <1>4, <1>5

\* A circuit is one of voltages.
LEMMA CircuitSolved ==
  ASSUME NEW d \in Declarations, NEW b \in DOMAIN Boards, AllOf(d, b),
         NEW i \in DOMAIN d.entries, Runnable(d.entries[i].scenario, ModelsOf(d, b, b)),
         NEW f \in RealAssignments(d.entries[i].scenario, ModelsOf(d, b, b), b)
  PROVE  LET s == d.entries[i].scenario
             nominal == Nominal(s, ModelsOf(d, b, b))
         IN  /\ \A instant \in {1, 2} :
                  Solutions(s, f, instant) # {} /\ Solutions(s, nominal, instant) # {}
             /\ \A name \in DOMAIN nominal : nominal[name] \in Ohms
<1> DEFINE s == d.entries[i].scenario
           models == ModelsOf(d, b, b)
           nominal == Nominal(s, models)
<1>1. /\ \A name \in DOMAIN nominal : nominal[name] \in Ohms
      /\ \A ohms \in RealAssignments(s, models, b) \cup {nominal} :
           \A instant \in {1, 2} : Solutions(s, ohms, instant) # {}
  BY VoltagesAreWhole
<1> QED BY <1>1

\* Resistances that agree on what contributes give the same values.
LEMMA AgreeingBear ==
  ASSUME NEW d \in Declarations, NEW b \in DOMAIN Boards, AllOf(d, b),
         NEW i \in DOMAIN d.entries, Runnable(d.entries[i].scenario, ModelsOf(d, b, b)),
         NEW f \in RealAssignments(d.entries[i].scenario, ModelsOf(d, b, b), b),
         NEW m \in d.entries[i].scenario.measurements,
         \A e \in Contributors(d.entries[i].scenario, m) :
           IsModel(e) => \/ ModelsOf(d, b, b)[e.model].claim = None
                         \/ ModelsOf(d, b, b)[e.model].claim.knowledge = "exact"
  PROVE  Value(d.entries[i].scenario, f, m)
           = Value(d.entries[i].scenario,
                   Nominal(d.entries[i].scenario, ModelsOf(d, b, b)), m)
<1> DEFINE s == d.entries[i].scenario
           models == ModelsOf(d, b, b)
           nominal == Nominal(s, models)
<1>1. Tied(s) /\ m.node # Ground
  BY DeclaredAreTied DEF Runnable, WellFormed
<1>2. \A instant \in {1, 2} :
        Solutions(s, f, instant) # {} /\ Solutions(s, nominal, instant) # {}
  BY CircuitSolved
<1>3. \A e \in Passive(s) : f[e.name] \in Ohms
  BY ElementsBear
<1>4. ASSUME NEW e \in Passive(s), e \in Contributors(s, m)
      PROVE  nominal[e.name] = f[e.name]
  <2>1. CASE IsModel(e)
    <3>1. /\ nominal[e.name] = models[e.model].ohms
          /\ Bears(models[e.model], f[e.name])
      BY <2>1, ElementsBear
    <3>2. models[e.model].claim = None \/ models[e.model].claim.knowledge = "exact"
      BY <1>4, <2>1
    <3> HIDE DEF models, nominal, s
    <3> QED BY <3>1, <3>2 DEF Bears
  <2>2. CASE ~IsModel(e)
    BY <2>2, ElementsBear
  <2> QED BY <2>1, <2>2
<1> HIDE DEF nominal, models, s
<1>5. m \in s.measurements
  BY DEF s
<1>6. \A instant \in {1, 2} :
        Voltage(s, f, instant)[m.node] = Voltage(s, nominal, instant)[m.node]
  BY <1>1, <1>2, <1>3, <1>4, <1>5, VoltagesAgree
<1>7. Value(s, f, m) = Value(s, nominal, m)
  BY <1>6, SameVectors
<1> QED BY <1>7 DEF s, nominal, models

\* Where the declared circuit keeps an assertion, the circuit of the board
\* does: where nothing is said of a measured value because everything that
\* contributes to it is exact, and where a bound on it is derived from that
\* on the one series resistance (scenario.py:321-391, 553-636;
\* ngspice.py:533-585).
THEOREM CircuitsAreBorne ==
  ASSUME NEW d \in Declarations, NEW b \in DOMAIN Boards, AllOf(d, b),
         NEW i \in DOMAIN d.entries, NEW m \in d.entries[i].scenario.measurements,
         m.assertion # None, Runnable(d.entries[i].scenario, ModelsOf(d, b, b)),
         ~Vouched(m), m.knowledge # None => DrivenUp(d.entries[i].scenario),
         MeasuredVerdict(m, Value(d.entries[i].scenario,
                                  Nominal(d.entries[i].scenario, ModelsOf(d, b, b)), m))
           = "PASS"
  PROVE  TrueOf(d.entries[i].scenario, m, ModelsOf(d, b, b), b)
<1> DEFINE s == d.entries[i].scenario
           models == ModelsOf(d, b, b)
           nominal == Nominal(s, models)
<1> SUFFICES ASSUME NEW f \in RealAssignments(s, models, b)
             PROVE  Meets(Value(s, f, m), m.assertion)
  BY DEF TrueOf
<1>1. /\ Tied(s) /\ WellFormed(s) /\ SilenceIsExact(s, models)
      /\ DerivationStands(s, models)
  BY DeclaredAreTied DEF Runnable
<1>2. /\ m \in s.measurements /\ m.node # Ground /\ m.kind \in DOMAIN Family
      /\ m.assertion \in Requirements
  BY <1>1 DEF WellFormed
<1>3. CASE m.knowledge = None
  <2>1. \A e \in Contributors(s, m) :
          IsModel(e) => \/ models[e.model].claim = None
                        \/ models[e.model].claim.knowledge = "exact"
    BY <1>1, <1>2, <1>3 DEF SilenceIsExact
  <2>2. Value(s, f, m) = Value(s, nominal, m)
    BY <2>1, AgreeingBear
  <2>3. Meets(Value(s, nominal, m), m.assertion)
    BY <1>3, PassedIsMet
  <2> QED BY <2>2, <2>3
<1>4. CASE m.knowledge # None
  <2>1. DerivedKinds(s, models, m) = {m.knowledge.kind}
    BY <1>1, <1>2, <1>4 DEF DerivationStands, Vouched
  <2>2. PICK series \in s.elements :
          /\ \E source, load \in s.elements : Divider(s, m, source, series, load)
          /\ ResistanceKnown(series, models) \in DOMAIN Opposite
          /\ m.knowledge.kind = Opposite[ResistanceKnown(series, models)]
    <3>1. m.knowledge.kind \in DerivedKinds(s, models, m)
      BY <2>1
    <3> QED BY <3>1 DEF DerivedKinds
  <2>3. PICK source \in s.elements, load \in s.elements :
          Divider(s, m, source, series, load)
    BY <2>2
  <2> DEFINE known == ResistanceKnown(series, models)
  <2>4. /\ series # load /\ ~IsModel(load)
        /\ Passive(s) = {series, load} /\ At(s, m.node) = {series, load}
        /\ Free(s) = {m.node}
        /\ Beyond(series, m.node) \in DrivenNodes(s) /\ Beyond(load, m.node) = Ground
    <3>1. DividerFound(s, m, models, source, series, load)
      BY <1>1, <1>2, <2>2, <2>3 DEF DividerFound
    <3> HIDE DEF s, models
    <3>2. Beyond(series, m.node) = Supply(source) /\ Supply(source) \in DrivenNodes(s)
      BY <3>1, DividerIs
    <3>3. Beyond(series, m.node) \in DrivenNodes(s)
      BY <3>2, Zenon
    <3> QED BY <3>1, <3>3, DividerIs
  <2>5. /\ f[series.name] \in Ohms /\ nominal[series.name] \in Ohms
        /\ f[load.name] \in Ohms /\ nominal[load.name] = f[load.name]
    <3>1. series \in Passive(s) /\ load \in Passive(s)
      BY <2>4
    <3>2. series.name \in DOMAIN nominal /\ f[series.name] \in Ohms
      BY <3>1, ElementsBear
    <3>3. f[load.name] \in Ohms /\ nominal[load.name] = f[load.name]
      BY <2>4, <3>1, ElementsBear
    <3>4. nominal[series.name] \in Ohms
      BY <3>2, CircuitSolved
    <3> QED BY <3>2, <3>3, <3>4
  <2>6. /\ known = "exact" => f[series.name] = nominal[series.name]
        /\ known = "lower_bound" => nominal[series.name] <= f[series.name]
        /\ known = "upper_bound" => f[series.name] <= nominal[series.name]
    <3>1. series \in Passive(s)
      BY <2>4
    <3>2. CASE IsModel(series)
      <4> DEFINE model == models[series.model]
      <4>1. nominal[series.name] = model.ohms /\ Bears(model, f[series.name])
        BY <3>1, <3>2, ElementsBear
      <4>2. series.kind # "resistor"
        BY <3>2 DEF IsModel
      <4>3. known \in DOMAIN Opposite
        BY <2>2
      <4>4. model.claim # None /\ known = model.claim.knowledge
        BY <3>2, <4>2, <4>3 DEF ResistanceKnown, Opposite
      <4> HIDE DEF model, known, nominal
      <4> QED BY <4>1, <4>4 DEF Bears
    <3>3. CASE ~IsModel(series)
      <4>1. f[series.name] = nominal[series.name]
        BY <3>1, <3>3, ElementsBear
      <4>2. f[series.name] \in 1..12
        BY <2>5, OhmsAre
      <4> QED BY <4>1, <4>2
    <3> QED BY <3>2, <3>3
  <2>7. known \in {"lower_bound", "upper_bound", "exact"}
    BY <2>2 DEF Opposite
  <2>8. \A instant \in {1, 2} :
          Solutions(s, f, instant) # {} /\ Solutions(s, nominal, instant) # {}
    BY CircuitSolved
  <2>9. DrivenUp(s) /\ MeasuredVerdict(m, Value(s, nominal, m)) = "PASS"
    BY <1>4
  <2>10. m.knowledge.kind = Opposite[known]
    BY <2>2
  <2> HIDE DEF s, models, nominal, known
  <2>11. ASSUME nominal[series.name] <= f[series.name]
         PROVE  /\ Value(s, f, m) <= Value(s, nominal, m)
                /\ Value(s, f, m) \in Int /\ Value(s, nominal, m) \in Int
    <3>1. ASSUME NEW instant \in {1, 2}
          PROVE  /\ Voltage(s, f, instant)[m.node] <= Voltage(s, nominal, instant)[m.node]
                 /\ Voltage(s, f, instant)[m.node] \in Int
                 /\ Voltage(s, nominal, instant)[m.node] \in Int
      BY <1>1, <1>2, <2>4, <2>5, <2>8, <2>9, <2>11, VoltageFalls
    <3> QED BY <1>2, <3>1, ValueFalls
  <2>12. ASSUME f[series.name] <= nominal[series.name]
         PROVE  /\ Value(s, nominal, m) <= Value(s, f, m)
                /\ Value(s, f, m) \in Int /\ Value(s, nominal, m) \in Int
    <3>1. ASSUME NEW instant \in {1, 2}
          PROVE  /\ Voltage(s, nominal, instant)[m.node] <= Voltage(s, f, instant)[m.node]
                 /\ Voltage(s, f, instant)[m.node] \in Int
                 /\ Voltage(s, nominal, instant)[m.node] \in Int
      <4>1. nominal[load.name] \in Ohms /\ f[load.name] = nominal[load.name]
        BY <2>5
      <4> QED BY <1>1, <1>2, <2>4, <2>5, <2>8, <2>9, <2>12, <4>1, VoltageFalls
    <3> QED BY <1>2, <3>1, ValueFalls
  <2>13. CASE known = "lower_bound"
    <3>1. m.knowledge.kind = "upper_bound"
      BY <2>10, <2>13 DEF Opposite
    <3> QED BY <1>2, <1>4, <2>6, <2>9, <2>11, <2>13, <3>1, BoundIsMet
  <2>14. CASE known = "upper_bound"
    <3>1. m.knowledge.kind = "lower_bound"
      BY <2>10, <2>14 DEF Opposite
    <3> QED BY <1>2, <1>4, <2>6, <2>9, <2>12, <2>14, <3>1, BoundIsMet
  <2>15. CASE known = "exact"
    <3>1. m.knowledge.kind = "exact"
      BY <2>10, <2>15 DEF Opposite
    <3>2. Meets(Value(s, nominal, m), m.assertion)
      BY <1>4, <2>9, <3>1, PassedIsMet
    <3>3. f[series.name] = nominal[series.name] /\ nominal[series.name] \in 1..12
      BY <2>5, <2>6, <2>15, OhmsAre
    <3>4. Value(s, f, m) = Value(s, nominal, m)
      <4>1. nominal[series.name] <= f[series.name] /\ f[series.name] <= nominal[series.name]
        BY <3>3
      <4> QED BY <2>11, <2>12, <4>1
    <3> QED BY <3>2, <3>4
  <2> QED BY <2>7, <2>13, <2>14, <2>15
<1> QED BY <1>3, <1>4

-----------------------------------------------------------------------------
\* A validation whose three simulation gates pass asserts only what is true of
\* the board it hashed, whatever is declared, whichever boards are saved while
\* it runs, however the engine fails and whatever the vias add
\* (g_simulation.py, ngspice.py, scenario.py, extract.py): what passed was
\* measured on models of that board, and where the declared circuit keeps an
\* assertion the real one does.
THEOREM AssertionsHold == Spec => []PassedAssertionsHold
<1>1. IInv /\ PassedWasMeasured => PassedAssertionsHold
  <2> SUFFICES ASSUME IInv, PassedWasMeasured, AllPassed, ReadAsHashed,
                      NEW i \in DOMAIN runs, NEW m \in Asserted(i),
                      ~Vouched(m), engine = "shared" => AnsweredAlone(Entry(i), m),
                      m.knowledge # None => DrivenUp(Entry(i))
               PROVE  TrueOf(Entry(i), m, registry, judged)
    BY DEF PassedAssertionsHold
  <2>1. /\ judged \in DOMAIN Boards /\ AllOf(declared, judged)
        /\ registry = ModelsOf(declared, judged, judged)
        /\ Runnable(Entry(i), registry)
        /\ MeasuredVerdict(m, Value(Entry(i), Nominal(Entry(i), registry), m)) = "PASS"
    BY DEF PassedWasMeasured, Alone, Asked
  <2>2. declared \in Declarations
    BY DEF IInv
  <2>3. i \in DOMAIN declared.entries
    <3>1. Ended("SIM.SCENARIOS", "pass")
      BY AllOfThem
    <3>2. runs # None
      BY <3>1 DEF IInv, ScenariosInv
    <3>3. runs \in Seq(ToSet(runs)) /\ Len(runs) = Len(declared.entries)
      BY <3>2 DEF IInv, RunsInv
    <3>4. declared.entries \in Seq(ToSet(declared.entries))
      BY <2>2, DeclarationsAreLists
    <3> QED BY <3>3, <3>4
  <2>4. m \in declared.entries[i].scenario.measurements /\ m.assertion # None
    BY DEF Asserted, Entry
  <2> DEFINE s == declared.entries[i].scenario
  <2>5. TrueOf(s, m, ModelsOf(declared, judged, judged), judged)
    BY <2>1, <2>2, <2>3, <2>4, CircuitsAreBorne DEF Entry
  <2> QED BY <2>1, <2>5 DEF Entry
<1> QED BY <1>1, InitIInv, NextIInv, WhatPassedWasMeasured, PTL DEF Spec
=============================================================================
