------------------------------- MODULE Timing -------------------------------
(***************************************************************************)
(* The interconnect timing gates (gates/g_timing.py) over the delay claims *)
(* of propagation.py and component_models.py.                              *)
(*                                                                         *)
(* Every declared path is resolved on the board or is a problem; the       *)
(* resolved ones are walked portion by portion into one delay claim; the   *)
(* delay gate compares each claim with a limit, the skew gate compares     *)
(* the spread of a group of them.  What the gates never see is modelled    *)
(* beside what they compute: `delay` and `copper` are the path's real      *)
(* delay and length, of which the copper walk, the declared bounds and the *)
(* junction ambiguity only say so much.  The gates may conclude nothing    *)
(* that is not true of them.                                               *)
(*                                                                         *)
(* A declared number is taken at its word: a fixed delay is the part's     *)
(* delay, an omitted delay is at most its declared bound.                  *)
(***************************************************************************)
EXTENDS Claim, FiniteSetsExt

CONSTANTS
  Path,         \* the concrete paths the manifest declares
  Length, Rate, \* lengths of conductor runs; delay per unit of length
  Ambiguity,    \* how far a path's junctions may shift its length
  Delays,       \* transit delays of vias and parts, and their bounds
  Limits,       \* what a manifest may demand
  MaxParts,     \* portions of one kind along a path
  MaxDelay      \* the delay of a portion nobody bounds

ASSUME TimingAssumption ==
  /\ IsFiniteSet(Path)
  /\ \A S \in {Length, Rate, Ambiguity, Delays, Limits} : S \subseteq Nat
  /\ MaxParts \in Nat /\ MaxDelay \in Nat

Stage == <<"conductors", "vias", "components">>

\* via_policy: the transit is computed, or omitted with or without a bound.
ViaPolicy == [model : {"none"}, bound : Delays \cup {NoBound}]
               \cup [model : {"geometric"}, bound : {NoBound}]

\* A component's delay_model: fixed, omitted, or not implemented.
DelayModel == [model : {"fixed"}, bound : Delays]
                \cup [model : {"none"}, bound : Delays \cup {NoBound}]
                \cup [model : {"other"}, bound : {NoBound}]

VARIABLES
  policy,       \* the board's via treatment
  usable,       \* the propagation policy could be honoured
  limit,        \* the max_delay_ps, max_skew_ps and max_length_spread_mm read
  group,        \* the declared paths the endpoint group selects, once read
  pc,           \* "resolving", "evaluating", "judging", "done"
  todo,         \* paths not yet resolved, or not yet evaluated
  resolved,     \* paths the board contains
  cur,          \* the path being walked, or NoPath
  walk,         \* the totals of that walk
  claim,        \* the delay claim of each evaluated path
  length, span, \* its copper length, and its length_uncertainty_mm
  delay, copper,\* its real delay and its real length
  gate          \* the status of each timing gate

board    == <<policy, usable>>
results  == <<claim, length, span, delay, copper>>
vars == <<board, limit, group, pc, todo, resolved, cur, walk, results, gate>>

NoPath == "none"

Kinds  == {"delay", "skew", "spread"}
Gates  == {"integrity", "delay", "skew"}
Status == {"PASS", "FAIL", "ERROR", "NOT_APPLICABLE", "NOT_RUN"}

\* evaluate()'s locals: the stage of the walk and the portions seen in it,
\* total, omitted, omissions_bounded, exact, worst_ps_per_mm, the copper
\* length, whether a portion was insufficient, whether any copper was
\* modelled; and the real delay of the portions walked so far.
Start ==
  [stage |-> 1, seen |-> 0, total |-> 0, omitted |-> 0, bounded |-> TRUE,
   exact |-> TRUE, worst |-> 0, length |-> 0, insufficient |-> FALSE,
   modelled |-> FALSE, real |-> 0]

Walks ==
  [stage : 1 .. 3, seen : Nat, total : Nat, omitted : Nat, bounded : BOOLEAN,
   exact : BOOLEAN, worst : Nat, length : Nat, insufficient : BOOLEAN,
   modelled : BOOLEAN, real : Nat]

TypeOK ==
  /\ policy \in ViaPolicy
  /\ usable \in BOOLEAN
  /\ limit \in [Kinds -> Limits \cup {NoBound}]
  /\ group \in SUBSET Path
  /\ pc \in {"resolving", "evaluating", "judging", "done"}
  /\ todo \in SUBSET Path
  /\ resolved \in SUBSET Path
  /\ cur \in Path \cup {NoPath}
  /\ walk \in Walks
  /\ claim \in [Path -> Claims]
  /\ \A p \in Path : Lower(claim[p]) \in Nat \cup {NoBound}
  /\ length \in [Path -> Nat] /\ span \in [Path -> Nat]
  /\ delay \in [Path -> Nat] /\ copper \in [Path -> Nat]
  /\ gate \in [Gates -> Status]

Init ==
  /\ policy \in ViaPolicy
  /\ usable \in BOOLEAN
  /\ limit = [k \in Kinds |-> NoBound]
  /\ group = {}
  /\ pc = "resolving"
  /\ todo = Path
  /\ resolved = {}
  /\ cur = NoPath
  /\ walk = Start
  /\ claim = [p \in Path |-> Unsupported]
  /\ length = [p \in Path |-> 0] /\ span = [p \in Path |-> 0]
  /\ delay = [p \in Path |-> 0] /\ copper = [p \in Path |-> 0]
  /\ gate = [g \in Gates |-> "NOT_RUN"]

-----------------------------------------------------------------------------
(* Geometry: the paths, and the gate that needs nothing else.              *)

\* resolve() finds the path on the board, or raises PathError.
Resolve(p) ==
  /\ pc = "resolving" /\ p \in todo
  /\ todo' = todo \ {p}
  /\ resolved' \in {resolved, resolved \cup {p}}
  /\ UNCHANGED <<board, limit, group, pc, cur, walk, results, gate>>

\* PATH_INTEGRITY: every declared path is there.  What else it may require
\* of the geometry (a count, crossings, reference copper) only adds failures.
PathIntegrity ==
  /\ pc = "resolving" /\ todo = {}
  /\ gate' = [gate EXCEPT !["integrity"] =
                IF resolved = Path THEN "PASS" ELSE "FAIL"]
  /\ todo' = IF usable THEN resolved ELSE {}
  /\ pc' = "evaluating"
  /\ UNCHANGED <<board, limit, group, resolved, cur, walk, results>>

-----------------------------------------------------------------------------
(* PropagationModel.evaluate.                                              *)

Evaluate(p) ==
  /\ pc = "evaluating" /\ cur = NoPath /\ p \in todo
  /\ todo' = todo \ {p}
  /\ cur' = p
  /\ walk' = Start
  /\ UNCHANGED <<board, limit, group, pc, resolved, results, gate>>

\* The walk is at a portion of this kind.
At(kind) ==
  /\ cur # NoPath
  /\ Stage[walk.stage] = kind
  /\ walk.seen < MaxParts

Continue(next) ==
  /\ walk' = [next EXCEPT !.seen = @ + 1]
  /\ UNCHANGED <<board, limit, group, pc, todo, resolved, cur, results, gate>>

\* A portion that raises, is not referenced, or is unsupported.
Insufficient(w) == [w EXCEPT !.insufficient = TRUE]

\* A conductor run of length l at r per unit of length.
Conductor(l, r) ==
  /\ At("conductors")
  /\ \/ Continue([walk EXCEPT !.total = @ + l * r, !.length = @ + l,
                              !.worst = Max({@, r}), !.modelled = TRUE,
                              !.real = @ + l * r])
     \/ Continue(Insufficient([walk EXCEPT !.length = @ + l]))

\* A via's or a part's claim c, whose real delay is d.
Contribute(w, c, d) ==
  [w EXCEPT !.total = @ + Lower(c), !.real = @ + d,
            !.exact = @ /\ c.knowledge = "exact",
            !.bounded = @ /\ Upper(c) # NoBound,
            !.omitted = @ + IF Upper(c) = NoBound THEN 0
                                                  ELSE Upper(c) - Lower(c)]

\* A delay nobody models is at least zero; a declared bound ends it.
Omitted(bound) ==
  IF bound = NoBound THEN Claimed("lower_bound", 0, NoBound, "derived", TRUE)
                     ELSE Claimed("interval", 0, bound, "assumed", TRUE)

\* via(): the transit as the policy treats it, or a stackup that lacks what
\* the geometric treatment reads.
ViaClaim(d) ==
  IF policy.model = "none" THEN Omitted(policy.bound)
                           ELSE Claimed("exact", d, d, "derived", FALSE)

Via(d) ==
  /\ At("vias")
  /\ \/ /\ Admits(ViaClaim(d), d)
        /\ Continue([Contribute(walk, ViaClaim(d), d)
                       EXCEPT !.modelled = TRUE])
     \/ policy.model = "geometric" /\ Continue(Insufficient(walk))

\* component_models.evaluate().
ComponentClaim(m) ==
  CASE m.model = "fixed" -> Claimed("exact", m.bound, m.bound, "direct", FALSE)
    [] m.model = "none"  -> Omitted(m.bound)
    [] m.model = "other" -> Unsupported

Component(m, d) ==
  /\ At("components")
  /\ LET c == ComponentClaim(m)
     IN  IF c.applicable
           THEN Admits(c, d) /\ Continue(Contribute(walk, c, d))
           ELSE Continue(Insufficient(walk))

NextStage ==
  /\ cur # NoPath /\ walk.stage < 3
  /\ walk' = [walk EXCEPT !.stage = @ + 1, !.seen = 0]
  /\ UNCHANGED <<board, limit, group, pc, todo, resolved, cur, results, gate>>

\* Mutant: the junctions widen the interval at its lower end only.
PathClaimShort(w, u) ==
  LET lower == Max({0, w.total - u})
      upper == IF w.bounded THEN w.total + w.omitted ELSE NoBound
  IN  IF w.insufficient \/ ~w.modelled THEN Unsupported
      ELSE Claimed(CASE w.exact /\ upper = lower -> "exact"
                     [] upper = NoBound          -> "lower_bound"
                     [] OTHER                    -> "interval",
                   lower, upper, "derived", ~w.exact)

\* Mutant: the walk may be shorter than nothing.
PathClaimUnclamped(w, u) ==
  LET lower == w.total - u
      upper == IF w.exact \/ w.bounded THEN w.total + w.omitted + u
                                       ELSE NoBound
  IN  IF w.insufficient \/ ~w.modelled THEN Unsupported
      ELSE Claimed(CASE w.exact /\ upper = lower -> "exact"
                     [] upper = NoBound          -> "lower_bound"
                     [] OTHER                    -> "interval",
                   lower, upper, "derived", ~w.exact)

\* The claim of a walked path whose junctions shift its delay by up to u.
PathClaim(w, u) ==
  LET lower == Max({0, w.total - u})
      upper == IF w.exact \/ w.bounded THEN w.total + w.omitted + u
                                       ELSE NoBound
  IN  IF w.insufficient \/ ~w.modelled THEN Unsupported
      ELSE Claimed(CASE w.exact /\ upper = lower -> "exact"
                     [] upper = NoBound          -> "lower_bound"
                     [] OTHER                    -> "interval",
                   lower, upper, "derived", ~w.exact)

\* The end of evaluate: s is the ambiguity of the junctions, which only runs
\* of copper have; it shifts the real length by at most s, and the real
\* delay by at most what the slowest copper makes of it.
Conclude(s) ==
  /\ cur # NoPath /\ walk.stage = 3
  /\ walk.length = 0 => s = 0
  /\ span' = [span EXCEPT ![cur] = s]
  /\ length' = [length EXCEPT ![cur] = walk.length]
  /\ \E x \in Max({0, walk.length - s}) .. walk.length + s :
       copper' = [copper EXCEPT ![cur] = x]
  /\ LET u == s * walk.worst
     IN  /\ claim' = [claim EXCEPT ![cur] = PathClaim(walk, u)]
         /\ \E x \in Max({0, walk.real - u}) .. walk.real + u :
              delay' = [delay EXCEPT ![cur] = x]
  /\ cur' = NoPath
  /\ walk' = Start
  /\ UNCHANGED <<board, limit, group, pc, todo, resolved, gate>>

-----------------------------------------------------------------------------
(* The delay gate.                                                         *)

\* Mutant: only a proven violation is a problem.
MaximumProblemProven(c, maximum) ==
  maximum # NoBound /\ Verdict(c, Maximum(maximum)) = "FAIL"

\* _maximum_problem: anything short of a proven PASS.
MaximumProblem(c, maximum) ==
  maximum # NoBound /\ Verdict(c, Maximum(maximum)) # "PASS"

Judged(problem, limited) ==
  CASE ~usable            -> "ERROR"
    [] usable /\ problem  -> "FAIL"
    [] usable /\ ~problem -> IF limited THEN "PASS" ELSE "NOT_APPLICABLE"

InterconnectDelay ==
  /\ pc = "evaluating" /\ todo = {} /\ cur = NoPath
  /\ \E maximum \in Limits \cup {NoBound} :
       /\ limit' = [limit EXCEPT !["delay"] = maximum]
       /\ gate' = [gate EXCEPT !["delay"] =
            Judged(\E p \in resolved : MaximumProblem(claim[p], maximum),
                   maximum # NoBound /\ resolved # {})]
  /\ pc' = "judging"
  /\ UNCHANGED <<board, group, todo, resolved, cur, walk, results>>

-----------------------------------------------------------------------------
(* The skew gate: the spread of a group, from the interval of each member. *)

\* Mutant: the latest and the earliest arrival of any member.
SpreadUpperAny(M, lo, hi) ==
  IF \E m \in M : hi[m] = NoBound THEN NoBound
  ELSE Max({hi[m] : m \in M}) - Min({lo[m] : m \in M})

\* One member's latest arrival against a different member's earliest.
SpreadUpper(M, lo, hi) ==
  LET pairs == {q \in M \X M : q[1] # q[2]}
  IN  IF \E m \in M : hi[m] = NoBound THEN NoBound
      ELSE Max({0} \cup {hi[q[1]] - lo[q[2]] : q \in pairs})

\* Mutant: the nominal spread is taken for the least one.
SpreadLowerNominal(M, lo, hi) ==
  Max({lo[m] : m \in M}) - Min({lo[m] : m \in M})

\* Some member arrives no earlier than the largest lower end, some other no
\* later than the smallest upper end.
SpreadLower(M, lo, hi) ==
  LET ends == {hi[m] : m \in M} \ {NoBound}
  IN  IF ends = {} THEN 0
      ELSE Max({0, Max({lo[m] : m \in M}) - Min(ends)})

SpreadClaim(lower, upper, omits) ==
  Claimed(CASE upper = NoBound -> "lower_bound"
            [] upper = lower   -> "exact"
            [] OTHER           -> "interval",
          lower, upper, "derived", upper # lower /\ omits)

SkewClaim(M) ==
  LET lo == [m \in M |-> Lower(claim[m])]
      hi == [m \in M |-> Upper(claim[m])]
  IN  IF \E m \in M : claim[m].knowledge = "unknown" THEN Unsupported
      ELSE SpreadClaim(SpreadLower(M, lo, hi), SpreadUpper(M, lo, hi),
                       \E m \in M : claim[m].omits)

LengthClaim(M) ==
  LET lo == [m \in M |-> length[m] - span[m]]
      hi == [m \in M |-> length[m] + span[m]]
  IN  SpreadClaim(SpreadLower(M, lo, hi), SpreadUpper(M, lo, hi), FALSE)

\* _members: the resolved paths the group's selector matches.
InterconnectSkew(selected) ==
  LET members == selected \cap resolved
  IN  /\ pc = "judging"
      /\ group' = selected
      /\ \E skew, spread \in Limits \cup {NoBound} :
           /\ limit' = [limit EXCEPT !["skew"] = skew, !["spread"] = spread]
           /\ gate' = [gate EXCEPT !["skew"] =
                Judged(IF members = {} THEN TRUE
                       ELSE \/ MaximumProblem(SkewClaim(members), skew)
                            \/ MaximumProblem(LengthClaim(members), spread),
                       skew # NoBound \/ spread # NoBound)]
      /\ pc' = "done"
      /\ UNCHANGED <<board, todo, resolved, cur, walk, results>>

-----------------------------------------------------------------------------
Next ==
  \/ \E p \in Path : Resolve(p) \/ Evaluate(p)
  \/ PathIntegrity
  \/ \E l \in Length, r \in Rate : Conductor(l, r)
  \/ \E d \in Delays \cup 0 .. MaxDelay : Via(d)
  \/ \E m \in DelayModel, d \in Delays \cup 0 .. MaxDelay : Component(m, d)
  \/ NextStage
  \/ \E s \in Ambiguity : Conclude(s)
  \/ InterconnectDelay
  \/ \E selected \in SUBSET Path : InterconnectSkew(selected)

Spec == Init /\ [][Next]_vars

-----------------------------------------------------------------------------
(* evaluate: "the interval bracketing the truth".  Whatever was measured,  *)
(* omitted, bounded or ambiguous along a path, its claim is one the claim  *)
(* module accepts, and it admits the path's real delay.                    *)
PathsBracketed ==
  \A p \in Path : Valid(claim[p]) /\ Admits(claim[p], delay[p])

Accepted ==
  pc = "done" /\ \A g \in Gates : gate[g] \in {"PASS", "NOT_APPLICABLE"}

Within(x, maximum) == maximum # NoBound => x <= maximum

(* A board that no timing gate refuses keeps every declared limit in       *)
(* reality: each declared path its delay, each two paths of the group      *)
(* their skew and their length spread.  It takes all three gates: the      *)
(* delay and skew gates never see a path the board does not contain.       *)
AcceptedMeetsLimits ==
  Accepted =>
    /\ \A p \in Path : Within(delay[p], limit["delay"])
    /\ \A p, q \in group : /\ Within(delay[p] - delay[q], limit["skew"])
                           /\ Within(copper[p] - copper[q], limit["spread"])

Spread(x, M) == Max({x[q[1]] - x[q[2]] : q \in M \X M})

Exceeds(c, maximum) ==
  maximum # NoBound /\ Verdict(c, Maximum(maximum)) = "FAIL"

(* A limit reported as exceeded "over the whole of its uncertainty         *)
(* interval" is exceeded in reality, for one path or for a group, even     *)
(* when some of its members have no upper end.                             *)
ViolationsAreReal ==
  pc = "done" =>
    LET members == group \cap resolved
    IN  /\ \A p \in resolved :
             Exceeds(claim[p], limit["delay"]) => delay[p] > limit["delay"]
        /\ members # {} =>
             /\ Exceeds(SkewClaim(members), limit["skew"]) =>
                  Spread(delay, members) > limit["skew"]
             /\ Exceeds(LengthClaim(members), limit["spread"]) =>
                  Spread(copper, members) > limit["spread"]

(* _spread_upper: "exact - some pair realises it, and no assignment        *)
(* exceeds it".  The arrivals the members' claims admit together realise   *)
(* both ends of the group's claim, so that a limit is never refused as     *)
(* undecided where it is met or violated by all of them.                   *)
SpreadIsTight ==
  pc = "judging" =>
    \A M \in (SUBSET resolved) \ {{}} :
      SkewClaim(M).applicable =>
        LET skew     == SkewClaim(M)
            ends     == {Lower(claim[m]) : m \in M}
                          \cup {Upper(claim[m]) : m \in M}
            arrivals == {a \in [M -> 0 .. Max(ends \ {NoBound})] :
                           \A m \in M : Admits(claim[m], a[m])}
            spreads  == {Spread(a, M) : a \in arrivals}
        IN  /\ Min(spreads) = Lower(skew)
            /\ Upper(skew) # NoBound => Max(spreads) = Upper(skew)
=============================================================================
