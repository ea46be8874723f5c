---------------------------- MODULE TimingProof ----------------------------
(***************************************************************************)
(* Proofs about Timing, for any number of paths and any lengths, rates,    *)
(* delays and limits.  The argument: while a path is walked its total is   *)
(* at most its real delay, and its total with what was omitted at least    *)
(* it, as long as every omission is bounded; so the claim concluded from   *)
(* the walk brackets the real delay.  A limit is passed only on a proven   *)
(* PASS, which is shown first to hold of every value a claim admits, and   *)
(* the upper end of a group's spread is no less than the spread of any two *)
(* arrivals its members' claims admit.  Both ends of a spread are reached: *)
(* the lower one when every member arrives as near to the latest lower end *)
(* as it may, the upper one when two members keep to opposite ends.        *)
(***************************************************************************)
EXTENDS Timing, FiniteSetTheorems, TLAPS

-----------------------------------------------------------------------------
(* verdict() says of a requirement only what is true of every value the    *)
(* claim admits, and leaves open only what is: for every claim and every   *)
(* requirement.                                                            *)

LEMMA BoundsType ==
  ASSUME NEW c \in Claims, Valid(c)
  PROVE  Lower(c) \in Int \cup {NoBound} /\ Upper(c) \in Int \cup {NoBound}
BY DEF Claims, Endpoint, Lower, Upper

(* A claim the module accepts admits some value, and an interval no value  *)
(* outside its ends: the two ends are never crossed.                       *)
LEMMA ClaimOrdered ==
  ASSUME NEW c \in Claims, Valid(c), Lower(c) # NoBound, Upper(c) # NoBound
  PROVE  Lower(c) <= Upper(c)
<1>1. c.knowledge \in Knowledge
  BY DEF Claims
<1>2. c.knowledge \in {"exact", "interval"}
  BY <1>1 DEF Valid, Shape, Lower, Upper, Knowledge, Bounded
<1> QED
  BY <1>2, ClaimAssumption DEF Valid, Shape, Lower, Upper, Claims, Endpoint

LEMMA RequirementType ==
  ASSUME NEW r \in Requirements
  PROVE  /\ r.op \in {"<=", ">=", "within"}
         /\ r.value \in Int /\ r.tolerance \in Nat
         /\ r.op # "within" => r.tolerance = 0
BY DEF Requirements

(* A PASS is proven: every value the claim admits meets the requirement.   *)
THEOREM PassIsSound ==
  ASSUME NEW c \in Claims, Valid(c), NEW r \in Requirements,
         Verdict(c, r) = "PASS", NEW v \in Int, Admits(c, v)
  PROVE  Meets(v, r)
<1>1. Passes(c, r)
  BY DEF Verdict
<1>2. CASE r.op # ">="
  <2>1. v <= r.value + r.tolerance
    BY <1>1, <1>2, BoundsType, RequirementType, ClaimAssumption
    DEF Passes, AtMost, Admits
  <2>2. r.op # "<=" => r.value - r.tolerance <= v
    BY <1>1, BoundsType, RequirementType, ClaimAssumption
    DEF Passes, AtMost, Admits
  <2> QED
    BY <2>1, <2>2, RequirementType DEF Meets
<1>3. CASE r.op = ">="
  BY <1>1, <1>3, BoundsType, RequirementType, ClaimAssumption
  DEF Passes, AtMost, Admits, Meets
<1> QED
  BY <1>2, <1>3

(* A FAIL is proven: no value the claim admits meets the requirement.      *)
THEOREM FailIsSound ==
  ASSUME NEW c \in Claims, Valid(c), NEW r \in Requirements,
         Verdict(c, r) = "FAIL", NEW v \in Int, Admits(c, v)
  PROVE  ~Meets(v, r)
<1>1. Fails(c, r)
  BY DEF Verdict
<1>2. CASE r.op # ">=" /\ Below(r.value + r.tolerance, Lower(c))
  BY <1>2, BoundsType, RequirementType, ClaimAssumption
  DEF Below, Admits, Meets
<1>3. CASE r.op # "<=" /\ Below(Upper(c), r.value - r.tolerance)
  BY <1>3, BoundsType, RequirementType, ClaimAssumption
  DEF Below, Admits, Meets
<1> QED
  BY <1>1, <1>2, <1>3 DEF Fails

(* An UNKNOWN is never caution without cause: the claim admits a value that *)
(* meets the requirement and one that does not.                            *)
THEOREM UnknownIsUndecided ==
  ASSUME NEW c \in Claims, Valid(c), NEW r \in Requirements,
         Verdict(c, r) = "UNKNOWN"
  PROVE  /\ \E v \in Int : Admits(c, v) /\ Meets(v, r)
         /\ \E v \in Int : Admits(c, v) /\ ~Meets(v, r)
<1> DEFINE lo == Lower(c)
           hi == Upper(c)
           floor == r.value - r.tolerance
           ceil  == r.value + r.tolerance
<1>1. ~Passes(c, r) /\ ~Fails(c, r)
  BY DEF Verdict
<1>2. /\ lo \in Int \cup {NoBound} /\ hi \in Int \cup {NoBound}
      /\ floor \in Int /\ ceil \in Int /\ floor <= ceil
      /\ lo # NoBound /\ hi # NoBound => lo <= hi
  BY BoundsType, ClaimOrdered, RequirementType
<1>3. /\ r.op # ">=" /\ lo # NoBound => lo <= ceil
      /\ r.op # "<=" /\ hi # NoBound => floor <= hi
  BY <1>1, <1>2, ClaimAssumption DEF Fails, Below
<1>4. /\ r.op = ">=" /\ lo # NoBound => lo < floor
      /\ r.op = "<=" /\ hi # NoBound => ceil < hi
      /\ r.op = "within" /\ lo # NoBound /\ hi # NoBound =>
           lo < floor \/ ceil < hi
  BY <1>1, <1>2, RequirementType, ClaimAssumption DEF Passes, AtMost
<1> HIDE DEF lo, hi, floor, ceil
<1>5. \E v \in Int : /\ lo # NoBound => lo <= v
                     /\ hi # NoBound => v <= hi
                     /\ r.op # ">=" => v <= ceil
                     /\ r.op # "<=" => v >= floor
  <2>1. CASE r.op = "<="
    <3>1. CASE lo # NoBound
      <4>5. /\ lo \in Int /\ (lo # NoBound => lo <= lo)
            /\ (hi # NoBound => lo <= hi)
            /\ (r.op # ">=" => lo <= ceil) /\ (r.op # "<=" => lo >= floor)
        BY <2>1, <3>1, <1>2, <1>3, ClaimAssumption
      <4> QED BY <4>5
    <3>2. CASE lo = NoBound /\ hi # NoBound
      <4>1. ceil < hi
        BY <2>1, <3>2, <1>4
      <4>5. /\ ceil \in Int /\ (lo # NoBound => lo <= ceil)
            /\ (hi # NoBound => ceil <= hi)
            /\ (r.op # ">=" => ceil <= ceil) /\ (r.op # "<=" => ceil >= floor)
        BY <2>1, <3>2, <4>1, <1>2, ClaimAssumption
      <4> QED BY <4>5
    <3>3. CASE lo = NoBound /\ hi = NoBound
      <4>5. /\ ceil \in Int /\ (lo # NoBound => lo <= ceil)
            /\ (hi # NoBound => ceil <= hi)
            /\ (r.op # ">=" => ceil <= ceil) /\ (r.op # "<=" => ceil >= floor)
        BY <2>1, <3>3, <1>2
      <4> QED BY <4>5
    <3> QED BY <3>1, <3>2, <3>3
  <2>2. CASE r.op # "<="
    <3>1. CASE lo # NoBound /\ floor <= lo
      <4>5. /\ lo \in Int /\ (lo # NoBound => lo <= lo)
            /\ (hi # NoBound => lo <= hi)
            /\ (r.op # ">=" => lo <= ceil) /\ (r.op # "<=" => lo >= floor)
        BY <2>2, <3>1, <1>2, <1>3, ClaimAssumption
      <4> QED BY <4>5
    <3>2. CASE lo = NoBound \/ lo < floor
      <4>5. /\ floor \in Int /\ (lo # NoBound => lo <= floor)
            /\ (hi # NoBound => floor <= hi)
            /\ (r.op # ">=" => floor <= ceil) /\ (r.op # "<=" => floor >= floor)
        BY <2>2, <3>2, <1>2, <1>3, ClaimAssumption
      <4> QED BY <4>5
    <3> QED BY <3>1, <3>2, <1>2, ClaimAssumption
  <2> QED BY <2>1, <2>2
<1>6. \E v \in Int : /\ lo # NoBound => lo <= v
                     /\ hi # NoBound => v <= hi
                     /\ \/ r.op # ">=" /\ ceil < v
                        \/ r.op # "<=" /\ v < floor
  <2>1. CASE r.op # "<=" /\ lo # NoBound /\ lo < floor
    <3>1. lo \in Int /\ (lo # NoBound => lo <= lo)
                    /\ (hi # NoBound => lo <= hi)
      BY <2>1, <1>2, ClaimAssumption
    <3> QED BY <3>1, <2>1
  <2>2. CASE r.op # ">=" /\ hi # NoBound /\ ceil < hi
    <3>1. hi \in Int /\ (lo # NoBound => lo <= hi)
                    /\ (hi # NoBound => hi <= hi)
      BY <2>2, <1>2, ClaimAssumption
    <3> QED BY <3>1, <2>2
  <2>3. CASE r.op # "<=" /\ lo = NoBound
    <3>1. PICK v \in Int : v < floor /\ (hi # NoBound => v <= hi)
      <4>1. CASE hi = NoBound
        BY <4>1, <1>2
      <4>2. CASE hi # NoBound
        <5>1. floor - 1 <= hi
          BY <2>3, <4>2, <1>2, <1>3, ClaimAssumption
        <5> QED BY <5>1, <1>2
      <4> QED BY <4>1, <4>2
    <3> QED BY <2>3, <3>1
  <2>4. CASE r.op # ">=" /\ hi = NoBound
    <3>1. PICK v \in Int : v > ceil /\ (lo # NoBound => v >= lo)
      <4>1. CASE lo = NoBound
        <5>1. ceil + 1 \in Int /\ ceil + 1 > ceil
          BY <1>2
        <5> QED BY <4>1, <5>1
      <4>2. CASE lo # NoBound
        <5>1. ceil + 1 >= lo /\ ceil + 1 \in Int /\ ceil + 1 > ceil
          BY <2>4, <4>2, <1>2, <1>3, ClaimAssumption
        <5> QED BY <5>1
      <4> QED BY <4>1, <4>2
    <3> QED BY <2>4, <3>1, <1>2, ClaimAssumption
  <2> QED
    BY <2>1, <2>2, <2>3, <2>4, <1>2, <1>4, RequirementType
<1>7. \A v \in Int : Admits(c, v) <=> (/\ (lo # NoBound => lo <= v)
                                     /\ (hi # NoBound => v <= hi))
  BY DEF Admits, lo, hi
<1>8. \A v \in Int : Meets(v, r) <=> (/\ (r.op # ">=" => v <= ceil)
                                    /\ (r.op # "<=" => v >= floor))
  BY DEF Meets, floor, ceil
<1>9. \A v \in Int : (r.op # ">=" /\ ceil < v) \/ (r.op # "<=" /\ v < floor)
                       => ~Meets(v, r)
  <2> TAKE v \in Int
  <2> QED BY <1>8, <1>2
<1> QED
  BY <1>5, <1>6, <1>7, <1>8, <1>9

-----------------------------------------------------------------------------
(* Extrema of finite sets of integers.                                     *)

LEMMA FiniteHasMax ==
  ASSUME NEW S \in SUBSET Int, IsFiniteSet(S), S # {}
  PROVE  \E x \in S : \A y \in S : x >= y
<1> DEFINE Topped(T) == \E x \in T : \A y \in T : x >= y
           bad == {T \in SUBSET S : T # {} /\ ~Topped(T)}
<1>1. SUFFICES ASSUME ~Topped(S) PROVE FALSE
  OBVIOUS
<1>2. FiniteSubsetsOf(S) = SUBSET S
  BY FS_FiniteSubsetsOfFinite
<1>3. IsWellFoundedOn(StrictSubsetOrdering(S), SUBSET S)
  BY <1>2, FS_StrictSubsetOrderingWellFounded
<1>4. bad \subseteq SUBSET S /\ bad # {}
  <2>1. S \in bad
    BY <1>1
  <2> QED BY <2>1
<1> HIDE DEF bad
<1>5. PICK T \in bad : \A U \in bad : <<U, T>> \notin StrictSubsetOrdering(S)
  BY <1>3, <1>4, WFMin
<1> USE DEF bad
<1>6. PICK t \in T : TRUE
  BY <1>5
<1> DEFINE U == T \ {t}
<1>7. <<U, T>> \in StrictSubsetOrdering(S)
  BY <1>5, <1>6 DEF StrictSubsetOrdering
<1>8. U = {} \/ Topped(U)
  BY <1>5, <1>7
<1>9. CASE U = {}
  <2>1. T = {t} /\ t >= t
    BY <1>5, <1>6, <1>9
  <2> QED BY <2>1, <1>5
<1>10. CASE Topped(U)
  <2>1. PICK m \in U : \A y \in U : m >= y
    BY <1>10
  <2>2. m \in Int /\ t \in Int /\ U \subseteq Int
    BY <1>5, <1>6
  <2>3. CASE m >= t
    <3>1. \A y \in T : m >= y
      BY <2>1, <2>3
    <3> QED BY <3>1, <2>1, <1>5
  <2>4. CASE t >= m
    <3>1. \A y \in T : t >= y
      BY <2>1, <2>2, <2>4
    <3> QED BY <3>1, <1>6, <1>5
  <2> QED BY <2>2, <2>3, <2>4
<1> QED BY <1>8, <1>9, <1>10

LEMMA MaxOfFinite ==
  ASSUME NEW S \in SUBSET Int, IsFiniteSet(S), S # {}
  PROVE  Max(S) \in S /\ \A y \in S : Max(S) >= y
BY FiniteHasMax DEF Max

LEMMA MaxOfTwo ==
  ASSUME NEW a \in Int, NEW b \in Int
  PROVE  Max({a, b}) = IF a >= b THEN a ELSE b
<1>1. PICK x \in {a, b} : \A y \in {a, b} : x >= y
  BY DEF Max
<1>2. Max({a, b}) \in {a, b} /\ \A y \in {a, b} : Max({a, b}) >= y
  BY <1>1 DEF Max
<1> QED BY <1>2

-----------------------------------------------------------------------------
(* The walk along a path.                                                  *)

\* What the totals of a walk say of the real delay walked so far.
Sound(w) ==
  /\ w.total <= w.real
  /\ w.bounded => w.real <= w.total + w.omitted
  /\ w.exact => w.bounded /\ w.omitted = 0

\* A delay the walk can contribute: at least zero, ends not crossed.
Contribution(c) ==
  /\ Lower(c) \in Nat /\ Upper(c) \in Nat \cup {NoBound}
  /\ Upper(c) # NoBound => Lower(c) <= Upper(c)
  /\ c.knowledge = "exact" => Upper(c) = Lower(c)
  /\ c.knowledge \in Knowledge

LEMMA OmittedContribution ==
  ASSUME NEW bound \in Delays \cup {NoBound}
  PROVE  Contribution(Omitted(bound))
BY TimingAssumption, ClaimAssumption
DEF Contribution, Omitted, Claimed, Lower, Upper, Knowledge, Bounded

LEMMA ViaContribution ==
  ASSUME policy \in ViaPolicy, NEW d \in Nat
  PROVE  Contribution(ViaClaim(d))
<1>1. CASE policy.model = "none"
  BY <1>1, OmittedContribution DEF ViaPolicy, ViaClaim
<1>2. CASE policy.model # "none"
  BY <1>2, ClaimAssumption
  DEF ViaClaim, Contribution, Claimed, Lower, Upper, Knowledge, Bounded
<1> QED BY <1>1, <1>2

LEMMA ComponentContribution ==
  ASSUME NEW m \in DelayModel, ComponentClaim(m).applicable
  PROVE  Contribution(ComponentClaim(m))
<1>1. m.model \in {"fixed", "none", "other"}
  BY DEF DelayModel
<1>2. CASE m.model = "fixed"
  <2>1. m.bound \in Nat
    BY <1>2, TimingAssumption DEF DelayModel
  <2> QED
    BY <1>2, <2>1, ClaimAssumption
    DEF ComponentClaim, Contribution, Claimed, Lower, Upper, Knowledge,
        Bounded
<1>3. CASE m.model = "none"
  BY <1>3, OmittedContribution DEF DelayModel, ComponentClaim
<1>4. CASE m.model = "other"
  BY <1>4 DEF ComponentClaim, Unsupported
<1> QED BY <1>1, <1>2, <1>3, <1>4

(* A portion whose claim admits its real delay keeps the walk sound.       *)
LEMMA ContributeSound ==
  ASSUME NEW w \in Walks, Sound(w), NEW c, Contribution(c),
         NEW d \in Nat, Admits(c, d)
  PROVE  Contribute(w, c, d) \in Walks /\ Sound(Contribute(w, c, d))
<1> DEFINE x == Contribute(w, c, d)
           more == IF Upper(c) = NoBound THEN 0 ELSE Upper(c) - Lower(c)
<1>1. /\ more \in Nat
      /\ Lower(c) \in Nat /\ Lower(c) <= d
      /\ Upper(c) # NoBound => d <= Lower(c) + more
      /\ c.knowledge = "exact" => Upper(c) # NoBound /\ more = 0
  BY ClaimAssumption DEF Contribution, Admits
<1>2. /\ x.total = w.total + Lower(c) /\ x.real = w.real + d
      /\ x.exact = (w.exact /\ c.knowledge = "exact")
      /\ x.bounded = (w.bounded /\ Upper(c) # NoBound)
      /\ x.omitted = w.omitted + more
  BY DEF Contribute, Walks
<1>3. x \in Walks
  <2>1. /\ w.total + Lower(c) \in Nat /\ w.real + d \in Nat
        /\ w.omitted + more \in Nat
    BY <1>1 DEF Walks
  <2> QED BY <2>1 DEF Contribute, Walks
<1> HIDE DEF x, more
<1>4. /\ w.total \in Nat /\ w.real \in Nat /\ w.omitted \in Nat
      /\ w.exact \in BOOLEAN /\ w.bounded \in BOOLEAN
  BY DEF Walks
<1>5. /\ x.bounded <=> w.bounded /\ Upper(c) # NoBound
      /\ x.exact <=> w.exact /\ c.knowledge = "exact"
  BY <1>2, Zenon
<1>6. x.total <= x.real
  BY <1>1, <1>2, <1>4 DEF Sound
<1>7. x.bounded => x.real <= x.total + x.omitted
  <2> SUFFICES ASSUME w.bounded, Upper(c) # NoBound
               PROVE  x.real <= x.total + x.omitted
    BY <1>5, Zenon
  <2> QED
    BY <1>1, <1>2, <1>4 DEF Sound
<1>8. x.exact => x.bounded /\ x.omitted = 0
  <2> SUFFICES ASSUME w.exact, c.knowledge = "exact"
               PROVE  x.bounded /\ x.omitted = 0
    BY <1>5, Zenon
  <2>1. w.bounded /\ Upper(c) # NoBound
    BY <1>1, Zenon DEF Sound
  <2>2. x.omitted = 0
    BY <1>1, <1>2, <1>4 DEF Sound
  <2> QED BY <2>1, <2>2, <1>5, Zenon
<1> QED BY <1>3, <1>6, <1>7, <1>8 DEF Sound, x

(* evaluate's claim brackets whatever the junctions make of the real       *)
(* delay, and is one the claim module accepts.                             *)
LEMMA PathClaimBrackets ==
  ASSUME NEW w \in Walks, Sound(w), NEW u \in Nat,
         NEW v \in Max({0, w.real - u}) .. w.real + u
  PROVE  LET c == PathClaim(w, u)
         IN  /\ Valid(c) /\ Admits(c, v)
             /\ Lower(c) \in Nat \cup {NoBound}
             /\ c.knowledge \in {"exact", "lower_bound", "interval",
                                  "unknown"}
<1> DEFINE c == PathClaim(w, u)
           lower == Max({0, w.total - u})
           upper == IF w.exact \/ w.bounded THEN w.total + w.omitted + u
                                            ELSE NoBound
           known == CASE w.exact /\ upper = lower -> "exact"
                      [] upper = NoBound          -> "lower_bound"
                      [] OTHER                    -> "interval"
<1>1. CASE w.insufficient \/ ~w.modelled
  BY <1>1 DEF PathClaim, Unsupported, Valid, Claims, Shape, Admits, Lower,
              Upper, Knowledge, Bounded, Bases, Endpoint
<1>2. CASE ~(w.insufficient \/ ~w.modelled)
  <2>1. c = Claimed(known, lower, upper, "derived", ~w.exact)
    BY <1>2 DEF PathClaim
  <2>2. /\ w.total \in Nat /\ w.real \in Nat /\ w.omitted \in Nat
        /\ w.exact \in BOOLEAN /\ w.bounded \in BOOLEAN
    BY DEF Walks
  <2>3. /\ lower \in Nat /\ lower <= v /\ v \in Nat
        /\ lower <= w.total + w.omitted + u
    BY <2>2, MaxOfTwo DEF Sound
  <2>4. /\ upper \in Nat \cup {NoBound}
        /\ upper # NoBound => v <= upper /\ lower <= upper
    BY <2>2, <2>3 DEF Sound
  <2>5. /\ known \in {"exact", "lower_bound", "interval"}
        /\ known = "exact" => w.exact /\ upper = lower
        /\ known = "lower_bound" => upper = NoBound
        /\ known = "interval" => upper # NoBound
    BY <2>3, ClaimAssumption
  <2> HIDE DEF c, lower, upper, known
  <2>6. /\ c.knowledge = known /\ c.lower = lower /\ c.upper = upper
        /\ c.basis = "derived" /\ c.applicable = TRUE
        /\ c.omits = ~w.exact
        /\ c \in Claims
    BY <2>1, <2>2, <2>3, <2>4, <2>5
    DEF Claimed, Claims, Knowledge, Bounded, Bases, Endpoint
  <2>7. Lower(c) = lower /\ Upper(c) = upper
    BY <2>5, <2>6 DEF Lower, Upper
  <2>8. Valid(c)
    <3>1. c.knowledge = "exact" => c.basis # "assumed" /\ ~c.omits
      BY <2>5, <2>6, Zenon
    <3>2. Shape(c)
      BY <2>3, <2>4, <2>5, <2>6, ClaimAssumption DEF Shape
    <3> QED
      BY <3>1, <3>2, <2>6 DEF Valid
  <2>9. Admits(c, v)
    BY <2>3, <2>4, <2>7 DEF Admits
  <2> QED BY <2>3, <2>5, <2>6, <2>7, <2>8, <2>9 DEF c
<1> QED BY <1>1, <1>2

(* A run of copper adds the same to the total and to the real delay.       *)
LEMMA ConductorSound ==
  ASSUME NEW w \in Walks, Sound(w), NEW l \in Nat, NEW r \in Nat,
         NEW x, x = [w EXCEPT !.total = @ + l * r, !.length = @ + l,
                              !.worst = Max({@, r}), !.modelled = TRUE,
                              !.real = @ + l * r]
  PROVE  x \in Walks /\ Sound(x)
<1>1. l * r \in Nat
  OBVIOUS
<1> DEFINE lr == l * r
<1> HIDE DEF lr
<1>2. /\ w.total + lr \in Nat /\ w.real + lr \in Nat /\ w.length + l \in Nat
      /\ Max({w.worst, r}) \in Nat
  BY <1>1, MaxOfTwo DEF Walks, lr
<1>3. x \in Walks
  BY <1>2 DEF Walks, lr
<1>4. /\ x.total = w.total + lr /\ x.real = w.real + lr
      /\ x.bounded = w.bounded /\ x.exact = w.exact
      /\ x.omitted = w.omitted
  BY DEF Walks, lr
<1>5. /\ w.total \in Nat /\ w.real \in Nat /\ w.omitted \in Nat
      /\ lr \in Nat
  BY <1>1 DEF Walks, lr
<1>6. x.total <= x.real
  BY <1>4, <1>5 DEF Sound
<1>7. x.bounded => x.real <= x.total + x.omitted
  BY <1>4, <1>5 DEF Sound
<1> QED BY <1>3, <1>4, <1>6, <1>7 DEF Sound

LEMMA InsufficientSound ==
  ASSUME NEW w \in Walks, Sound(w)
  PROVE  Insufficient(w) \in Walks /\ Sound(Insufficient(w))
BY DEF Insufficient, Walks, Sound

LEMMA ModelledSound ==
  ASSUME NEW w \in Walks, Sound(w)
  PROVE  /\ [w EXCEPT !.modelled = TRUE] \in Walks
         /\ Sound([w EXCEPT !.modelled = TRUE])
BY DEF Walks, Sound

LEMMA LengthSound ==
  ASSUME NEW w \in Walks, Sound(w), NEW l \in Nat
  PROVE  /\ [w EXCEPT !.length = @ + l] \in Walks
         /\ Sound([w EXCEPT !.length = @ + l])
BY DEF Walks, Sound

LEMMA SeenSound ==
  ASSUME NEW w \in Walks, Sound(w)
  PROVE  /\ [w EXCEPT !.seen = @ + 1] \in Walks
         /\ Sound([w EXCEPT !.seen = @ + 1])
BY DEF Walks, Sound

LEMMA StartSound == Start \in Walks /\ Sound(Start)
BY DEF Start, Walks, Sound

-----------------------------------------------------------------------------
(* The inductive invariant.                                                *)

\* A path is walked only while the paths are being evaluated.
WalkingInv == cur # NoPath => pc = "evaluating"

\* Path claims take four of the six shapes.
ClaimKinds ==
  \A p \in Path :
    claim[p].knowledge \in {"exact", "lower_bound", "interval", "unknown"}

\* The junctions bracket the real length as they do the real delay.
LengthsBracketed ==
  \A p \in Path : /\ length[p] - span[p] <= copper[p]
                  /\ copper[p] <= length[p] + span[p]

ResultsInv == ClaimKinds /\ PathsBracketed /\ LengthsBracketed

\* What each gate has established by accepting.
Accepting == {"PASS", "NOT_APPLICABLE"}

IntegrityInv ==
  gate["integrity"] \in Accepting => pc # "resolving" /\ resolved = Path

DelayInv ==
  gate["delay"] \in Accepting =>
    /\ pc \in {"judging", "done"}
    /\ \A p \in resolved : ~MaximumProblem(claim[p], limit["delay"])

SkewInv ==
  gate["skew"] \in Accepting =>
    /\ pc = "done" /\ group \cap resolved # {}
    /\ ~MaximumProblem(SkewClaim(group \cap resolved), limit["skew"])
    /\ ~MaximumProblem(LengthClaim(group \cap resolved), limit["spread"])

IInv ==
  TypeOK /\ Sound(walk) /\ WalkingInv /\ ResultsInv
    /\ IntegrityInv /\ DelayInv /\ SkewInv

LEMMA InitIInv == Init => IInv
<1> SUFFICES ASSUME Init PROVE IInv
  OBVIOUS
<1> USE DEF Init
<1>1. Lower(Unsupported) = NoBound /\ Unsupported \in Claims
  BY DEF Lower, Unsupported, Claims, Knowledge, Bounded, Bases, Endpoint
<1>2. TypeOK
  BY <1>1, StartSound DEF TypeOK, Kinds, Gates, Status
<1>3. Valid(Unsupported) /\ \A v \in Nat : Admits(Unsupported, v)
  BY <1>1 DEF Valid, Shape, Admits, Unsupported, Bounded, Lower, Upper
<1>4. ResultsInv
  <2>1. ClaimKinds /\ LengthsBracketed
    BY DEF ClaimKinds, LengthsBracketed, Unsupported
  <2>2. PathsBracketed
    BY <1>3 DEF PathsBracketed
  <2> QED BY <2>1, <2>2 DEF ResultsInv
<1>5. IntegrityInv /\ DelayInv /\ SkewInv
  BY DEF IntegrityInv, DelayInv, SkewInv, Accepting, Gates
<1> QED
  BY <1>2, <1>4, <1>5, StartSound DEF IInv, WalkingInv

\* A step of the walk leaves everything but the walk as it is.
LEMMA WalkStep ==
  ASSUME IInv, cur # NoPath, walk' \in Walks, Sound(walk'),
         UNCHANGED <<board, limit, group, pc, todo, resolved, cur, results,
                     gate>>
  PROVE  IInv'
<1> USE DEF board, results
<1>1. TypeOK'
  BY DEF IInv, TypeOK
<1>2. ResultsInv'
  BY DEF IInv, ResultsInv, ClaimKinds, PathsBracketed, LengthsBracketed
<1>3. WalkingInv' /\ IntegrityInv' /\ DelayInv'
  BY DEF IInv, WalkingInv, IntegrityInv, DelayInv
<1>4. SkewInv'
  BY DEF IInv, WalkingInv, SkewInv
<1> QED
  BY <1>1, <1>2, <1>3, <1>4 DEF IInv

LEMMA ContinueStep ==
  ASSUME IInv, cur # NoPath, NEW next \in Walks, Sound(next), Continue(next)
  PROVE  IInv'
BY WalkStep, SeenSound DEF Continue

LEMMA NextIInv == IInv /\ [Next]_vars => IInv'
<1> SUFFICES ASSUME IInv, [Next]_vars PROVE IInv'
  OBVIOUS
<1> USE DEF board, results
<1>1. CASE UNCHANGED vars
  <2>1. TypeOK' /\ Sound(walk)' /\ WalkingInv'
    BY <1>1 DEF vars, IInv, TypeOK, WalkingInv
  <2>2. ResultsInv' /\ IntegrityInv' /\ DelayInv' /\ SkewInv'
    BY <1>1 DEF vars, IInv, ResultsInv, ClaimKinds, PathsBracketed,
                LengthsBracketed, IntegrityInv, DelayInv, SkewInv,
                SkewClaim, LengthClaim
  <2> QED BY <2>1, <2>2 DEF IInv
<1>2. ASSUME NEW p \in Path, Resolve(p) PROVE IInv'
  <2>1. TypeOK' /\ Sound(walk)' /\ WalkingInv'
    BY <1>2 DEF Resolve, IInv, TypeOK, WalkingInv
  <2>2. ResultsInv'
    BY <1>2 DEF Resolve, IInv, ResultsInv, ClaimKinds, PathsBracketed,
                LengthsBracketed
  <2>3. IntegrityInv' /\ DelayInv' /\ SkewInv'
    BY <1>2 DEF Resolve, IInv, IntegrityInv, DelayInv, SkewInv
  <2> QED BY <2>1, <2>2, <2>3 DEF IInv
<1>3. ASSUME NEW p \in Path, Evaluate(p) PROVE IInv'
  <2>1. TypeOK' /\ Sound(walk)' /\ WalkingInv'
    BY <1>3, StartSound DEF Evaluate, IInv, TypeOK, WalkingInv
  <2>2. ResultsInv'
    BY <1>3 DEF Evaluate, IInv, ResultsInv, ClaimKinds, PathsBracketed,
                LengthsBracketed
  <2>3. IntegrityInv' /\ DelayInv' /\ SkewInv'
    BY <1>3 DEF Evaluate, IInv, IntegrityInv, DelayInv, SkewInv
  <2> QED BY <2>1, <2>2, <2>3 DEF IInv
<1>4. CASE PathIntegrity
  <2>1. TypeOK' /\ Sound(walk)' /\ WalkingInv'
    <3>1. (IF resolved = Path THEN "PASS" ELSE "FAIL") \in Status
      BY DEF Status
    <3>2. gate' \in [Gates -> Status]
      BY <1>4, <3>1 DEF PathIntegrity, IInv, TypeOK
    <3>3. todo' \in SUBSET Path /\ pc' = "evaluating"
      BY <1>4 DEF PathIntegrity, IInv, TypeOK
    <3> QED
      BY <1>4, <3>2, <3>3 DEF PathIntegrity, IInv, TypeOK, WalkingInv
  <2>2. ResultsInv'
    BY <1>4 DEF PathIntegrity, IInv, ResultsInv, ClaimKinds, PathsBracketed,
                LengthsBracketed
  <2>3. IntegrityInv'
    BY <1>4 DEF PathIntegrity, IInv, TypeOK, IntegrityInv, Accepting, Gates
  <2>4. DelayInv' /\ SkewInv'
    BY <1>4 DEF PathIntegrity, IInv, TypeOK, DelayInv, SkewInv, Gates
  <2> QED BY <2>1, <2>2, <2>3, <2>4 DEF IInv
<1>5. ASSUME NEW l \in Length, NEW r \in Rate, Conductor(l, r) PROVE IInv'
  <2>1. l \in Nat /\ r \in Nat /\ walk \in Walks /\ Sound(walk)
        /\ cur # NoPath
    BY <1>5, TimingAssumption DEF IInv, TypeOK, Conductor, At
  <2> DEFINE run == [walk EXCEPT !.total = @ + l * r, !.length = @ + l,
                                 !.worst = Max({@, r}), !.modelled = TRUE,
                                 !.real = @ + l * r]
             bare == [walk EXCEPT !.length = @ + l]
  <2>2. run \in Walks /\ Sound(run)
    BY <2>1, ConductorSound
  <2>3. Insufficient(bare) \in Walks /\ Sound(Insufficient(bare))
    BY <2>1, LengthSound, InsufficientSound
  <2>4. Continue(run) \/ Continue(Insufficient(bare))
    BY <1>5 DEF Conductor
  <2> HIDE DEF run, bare
  <2> QED BY <2>1, <2>2, <2>3, <2>4, ContinueStep
<1>6. ASSUME NEW d \in Delays \cup 0 .. MaxDelay, Via(d) PROVE IInv'
  <2>1. d \in Nat /\ walk \in Walks /\ Sound(walk) /\ policy \in ViaPolicy
        /\ cur # NoPath
    BY <1>6, TimingAssumption DEF IInv, TypeOK, Via, At
  <2> DEFINE next == [Contribute(walk, ViaClaim(d), d)
                        EXCEPT !.modelled = TRUE]
  <2>2. CASE Admits(ViaClaim(d), d) /\ Continue(next)
    <3>1. next \in Walks /\ Sound(next)
      BY <2>1, <2>2, ViaContribution, ContributeSound, ModelledSound
    <3> HIDE DEF next
    <3> QED BY <2>1, <2>2, <3>1, ContinueStep
  <2>3. CASE Continue(Insufficient(walk))
    BY <2>1, <2>3, InsufficientSound, ContinueStep
  <2> QED BY <1>6, <2>2, <2>3 DEF Via
<1>7. ASSUME NEW m \in DelayModel, NEW d \in Delays \cup 0 .. MaxDelay,
             Component(m, d)
      PROVE  IInv'
  <2> DEFINE c == ComponentClaim(m)
             next == Contribute(walk, c, d)
  <2>1. d \in Nat /\ walk \in Walks /\ Sound(walk) /\ cur # NoPath
    BY <1>7, TimingAssumption DEF IInv, TypeOK, Component, At
  <2>2. CASE c.applicable
    <3>1. Admits(c, d) /\ Continue(next)
      BY <1>7, <2>2 DEF Component
    <3>2. next \in Walks /\ Sound(next)
      BY <2>1, <2>2, <3>1, ComponentContribution, ContributeSound
    <3> HIDE DEF next
    <3> QED BY <2>1, <3>1, <3>2, ContinueStep
  <2>3. CASE ~c.applicable
    <3>1. Continue(Insufficient(walk))
      BY <1>7, <2>3 DEF Component
    <3> QED BY <2>1, <3>1, InsufficientSound, ContinueStep
  <2> QED BY <2>2, <2>3
<1>8. CASE NextStage
  <2>1. walk \in Walks /\ Sound(walk) /\ walk.stage + 1 \in 1 .. 3
    BY <1>8 DEF NextStage, IInv, TypeOK, Walks
  <2>2. walk' = [walk EXCEPT !.stage = @ + 1, !.seen = 0]
    BY <1>8 DEF NextStage
  <2>3. walk' \in Walks
    BY <2>1, <2>2 DEF Walks
  <2>4. Sound(walk')
    BY <2>1, <2>2 DEF Walks, Sound
  <2> QED
    BY <1>8, <2>3, <2>4, WalkStep DEF NextStage
<1>9. ASSUME NEW s \in Ambiguity, Conclude(s) PROVE IInv'
  <2> DEFINE u == s * walk.worst
             c == PathClaim(walk, u)
  <2>1. /\ s \in Nat /\ u \in Nat /\ cur \in Path
        /\ walk \in Walks /\ Sound(walk)
        /\ walk.length \in Nat /\ walk.real \in Nat
    <3>1. s \in Nat /\ walk.worst \in Nat
      BY TimingAssumption DEF IInv, TypeOK, Walks
    <3>2. u \in Nat
      BY <3>1
    <3> QED
      BY <1>9, <3>1, <3>2 DEF Conclude, IInv, TypeOK, Walks
  <2>2. PICK x \in Max({0, walk.real - u}) .. walk.real + u :
             delay' = [delay EXCEPT ![cur] = x]
    BY <1>9 DEF Conclude
  <2>3. PICK y \in Max({0, walk.length - s}) .. walk.length + s :
             copper' = [copper EXCEPT ![cur] = y]
    BY <1>9 DEF Conclude
  <2>4. /\ claim' = [claim EXCEPT ![cur] = c]
        /\ length' = [length EXCEPT ![cur] = walk.length]
        /\ span' = [span EXCEPT ![cur] = s]
        /\ cur' = NoPath /\ walk' = Start
        /\ UNCHANGED <<policy, usable, limit, group, pc, todo, resolved, gate>>
    BY <1>9 DEF Conclude
  <2>5. /\ Valid(c) /\ Admits(c, x)
        /\ Lower(c) \in Nat \cup {NoBound}
        /\ c.knowledge \in {"exact", "lower_bound", "interval", "unknown"}
    BY <2>1, <2>2, PathClaimBrackets
  <2>6. c \in Claims
    BY <2>5 DEF Valid
  <2> HIDE DEF u, c
  <2>7. /\ x \in Nat /\ y \in Nat
        /\ walk.length - s <= y /\ y <= walk.length + s
    BY <2>1, <2>2, <2>3, MaxOfTwo
  <2>8. TypeOK'
    BY <2>1, <2>2, <2>3, <2>4, <2>5, <2>6, <2>7, StartSound DEF IInv, TypeOK
  <2>9. ResultsInv'
    <3>1. ClaimKinds'
      BY <2>1, <2>4, <2>5 DEF IInv, TypeOK, ResultsInv, ClaimKinds
    <3>2. PathsBracketed'
      BY <2>1, <2>2, <2>4, <2>5 DEF IInv, TypeOK, ResultsInv, PathsBracketed
    <3>3. LengthsBracketed'
      BY <2>1, <2>3, <2>4, <2>7
      DEF IInv, TypeOK, ResultsInv, LengthsBracketed
    <3> QED BY <3>1, <3>2, <3>3 DEF ResultsInv
  <2>10. pc = "evaluating"
    BY <1>9 DEF Conclude, IInv, WalkingInv
  <2>11. IntegrityInv' /\ DelayInv' /\ SkewInv' /\ WalkingInv'
    BY <2>4, <2>10
    DEF IInv, IntegrityInv, DelayInv, SkewInv, WalkingInv
  <2> QED BY <2>4, <2>8, <2>9, <2>11, StartSound DEF IInv
<1>10. CASE InterconnectDelay
  <2>1. PICK maximum \in Limits \cup {NoBound} :
          /\ limit' = [limit EXCEPT !["delay"] = maximum]
          /\ gate' = [gate EXCEPT !["delay"] =
               Judged(\E p \in resolved : MaximumProblem(claim[p], maximum),
                      maximum # NoBound /\ resolved # {})]
    BY <1>10 DEF InterconnectDelay
  <2> DEFINE problem == \E p \in resolved : MaximumProblem(claim[p], maximum)
             status == Judged(problem, maximum # NoBound /\ resolved # {})
  <2>2. /\ pc = "evaluating" /\ cur = NoPath /\ pc' = "judging"
        /\ UNCHANGED <<policy, usable, group, todo, resolved, cur, walk, claim,
                       length, span, delay, copper>>
    BY <1>10 DEF InterconnectDelay
  <2>3. status \in Status /\ (status \in Accepting => ~problem)
    <3> HIDE DEF problem
    <3> QED BY Zenon DEF IInv, TypeOK, Judged, Status, Accepting
  <2>4. gate' = [gate EXCEPT !["delay"] = status]
    BY <2>1
  <2> HIDE DEF status
  <2>5. TypeOK' /\ Sound(walk)' /\ WalkingInv'
    BY <2>1, <2>2, <2>3, <2>4 DEF IInv, TypeOK, WalkingInv, Kinds
  <2>6. ResultsInv'
    BY <2>2 DEF IInv, ResultsInv, ClaimKinds, PathsBracketed,
                LengthsBracketed
  <2>7. IntegrityInv' /\ SkewInv'
    BY <2>2, <2>4 DEF IInv, TypeOK, IntegrityInv, SkewInv, Gates
  <2>8. DelayInv'
    <3>1. gate'["delay"] = status /\ limit'["delay"] = maximum
      BY <2>1, <2>4 DEF IInv, TypeOK, Gates, Kinds
    <3> SUFFICES ASSUME status \in Accepting
                 PROVE  \A p \in resolved' :
                          ~MaximumProblem(claim'[p], limit'["delay"])
      BY <2>2, <3>1 DEF DelayInv
    <3> QED BY <2>2, <2>3, <3>1
  <2> QED BY <2>5, <2>6, <2>7, <2>8 DEF IInv
<1>11. ASSUME NEW selected \in SUBSET Path, InterconnectSkew(selected)
       PROVE  IInv'
  <2> DEFINE M == selected \cap resolved
  <2>1. PICK skew \in Limits \cup {NoBound}, spread \in Limits \cup {NoBound} :
          /\ limit' = [limit EXCEPT !["skew"] = skew, !["spread"] = spread]
          /\ gate' = [gate EXCEPT !["skew"] =
               Judged(IF M = {} THEN TRUE
                      ELSE \/ MaximumProblem(SkewClaim(M), skew)
                           \/ MaximumProblem(LengthClaim(M), spread),
                      skew # NoBound \/ spread # NoBound)]
    BY <1>11 DEF InterconnectSkew
  <2> DEFINE problem == IF M = {} THEN TRUE
                        ELSE \/ MaximumProblem(SkewClaim(M), skew)
                             \/ MaximumProblem(LengthClaim(M), spread)
             status == Judged(problem, skew # NoBound \/ spread # NoBound)
  <2>2. /\ pc = "judging" /\ group' = selected /\ pc' = "done"
        /\ UNCHANGED <<policy, usable, todo, resolved, cur, walk, claim,
                       length, span, delay, copper>>
    BY <1>11 DEF InterconnectSkew
  <2>3. status \in Status /\ (status \in Accepting => ~problem)
    <3>1. problem \in BOOLEAN
      BY DEF MaximumProblem
    <3> HIDE DEF problem
    <3> QED BY <3>1, Zenon DEF IInv, TypeOK, Judged, Status, Accepting
  <2>4. gate' = [gate EXCEPT !["skew"] = status]
    BY <2>1
  <2>5. ~problem => /\ M # {}
                    /\ ~MaximumProblem(SkewClaim(M), skew)
                    /\ ~MaximumProblem(LengthClaim(M), spread)
    OBVIOUS
  <2>6. (group \cap resolved)' = M
    BY <2>2
  <2>7. /\ SkewClaim(group \cap resolved)' = SkewClaim(M)
        /\ LengthClaim(group \cap resolved)' = LengthClaim(M)
    BY <2>2, <2>6 DEF SkewClaim, LengthClaim
  <2> HIDE DEF status, problem, M
  <2>8. TypeOK' /\ Sound(walk)' /\ WalkingInv'
    BY <2>1, <2>2, <2>3, <2>4 DEF IInv, TypeOK, WalkingInv, Kinds
  <2>9. ResultsInv'
    BY <2>2 DEF IInv, ResultsInv, ClaimKinds, PathsBracketed,
                LengthsBracketed
  <2>10. IntegrityInv' /\ DelayInv'
    BY <2>1, <2>2, <2>4
    DEF IInv, TypeOK, IntegrityInv, DelayInv, Gates, Kinds
  <2>11. SkewInv'
    <3>1. /\ gate'["skew"] = status
          /\ limit'["skew"] = skew /\ limit'["spread"] = spread
      BY <2>1, <2>4 DEF IInv, TypeOK, Gates, Kinds
    <3> SUFFICES ASSUME status \in Accepting
                 PROVE  /\ pc' = "done" /\ (group \cap resolved)' # {}
                        /\ ~MaximumProblem(SkewClaim(group \cap resolved)',
                                           limit'["skew"])
                        /\ ~MaximumProblem(LengthClaim(group \cap resolved)',
                                           limit'["spread"])
      BY <3>1 DEF SkewInv
    <3> QED BY <2>2, <2>3, <2>5, <2>6, <2>7, <3>1
  <2> QED BY <2>8, <2>9, <2>10, <2>11 DEF IInv
<1> QED
  BY <1>1, <1>2, <1>3, <1>4, <1>5, <1>6, <1>7, <1>8, <1>9, <1>10, <1>11
  DEF Next

(* While a path is walked its total is sound, every concluded claim admits *)
(* what is real, and what a gate established by accepting stays true.      *)
THEOREM Invariance == Spec => []IInv
BY InitIInv, NextIInv, PTL DEF Spec

(* Every variable keeps its type; in particular no path is ever claimed to *)
(* take less than no time.                                                 *)
THEOREM Typing == Spec => []TypeOK
BY Invariance, PTL DEF IInv

(* Whatever a path is made of, however many portions it has and however    *)
(* long they take, the claim evaluate concludes admits its real delay.     *)
THEOREM ClaimsBracketDelays == Spec => []PathsBracketed
BY Invariance, PTL DEF IInv, ResultsInv

-----------------------------------------------------------------------------
(* What the acceptance of a maximum establishes.                           *)

LEMMA AcceptedMaximum ==
  ASSUME NEW c, NEW maximum \in Int, ~MaximumProblem(c, maximum)
  PROVE  Upper(c) # NoBound /\ Upper(c) <= maximum
<1>1. maximum # NoBound
  BY ClaimAssumption
<1>2. Passes(c, Maximum(maximum))
  BY <1>1 DEF MaximumProblem, Verdict
<1>3. AtMost(Upper(c), maximum + 0)
  BY <1>2 DEF Passes, Maximum
<1> QED
  BY <1>3 DEF AtMost

\* The upper end of a spread is no less than any two members may be apart,
\* and some two may be that far apart, or it is 0.
LEMMA SpreadUpperBounds ==
  ASSUME NEW M, IsFiniteSet(M), NEW lo, NEW hi,
         \A m \in M : lo[m] \in Int /\ hi[m] \in Int
  PROVE  /\ SpreadUpper(M, lo, hi) \in Int
         /\ SpreadUpper(M, lo, hi) >= 0
         /\ \A p, q \in M : p # q => SpreadUpper(M, lo, hi) >= hi[p] - lo[q]
         /\ \/ SpreadUpper(M, lo, hi) = 0
            \/ \E p, q \in M : p # q /\ SpreadUpper(M, lo, hi) = hi[p] - lo[q]
<1> DEFINE pairs == {r \in M \X M : r[1] # r[2]}
           apart == [r \in pairs |-> hi[r[1]] - lo[r[2]]]
           all   == {hi[r[1]] - lo[r[2]] : r \in pairs}
           S     == {0} \cup all
<1>1. IsFiniteSet(pairs)
  <2>1. IsFiniteSet(M \X M)
    BY FS_Product
  <2> QED
    BY <2>1, FS_Subset
<1>2. apart \in Surjection(pairs, all)
  BY DEF Surjection
<1>3. IsFiniteSet(all)
  <2> HIDE DEF pairs, apart, all
  <2> QED BY <1>1, <1>2, FS_Surjection
<1>4. IsFiniteSet(S)
  <2>1. S = all \cup {0}
    OBVIOUS
  <2> HIDE DEF S, all
  <2> QED BY <1>3, <2>1, FS_AddElement
<1>5. S \in SUBSET Int /\ S # {}
  OBVIOUS
<1>6. SpreadUpper(M, lo, hi) = Max(S)
  <2>1. ~\E m \in M : hi[m] = NoBound
    BY ClaimAssumption
  <2> QED BY <2>1 DEF SpreadUpper
<1>7. /\ 0 \in S /\ \A p, q \in M : p # q => hi[p] - lo[q] \in S
      /\ \A y \in S : y = 0 \/ \E p, q \in M : p # q /\ y = hi[p] - lo[q]
  <2>1. ASSUME NEW p \in M, NEW q \in M, p # q PROVE hi[p] - lo[q] \in S
    <3>1. <<p, q>> \in pairs
      BY <2>1
    <3>2. hi[<<p, q>>[1]] - lo[<<p, q>>[2]] \in all
      BY <3>1
    <3> QED BY <3>2
  <2>2. ASSUME NEW r \in pairs
        PROVE  \E p, q \in M : p # q /\ hi[r[1]] - lo[r[2]] = hi[p] - lo[q]
    <3>1. r[1] \in M /\ r[2] \in M /\ r[1] # r[2]
      OBVIOUS
    <3> QED BY <3>1
  <2> QED BY <2>1, <2>2
<1> HIDE DEF S
<1>8. Max(S) \in S /\ \A y \in S : Max(S) >= y
  BY <1>4, <1>5, MaxOfFinite
<1>9. Max(S) \in Int
  BY <1>5, <1>8
<1> QED
  BY <1>6, <1>7, <1>8, <1>9

LEMMA SpreadClaimUpper ==
  ASSUME NEW lower, NEW upper, NEW omits
  PROVE  Upper(SpreadClaim(lower, upper, omits)) = upper
<1>1. SpreadClaim(lower, upper, omits).upper = upper
  BY DEF SpreadClaim, Claimed
<1>2. SpreadClaim(lower, upper, omits).knowledge # "approximate"
  BY DEF SpreadClaim, Claimed
<1> QED
  BY <1>1, <1>2 DEF Upper

(* No two members of a group arrive further apart than its skew claim says *)
(* they may, if it says so at all.                                         *)
LEMMA SkewBounds ==
  ASSUME IInv, NEW M \in SUBSET Path, Upper(SkewClaim(M)) # NoBound,
         NEW p \in M, NEW q \in M
  PROVE  /\ Upper(SkewClaim(M)) \in Int
         /\ delay[p] - delay[q] <= Upper(SkewClaim(M))
<1> DEFINE lo == [m \in M |-> Lower(claim[m])]
           hi == [m \in M |-> Upper(claim[m])]
           upper == SpreadUpper(M, lo, hi)
<1>1. /\ \A m \in M : claim[m].knowledge # "unknown"
      /\ SkewClaim(M) = SpreadClaim(SpreadLower(M, lo, hi), upper,
                                    \E m \in M : claim[m].omits)
  <2>1. Upper(Unsupported) = NoBound
    BY DEF Upper, Unsupported
  <2> QED BY <2>1 DEF SkewClaim
<1>2. Upper(SkewClaim(M)) = upper
  <2> DEFINE lower == SpreadLower(M, lo, hi)
             omits == \E m \in M : claim[m].omits
  <2>1. SkewClaim(M) = SpreadClaim(lower, upper, omits)
    BY <1>1
  <2> HIDE DEF lower, upper, omits
  <2>2. Upper(SpreadClaim(lower, upper, omits)) = upper
    BY SpreadClaimUpper
  <2> QED BY <2>1, <2>2
<1>3. \A m \in M : hi[m] # NoBound
  BY <1>2 DEF SpreadUpper
<1>4. ASSUME NEW m \in M
      PROVE  /\ lo[m] \in Int /\ hi[m] \in Int /\ delay[m] \in Int
             /\ lo[m] <= delay[m] /\ delay[m] <= hi[m]
  <2>1. claim[m].knowledge \in {"exact", "interval"}
    BY <1>1, <1>3 DEF IInv, ResultsInv, ClaimKinds, PathsBracketed, Valid,
                      Shape, Upper
  <2>2. Valid(claim[m]) /\ Admits(claim[m], delay[m]) /\ delay[m] \in Nat
    BY DEF IInv, TypeOK, ResultsInv, PathsBracketed
  <2>3. Lower(claim[m]) \in Int /\ Upper(claim[m]) \in Int
    BY <2>1, <2>2 DEF Valid, Shape, Lower, Upper
  <2> QED
    BY <2>2, <2>3, ClaimAssumption DEF Admits
<1>5. IsFiniteSet(M)
  BY FS_Subset, TimingAssumption
<1> HIDE DEF lo, hi
<1>6. /\ upper \in Int /\ upper >= 0
      /\ p # q => upper >= hi[p] - lo[q]
  BY <1>4, <1>5, SpreadUpperBounds
<1> QED
  BY <1>2, <1>4, <1>6

LEMMA LengthBounds ==
  ASSUME IInv, NEW M \in SUBSET Path, NEW p \in M, NEW q \in M
  PROVE  /\ Upper(LengthClaim(M)) \in Int
         /\ copper[p] - copper[q] <= Upper(LengthClaim(M))
<1> DEFINE lo == [m \in M |-> length[m] - span[m]]
           hi == [m \in M |-> length[m] + span[m]]
           upper == SpreadUpper(M, lo, hi)
<1>1. LengthClaim(M) = SpreadClaim(SpreadLower(M, lo, hi), upper, FALSE)
  BY DEF LengthClaim
<1>2. Upper(LengthClaim(M)) = upper
  <2> DEFINE lower == SpreadLower(M, lo, hi)
             omits == FALSE
  <2>1. LengthClaim(M) = SpreadClaim(lower, upper, omits)
    BY <1>1
  <2> HIDE DEF lower, upper, omits
  <2>2. Upper(SpreadClaim(lower, upper, omits)) = upper
    BY SpreadClaimUpper
  <2> QED BY <2>1, <2>2
<1>3. ASSUME NEW m \in M
      PROVE  /\ lo[m] \in Int /\ hi[m] \in Int /\ copper[m] \in Int
             /\ lo[m] <= copper[m] /\ copper[m] <= hi[m]
  BY DEF IInv, TypeOK, ResultsInv, LengthsBracketed
<1>4. IsFiniteSet(M)
  BY FS_Subset, TimingAssumption
<1> HIDE DEF lo, hi
<1>5. /\ upper \in Int /\ upper >= 0
      /\ p # q => upper >= hi[p] - lo[q]
  BY <1>3, <1>4, SpreadUpperBounds
<1> QED
  BY <1>2, <1>3, <1>5

(* A board that all three gates accept keeps every limit its manifest      *)
(* declares: each declared path is on it and takes no longer than allowed, *)
(* and no two paths of the group arrive, or are, further apart.            *)
THEOREM AcceptanceIsSound == Spec => []AcceptedMeetsLimits
<1>1. IInv => AcceptedMeetsLimits
  <2> SUFFICES ASSUME IInv, Accepted
               PROVE  /\ \A p \in Path : Within(delay[p], limit["delay"])
                      /\ \A p, q \in group :
                           /\ Within(delay[p] - delay[q], limit["skew"])
                           /\ Within(copper[p] - copper[q], limit["spread"])
    BY DEF AcceptedMeetsLimits
  <2>1. \A g \in Gates : gate[g] \in Accepting
    BY DEF Accepted, Accepting
  <2>2. resolved = Path /\ group \cap resolved = group
    BY <2>1 DEF IInv, TypeOK, IntegrityInv, Gates
  <2>3. \A k \in Kinds : limit[k] # NoBound => limit[k] \in Int
    BY TimingAssumption DEF IInv, TypeOK
  <2>4. ASSUME NEW p \in Path, limit["delay"] # NoBound
        PROVE  delay[p] <= limit["delay"]
    <3>1. ~MaximumProblem(claim[p], limit["delay"])
      BY <2>1, <2>2 DEF IInv, DelayInv, Gates
    <3>2. Upper(claim[p]) # NoBound /\ Upper(claim[p]) <= limit["delay"]
      BY <2>3, <2>4, <3>1, AcceptedMaximum DEF Kinds
    <3>3. /\ Valid(claim[p]) /\ Admits(claim[p], delay[p])
          /\ claim[p] \in Claims /\ delay[p] \in Nat
      BY DEF IInv, TypeOK, ResultsInv, PathsBracketed
    <3>4. Upper(claim[p]) \in Int /\ delay[p] <= Upper(claim[p])
      BY <3>2, <3>3, BoundsType DEF Admits
    <3> QED
      BY <2>3, <2>4, <3>2, <3>3, <3>4 DEF Kinds
  <2>5. ASSUME NEW p \in group, NEW q \in group, limit["skew"] # NoBound
        PROVE  delay[p] - delay[q] <= limit["skew"]
    <3>1. ~MaximumProblem(SkewClaim(group), limit["skew"])
      BY <2>1, <2>2 DEF IInv, SkewInv, Gates
    <3>2. /\ Upper(SkewClaim(group)) # NoBound
          /\ Upper(SkewClaim(group)) <= limit["skew"]
      BY <2>3, <2>5, <3>1, AcceptedMaximum DEF Kinds
    <3>3. group \in SUBSET Path /\ delay \in [Path -> Nat]
      BY DEF IInv, TypeOK
    <3>4. /\ Upper(SkewClaim(group)) \in Int
          /\ delay[p] - delay[q] <= Upper(SkewClaim(group))
      BY <3>2, <3>3, SkewBounds
    <3> QED
      BY <2>3, <2>5, <3>2, <3>3, <3>4 DEF Kinds
  <2>6. ASSUME NEW p \in group, NEW q \in group, limit["spread"] # NoBound
        PROVE  copper[p] - copper[q] <= limit["spread"]
    <3>1. ~MaximumProblem(LengthClaim(group), limit["spread"])
      BY <2>1, <2>2 DEF IInv, SkewInv, Gates
    <3>2. Upper(LengthClaim(group)) <= limit["spread"]
      BY <2>3, <2>6, <3>1, AcceptedMaximum DEF Kinds
    <3>3. group \in SUBSET Path /\ copper \in [Path -> Nat]
      BY DEF IInv, TypeOK
    <3>4. /\ Upper(LengthClaim(group)) \in Int
          /\ copper[p] - copper[q] <= Upper(LengthClaim(group))
      BY <3>3, LengthBounds
    <3> QED
      BY <2>3, <2>6, <3>2, <3>3, <3>4 DEF Kinds
  <2> QED
    BY <2>4, <2>5, <2>6 DEF Within
<1> QED
  BY <1>1, Invariance, PTL
-----------------------------------------------------------------------------
(* What a reported violation establishes.                                  *)

LEMMA MinOfFinite ==
  ASSUME NEW S \in SUBSET Int, IsFiniteSet(S), S # {}
  PROVE  Min(S) \in S /\ \A y \in S : Min(S) <= y
<1> DEFINE T == {-x : x \in S}
           flip == [x \in S |-> -x]
<1>1. flip \in Surjection(S, T)
  BY DEF Surjection
<1>2. IsFiniteSet(T)
  <2> HIDE DEF T, flip
  <2> QED BY <1>1, FS_Surjection
<1>3. T \in SUBSET Int /\ T # {}
  OBVIOUS
<1>4. PICK t \in T : \A y \in T : t >= y
  <2> HIDE DEF T
  <2> QED BY <1>2, <1>3, FiniteHasMax
<1>5. PICK x \in S : t = -x
  BY <1>4
<1>6. \A y \in S : x <= y
  <2> TAKE y \in S
  <2>1. -x >= -y
    BY <1>4, <1>5
  <2> QED BY <2>1
<1> QED
  BY <1>5, <1>6 DEF Min

LEMMA ImageOfFinite ==
  ASSUME NEW M, IsFiniteSet(M), NEW f
  PROVE  IsFiniteSet({f[m] : m \in M})
<1> DEFINE g == [m \in M |-> f[m]]
           T == {f[m] : m \in M}
<1>1. g \in Surjection(M, T)
  BY DEF Surjection
<1> HIDE DEF g, T
<1>2. IsFiniteSet(T)
  BY <1>1, FS_Surjection
<1> QED
  BY <1>2 DEF T

\* The spread of a group is how far the two members furthest apart are.
LEMMA SpreadIsMax ==
  ASSUME NEW M, IsFiniteSet(M), M # {}, NEW x, \A m \in M : x[m] \in Int
  PROVE  /\ Spread(x, M) \in Int
         /\ \A p, q \in M : Spread(x, M) >= x[p] - x[q]
         /\ \E p, q \in M : Spread(x, M) = x[p] - x[q]
<1> DEFINE apart == [r \in M \X M |-> x[r[1]] - x[r[2]]]
           S     == {x[r[1]] - x[r[2]] : r \in M \X M}
<1>1. IsFiniteSet(M \X M)
  BY FS_Product
<1>2. apart \in Surjection(M \X M, S)
  BY DEF Surjection
<1>3. IsFiniteSet(S)
  <2> HIDE DEF S, apart
  <2> QED BY <1>1, <1>2, FS_Surjection
<1>4. /\ S \in SUBSET Int /\ S # {} /\ \A p, q \in M : x[p] - x[q] \in S
      /\ \A y \in S : \E p, q \in M : y = x[p] - x[q]
  <2>1. ASSUME NEW p \in M, NEW q \in M PROVE x[p] - x[q] \in S
    <3>1. <<p, q>> \in M \X M
      OBVIOUS
    <3>2. x[<<p, q>>[1]] - x[<<p, q>>[2]] \in S
      BY <3>1
    <3> QED BY <3>2
  <2>2. S \in SUBSET Int
    OBVIOUS
  <2>3. ASSUME NEW r \in M \X M
        PROVE  \E p, q \in M : x[r[1]] - x[r[2]] = x[p] - x[q]
    <3>1. r[1] \in M /\ r[2] \in M
      OBVIOUS
    <3> QED BY <3>1
  <2>4. \A y \in S : \E p, q \in M : y = x[p] - x[q]
    BY <2>3
  <2> HIDE DEF S
  <2> QED BY <2>1, <2>2, <2>4
<1>5. Spread(x, M) = Max(S)
  BY DEF Spread
<1> HIDE DEF S
<1>6. Max(S) \in S /\ \A y \in S : Max(S) >= y
  BY <1>3, <1>4, MaxOfFinite
<1> QED
  BY <1>4, <1>5, <1>6

\* The lower end of a spread is no more than the members are apart, whatever
\* values within their ends they take.
LEMMA SpreadLowerBounds ==
  ASSUME NEW M, IsFiniteSet(M), M # {}, NEW lo, NEW hi, NEW x,
         \A m \in M : /\ lo[m] \in Int /\ hi[m] \in Int \cup {NoBound}
                      /\ x[m] \in Int /\ lo[m] <= x[m]
                      /\ hi[m] # NoBound => x[m] <= hi[m]
  PROVE  /\ SpreadLower(M, lo, hi) \in Int
         /\ SpreadLower(M, lo, hi) <= Spread(x, M)
<1> DEFINE los  == {lo[m] : m \in M}
           his  == {hi[m] : m \in M}
           ends == his \ {NoBound}
<1>1. /\ Spread(x, M) \in Int /\ Spread(x, M) >= 0
      /\ \A p, q \in M : Spread(x, M) >= x[p] - x[q]
  <2>1. /\ Spread(x, M) \in Int
        /\ \A p, q \in M : Spread(x, M) >= x[p] - x[q]
    BY SpreadIsMax
  <2>2. PICK m \in M : TRUE
    OBVIOUS
  <2>3. Spread(x, M) >= x[m] - x[m] /\ x[m] \in Int
    BY <2>1
  <2> QED BY <2>1, <2>3
<1>2. CASE ends = {}
  <2>1. SpreadLower(M, lo, hi) = 0
    BY <1>2 DEF SpreadLower
  <2> QED BY <1>1, <2>1
<1>3. CASE ends # {}
  <2>1. IsFiniteSet(los) /\ los \in SUBSET Int /\ los # {}
    BY ImageOfFinite
  <2>2. IsFiniteSet(ends) /\ ends \in SUBSET Int
    <3>1. IsFiniteSet(his)
      BY ImageOfFinite
    <3>2. IsFiniteSet(ends)
      <4> HIDE DEF his
      <4> QED BY <3>1, FS_Subset
    <3> QED BY <3>2
  <2> DEFINE gap == Max(los) - Min(ends)
  <2>3. SpreadLower(M, lo, hi) = Max({0, gap})
    BY <1>3 DEF SpreadLower
  <2>4. \A l \in los : \E m \in M : l = lo[m]
    OBVIOUS
  <2>5. \A h \in ends : h # NoBound /\ \E m \in M : h = hi[m]
    OBVIOUS
  <2> HIDE DEF los, ends
  <2>6. Max(los) \in los
    BY <2>1, MaxOfFinite
  <2>7. Min(ends) \in ends
    BY <1>3, <2>2, MinOfFinite
  <2>8. PICK p \in M : Max(los) = lo[p]
    BY <2>4, <2>6
  <2>9. PICK q \in M : Min(ends) = hi[q] /\ hi[q] # NoBound
    BY <2>5, <2>7
  <2>10. /\ gap = lo[p] - hi[q] /\ gap \in Int
         /\ gap <= x[p] - x[q]
    BY <2>8, <2>9
  <2>11. Spread(x, M) >= x[p] - x[q] /\ x[p] \in Int /\ x[q] \in Int
    BY <1>1
  <2> HIDE DEF gap
  <2>12. Max({0, gap}) = IF 0 >= gap THEN 0 ELSE gap
    BY <2>10, MaxOfTwo
  <2> QED BY <1>1, <2>3, <2>10, <2>11, <2>12
<1> QED
  BY <1>2, <1>3

LEMMA SpreadClaimLower ==
  ASSUME NEW lower, NEW upper, NEW omits
  PROVE  Lower(SpreadClaim(lower, upper, omits)) = lower
<1>1. SpreadClaim(lower, upper, omits).lower = lower
  BY DEF SpreadClaim, Claimed
<1>2. SpreadClaim(lower, upper, omits).knowledge # "approximate"
  BY DEF SpreadClaim, Claimed
<1> QED
  BY <1>1, <1>2 DEF Lower

LEMMA ExceededMaximum ==
  ASSUME NEW c, NEW maximum \in Int, Exceeds(c, maximum)
  PROVE  Lower(c) # NoBound /\ maximum < Lower(c)
<1>1. Fails(c, Maximum(maximum))
  BY DEF Exceeds, Verdict
<1>2. Below(maximum + 0, Lower(c))
  BY <1>1 DEF Fails, Maximum
<1> QED
  BY <1>2 DEF Below

\* A skew that is said to exceed a limit does.
LEMMA SkewExceeded ==
  ASSUME IInv, NEW M \in SUBSET Path, M # {}, NEW maximum \in Int,
         Exceeds(SkewClaim(M), maximum)
  PROVE  Spread(delay, M) > maximum
<1> DEFINE lo == [m \in M |-> Lower(claim[m])]
           hi == [m \in M |-> Upper(claim[m])]
           lower == SpreadLower(M, lo, hi)
           upper == SpreadUpper(M, lo, hi)
           omits == \E m \in M : claim[m].omits
<1>1. Lower(SkewClaim(M)) # NoBound /\ maximum < Lower(SkewClaim(M))
  BY ExceededMaximum
<1>2. /\ \A m \in M : claim[m].knowledge # "unknown"
      /\ SkewClaim(M) = SpreadClaim(lower, upper, omits)
  <2>1. Lower(Unsupported) = NoBound
    BY DEF Lower, Unsupported
  <2> QED BY <1>1, <2>1 DEF SkewClaim
<1>3. Lower(SkewClaim(M)) = lower
  <2> HIDE DEF lower, upper, omits
  <2>1. Lower(SpreadClaim(lower, upper, omits)) = lower
    BY SpreadClaimLower
  <2> QED BY <1>2, <2>1
<1>4. ASSUME NEW m \in M
      PROVE  /\ lo[m] \in Int /\ hi[m] \in Int \cup {NoBound}
             /\ delay[m] \in Int /\ lo[m] <= delay[m]
             /\ hi[m] # NoBound => delay[m] <= hi[m]
  <2>1. claim[m].knowledge \in {"exact", "interval", "lower_bound"}
    BY <1>2 DEF IInv, ResultsInv, ClaimKinds
  <2>2. /\ Valid(claim[m]) /\ Admits(claim[m], delay[m])
        /\ claim[m] \in Claims /\ delay[m] \in Nat
    BY DEF IInv, TypeOK, ResultsInv, PathsBracketed
  <2>3. Lower(claim[m]) \in Int
    BY <2>1, <2>2 DEF Valid, Shape, Lower
  <2>4. Upper(claim[m]) \in Int \cup {NoBound}
    BY <2>2, BoundsType
  <2> QED
    BY <2>2, <2>3, <2>4, ClaimAssumption DEF Admits
<1>5. IsFiniteSet(M)
  BY FS_Subset, TimingAssumption
<1> HIDE DEF lo, hi
<1>6. lower \in Int /\ lower <= Spread(delay, M)
  BY <1>4, <1>5, SpreadLowerBounds
<1>7. Spread(delay, M) \in Int
  BY <1>4, <1>5, SpreadIsMax
<1> HIDE DEF lower
<1> QED
  BY <1>1, <1>3, <1>6, <1>7

LEMMA LengthExceeded ==
  ASSUME IInv, NEW M \in SUBSET Path, M # {}, NEW maximum \in Int,
         Exceeds(LengthClaim(M), maximum)
  PROVE  Spread(copper, M) > maximum
<1> DEFINE lo == [m \in M |-> length[m] - span[m]]
           hi == [m \in M |-> length[m] + span[m]]
           lower == SpreadLower(M, lo, hi)
           upper == SpreadUpper(M, lo, hi)
<1>1. Lower(LengthClaim(M)) # NoBound /\ maximum < Lower(LengthClaim(M))
  BY ExceededMaximum
<1>2. LengthClaim(M) = SpreadClaim(lower, upper, FALSE)
  BY DEF LengthClaim
<1>3. Lower(LengthClaim(M)) = lower
  <2> HIDE DEF lower, upper
  <2>1. Lower(SpreadClaim(lower, upper, FALSE)) = lower
    BY SpreadClaimLower
  <2> QED BY <1>2, <2>1
<1>4. ASSUME NEW m \in M
      PROVE  /\ lo[m] \in Int /\ hi[m] \in Int \cup {NoBound}
             /\ copper[m] \in Int /\ lo[m] <= copper[m]
             /\ hi[m] # NoBound => copper[m] <= hi[m]
  BY DEF IInv, TypeOK, ResultsInv, LengthsBracketed
<1>5. IsFiniteSet(M)
  BY FS_Subset, TimingAssumption
<1> HIDE DEF lo, hi
<1>6. lower \in Int /\ lower <= Spread(copper, M)
  BY <1>4, <1>5, SpreadLowerBounds
<1>7. Spread(copper, M) \in Int
  BY <1>4, <1>5, SpreadIsMax
<1> HIDE DEF lower
<1> QED
  BY <1>1, <1>3, <1>6, <1>7

(* A limit reported as exceeded is exceeded: by the path's real delay, by  *)
(* the group's real skew, or by the real spread of its lengths.            *)
THEOREM ViolationsAreTrue == Spec => []ViolationsAreReal
<1>1. IInv => ViolationsAreReal
  <2> DEFINE members == group \cap resolved
  <2> SUFFICES ASSUME IInv
               PROVE  /\ \A p \in resolved :
                           Exceeds(claim[p], limit["delay"]) =>
                             delay[p] > limit["delay"]
                      /\ members # {} =>
                           /\ Exceeds(SkewClaim(members), limit["skew"]) =>
                                Spread(delay, members) > limit["skew"]
                           /\ Exceeds(LengthClaim(members), limit["spread"]) =>
                                Spread(copper, members) > limit["spread"]
    BY DEF ViolationsAreReal
  <2>1. \A k \in Kinds : limit[k] # NoBound => limit[k] \in Int
    BY TimingAssumption DEF IInv, TypeOK
  <2>2. \A c : \A k \in Kinds : Exceeds(c, limit[k]) => limit[k] \in Int
    BY <2>1 DEF Exceeds
  <2>3. resolved \in SUBSET Path /\ members \in SUBSET Path
    BY DEF IInv, TypeOK
  <2>4. ASSUME NEW p \in resolved, Exceeds(claim[p], limit["delay"])
        PROVE  delay[p] > limit["delay"]
    <3>1. limit["delay"] \in Int
      BY <2>2, <2>4 DEF Kinds
    <3>2. Lower(claim[p]) # NoBound /\ limit["delay"] < Lower(claim[p])
      BY <2>4, <3>1, ExceededMaximum
    <3>3. /\ Valid(claim[p]) /\ Admits(claim[p], delay[p])
          /\ claim[p] \in Claims /\ delay[p] \in Nat
      BY <2>3 DEF IInv, TypeOK, ResultsInv, PathsBracketed
    <3>4. Lower(claim[p]) \in Int /\ Lower(claim[p]) <= delay[p]
      BY <3>2, <3>3, BoundsType DEF Admits
    <3> QED BY <3>1, <3>2, <3>3, <3>4
  <2>5. ASSUME members # {}, Exceeds(SkewClaim(members), limit["skew"])
        PROVE  Spread(delay, members) > limit["skew"]
    <3>1. limit["skew"] \in Int
      BY <2>2, <2>5 DEF Kinds
    <3> HIDE DEF members
    <3> QED BY <2>3, <2>5, <3>1, SkewExceeded
  <2>6. ASSUME members # {}, Exceeds(LengthClaim(members), limit["spread"])
        PROVE  Spread(copper, members) > limit["spread"]
    <3>1. limit["spread"] \in Int
      BY <2>2, <2>6 DEF Kinds
    <3> HIDE DEF members
    <3> QED BY <2>3, <2>6, <3>1, LengthExceeded
  <2> QED BY <2>4, <2>5, <2>6
<1> QED
  BY <1>1, Invariance, PTL

-----------------------------------------------------------------------------
(* What a group's claim leaves open is possible.                           *)

\* Ends of a group's arrivals, none later than T.
Ends(M, lo, hi, T) ==
  \A m \in M : /\ lo[m] \in Nat /\ lo[m] <= T
               /\ hi[m] \in Int \cup {NoBound}
               /\ hi[m] # NoBound => lo[m] <= hi[m] /\ hi[m] <= T

Arrivals(M, lo, hi, T) ==
  {a \in [M -> 0 .. T] :
     \A m \in M : lo[m] <= a[m] /\ (hi[m] # NoBound => a[m] <= hi[m])}

LEMMA SpreadIs ==
  ASSUME NEW M, IsFiniteSet(M), NEW x, \A m \in M : x[m] \in Int,
         NEW v \in Int, \A p, q \in M : x[p] - x[q] <= v,
         NEW i \in M, NEW j \in M, x[i] - x[j] = v
  PROVE  Spread(x, M) = v
<1>1. /\ Spread(x, M) >= v /\ Spread(x, M) \in Int
      /\ \E p, q \in M : Spread(x, M) = x[p] - x[q]
  BY SpreadIsMax
<1>2. Spread(x, M) <= v
  BY <1>1
<1> QED
  BY <1>1, <1>2

\* When every member arrives as near to the latest lower end as its own ends
\* allow, the group is no further apart than the lower end of its spread.
LEMMA SpreadLowerRealised ==
  ASSUME NEW M, IsFiniteSet(M), M # {}, NEW lo, NEW hi, NEW T \in Nat,
         Ends(M, lo, hi, T)
  PROVE  \E a \in Arrivals(M, lo, hi, T) :
            Spread(a, M) = SpreadLower(M, lo, hi)
<1> DEFINE los  == {lo[m] : m \in M}
           his  == {hi[m] : m \in M}
           ends == his \ {NoBound}
           L    == Max(los)
           early(m) == hi[m] # NoBound /\ hi[m] < L
           a    == [m \in M |-> IF early(m) THEN hi[m] ELSE L]
<1>1. /\ IsFiniteSet(los) /\ los \in SUBSET Int /\ los # {}
      /\ \A l \in los : \E m \in M : l = lo[m]
      /\ \A m \in M : lo[m] \in los
  BY ImageOfFinite DEF Ends
<1>2. PICK p \in M : L = lo[p] /\ \A m \in M : L >= lo[m]
  <2> HIDE DEF los
  <2>1. L \in los /\ \A y \in los : L >= y
    BY <1>1, MaxOfFinite
  <2> QED BY <1>1, <2>1
<1> HIDE DEF los, L
<1>3. L \in Nat /\ L <= T
  BY <1>2 DEF Ends
<1>4. ASSUME NEW m \in M
      PROVE  /\ a[m] \in 0 .. T /\ lo[m] <= a[m] /\ a[m] <= L
             /\ hi[m] # NoBound => a[m] <= hi[m]
             /\ a[m] = L \/ (early(m) /\ a[m] = hi[m])
  <2>1. CASE early(m)
    BY <1>2, <1>3, <2>1 DEF Ends
  <2>2. CASE ~early(m)
    BY <1>2, <1>3, <2>2 DEF Ends
  <2> QED BY <2>1, <2>2
<1>5. a \in Arrivals(M, lo, hi, T)
  <2>1. a \in [M -> 0 .. T]
    BY <1>4
  <2> HIDE DEF a
  <2> QED BY <1>4, <2>1 DEF Arrivals
<1>6. a[p] = L
  BY <1>2, <1>3, <1>4 DEF Ends
<1>7. \A m \in M : a[m] \in Int
  BY <1>4
<1>8. CASE ends = {}
  <2>1. \A m \in M : hi[m] = NoBound
    BY <1>8
  <2>2. \A m \in M : a[m] = L
    BY <1>4, <2>1
  <2>3. SpreadLower(M, lo, hi) = 0
    BY <1>8 DEF SpreadLower
  <2> HIDE DEF a
  <2>4. Spread(a, M) = 0
    BY <1>3, <2>2, SpreadIs
  <2> QED BY <1>5, <2>3, <2>4
<1>9. CASE ends # {}
  <2> DEFINE gap == L - Min(ends)
             v   == IF 0 >= gap THEN 0 ELSE gap
  <2>1. IsFiniteSet(ends) /\ ends \in SUBSET Int
    <3>1. IsFiniteSet(his)
      BY ImageOfFinite
    <3>2. IsFiniteSet(ends)
      <4> HIDE DEF his
      <4> QED BY <3>1, FS_Subset
    <3> QED BY <3>2 DEF Ends
  <2>2. /\ \A h \in ends : h # NoBound /\ \E m \in M : h = hi[m]
        /\ \A m \in M : hi[m] # NoBound => hi[m] \in ends
    OBVIOUS
  <2>3. SpreadLower(M, lo, hi) = Max({0, gap})
    BY <1>9 DEF SpreadLower, L, los
  <2> HIDE DEF ends
  <2>4. Min(ends) \in ends /\ \A y \in ends : Min(ends) <= y
    BY <1>9, <2>1, MinOfFinite
  <2>5. PICK q \in M : Min(ends) = hi[q] /\ hi[q] # NoBound
    BY <2>2, <2>4
  <2>6. Min(ends) \in Int /\ gap \in Int /\ v \in Int
    <3>1. Min(ends) \in Int
      BY <2>1, <2>4
    <3>2. gap \in Int
      BY <1>3, <3>1
    <3> HIDE DEF gap
    <3> QED BY <3>1, <3>2
  <2>7. Max({0, gap}) = v
    <3> HIDE DEF gap
    <3> QED BY <2>6, MaxOfTwo
  <2>8. \A m \in M : a[m] = L \/ (a[m] \in Int /\ a[m] >= Min(ends))
    BY <1>4, <1>7, <2>2, <2>4
  <2>9. \A i, j \in M : a[i] - a[j] <= v
    <3> HIDE DEF a
    <3> QED BY <1>3, <1>4, <1>7, <2>6, <2>8
  <2>10. \E j \in M : a[p] - a[j] = v
    <3>1. CASE 0 >= gap
      BY <1>3, <1>6, <3>1
    <3>2. CASE ~(0 >= gap)
      <4>1. early(q)
        BY <1>3, <2>5, <2>6, <3>2
      <4>2. a[q] = hi[q]
        BY <4>1
      <4> QED BY <1>6, <2>5, <3>2, <4>2
    <3> QED BY <3>1, <3>2
  <2> HIDE DEF a, v
  <2>11. Spread(a, M) = v
    BY <1>7, <2>6, <2>9, <2>10, SpreadIs
  <2> QED BY <1>5, <2>3, <2>7, <2>11
<1> QED
  BY <1>8, <1>9

\* Two members that arrive as far apart as their ends allow are as far apart
\* as the group can be.
LEMMA SpreadUpperRealised ==
  ASSUME NEW M, IsFiniteSet(M), M # {}, NEW lo, NEW hi, NEW T \in Nat,
         Ends(M, lo, hi, T), \A m \in M : hi[m] # NoBound
  PROVE  /\ \A a \in Arrivals(M, lo, hi, T) :
              Spread(a, M) <= SpreadUpper(M, lo, hi)
         /\ \E a \in Arrivals(M, lo, hi, T) :
              Spread(a, M) = SpreadUpper(M, lo, hi)
<1> DEFINE upper == SpreadUpper(M, lo, hi)
<1>1. \A m \in M : lo[m] \in Nat /\ hi[m] \in Int /\ lo[m] <= hi[m]
                     /\ lo[m] <= T /\ hi[m] <= T
  BY DEF Ends
<1>2. /\ upper \in Int /\ upper >= 0
      /\ \A p, q \in M : p # q => upper >= hi[p] - lo[q]
  BY <1>1, SpreadUpperBounds
<1>3. \/ upper = 0
      \/ \E p, q \in M : p # q /\ upper = hi[p] - lo[q]
  BY <1>1, SpreadUpperBounds
<1> HIDE DEF upper
<1>4. ASSUME NEW a \in Arrivals(M, lo, hi, T)
      PROVE  /\ \A m \in M : a[m] \in Int
             /\ \A p, q \in M : a[p] - a[q] <= upper
  <2>1. \A m \in M : a[m] \in Int /\ lo[m] <= a[m] /\ a[m] <= hi[m]
    BY DEF Arrivals
  <2>2. ASSUME NEW p \in M, NEW q \in M PROVE a[p] - a[q] <= upper
    <3>1. CASE p = q
      BY <1>2, <2>1, <3>1
    <3>2. CASE p # q
      <4>1. upper >= hi[p] - lo[q]
        BY <1>2, <3>2
      <4> QED BY <1>1, <1>2, <2>1, <4>1
    <3> QED BY <3>1, <3>2
  <2> QED BY <2>1, <2>2
<1>5. ASSUME NEW a \in Arrivals(M, lo, hi, T),
             NEW p \in M, NEW q \in M, a[p] - a[q] = upper
      PROVE  Spread(a, M) = upper
  BY <1>2, <1>4, <1>5, SpreadIs
<1>6. ASSUME NEW p \in M, NEW q \in M, p # q
      PROVE  \E a \in Arrivals(M, lo, hi, T) : a[p] = hi[p] /\ a[q] = lo[q]
  <2> DEFINE a == [m \in M |-> IF m = p THEN hi[m] ELSE lo[m]]
  <2>1. a \in [M -> 0 .. T]
    BY <1>1
  <2>2. \A m \in M : lo[m] <= a[m] /\ a[m] <= hi[m]
    BY <1>1
  <2>3. a[p] = hi[p] /\ a[q] = lo[q]
    BY <1>6
  <2> HIDE DEF a
  <2> QED BY <2>1, <2>2, <2>3 DEF Arrivals
<1>7. \E a \in Arrivals(M, lo, hi, T) : TRUE
  BY SpreadLowerRealised
<1>8. \E a \in Arrivals(M, lo, hi, T) : Spread(a, M) = upper
  <2>1. CASE \E p, q \in M : p # q /\ upper = hi[p] - lo[q]
    BY <1>5, <1>6, <2>1
  <2>2. CASE upper = 0
    <3>1. PICK a \in Arrivals(M, lo, hi, T) : TRUE
      BY <1>7
    <3>2. PICK m \in M : TRUE
      OBVIOUS
    <3>3. a[m] - a[m] = upper
      BY <1>4, <2>2
    <3> QED BY <1>5, <3>3
  <2> QED BY <1>3, <2>1, <2>2
<1>9. ASSUME NEW a \in Arrivals(M, lo, hi, T) PROVE Spread(a, M) <= upper
  <2>1. PICK p, q \in M : Spread(a, M) = a[p] - a[q]
    BY <1>4, SpreadIsMax
  <2> QED BY <1>4, <2>1
<1> QED
  BY <1>8, <1>9 DEF upper

\* The ends of a group's spread are those of the arrivals its ends admit.
LEMMA SpreadsTight ==
  ASSUME NEW M, IsFiniteSet(M), M # {}, NEW lo, NEW hi, NEW T \in Nat,
         Ends(M, lo, hi, T),
         NEW spreads, spreads = {Spread(a, M) : a \in Arrivals(M, lo, hi, T)}
  PROVE  /\ Min(spreads) = SpreadLower(M, lo, hi)
         /\ (\A m \in M : hi[m] # NoBound) =>
              Max(spreads) = SpreadUpper(M, lo, hi)
<1>1. ASSUME NEW a \in Arrivals(M, lo, hi, T)
      PROVE  /\ Spread(a, M) \in Int
             /\ SpreadLower(M, lo, hi) \in Int
             /\ SpreadLower(M, lo, hi) <= Spread(a, M)
  <2>1. \A m \in M : a[m] \in Int
    BY DEF Arrivals
  <2>2. \A m \in M : /\ lo[m] \in Int /\ hi[m] \in Int \cup {NoBound}
                     /\ a[m] \in Int /\ lo[m] <= a[m]
                     /\ hi[m] # NoBound => a[m] <= hi[m]
    BY <2>1 DEF Arrivals, Ends
  <2>3. /\ SpreadLower(M, lo, hi) \in Int
        /\ SpreadLower(M, lo, hi) <= Spread(a, M)
    BY <2>2, SpreadLowerBounds
  <2>4. Spread(a, M) \in Int
    BY <2>1, SpreadIsMax
  <2> QED BY <2>3, <2>4
<1>2. SpreadLower(M, lo, hi) \in spreads
  BY SpreadLowerRealised
<1>3. \A y \in spreads : y \in Int /\ SpreadLower(M, lo, hi) <= y
  BY <1>1
<1>4. \A x \in spreads :
        (\A y \in spreads : x <= y) => x = SpreadLower(M, lo, hi)
  BY <1>2, <1>3
<1>5. Min(spreads) = SpreadLower(M, lo, hi)
  <2>1. Min(spreads) \in spreads /\ \A y \in spreads : Min(spreads) <= y
    BY <1>2, <1>3 DEF Min
  <2> QED BY <1>4, <2>1
<1>6. ASSUME \A m \in M : hi[m] # NoBound
      PROVE  Max(spreads) = SpreadUpper(M, lo, hi)
  <2>1. /\ SpreadUpper(M, lo, hi) \in spreads
        /\ \A y \in spreads : y <= SpreadUpper(M, lo, hi)
    BY <1>6, SpreadUpperRealised
  <2>2. \A y \in spreads : SpreadUpper(M, lo, hi) >= y
    BY <1>3, <2>1
  <2>3. \A x \in spreads :
          (\A y \in spreads : x >= y) => x = SpreadUpper(M, lo, hi)
    BY <1>3, <2>1, <2>2
  <2>4. Max(spreads) \in spreads /\ \A y \in spreads : Max(spreads) >= y
    BY <2>1, <2>2 DEF Max
  <2> QED BY <2>3, <2>4
<1> QED
  BY <1>5, <1>6

(* The skew claim of a group says no more and no less than its members'    *)
(* claims do: both its ends are reached by arrivals they admit together.   *)
THEOREM SpreadIsExact == Spec => []SpreadIsTight
<1>1. ASSUME IInv, NEW M \in (SUBSET resolved) \ {{}}, SkewClaim(M).applicable
      PROVE
        LET skew     == SkewClaim(M)
            ends     == {Lower(claim[m]) : m \in M}
                          \cup {Upper(claim[m]) : m \in M}
            arrivals == {a \in [M -> 0 .. Max(ends \ {NoBound})] :
                           \A m \in M : Admits(claim[m], a[m])}
            spreads  == {Spread(a, M) : a \in arrivals}
        IN  /\ Min(spreads) = Lower(skew)
            /\ Upper(skew) # NoBound => Max(spreads) = Upper(skew)
  <2> DEFINE lo == [m \in M |-> Lower(claim[m])]
             hi == [m \in M |-> Upper(claim[m])]
             ends == {Lower(claim[m]) : m \in M}
                       \cup {Upper(claim[m]) : m \in M}
             T == Max(ends \ {NoBound})
             arrivals == {a \in [M -> 0 .. T] :
                            \A m \in M : Admits(claim[m], a[m])}
             spreads == {Spread(a, M) : a \in arrivals}
             lower == SpreadLower(M, lo, hi)
             upper == SpreadUpper(M, lo, hi)
             omits == \E m \in M : claim[m].omits
  <2>1. M \in SUBSET Path /\ M # {} /\ IsFiniteSet(M)
    <3>1. M \in SUBSET Path /\ M # {}
      BY <1>1 DEF IInv, TypeOK
    <3> QED BY <3>1, TimingAssumption, FS_Subset
  <2>2. /\ \A m \in M : claim[m].knowledge # "unknown"
        /\ SkewClaim(M) = SpreadClaim(lower, upper, omits)
    BY <1>1 DEF SkewClaim, Unsupported
  <2>3. Lower(SkewClaim(M)) = lower /\ Upper(SkewClaim(M)) = upper
    <3> HIDE DEF lower, upper, omits
    <3>1. /\ Lower(SpreadClaim(lower, upper, omits)) = lower
          /\ Upper(SpreadClaim(lower, upper, omits)) = upper
      BY SpreadClaimLower, SpreadClaimUpper
    <3> QED BY <2>2, <3>1
  <2>4. ASSUME NEW m \in M
        PROVE  /\ Lower(claim[m]) \in Nat
               /\ Upper(claim[m]) \in Nat \cup {NoBound}
               /\ Upper(claim[m]) # NoBound =>
                    Lower(claim[m]) <= Upper(claim[m])
    <3>1. claim[m].knowledge \in {"exact", "interval", "lower_bound"}
      BY <1>1, <2>1, <2>2 DEF IInv, ResultsInv, ClaimKinds
    <3>2. /\ Valid(claim[m]) /\ claim[m] \in Claims
          /\ Lower(claim[m]) \in Nat \cup {NoBound}
      BY <1>1, <2>1 DEF IInv, TypeOK, ResultsInv, PathsBracketed
    <3>3. Lower(claim[m]) \in Int
      BY <3>1, <3>2 DEF Valid, Shape, Lower
    <3>4. Lower(claim[m]) \in Nat
      BY <3>2, <3>3, ClaimAssumption
    <3>5. Upper(claim[m]) \in Int \cup {NoBound}
      BY <3>2, BoundsType
    <3>6. Upper(claim[m]) # NoBound => Lower(claim[m]) <= Upper(claim[m])
      BY <3>2, <3>4, ClaimOrdered, ClaimAssumption
    <3> QED BY <3>4, <3>5, <3>6
  <2>5. /\ \A m \in M : Lower(claim[m]) \in ends \ {NoBound}
        /\ \A m \in M : Upper(claim[m]) # NoBound =>
                          Upper(claim[m]) \in ends \ {NoBound}
        /\ \A y \in ends \ {NoBound} : y \in Nat
    BY <2>4, ClaimAssumption
  <2>6. IsFiniteSet(ends \ {NoBound})
    <3>1. IsFiniteSet({lo[m] : m \in M}) /\ IsFiniteSet({hi[m] : m \in M})
      <4> HIDE DEF lo, hi
      <4> QED BY <2>1, ImageOfFinite
    <3>2. ends = {lo[m] : m \in M} \cup {hi[m] : m \in M}
      OBVIOUS
    <3>3. IsFiniteSet(ends)
      <4> HIDE DEF lo, hi, ends
      <4> QED BY <3>1, <3>2, FS_Union
    <3> HIDE DEF ends
    <3> QED BY <3>3, FS_Subset
  <2> HIDE DEF ends
  <2>7. T \in ends \ {NoBound} /\ \A y \in ends \ {NoBound} : T >= y
    <3>1. ends \ {NoBound} \in SUBSET Int /\ ends \ {NoBound} # {}
      BY <2>1, <2>5
    <3> QED BY <2>6, <3>1, MaxOfFinite
  <2>8. T \in Nat
    BY <2>5, <2>7
  <2> HIDE DEF T
  <2>9. Ends(M, lo, hi, T)
    BY <2>4, <2>5, <2>7, <2>8 DEF Ends
  <2>10. arrivals = Arrivals(M, lo, hi, T)
    <3>1. \A a \in [M -> 0 .. T] : \A m \in M :
            Admits(claim[m], a[m]) <=>
              lo[m] <= a[m] /\ (hi[m] # NoBound => a[m] <= hi[m])
      BY <2>4, ClaimAssumption DEF Admits
    <3> HIDE DEF lo, hi
    <3> QED BY <3>1 DEF Arrivals
  <2>11. spreads = {Spread(a, M) : a \in Arrivals(M, lo, hi, T)}
    <3> HIDE DEF arrivals
    <3> QED BY <2>10
  <2>12. Upper(SkewClaim(M)) # NoBound => \A m \in M : hi[m] # NoBound
    BY <2>3 DEF SpreadUpper
  <2> HIDE DEF spreads, lo, hi
  <2>13. /\ Min(spreads) = lower
         /\ (\A m \in M : hi[m] # NoBound) => Max(spreads) = upper
    BY <2>1, <2>8, <2>9, <2>11, SpreadsTight
  <2>14. /\ Min(spreads) = Lower(SkewClaim(M))
         /\ Upper(SkewClaim(M)) # NoBound =>
              Max(spreads) = Upper(SkewClaim(M))
    <3> HIDE DEF lower, upper
    <3> QED BY <2>3, <2>12, <2>13
  <2> QED BY <2>14, Zenon DEF spreads, arrivals, T, ends
<1>2. IInv => SpreadIsTight
  BY <1>1, Zenon DEF SpreadIsTight
<1> QED
  BY <1>2, Invariance, PTL
=============================================================================
