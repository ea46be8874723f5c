------------------------------- MODULE Claim -------------------------------
(***************************************************************************)
(* Numeric claims (pcbqa/claim.py): what is known of a quantity, and what  *)
(* a requirement concludes from it.  A claim has one of six knowledge      *)
(* shapes; only four of them bound the quantity.                           *)
(*                                                                         *)
(* Numbers are integers: the code rounds what it reports to the sixth      *)
(* decimal, and one unit here is one unit of that decimal.                 *)
(***************************************************************************)
EXTENDS Integers

CONSTANT NoBound    \* None: there is no such endpoint, or no such limit

ASSUME ClaimAssumption == NoBound \notin Int

Bounded    == {"lower_bound", "upper_bound", "interval", "approximate"}
Knowledge  == Bounded \cup {"exact", "unknown"}
Bases      == {"direct", "derived", "assumed"}

Endpoint == Int \cup {NoBound}

\* value is lower = upper for an exact or approximate claim; a bound leaves
\* the other endpoint out, and an unknown one both.
Claims ==
  [knowledge : Knowledge, lower : Endpoint, upper : Endpoint,
   basis : Bases \cup {"none"}, applicable : BOOLEAN, omits : BOOLEAN]

Claimed(knowledge, lower, upper, basis, omits) ==
  [knowledge |-> knowledge, lower |-> lower, upper |-> upper,
   basis |-> basis, applicable |-> TRUE, omits |-> omits]

Unsupported ==
  [knowledge |-> "unknown", lower |-> NoBound, upper |-> NoBound,
   basis |-> "none", applicable |-> FALSE, omits |-> FALSE]

\* The endpoints each knowledge shape populates.
Shape(c) ==
  /\ c.knowledge \in {"exact", "approximate"} =>
       c.lower \in Int /\ c.upper = c.lower
  /\ c.knowledge = "lower_bound" => c.lower \in Int /\ c.upper = NoBound
  /\ c.knowledge = "upper_bound" => c.lower = NoBound /\ c.upper \in Int
  /\ c.knowledge = "interval" =>
       c.lower \in Int /\ c.upper \in Int /\ c.lower <= c.upper
  /\ c.knowledge = "unknown" => c.lower = NoBound /\ c.upper = NoBound

\* validate(): what ClaimError refuses, the texts it also asks for aside
\* (identity, units, significance, the assumptions of an approximation).
Valid(c) ==
  /\ c \in Claims
  /\ Shape(c)
  /\ ~c.applicable => c.knowledge = "unknown"
  /\ c.knowledge \in Bounded => c.basis # "none"
  /\ c.knowledge = "exact" => c.basis # "assumed" /\ ~c.omits

\* bounds(): the endpoints a claim establishes.
Lower(c) == IF c.knowledge = "approximate" THEN NoBound ELSE c.lower
Upper(c) == IF c.knowledge = "approximate" THEN NoBound ELSE c.upper

AtMost(x, y)  == x # NoBound /\ y # NoBound /\ x <= y
Below(x, y)   == x # NoBound /\ y # NoBound /\ x < y

Requirements ==
  [op : {"<=", ">="}, value : Int, tolerance : {0}]
    \cup [op : {"within"}, value : Int, tolerance : Nat \ {0}]

Maximum(limit) == [op |-> "<=", value |-> limit, tolerance |-> 0]

\* verdict(): a conclusion only where every admitted value agrees on it.
Passes(c, r) ==
  /\ r.op # ">=" =>
       AtMost(Upper(c), r.value + r.tolerance)
  /\ r.op # "<=" =>
       AtMost(r.value - r.tolerance, Lower(c))

Fails(c, r) ==
  \/ r.op # ">=" /\ Below(r.value + r.tolerance, Lower(c))
  \/ r.op # "<=" /\ Below(Upper(c), r.value - r.tolerance)

Verdict(c, r) ==
  IF Passes(c, r) THEN "PASS" ELSE IF Fails(c, r) THEN "FAIL" ELSE "UNKNOWN"

-----------------------------------------------------------------------------
(* What claims and requirements mean.                                      *)

\* The quantity may be v, for all the claim says.
Admits(c, v) ==
  /\ Lower(c) # NoBound => Lower(c) <= v
  /\ Upper(c) # NoBound => v <= Upper(c)

Meets(v, r) ==
  /\ r.op # ">=" => v <= r.value + r.tolerance
  /\ r.op # "<=" => v >= r.value - r.tolerance
=============================================================================
