---------------------------- MODULE CatalogProof ----------------------------
(***************************************************************************)
(* Proofs about Catalog, for any pages, sessions, requirement files and    *)
(* closed forms.  The argument: a file that holds a snapshot holds one     *)
(* that an acquisition returned, whole, and of those only one that lost no *)
(* source and parsed passes the checks of a load; so whatever directories  *)
(* were torn, merged or half adopted before, what a command chooses from   *)
(* is named by the very pages whose files the evidence check found.  First *)
(* comes what needs no state: that the solver's inverse is exact.          *)
(*                                                                         *)
(* After the invariant, the answers.  Each of them is a function of the    *)
(* pages the catalog was read from, so its property is a lemma about those *)
(* pages: what is kept was stated whole on one of them, and what was       *)
(* stated whole is kept or the catalog is refused.  A profile, a stack and *)
(* a line are then read back to the statements they stand on.              *)
(***************************************************************************)
EXTENDS Catalog, FiniteSetTheorems, TLAPS

-----------------------------------------------------------------------------
(* The inverse of LineWidth is exact, for closed forms of any length and   *)
(* any values: what the solver finds piece by piece are the widths at      *)
(* which the production formula meets the target and the gaps in which it  *)
(* passes it, each of them once.  A branch that falls meets a target at    *)
(* one of its ends nowhere else, so refusing the target at an open end     *)
(* loses nothing but the limit that production does not take; and the two  *)
(* pieces share the seam as a point but only one of them owns it.          *)

\* A closed form over a domain of widths, as Problem makes them.
WellFormed(p) ==
  /\ p.lo \in Int /\ p.hi \in Int /\ p.seam \in Int /\ p.lo <= p.hi
  /\ p.owner \in {"left", "right"}
  /\ \A z \in {p.narrow, p.wide} :
       z \in [p.lo..p.hi -> Int] /\ Falls(z, p.lo..p.hi)

\* One branch over a part of its domain.
Branch(x) ==
  /\ x.a \in Int /\ x.b \in Int /\ x.a <= x.b
  /\ x.aClosed \in BOOLEAN /\ x.bClosed \in BOOLEAN
  /\ \A w \in x.a..x.b : x.z[w] \in Int
  /\ Falls(x.z, x.a..x.b)

\* The widths of a branch that count: an end only where the piece owns it.
Owned(x) == {w \in x.a..x.b : (w = x.a => x.aClosed) /\ (w = x.b => x.bClosed)}

Meets(x, target) == {w \in Owned(x) : x.z[w] = target}
Passes(x, target) ==
  {w \in x.a..(x.b - 1) : x.z[w] > target /\ target > x.z[w + 1]}

-----------------------------------------------------------------------------
\* A branch lies between its values at its two ends, and meets those there.
LEMMA EndsBound ==
  ASSUME NEW x, Branch(x), NEW w \in x.a..x.b
  PROVE  /\ x.z[w] <= x.z[x.a] /\ (x.z[w] = x.z[x.a] => w = x.a)
         /\ x.z[w] >= x.z[x.b] /\ (x.z[w] = x.z[x.b] => w = x.b)
<1>1. /\ x.a \in x.a..x.b /\ x.b \in x.a..x.b
      /\ x.z[x.a] \in Int /\ x.z[x.b] \in Int /\ x.z[w] \in Int
  BY DEF Branch
<1>2. w # x.a => x.z[x.a] > x.z[w]
  <2>1. w # x.a => x.a < w
    BY DEF Branch
  <2> QED BY <1>1, <2>1 DEF Branch, Falls
<1>3. w # x.b => x.z[w] > x.z[x.b]
  <2>1. w # x.b => w < x.b
    BY DEF Branch
  <2> QED BY <1>1, <2>1 DEF Branch, Falls
<1> QED BY <1>1, <1>2, <1>3

\* The search on one piece finds every width of it that meets the target, and
\* every gap of it in which the branch passes the target, and no other.
LEMMA SearchIsExact ==
  ASSUME NEW x, Branch(x), NEW target \in Int
  PROVE  RootsOn(x, target) = {<<w, w>> : w \in Meets(x, target)}
                                \cup {<<w, w + 1>> : w \in Passes(x, target)}
<1>1. CASE x.a = x.b
  <2>1. Passes(x, target) = {}
    BY <1>1 DEF Passes, Branch
  <2>2. Meets(x, target) =
          {w \in {x.a} : x.aClosed /\ x.bClosed /\ x.z[w] = target}
    BY <1>1 DEF Meets, Owned, Branch
  <2>3. RootsOn(x, target) =
          {<<w, w>> : w \in {w \in {x.a} :
                        x.aClosed /\ x.bClosed /\ x.z[w] = target}}
    BY <1>1, Zenon DEF RootsOn
  <2> QED BY <2>1, <2>2, <2>3, Zenon
<1>2. CASE x.a # x.b /\ Skipped(x, target)
  <2>1. RootsOn(x, target) = {}
    BY <1>2, Zenon DEF RootsOn
  <2>2. x.z[x.a] \in Int /\ x.z[x.b] \in Int
    BY DEF Branch
  <2>3. Meets(x, target) = {}
    <3>1. SUFFICES ASSUME NEW w \in Meets(x, target) PROVE FALSE
      OBVIOUS
    <3>2. w \in x.a..x.b /\ x.z[w] = target
      BY <3>1 DEF Meets, Owned
    <3> QED BY <1>2, <2>2, <3>1, <3>2, EndsBound DEF Skipped, Meets, Owned
  <2>4. Passes(x, target) = {}
    <3>1. SUFFICES ASSUME NEW w \in Passes(x, target) PROVE FALSE
      OBVIOUS
    <3>2. /\ w \in x.a..x.b /\ w + 1 \in x.a..x.b
          /\ x.z[w] \in Int /\ x.z[w + 1] \in Int
          /\ x.z[w] > target /\ target > x.z[w + 1]
      BY <3>1 DEF Passes, Branch
    <3>3. x.z[w] <= x.z[x.a] /\ x.z[w + 1] >= x.z[x.b]
      BY <3>2, EndsBound
    <3> QED BY <1>2, <2>2, <3>2, <3>3 DEF Skipped
  <2> QED BY <2>1, <2>3, <2>4
<1>3. CASE x.a # x.b /\ ~ Skipped(x, target)
  <2>1. RootsOn(x, target) = Bisect(x, target)
    BY <1>3, Zenon DEF RootsOn
  <2>2. Meets(x, target) = {w \in x.a..x.b : x.z[w] = target}
    <3>1. ASSUME NEW w \in x.a..x.b, x.z[w] = target PROVE w \in Owned(x)
      BY <1>3, <3>1 DEF Skipped, Owned
    <3> QED BY <3>1 DEF Meets, Owned
  <2> QED BY <2>1, <2>2, Zenon DEF Bisect, Passes
<1> QED BY <1>1, <1>2, <1>3

-----------------------------------------------------------------------------
\* Where the seam lies outside the domain one branch is the whole formula.
LEMMA OneBranch ==
  ASSUME NEW p, WellFormed(p), ~ (p.lo <= p.seam /\ p.seam <= p.hi),
         NEW target \in Int
  PROVE  Roots(p, target) = Solutions(p, target)
<1> DEFINE z == [w \in p.lo..p.hi |-> Production(p, w)]
           x == Piece(p.lo, TRUE, p.hi, TRUE, z)
<1>1. Pieces(p) = {x}
  BY Zenon DEF Pieces
<1>2. /\ x.a = p.lo /\ x.b = p.hi /\ x.z = z
      /\ x.aClosed = TRUE /\ x.bClosed = TRUE
  BY DEF Piece
<1> HIDE DEF x
<1>3. \/ \A w \in p.lo..p.hi : z[w] = p.narrow[w] /\ Gap(p, w) = p.narrow
      \/ \A w \in p.lo..p.hi : z[w] = p.wide[w] /\ Gap(p, w) = p.wide
  <2>1. CASE p.seam > p.hi
    <3>1. ASSUME NEW w \in p.lo..p.hi PROVE w < p.seam
      BY <2>1 DEF WellFormed
    <3> QED BY <3>1 DEF Production, InNarrow, Gap
  <2>2. CASE p.seam < p.lo
    <3>1. ASSUME NEW w \in p.lo..p.hi PROVE ~ (w < p.seam) /\ w # p.seam
      BY <2>2 DEF WellFormed
    <3> QED BY <3>1 DEF Production, InNarrow, Gap
  <2>3. p.seam > p.hi \/ p.seam < p.lo
    BY DEF WellFormed
  <2> QED BY <2>1, <2>2, <2>3, Zenon
<1>4. Branch(x)
  <2>1. \A w \in p.lo..p.hi : z[w] \in Int
    BY <1>3 DEF WellFormed
  <2>2. Falls(z, p.lo..p.hi)
    BY <1>3 DEF WellFormed, Falls
  <2> HIDE DEF z
  <2> QED BY <1>2, <2>1, <2>2 DEF Branch, WellFormed
<1>5. Meets(x, target) = {w \in p.lo..p.hi : Production(p, w) = target}
  BY <1>2 DEF Meets, Owned
<1>6. Passes(x, target) = {w \in p.lo..(p.hi - 1) :
                             /\ Gap(p, w)[w] > target
                             /\ target > Gap(p, w)[w + 1]}
  <2>1. \A w \in p.lo..(p.hi - 1) : w \in p.lo..p.hi /\ w + 1 \in p.lo..p.hi
    BY DEF WellFormed
  <2> HIDE DEF z
  <2> QED BY <1>2, <1>3, <2>1 DEF Passes
<1>7. Roots(p, target) = RootsOn(x, target)
  BY <1>1 DEF Roots
<1> QED BY <1>4, <1>5, <1>6, <1>7, SearchIsExact DEF Solutions

\* Where it lies inside, the two pieces part the domain: the seam is a point
\* of both, and its owner's alone.
LEMMA TwoBranches ==
  ASSUME NEW p, WellFormed(p), p.lo <= p.seam, p.seam <= p.hi,
         NEW target \in Int
  PROVE  Roots(p, target) = Solutions(p, target)
<1> DEFINE left == p.owner = "left"
           x == Piece(p.lo, TRUE, p.seam, left, p.narrow)
           y == Piece(p.seam, p.owner = "right", p.hi, TRUE, p.wide)
<1>1. Pieces(p) = {x, y}
  BY Zenon DEF Pieces
<1>2. /\ x.a = p.lo /\ x.b = p.seam /\ x.z = p.narrow
      /\ x.aClosed = TRUE /\ x.bClosed = left
  BY DEF Piece
<1>3. /\ y.a = p.seam /\ y.b = p.hi /\ y.z = p.wide
      /\ y.aClosed = (p.owner = "right") /\ y.bClosed = TRUE
  BY DEF Piece
<1> HIDE DEF x, y
<1>4. Branch(x) /\ Branch(y)
  <2>1. /\ \A w \in p.lo..p.seam : w \in p.lo..p.hi
        /\ \A w \in p.seam..p.hi : w \in p.lo..p.hi
    BY DEF WellFormed
  <2>2. Falls(p.narrow, p.lo..p.seam) /\ Falls(p.wide, p.seam..p.hi)
    BY <2>1 DEF Falls, WellFormed
  <2>3. /\ \A w \in p.lo..p.seam : p.narrow[w] \in Int
        /\ \A w \in p.seam..p.hi : p.wide[w] \in Int
    BY <2>1 DEF WellFormed
  <2>4. p.lo \in Int /\ p.seam \in Int /\ p.hi \in Int
    BY DEF WellFormed
  <2>5. Branch(x)
    BY <1>2, <2>2, <2>3, <2>4 DEF Branch
  <2>6. Branch(y)
    BY <1>3, <2>2, <2>3, <2>4 DEF Branch
  <2> QED BY <2>5, <2>6
<1>5. Meets(x, target) \cup Meets(y, target)
        = {w \in p.lo..p.hi : Production(p, w) = target}
  <2>1. ASSUME NEW w \in p.lo..p.hi
        PROVE  /\ w \in Owned(x) <=> InNarrow(p, w)
               /\ w \in Owned(y) <=> ~ InNarrow(p, w)
    <3>1. w \in Int /\ p.lo \in Int /\ p.hi \in Int /\ p.seam \in Int
      BY DEF WellFormed
    <3>2. p.owner = "left" <=> p.owner # "right"
      BY DEF WellFormed
    <3>3. w \in Owned(x) <=> w <= p.seam /\ (w = p.seam => p.owner = "left")
      <4>1. Owned(x) = {v \in p.lo..p.seam : v = p.seam => p.owner = "left"}
        BY <1>2, Zenon DEF Owned
      <4> QED BY <4>1, <3>1
    <3>4. w \in Owned(y) <=> p.seam <= w /\ (w = p.seam => p.owner = "right")
      <4>1. Owned(y) = {v \in p.seam..p.hi : v = p.seam => p.owner = "right"}
        BY <1>3, Zenon DEF Owned
      <4> QED BY <4>1, <3>1
    <3> QED BY <3>1, <3>2, <3>3, <3>4 DEF InNarrow
  <2>2. Owned(x) \subseteq p.lo..p.hi /\ Owned(y) \subseteq p.lo..p.hi
    BY <1>2, <1>3 DEF Owned, WellFormed
  <2> QED BY <1>2, <1>3, <2>1, <2>2 DEF Meets, Production
<1>6. Passes(x, target) \cup Passes(y, target)
        = {w \in p.lo..(p.hi - 1) : /\ Gap(p, w)[w] > target
                                    /\ target > Gap(p, w)[w + 1]}
  <2>1. /\ \A w \in p.lo..(p.seam - 1) : Gap(p, w) = p.narrow
        /\ \A w \in p.seam..(p.hi - 1) : Gap(p, w) = p.wide
    BY DEF Gap, WellFormed
  <2>2. p.lo..(p.hi - 1) = (p.lo..(p.seam - 1)) \cup (p.seam..(p.hi - 1))
    BY DEF WellFormed
  <2> QED BY <1>2, <1>3, <2>1, <2>2 DEF Passes
<1>7. Roots(p, target) = RootsOn(x, target) \cup RootsOn(y, target)
  BY <1>1 DEF Roots
<1>8. /\ RootsOn(x, target) = {<<w, w>> : w \in Meets(x, target)}
           \cup {<<w, w + 1>> : w \in Passes(x, target)}
      /\ RootsOn(y, target) = {<<w, w>> : w \in Meets(y, target)}
           \cup {<<w, w + 1>> : w \in Passes(y, target)}
  BY <1>4, SearchIsExact
<1>9. Roots(p, target)
        = {<<w, w>> : w \in Meets(x, target) \cup Meets(y, target)}
            \cup {<<w, w + 1>> : w \in Passes(x, target) \cup Passes(y, target)}
  BY <1>7, <1>8
<1> QED BY <1>5, <1>6, <1>9 DEF Solutions

\* The solver finds the solutions: all of them, and nothing else
\* (impedance._solve_width).
THEOREM RootsExact ==
  ASSUME NEW p, WellFormed(p), NEW target \in Int
  PROVE  Roots(p, target) = Solutions(p, target)
BY OneBranch, TwoBranches

\* The problems the solver makes of a closed form are well formed, as long as
\* the widths asked for are in the table.
LEMMA ProblemsAreWellFormed ==
  ASSUME NEW form \in Forms, NEW topology \in Topologies, NEW trim \in Int,
         NEW lo \in Int, NEW hi \in Int,
         trim < lo, lo <= hi, hi - trim <= Widest
  PROVE  WellFormed(Problem(form, topology, trim, lo, hi))
<1> DEFINE p == Problem(form, topology, trim, lo, hi)
<1>1. /\ p.lo = lo /\ p.hi = hi /\ p.seam = form[topology].seam + trim
      /\ p.owner = Owner(topology)
      /\ p.narrow = [w \in lo..hi |-> form[topology].narrow[w - trim]]
      /\ p.wide = [w \in lo..hi |-> form[topology].wide[w - trim]]
  BY DEF Problem
<1> HIDE DEF p
<1>2. /\ form[topology].seam \in Int
      /\ \A z \in {form[topology].narrow, form[topology].wide} :
           z \in [1..Widest -> Int] /\ Falls(z, 1..Widest)
  BY FormsFall
<1>3. \A w \in lo..hi : w - trim \in 1..Widest
  BY FormsFall
<1>4. ASSUME NEW z \in [1..Widest -> Int], Falls(z, 1..Widest),
             NEW y, y = [w \in lo..hi |-> z[w - trim]]
      PROVE  y \in [lo..hi -> Int] /\ Falls(y, lo..hi)
  <2>1. y \in [lo..hi -> Int]
    BY <1>3, <1>4
  <2>2. ASSUME NEW v \in lo..hi, NEW w \in lo..hi, v < w PROVE y[v] > y[w]
    <3>1. v - trim \in 1..Widest /\ w - trim \in 1..Widest
      BY <1>3
    <3>2. z[v - trim] > z[w - trim]
      <4>1. v - trim < w - trim
        BY <2>2
      <4> QED BY <1>4, <3>1, <4>1 DEF Falls
    <3> QED BY <1>4, <3>2
  <2> QED BY <2>1, <2>2 DEF Falls
<1>5. p.owner \in {"left", "right"}
  BY <1>1 DEF Owner
<1>6. \A z \in {p.narrow, p.wide} : z \in [p.lo..p.hi -> Int] /\ Falls(z, p.lo..p.hi)
  BY <1>1, <1>2, <1>4
<1> QED BY <1>1, <1>2, <1>5, <1>6 DEF WellFormed, p

-----------------------------------------------------------------------------
(* The catalog and the commands that choose from it.                      *)

\* What the site states can be stated.
SiteInv == site \in Acquirable

Directories == [d \in Places |-> [approved |-> tree[d].approved,
                                  evidence |-> tree[d].evidence]]

\* A snapshot on disk is absent, torn or what an acquisition returned, and
\* every file beside it is named after a declared source.
TreeInv ==
  /\ tree = Directories
  /\ \A d \in Places :
       /\ tree[d].approved \in {Absent, Torn} \/ IsAcquired(tree[d].approved)
       /\ \A f \in tree[d].evidence : f.source \in Sources

\* The pages a refresh has are pages of declared sources.
FetchInv ==
  /\ DOMAIN raw \subseteq Sources /\ failed \subseteq Sources
  /\ raw = [s \in DOMAIN raw |-> raw[s]]
  /\ \A s \in DOMAIN raw : raw[s] \in Pages[s]

Working == {"clear", "write", "written", "load", "judge"}

\* A command holds a snapshot that an acquisition returned.  One that chooses
\* from it has found it trustworthy, and then its evidence complete.
HoldInv ==
  /\ snapshot = Absent \/ IsAcquired(snapshot)
  /\ step \in {"clear", "write", "written"} => IsAcquired(snapshot)
  /\ step \in {"load", "judge"} => IsAcquired(snapshot) /\ Trustworthy(snapshot)
  /\ step = "judge" => proof = Evidence(snapshot)

CountInv ==
  /\ step \in {"idle", "fetch"} \cup Working
  /\ request \in Requests \cup {None}
  /\ step = "judge" => request \in Requests
  /\ spent \in [{"publish", "adopt", "refresh"} -> Nat]
  /\ \A w \in {"publish", "adopt", "refresh"} : spent[w] <= Limit[w]

IInv == SiteInv /\ TreeInv /\ FetchInv /\ HoldInv /\ CountInv

-----------------------------------------------------------------------------
(* Acquisitions.                                                           *)

\* acquire() returns what IsAcquired says.
LEMMA AcquiredIsAcquired ==
  ASSUME NEW pages, NEW lost \in SUBSET Sources,
         DOMAIN pages \subseteq Sources, lost \cup DOMAIN pages = Sources,
         pages = [s \in DOMAIN pages |-> pages[s]],
         \A s \in DOMAIN pages : pages[s] \in Pages[s],
         lost = {} => ~ Nonsense(pages)
  PROVE  IsAcquired(Acquired(pages, lost))
<1>1. Acquired(pages, lost).sources = pages
  BY DEF Acquired
<1> QED BY <1>1 DEF IsAcquired

\* Whatever was acquired says which sources the program declares.
LEMMA DeclaresAll == ASSUME NEW s, IsAcquired(s) PROVE s.declared = Sources
<1>1. PICK lost \in SUBSET Sources : s = Acquired(s.sources, lost)
  BY DEF IsAcquired
<1> QED BY <1>1 DEF Acquired

\* A snapshot that a load trusts was read off one page of every source, is
\* named by those pages, and they parsed, every number of them.
LEMMA TrustedIsWhole ==
  ASSUME NEW s, IsAcquired(s), Trustworthy(s)
  PROVE  /\ s.sources \in Acquirable /\ s.normalized = s.sources
         /\ ~ Parse(s.sources).refused /\ ~ Nonsense(s.sources)
<1>0. PICK lost \in SUBSET Sources : /\ s = Acquired(s.sources, lost)
                                     /\ lost = {} => ~ Nonsense(s.sources)
  BY DEF IsAcquired
<1>1. s = Acquired(s.sources, lost)
  BY <1>0
<1>2. DOMAIN s.sources = Sources
  BY <1>1, DeclaresAll DEF Trustworthy
<1>3. s.sources \in Acquirable
  BY <1>2 DEF IsAcquired, Acquirable
<1> DEFINE outcome == IF lost # {} THEN "incomplete"
                      ELSE IF Parse(s.sources).refused THEN "parse-failed"
                      ELSE "complete"
<1>4. /\ s.outcome = outcome
      /\ s.normalized = IF outcome = "complete" THEN s.sources ELSE None
  <2>1. \A pages : /\ Acquired(pages, lost).outcome =
                       IF lost # {} THEN "incomplete"
                       ELSE IF Parse(pages).refused THEN "parse-failed"
                       ELSE "complete"
                   /\ Acquired(pages, lost).normalized =
                       IF Acquired(pages, lost).outcome = "complete"
                       THEN pages ELSE None
    BY DEF Acquired
  <2> QED BY <1>1, <2>1, Zenon
<1>5. outcome = "complete"
  BY <1>4 DEF Trustworthy
<1>6. ~ Nonsense(s.sources)
  BY <1>0, <1>5
<1> QED BY <1>3, <1>4, <1>5, <1>6

-----------------------------------------------------------------------------
\* IInv holds when a session begins.
LEMMA InitIInv == Init => IInv
<1> SUFFICES ASSUME Init PROVE IInv
  OBVIOUS
<1>1. PICK start \in Starts :
        /\ site = start.site
        /\ tree = [committed |-> IF start.committed
                                 THEN Directory(Acquired(start.site, {}))
                                 ELSE NoDirectory,
                   scratch |-> start.scratch]
  BY DEF Init
<1>2. SiteInv
  BY <1>1, StartsAreReal DEF SiteInv
<1>3. TreeInv
  <2>1. /\ DOMAIN start.site = Sources
        /\ start.site = [s \in DOMAIN start.site |-> start.site[s]]
        /\ \A s \in Sources : start.site[s] \in Pages[s]
    BY <1>1, StartsAreReal DEF Acquirable
  <2>2. start.committed => IsAcquired(Acquired(start.site, {}))
    BY <1>1, <2>1, StartsAreReal, AcquiredIsAcquired
  <2>3. Acquired(start.site, {}).sources = start.site
    BY DEF Acquired
  <2> DEFINE first == IF start.committed THEN Directory(Acquired(start.site, {}))
                      ELSE NoDirectory
  <2>4. /\ first = [approved |-> first.approved, evidence |-> first.evidence]
        /\ first.approved = Absent \/ IsAcquired(first.approved)
        /\ \A f \in first.evidence : f.source \in Sources
    <3>1. CASE start.committed
      <4>1. first = [approved |-> Acquired(start.site, {}),
                     evidence |-> Evidence(Acquired(start.site, {}))]
        BY <3>1 DEF Directory
      <4>2. \A f \in Evidence(Acquired(start.site, {})) : f.source \in Sources
        BY <2>1, <2>3 DEF Evidence, File
      <4> QED BY <3>1, <4>1, <4>2, <2>2
    <3>2. CASE ~ start.committed
      BY <3>2 DEF NoDirectory
    <3> QED BY <3>1, <3>2
  <2>5. tree = [committed |-> first, scratch |-> start.scratch]
    BY <1>1
  <2> HIDE DEF first
  <2>6. /\ tree["committed"] = first /\ tree["scratch"] = start.scratch
        /\ tree = [d \in Places |-> tree[d]]
    BY <2>5 DEF Places
  <2>7. \A d \in Places :
          tree[d] = [approved |-> tree[d].approved, evidence |-> tree[d].evidence]
    BY <2>4, <2>6, StartsAreReal DEF Places
  <2> QED BY <2>4, <2>6, <2>7, StartsAreReal DEF TreeInv, Places, Directories
<1>4. FetchInv /\ HoldInv
  BY DEF Init, FetchInv, HoldInv
<1>5. CountInv
  BY LimitsAreCounts DEF Init, CountInv
<1> QED BY <1>2, <1>3, <1>4, <1>5 DEF IInv

\* A command that ends leaves the disk alone and holds nothing.
LEMMA FinishKeeps ==
  ASSUME IInv, NEW what, Finish(what), UNCHANGED <<site, tree, spent>>
  PROVE  IInv'
<1>1. SiteInv' /\ TreeInv' /\ FetchInv' /\ HoldInv'
  BY DEF IInv, SiteInv, TreeInv, FetchInv, HoldInv, Finish, Goto, Directories
<1>2. CountInv'
  BY DEF IInv, CountInv, Finish, Goto
<1> QED BY <1>1, <1>2 DEF IInv

\* A limit is not passed by spending one more of it.
LEMMA SpendKeeps ==
  ASSUME CountInv, NEW what \in {"publish", "adopt", "refresh"}, Spend(what),
         step' \in {"idle", "fetch", "load"}, request' = request
  PROVE  CountInv'
BY LimitsAreCounts DEF CountInv, Spend, Working

\* The fabricator changes a page that nobody has fetched in this step.
LEMMA PublishKeeps == IInv /\ SitePublishes => IInv'
<1> SUFFICES ASSUME IInv, SitePublishes PROVE IInv'
  OBVIOUS
<1>1. SiteInv'
  <2>1. PICK s \in Sources : \E p \in Pages[s] : site' = [site EXCEPT ![s] = p]
    BY DEF SitePublishes
  <2>2. PICK p \in Pages[s] : site' = [site EXCEPT ![s] = p]
    BY <2>1
  <2>3. p \in UNION {Pages[x] : x \in Sources}
    OBVIOUS
  <2> QED BY <2>2, <2>3 DEF IInv, SiteInv, Acquirable
<1>2. TreeInv' /\ FetchInv' /\ HoldInv'
  BY DEF IInv, TreeInv, FetchInv, HoldInv, SitePublishes, Directories
<1>3. CountInv'
  BY SpendKeeps DEF IInv, SitePublishes, At
<1> QED BY <1>1, <1>2, <1>3 DEF IInv

LEMMA StartKeeps == IInv /\ StartRefresh => IInv'
<1> SUFFICES ASSUME IInv, StartRefresh PROVE IInv'
  OBVIOUS
<1>1. SiteInv' /\ TreeInv' /\ FetchInv' /\ HoldInv'
  BY DEF IInv, SiteInv, TreeInv, FetchInv, HoldInv, StartRefresh, Goto, At, Directories
<1>2. CountInv'
  BY SpendKeeps DEF IInv, StartRefresh, Goto
<1> QED BY <1>1, <1>2 DEF IInv

\* There is a next source as long as not every one was tried.
LEMMA NextIsDeclared ==
  ASSUME FetchInv, Tried # Sources
  PROVE  NextSource \in Sources
<1>1. IsFiniteSet(1..5) /\ Cardinality(1..5) = 5
  <2>1. 1 \in Int /\ 5 \in Int
    OBVIOUS
  <2>2. IsFiniteSet(1..5) /\ Cardinality(1..5) = IF 1 > 5 THEN 0 ELSE 5 - 1 + 1
    BY <2>1, FS_Interval, Zenon
  <2> QED BY <2>2
<1>2. IsFiniteSet(Sources) /\ Cardinality(Sources) <= 5
  <2>1. SourceOrder \in Surjection(1..5, Sources)
    <3>1. SourceOrder \in [1..5 -> Sources]
      BY DEF SourceOrder, Sources
    <3> QED BY <3>1 DEF Sources, Surjection
  <2> QED BY <1>1, <2>1, FS_Surjection
<1>3. Tried \subseteq Sources
  BY DEF FetchInv, Tried
<1>4. /\ IsFiniteSet(Tried) /\ Cardinality(Tried) <= Cardinality(Sources)
      /\ Cardinality(Tried) # Cardinality(Sources)
  BY <1>2, <1>3, FS_Subset
<1>5. Cardinality(Tried) \in Nat /\ Cardinality(Sources) \in Nat
  BY <1>2, <1>4, FS_CardinalityType
<1>6. Cardinality(Tried) + 1 \in 1..5
  BY <1>2, <1>4, <1>5
<1> QED BY <1>6 DEF NextSource, Sources

\* A page that is fetched is the page its source states.
LEMMA FetchKeeps == IInv /\ Fetch => IInv'
<1> SUFFICES ASSUME IInv, Fetch PROVE IInv'
  OBVIOUS
<1>1. NextSource \in Sources
  BY NextIsDeclared DEF IInv, Fetch
<1>2. FetchInv'
  <2>1. CASE /\ raw' = [s \in DOMAIN raw \cup {NextSource} |->
                          IF s = NextSource THEN site[s] ELSE raw[s]]
             /\ UNCHANGED failed
    <3>1. site[NextSource] \in Pages[NextSource]
      BY <1>1 DEF IInv, SiteInv, Acquirable
    <3> QED BY <1>1, <2>1, <3>1 DEF IInv, FetchInv
  <2>2. CASE failed' = failed \cup {NextSource} /\ UNCHANGED raw
    BY <1>1, <2>2 DEF IInv, FetchInv
  <2> QED BY <2>1, <2>2 DEF Fetch
<1>3. SiteInv' /\ TreeInv' /\ HoldInv' /\ CountInv'
  BY DEF IInv, SiteInv, TreeInv, HoldInv, CountInv, Fetch, Directories
<1> QED BY <1>2, <1>3 DEF IInv

\* What is read is what acquire() returns of the pages that are there.
LEMMA ReadKeeps == IInv /\ ReadPages => IInv'
<1> SUFFICES ASSUME IInv, ReadPages PROVE IInv'
  OBVIOUS
<1>1. CASE Finish([said |-> "traceback"])
  BY <1>1, FinishKeeps DEF ReadPages
<1>2. CASE /\ failed # {} \/ ~ Nonsense(raw)
           /\ snapshot' = Acquired(raw, failed) /\ Goto("clear")
           /\ UNCHANGED <<raw, failed, proof, request, answer>>
  <2>1. IsAcquired(snapshot')
    BY <1>2, AcquiredIsAcquired DEF IInv, FetchInv, ReadPages, Tried
  <2>2. SiteInv' /\ TreeInv' /\ FetchInv'
    BY <1>2 DEF IInv, SiteInv, TreeInv, FetchInv, ReadPages, Directories
  <2>3. HoldInv' /\ CountInv'
    BY <1>2, <2>1 DEF IInv, HoldInv, CountInv, ReadPages, Goto, Working
  <2> QED BY <2>2, <2>3 DEF IInv
<1> QED BY <1>1, <1>2 DEF ReadPages

\* A step that writes into one directory of the tree.
LEMMA WriteKeeps ==
  ASSUME IInv, NEW d \in Places, NEW approved, NEW evidence,
         tree' = [tree EXCEPT ![d] = [approved |-> approved, evidence |-> evidence]],
         approved \in {Absent, Torn} \/ IsAcquired(approved),
         \A f \in evidence : f.source \in Sources
  PROVE  TreeInv'
<1>1. DOMAIN tree = Places
  BY DEF IInv, TreeInv, Directories
<1>2. /\ tree'[d] = [approved |-> approved, evidence |-> evidence]
      /\ \A e \in Places \ {d} : tree'[e] = tree[e]
      /\ tree' = [e \in Places |-> tree'[e]]
  BY <1>1
<1>3. \A e \in Places : tree[e] = [approved |-> tree[e].approved,
                                   evidence |-> tree[e].evidence]
  BY DEF IInv, TreeInv, Directories
<1>4. \A e \in Places : tree'[e] = [approved |-> tree'[e].approved,
                                    evidence |-> tree'[e].evidence]
  BY <1>2, <1>3
<1>5. \A e \in Places :
        /\ tree'[e].approved \in {Absent, Torn} \/ IsAcquired(tree'[e].approved)
        /\ \A f \in tree'[e].evidence : f.source \in Sources
  BY <1>2 DEF IInv, TreeInv
<1> QED BY <1>2, <1>4, <1>5 DEF TreeInv, Directories

\* The directory that a refresh writes.
LEMMA ScratchIsWritten ==
  ASSUME IInv, NEW approved, NEW evidence,
         tree' = [tree EXCEPT !["scratch"] = [approved |-> approved,
                                              evidence |-> evidence]],
         approved \in {Absent, Torn} \/ IsAcquired(approved),
         \A f \in evidence : f.source \in Sources,
         UNCHANGED <<site, failed, snapshot, proof, request, answer, spent>>,
         FetchInv', step \in {"clear", "write"}, step' \in {step, "write", "written"}
  PROVE  IInv'
<1>1. TreeInv'
  <2>1. "scratch" \in Places
    BY DEF Places
  <2> QED BY <2>1, WriteKeeps
<1>2. SiteInv' /\ HoldInv' /\ CountInv'
  BY DEF IInv, SiteInv, HoldInv, CountInv, Working
<1> QED BY <1>1, <1>2 DEF IInv

\* A directory, written out.
LEMMA DirectoryOf ==
  ASSUME TreeInv, NEW d \in Places
  PROVE  /\ \A evidence : [tree EXCEPT ![d].evidence = evidence] =
              [tree EXCEPT ![d] = [approved |-> tree[d].approved,
                                   evidence |-> evidence]]
         /\ \A approved : [tree EXCEPT ![d].approved = approved] =
              [tree EXCEPT ![d] = [approved |-> approved,
                                   evidence |-> tree[d].evidence]]
         /\ tree[d].approved \in {Absent, Torn} \/ IsAcquired(tree[d].approved)
         /\ \A f \in tree[d].evidence : f.source \in Sources
<1>1. DOMAIN tree = Places
  BY DEF TreeInv, Directories
<1>2. tree[d] = [approved |-> tree[d].approved, evidence |-> tree[d].evidence]
  BY DEF TreeInv, Directories
<1>3. \A evidence : [tree[d] EXCEPT !.evidence = evidence] =
        [approved |-> tree[d].approved, evidence |-> evidence]
  BY <1>2
<1>4. \A approved : [tree[d] EXCEPT !.approved = approved] =
        [approved |-> approved, evidence |-> tree[d].evidence]
  BY <1>2
<1> QED BY <1>1, <1>3, <1>4 DEF TreeInv

LEMMA RemoveKeeps == IInv /\ RemoveObsolete => IInv'
<1> SUFFICES ASSUME IInv, RemoveObsolete PROVE IInv'
  OBVIOUS
<1>1. "scratch" \in Places /\ TreeInv
  BY DEF Places, IInv
<1>2. CASE Goto("write") /\ UNCHANGED tree
  BY <1>2 DEF IInv, SiteInv, TreeInv, FetchInv, HoldInv, CountInv, RemoveObsolete,
              Goto, At, Working, Directories
<1>3. CASE \E f \in OutFiles :
             /\ tree' = [tree EXCEPT !["scratch"].evidence = @ \ {f}]
             /\ UNCHANGED step
  <2>1. PICK f : /\ tree' = [tree EXCEPT !["scratch"].evidence =
                                           tree["scratch"].evidence \ {f}]
                 /\ UNCHANGED step
    BY <1>3
  <2>2. tree' = [tree EXCEPT !["scratch"] =
                   [approved |-> tree["scratch"].approved,
                    evidence |-> tree["scratch"].evidence \ {f}]]
    BY <1>1, <2>1, DirectoryOf
  <2>3. \A g \in tree["scratch"].evidence \ {f} : g.source \in Sources
    BY <1>1, DirectoryOf
  <2>4. tree["scratch"].approved \in {Absent, Torn} \/ IsAcquired(tree["scratch"].approved)
    BY <1>1, DirectoryOf
  <2>5. FetchInv'
    BY DEF IInv, FetchInv, RemoveObsolete
  <2> QED BY <2>1, <2>2, <2>3, <2>4, <2>5, ScratchIsWritten DEF RemoveObsolete, At
<1> QED BY <1>2, <1>3 DEF RemoveObsolete

\* Whatever is still to be written, there is a first of it.
LEMMA FirstIsOne ==
  ASSUME NEW S, S \subseteq Sources, S # {}
  PROVE  First(S) \in S
<1> DEFINE Earliest(i) == /\ SourceOrder[i] \in S
                          /\ \A j \in 1..(i - 1) : SourceOrder[j] \notin S
<1>1. \E i \in 1..5 : SourceOrder[i] \in S
  BY DEF Sources
<1>2. 1..5 = {1, 2, 3, 4, 5}
  OBVIOUS
<1>3. /\ 1..(1 - 1) = {} /\ 1..(2 - 1) = {1} /\ 1..(3 - 1) = {1, 2}
      /\ 1..(4 - 1) = {1, 2, 3} /\ 1..(5 - 1) = {1, 2, 3, 4}
  OBVIOUS
<1>4. \E i \in 1..5 : Earliest(i)
  <2> DEFINE at(i) == SourceOrder[i] \in S
  <2>1. at(1) \/ at(2) \/ at(3) \/ at(4) \/ at(5)
    BY <1>1, <1>2
  <2>2. /\ Earliest(1) <=> at(1)
        /\ Earliest(2) <=> at(2) /\ ~ at(1)
        /\ Earliest(3) <=> at(3) /\ ~ at(1) /\ ~ at(2)
        /\ Earliest(4) <=> at(4) /\ ~ at(1) /\ ~ at(2) /\ ~ at(3)
        /\ Earliest(5) <=> at(5) /\ ~ at(1) /\ ~ at(2) /\ ~ at(3) /\ ~ at(4)
    BY <1>3
  <2> HIDE DEF Earliest, at
  <2> QED BY <1>2, <2>1, <2>2
<1> QED BY <1>4 DEF First

\* Evidence is written for declared sources, and nothing is left to write but
\* what was fetched.
LEMMA EvidenceKeeps == IInv /\ WriteEvidence => IInv'
<1> SUFFICES ASSUME IInv, WriteEvidence PROVE IInv'
  OBVIOUS
<1> DEFINE first == First(DOMAIN raw)
           f == File(first, raw[first])
           others == {g \in OutFiles : ~ SameName(f, g)}
<1>1. "scratch" \in Places /\ TreeInv /\ FetchInv
  BY DEF Places, IInv
<1>2. first \in DOMAIN raw /\ first \in Sources
  BY <1>1, FirstIsOne DEF FetchInv, WriteEvidence
<1>3. f.source = first
  BY DEF File
<1>4. PICK bytes :
        tree' = [tree EXCEPT !["scratch"].evidence =
                   others \cup {[f EXCEPT !.bytes = bytes]}]
  <2>1. [f EXCEPT !.bytes = raw[first]] = f
    BY DEF File
  <2> HIDE DEF f
  <2> QED BY <2>1 DEF WriteEvidence, f
<1> DEFINE evidence == others \cup {[f EXCEPT !.bytes = bytes]}
<1>5. \A g \in evidence : g.source \in Sources
  <2>1. ([f EXCEPT !.bytes = bytes]).source = first
    BY DEF File
  <2>2. \A g \in others : g.source \in Sources
    BY <1>1, DirectoryOf DEF OutFiles
  <2> QED BY <1>2, <2>1, <2>2
<1>6. tree' = [tree EXCEPT !["scratch"] =
                 [approved |-> tree["scratch"].approved, evidence |-> evidence]]
  BY <1>1, <1>4, DirectoryOf
<1>7. tree["scratch"].approved \in {Absent, Torn} \/ IsAcquired(tree["scratch"].approved)
  BY <1>1, DirectoryOf
<1>8. FetchInv'
  <2>1. \/ UNCHANGED raw
        \/ raw' = [s \in DOMAIN raw \ {first} |-> raw[s]]
    BY <1>3, Zenon DEF WriteEvidence
  <2>2. failed' = failed
    BY DEF WriteEvidence
  <2> HIDE DEF first
  <2> QED BY <1>1, <2>1, <2>2 DEF FetchInv
<1> HIDE DEF evidence
<1> QED BY <1>5, <1>6, <1>7, <1>8, ScratchIsWritten DEF WriteEvidence, At

\* The snapshot is written whole, or torn.
LEMMA SnapshotKeeps == IInv /\ WriteSnapshot => IInv'
<1> SUFFICES ASSUME IInv, WriteSnapshot PROVE IInv'
  OBVIOUS
<1>1. "scratch" \in Places /\ TreeInv
  BY DEF Places, IInv
<1>2. PICK approved \in {Torn, snapshot} :
        tree' = [tree EXCEPT !["scratch"].approved = approved]
  BY DEF WriteSnapshot
<1>3. tree' = [tree EXCEPT !["scratch"] =
                 [approved |-> approved, evidence |-> tree["scratch"].evidence]]
  BY <1>1, <1>2, DirectoryOf
<1>4. approved \in {Absent, Torn} \/ IsAcquired(approved)
  BY <1>2 DEF IInv, HoldInv, WriteSnapshot, At
<1>5. \A f \in tree["scratch"].evidence : f.source \in Sources
  BY <1>1, DirectoryOf
<1>6. step' \in {step, "write", "written"} /\ step = "write" /\ FetchInv'
  BY DEF WriteSnapshot, Goto, At, IInv, FetchInv
<1> QED BY <1>3, <1>4, <1>5, <1>6, ScratchIsWritten DEF WriteSnapshot

\* Whichever part of a directory is adopted, it is one a refresh has written.
LEMMA AdoptKeeps == IInv /\ Adopt => IInv'
<1> SUFFICES ASSUME IInv, Adopt PROVE IInv'
  OBVIOUS
<1>1. "committed" \in Places /\ "scratch" \in Places /\ TreeInv
  BY DEF Places, IInv
<1>2. /\ \A d \in Places : tree[d].approved \in {Absent, Torn} \/ IsAcquired(tree[d].approved)
      /\ \A d \in Places : \A f \in tree[d].evidence : f.source \in Sources
  BY DEF IInv, TreeInv
<1>3. ASSUME tree' = [tree EXCEPT !["committed"].approved = tree["scratch"].approved]
      PROVE  TreeInv'
  <2>1. tree' = [tree EXCEPT !["committed"] = [approved |-> tree["scratch"].approved,
                                               evidence |-> tree["committed"].evidence]]
    BY <1>1, <1>3, DirectoryOf
  <2> QED BY <1>1, <1>2, <2>1, WriteKeeps
<1>4. ASSUME NEW evidence,
             tree' = [tree EXCEPT !["committed"].evidence = evidence],
             evidence \subseteq tree["scratch"].evidence \cup tree["committed"].evidence
      PROVE  TreeInv'
  <2>1. tree' = [tree EXCEPT !["committed"] = [approved |-> tree["committed"].approved,
                                               evidence |-> evidence]]
    BY <1>1, <1>4, DirectoryOf
  <2>2. \A f \in evidence : f.source \in Sources
    BY <1>1, <1>2, <1>4
  <2> QED BY <1>1, <1>2, <2>1, <2>2, WriteKeeps
<1>5. TreeInv'
  <2>1. CASE tree' = [tree EXCEPT !["committed"].evidence = tree["scratch"].evidence]
    BY <1>4, <2>1
  <2>2. CASE tree' = [tree EXCEPT !["committed"].evidence =
                   CopiedOver(tree["committed"].evidence, tree["scratch"].evidence)]
    <3>1. CopiedOver(tree["committed"].evidence, tree["scratch"].evidence)
            \subseteq tree["scratch"].evidence \cup tree["committed"].evidence
      BY DEF CopiedOver
    <3> QED BY <1>4, <2>2, <3>1
  <2> QED BY <1>3, <2>1, <2>2 DEF Adopt
<1>6. SiteInv' /\ FetchInv' /\ HoldInv'
  BY DEF IInv, SiteInv, FetchInv, HoldInv, Adopt
<1>7. CountInv'
  BY SpendKeeps DEF IInv, Adopt, Working, CountInv
<1> QED BY <1>5, <1>6, <1>7 DEF IInv

\* A load refuses, or holds what it trusts.
LEMMA ReadApprovedKeeps == IInv /\ ReadApproved => IInv'
<1> SUFFICES ASSUME IInv, ReadApproved PROVE IInv'
  OBVIOUS
<1> DEFINE approved == tree["committed"].approved
<1>1. CASE Finish([said |-> "refused"])
  BY <1>1, FinishKeeps DEF ReadApproved
<1>2. CASE /\ Trustworthy(approved) /\ snapshot' = approved
           /\ Goto("load") /\ Say([said |-> "nothing"])
           /\ UNCHANGED <<raw, failed, proof, request>>
  <2>1. IsAcquired(approved)
    BY <1>2 DEF IInv, TreeInv, Places, Trustworthy
  <2>2. HoldInv'
    BY <1>2, <2>1 DEF HoldInv, Goto
  <2>3. SiteInv' /\ TreeInv' /\ FetchInv' /\ CountInv'
    BY <1>2 DEF IInv, SiteInv, TreeInv, FetchInv, CountInv, ReadApproved, Goto,
                Working, Directories
  <2> QED BY <2>2, <2>3 DEF IInv
<1> QED BY <1>1, <1>2 DEF ReadApproved

\* Its evidence is refused, or is what the snapshot it holds records: that
\* the committed snapshot may be another one by now does not matter.
LEMMA VerifyKeeps == IInv /\ VerifyEvidence => IInv'
<1> SUFFICES ASSUME IInv, VerifyEvidence PROVE IInv'
  OBVIOUS
<1> DEFINE files == tree["committed"].evidence
<1>1. CASE Finish([said |-> "refused"])
  BY <1>1, FinishKeeps DEF VerifyEvidence
<1>2. CASE /\ EvidenceHolds(snapshot, files) /\ Goto("judge") /\ proof' = files
           /\ \E q \in Requests : request' = q
           /\ UNCHANGED <<raw, failed, snapshot, answer>>
  <2>1. HoldInv'
    BY <1>2 DEF IInv, HoldInv, VerifyEvidence, Goto, At, EvidenceHolds, Evidence
  <2>2. SiteInv' /\ TreeInv' /\ FetchInv' /\ CountInv'
    BY <1>2 DEF IInv, SiteInv, TreeInv, FetchInv, CountInv, VerifyEvidence, Goto,
                Working, Directories
  <2> QED BY <2>1, <2>2 DEF IInv
<1> QED BY <1>1, <1>2 DEF VerifyEvidence

\* Everything else ends the command.
LEMMA EndingsKeep ==
  IInv /\ (\/ ReportUnusable \/ Review \/ SelectProfile \/ ExportStackup
           \/ SolveImpedance \/ Crash) => IInv'
<1> SUFFICES ASSUME IInv, \/ ReportUnusable \/ Review \/ SelectProfile
                          \/ ExportStackup \/ SolveImpedance \/ Crash
             PROVE  IInv'
  OBVIOUS
<1>1. (\E what : Finish(what)) /\ UNCHANGED <<site, tree, spent>>
  BY Zenon DEF ReportUnusable, Review, CompareWith, SelectProfile, ExportStackup,
               SolveImpedance, Crash
<1> QED BY <1>1, FinishKeeps

LEMMA NextIInv == IInv /\ [Next]_vars => IInv'
<1> SUFFICES ASSUME IInv, [Next]_vars PROVE IInv'
  OBVIOUS
<1>1. CASE UNCHANGED vars
  BY <1>1 DEF IInv, SiteInv, TreeInv, FetchInv, HoldInv, CountInv, vars, Directories
<1>2. CASE Next
  BY <1>2, PublishKeeps, StartKeeps, FetchKeeps, ReadKeeps, RemoveKeeps,
     EvidenceKeeps, SnapshotKeeps, AdoptKeeps, ReadApprovedKeeps, VerifyKeeps,
     EndingsKeep DEF Next
<1> QED BY <1>1, <1>2

-----------------------------------------------------------------------------
\* The variables have their types.
LEMMA IInvTypes == IInv => TypeOK
<1> SUFFICES ASSUME IInv PROVE TypeOK
  OBVIOUS
<1>1. site \in [Sources -> UNION {Pages[s] : s \in Sources}]
  BY DEF IInv, SiteInv, Acquirable
<1>2. \A d \in Places :
        /\ tree[d].approved \in {Absent, Torn} \/ tree[d].approved.declared = Sources
        /\ \A f \in tree[d].evidence : f.source \in Sources
  BY DeclaresAll DEF IInv, TreeInv
<1>3. snapshot = Absent \/ snapshot.declared = Sources
  BY DeclaresAll DEF IInv, HoldInv
<1>4. \A w \in DOMAIN Limit : spent[w] \in 0..Limit[w]
  BY LimitsAreCounts DEF IInv, CountInv
<1> QED BY <1>1, <1>2, <1>3, <1>4 DEF IInv, FetchInv, CountInv, Working, TypeOK

\* The catalog commands keep the pages, both trees, the snapshot in hand and the
\* retry counts within their types, for any pages and limits: IInv implies TypeOK.
THEOREM CatalogTypes == Spec => []TypeOK
<1>1. Init => IInv
  BY InitIInv
<1>2. IInv /\ [Next]_vars => IInv'
  BY NextIInv
<1>3. IInv => TypeOK
  BY IInvTypes
<1> QED BY <1>1, <1>2, <1>3, PTL DEF Spec

\* What a command chooses from is whole and proven (store.verify_evidence,
\* CatalogStore._load_snapshot), after any history of refreshes, deaths and
\* adoptions.
THEOREM Chosen == Spec => []ChosenFromProvenPages
<1>1. IInv => ChosenFromProvenPages
  <2> SUFFICES ASSUME IInv, At("judge")
               PROVE  /\ ~ Parse(snapshot.normalized).refused
                      /\ proof = {File(s, snapshot.normalized[s]) : s \in Sources}
    BY DEF ChosenFromProvenPages
  <2>1. IsAcquired(snapshot) /\ Trustworthy(snapshot) /\ proof = Evidence(snapshot)
    BY DEF IInv, HoldInv, At
  <2>2. /\ snapshot.sources \in Acquirable
        /\ snapshot.normalized = snapshot.sources
        /\ ~ Parse(snapshot.sources).refused
    BY <2>1, TrustedIsWhole
  <2>3. DOMAIN snapshot.sources = Sources
    BY <2>2 DEF Acquirable
  <2> QED BY <2>1, <2>2, <2>3 DEF Evidence
<1> QED BY <1>1, InitIInv, NextIInv, PTL DEF Spec

-----------------------------------------------------------------------------
(* What a command answers.                                                *)

\* What a command can answer.
Chose(said, line, got) == answer' = Judged(said, line, got)
Held == CatalogOf(snapshot.normalized)

LEMMA AnswersOf ==
  ASSUME [Next]_vars
  PROVE  \/ UNCHANGED answer
         \/ answer'.said \notin {"reviewed", "selected", "exported", "solved"}
         \/ CompareWith(tree["committed"].approved)
         \/ /\ At("judge") /\ ~ Malformed(request)
            /\ \/ Chose("selected", None, {Select(Held, request)})
               \/ \E pick, boardLayers :
                    Chose("exported", None, Export(Held, request, pick, boardLayers))
               \/ \E line \in Lines[request], form \in Forms :
                    Chose("solved", line, SolveLine(Held, request, line, form))
<1> DEFINE Plainly == answer'.said \notin {"reviewed", "selected", "exported", "solved"}
<1>1. \A what : Say([said |-> what]) /\ what \notin {"reviewed", "selected", "exported", "solved"}
               => Plainly
  BY DEF Say
<1>2. CASE \/ SitePublishes \/ Fetch \/ RemoveObsolete \/ WriteEvidence \/ WriteSnapshot
           \/ UNCHANGED vars
  BY <1>2 DEF SitePublishes, Fetch, RemoveObsolete, WriteEvidence, WriteSnapshot, vars
<1>3. CASE StartRefresh \/ Adopt \/ Crash \/ ReportUnusable
  <2>1. Say([said |-> "nothing"]) \/ Say([said |-> "unusable"])
    BY <1>3, Zenon DEF StartRefresh, Adopt, Crash, ReportUnusable, Finish
  <2> QED BY <1>1, <2>1
<1>4. CASE ReadPages \/ ReadApproved \/ VerifyEvidence
  <2>1. \/ UNCHANGED answer
        \/ Say([said |-> "traceback"]) \/ Say([said |-> "refused"]) \/ Say([said |-> "nothing"])
    BY <1>4, Zenon DEF ReadPages, ReadApproved, VerifyEvidence, Finish
  <2> QED BY <1>1, <2>1
<1>5. CASE Review
  <2>1. \/ Say([said |-> "no baseline"]) \/ Say([said |-> "refused"])
        \/ CompareWith(tree["committed"].approved)
    BY <1>5, Zenon DEF Review, Finish
  <2> QED BY <1>1, <2>1
<1>6. CASE SelectProfile
  <2>1. \/ Say([said |-> "refused"])
        \/ /\ At("judge") /\ ~ Malformed(request)
           /\ Say(Judged("selected", None, {Select(Held, request)}))
    BY <1>6, Zenon DEF SelectProfile, Finish, Held
  <2> QED BY <1>1, <2>1 DEF Chose, Say
<1>7. CASE ExportStackup
  BY <1>7, Zenon DEF ExportStackup, Finish, Say, Chose, Held
<1>8. CASE SolveImpedance
  BY <1>8, Zenon DEF SolveImpedance, Finish, Say, Chose, Held
<1> QED BY <1>2, <1>3, <1>4, <1>5, <1>6, <1>7, <1>8 DEF Next

\* What an answer says it is.
LEMMA SaidOf ==
  /\ \A said, line, got : Chose(said, line, got) => answer'.said = said
  /\ \A a : CompareWith(a) => answer'.said = "reviewed"
<1>1. \A said, line, got : Judged(said, line, got).said = said
  BY DEF Judged
<1> QED BY <1>1 DEF Chose, CompareWith, Finish, Say

\* A command that judges holds what was read off pages that are whole.
LEMMA HeldIsRead ==
  ASSUME IInv, At("judge")
  PROVE  /\ snapshot.normalized \in Acquirable
         /\ ~ Parse(snapshot.normalized).refused
         /\ ~ Nonsense(snapshot.normalized)
         /\ Held = Parse(snapshot.normalized)
         /\ request \in Requests
<1>1. IsAcquired(snapshot) /\ Trustworthy(snapshot)
  BY DEF IInv, HoldInv, At
<1>2. request \in Requests
  BY DEF IInv, CountInv, At
<1> QED BY <1>1, <1>2, TrustedIsWhole DEF Held, CatalogOf, Catalogs

-----------------------------------------------------------------------------
(* The answers of the solver.                                              *)

\* A result of solve() is about well-formed problems, and its roots are those
\* of its problems.
LEMMA SolvedExactly ==
  ASSUME NEW c, Trim(c) \in Int, NEW q, NEW form \in Forms, NEW line,
         \A v \in {line.target, line.min, line.max} : v = Bad \/ v \in Int,
         NEW got \in SolveLine(c, q, line, form),
         NEW t \in DOMAIN got.roots
  PROVE  got.roots[t] = Solutions(got.problems[t], line.target)
<1>1. PICK s : /\ got = Solve(c, q, s, line, form)
               /\ WellPosed(line) /\ InTable(c, line)
  BY Zenon DEF SolveLine
<1> DEFINE readings == Readings(Topology(s, line))
           problem(x) == Problem(form, x, Trim(c), line.min, line.max)
<1>2. /\ got.problems = [x \in readings |-> problem(x)]
      /\ got.roots = [x \in readings |-> Roots(got.problems[x], line.target)]
  <2> HIDE DEF problem
  <2> QED BY <1>1 DEF Solve, problem
<1>3. t \in readings /\ readings \subseteq Topologies
  BY <1>2 DEF Readings, Topology, Topologies
<1>4. /\ line.target \in Int /\ line.min \in Int /\ line.max \in Int
      /\ line.min < line.max
  BY <1>1 DEF WellPosed
<1>5. Trim(c) < line.min /\ line.max - Trim(c) <= Widest
  BY <1>1 DEF InTable
<1>6. WellFormed(problem(t))
  BY <1>3, <1>4, <1>5, ProblemsAreWellFormed
<1>7. Roots(problem(t), line.target) = Solutions(problem(t), line.target)
  BY <1>4, <1>6, RootsExact
<1> HIDE DEF problem, readings
<1> QED BY <1>2, <1>3, <1>7

\* The widths the solver finds are the widths there are
\* (impedance._solve_width), whatever pages the catalog was read from and
\* whatever the closed forms are.
THEOREM RootsAreExact == Spec => []RootsAreTheSolutions
<1>1. Init => RootsAreTheSolutions
  BY DEF Init, RootsAreTheSolutions
<1>2. IInv /\ RootsAreTheSolutions /\ [Next]_vars => RootsAreTheSolutions'
  <2> SUFFICES ASSUME IInv, RootsAreTheSolutions, [Next]_vars
               PROVE  RootsAreTheSolutions'
    OBVIOUS
  <2>1. CASE UNCHANGED answer \/ answer'.said # "solved"
    BY <2>1 DEF RootsAreTheSolutions
  <2>2. ASSUME At("judge"), NEW line \in Lines[request], NEW form \in Forms,
               Chose("solved", line, SolveLine(Held, request, line, form))
        PROVE  RootsAreTheSolutions'
    <3>1. Trim(Held) \in Int
      BY <2>2, HeldIsRead, NumbersAreNumbers DEF CatalogOf, Held
    <3>2. \A v \in {line.target, line.min, line.max} : v = Bad \/ v \in Int
      BY <2>2, HeldIsRead, NumbersAreNumbers
    <3>3. answer'.line = line /\ answer'.got = SolveLine(Held, request, line, form)
      BY <2>2 DEF Chose, Judged
    <3> QED BY <2>2, <3>1, <3>2, <3>3, SolvedExactly DEF RootsAreTheSolutions
  <2> QED BY <2>1, <2>2, AnswersOf, SaidOf
<1> QED BY <1>1, <1>2, InitIInv, NextIInv, PTL DEF Spec

-----------------------------------------------------------------------------
(* A review.                                                              *)

\* Selection looks at a catalog through its statements alone.
LEMMA SameStatements ==
  ASSUME NEW c, NEW d, c.kept = d.kept
  PROVE  \A what : Stated(c, what) = Stated(d, what)
BY DEF Stated

LEMMA SameCopper ==
  ASSUME NEW c, NEW d, \A what : Stated(c, what) = Stated(d, what), NEW q
  PROVE  Outer(c, q) = Outer(d, q) /\ Inner(c, q) = Inner(d, q)
<1>1. \A position, layers :
        CopperRecords(c, position, layers) = CopperRecords(d, position, layers)
  <2> TAKE position, layers
  <2>1. {Stated(c, w) : w \in CopperKinds(position)}
          = {Stated(d, w) : w \in CopperKinds(position)}
    OBVIOUS
  <2> QED BY <2>1, Zenon DEF CopperRecords
<1>2. \A position, required, layers :
        PickWeight(c, position, required, layers)
          = PickWeight(d, position, required, layers)
  <2> TAKE position, required, layers
  <2>1. /\ CopperRecords(c, position, layers) = CopperRecords(d, position, layers)
        /\ Stated(c, "inner default") = Stated(d, "inner default")
    BY <1>1
  <2> QED BY <2>1, Zenon DEF PickWeight
<1> QED BY <1>2, Zenon DEF Outer, Inner

LEMMA SameTraces ==
  ASSUME NEW c, NEW d, \A what : Stated(c, what) = Stated(d, what), NEW q
  PROVE  TraceOffered(c, q) <=> TraceOffered(d, q)
<1>1. \A weight, layers : TraceLimits(c, weight, layers) = TraceLimits(d, weight, layers)
  <2> TAKE weight, layers
  <2>1. /\ Stated(c, "trace") = Stated(d, "trace")
        /\ Stated(c, "design rule") = Stated(d, "design rule")
    OBVIOUS
  <2> QED BY <2>1, Zenon DEF TraceLimits
<1>2. \A w : TraceLimits(c, w, q.layers) = TraceLimits(d, w, q.layers)
  BY <1>1
<1>3. Outer(c, q) = Outer(d, q) /\ Inner(c, q) = Inner(d, q)
  BY SameCopper
<1> QED BY <1>2, <1>3, Zenon DEF TraceOffered

LEMMA SameCandidates ==
  ASSUME NEW c, NEW d, \A what : Stated(c, what) = Stated(d, what), NEW q
  PROVE  /\ Candidates(c, q) = Candidates(d, q)
         /\ \A layers : PublishedAt(c, layers) <=> PublishedAt(d, layers)
<1>1. Outer(c, q) = Outer(d, q) /\ Inner(c, q) = Inner(d, q)
  BY SameCopper
<1>2. Stated(c, "construction") = Stated(d, "construction")
  OBVIOUS
<1> QED BY <1>1, <1>2, Zenon DEF Candidates, PublishedAt

LEMMA SameRejections ==
  ASSUME NEW c, NEW d, \A what : Stated(c, what) = Stated(d, what), NEW q
  PROVE  Rejections(c, q) = Rejections(d, q)
<1>1. LayersOffered(c, q) <=> LayersOffered(d, q)
  <2>1. /\ Stated(c, "layer options") = Stated(d, "layer options")
        /\ Stated(c, "layer range") = Stated(d, "layer range")
    OBVIOUS
  <2> QED BY <2>1, Zenon DEF LayersOffered
<1>2. ThicknessOffered(c, q) <=> ThicknessOffered(d, q)
  <2>1. /\ Stated(c, "section thickness") = Stated(d, "section thickness")
        /\ Stated(c, "thickness") = Stated(d, "thickness")
        /\ Stated(c, "restriction") = Stated(d, "restriction")
    OBVIOUS
  <2> QED BY <2>1, Zenon DEF ThicknessOffered, Restricted
<1>3. DrillOffered(c, q) <=> DrillOffered(d, q)
  <2>1. Stated(c, "drill") = Stated(d, "drill")
    OBVIOUS
  <2> QED BY <2>1, Zenon DEF DrillOffered
<1>4. ViaOffered(c, q) <=> ViaOffered(d, q)
  <2>1. Stated(c, "via") = Stated(d, "via")
    OBVIOUS
  <2> QED BY <2>1, Zenon DEF ViaOffered
<1>5. ImpedanceOffered(c, q) <=> ImpedanceOffered(d, q)
  <2>1. Stated(c, "impedance counts") = Stated(d, "impedance counts")
    OBVIOUS
  <2> QED BY <2>1, SameCandidates, Zenon DEF ImpedanceOffered
<1>6. Outer(c, q) = Outer(d, q) /\ Inner(c, q) = Inner(d, q)
  BY SameCopper
<1>7. TraceOffered(c, q) <=> TraceOffered(d, q)
  BY SameTraces
<1> QED BY <1>1, <1>2, <1>3, <1>4, <1>5, <1>6, <1>7 DEF Rejections

LEMMA SameChoices ==
  ASSUME NEW c, NEW d, c.kept = d.kept, NEW q, NEW pick
  PROVE  Select(c, q) = Select(d, q) /\ Exports(c, q, pick) = Exports(d, q, pick)
<1>1. \A what : Stated(c, what) = Stated(d, what)
  BY SameStatements
<1>2. /\ Outer(c, q) = Outer(d, q) /\ Inner(c, q) = Inner(d, q)
      /\ Candidates(c, q) = Candidates(d, q)
      /\ Rejections(c, q) = Rejections(d, q)
      /\ PublishedAt(c, Composable) <=> PublishedAt(d, Composable)
  BY <1>1, SameCopper, SameCandidates, SameRejections
<1>3. Select(c, q) = Select(d, q)
  <2>1. PromisesComposition(c, q) = PromisesComposition(d, q)
    BY <1>2 DEF PromisesComposition
  <2> QED BY <1>2, <2>1, Zenon DEF Select
<1>4. ExactConstants(c, Composable) = ExactConstants(d, Composable)
  BY <1>1 DEF ExactConstants
<1>5. \A weight : Foil(c, weight) = Foil(d, weight)
  <2>1. Stated(c, "equivalence") = Stated(d, "equivalence")
    BY <1>1
  <2> QED BY <2>1, Zenon DEF Foil
<1>6. /\ CanCompose(c, q) <=> CanCompose(d, q)
      /\ Composed(c, q) = Composed(d, q)
  <2>1. /\ Stated(c, "equivalence") = Stated(d, "equivalence")
        /\ Foil(c, Outer(c, q).weight) = Foil(d, Outer(d, q).weight)
    BY <1>1, <1>2, <1>5
  <2> QED BY <1>2, <1>4, <2>1, Zenon DEF CanCompose, Composed
<1>7. \A s : Published(c, s) = Published(d, s)
  <2> TAKE s
  <2>1. \A material : GenericConstant(c, material) = GenericConstant(d, material)
    <3>1. /\ Stated(c, "generic prepreg") = Stated(d, "generic prepreg")
          /\ Stated(c, "generic core") = Stated(d, "generic core")
      BY <1>1
    <3> QED BY <3>1, Zenon DEF GenericConstant
  <2>2. {GenericConstant(c, x.material) : x \in Dielectrics(s)}
          = {GenericConstant(d, x.material) : x \in Dielectrics(s)}
    BY <2>1
  <2> QED BY <2>2, Zenon DEF Published
<1>8. \A S : {Published(c, s) : s \in S} = {Published(d, s) : s \in S}
  BY <1>7
<1>9. Exports(c, q, pick) = Exports(d, q, pick)
  <2> DEFINE named == IF Given(pick) THEN {s \in Candidates(c, q) : s.name = pick}
                      ELSE IF Cardinality(Candidates(c, q)) = 1
                           THEN Candidates(c, q) ELSE {}
  <2>1. {Published(c, s) : s \in named} = {Published(d, s) : s \in named}
    BY <1>8
  <2> QED BY <1>2, <1>6, <2>1, Zenon DEF Exports
<1> QED BY <1>3, <1>9

LEMMA NoDifference ==
  ASSUME NEW a, NEW b, Differences(a, b) = {}
  PROVE  a.kept = b.kept
<1> DEFINE gone == a.kept \ b.kept
           new == b.kept \ a.kept
           renamed == {r \in new : \E o \in gone : Essence(o) = Essence(r)}
<1>1. Differences(a, b) = {<<"renamed", r>> : r \in renamed}
        \cup {<<"added", r>> : r \in new \ renamed}
        \cup {<<"removed", r>> : r \in
                {r \in gone : ~ \E n \in renamed : Essence(n) = Essence(r)}}
  BY Zenon DEF Differences
<1>2. renamed = {} /\ new \ renamed = {}
  <2> HIDE DEF new, gone, renamed
  <2> QED BY <1>1
<1>3. {r \in gone : ~ \E n \in renamed : Essence(n) = Essence(r)} = {}
  <2> HIDE DEF new, gone, renamed
  <2> QED BY <1>1
<1>4. gone = {}
  BY <1>2, <1>3
<1> QED BY <1>2, <1>4

LEMMA ReviewedSaid ==
  ASSUME NEW a, CompareWith(a)
  PROVE  /\ answer'.said = "reviewed"
         /\ answer'.before = a.normalized /\ answer'.after = snapshot.normalized
         /\ answer'.differences = Differences(CatalogOf(a.normalized),
                                              CatalogOf(snapshot.normalized))
BY DEF CompareWith, Finish, Say

\* A review that lists no difference between two catalogs is right about every
\* request: each selects and exports the same from both (diff.semantic_diff,
\* selection.select). The answer is made in one step of the two documents, so
\* the step rests on NoDifference and SameChoices and needs no other invariant.
THEOREM NoChangeIsNone == Spec => []NoChangeMeansSameChoices
<1>1. Init => NoChangeMeansSameChoices
  BY DEF Init, NoChangeMeansSameChoices
<1>2. NoChangeMeansSameChoices /\ [Next]_vars => NoChangeMeansSameChoices'
  <2> SUFFICES ASSUME NoChangeMeansSameChoices, [Next]_vars
               PROVE  NoChangeMeansSameChoices'
    OBVIOUS
  <2>1. CASE UNCHANGED answer
    BY <2>1 DEF NoChangeMeansSameChoices
  <2>2. CASE answer'.said # "reviewed"
    BY <2>2 DEF NoChangeMeansSameChoices
  <2>3. CASE CompareWith(tree["committed"].approved)
    <3> DEFINE a == tree["committed"].approved
    <3> HIDE DEF a
    <3>1. /\ answer'.before = a.normalized /\ answer'.after = snapshot.normalized
          /\ answer'.differences = Differences(CatalogOf(a.normalized),
                                              CatalogOf(snapshot.normalized))
      BY <2>3, ReviewedSaid DEF a
    <3>2. answer'.differences = {} =>
            \A q : /\ Select(CatalogOf(answer'.before), q)
                       = Select(CatalogOf(answer'.after), q)
                  /\ Exports(CatalogOf(answer'.before), q, None)
                       = Exports(CatalogOf(answer'.after), q, None)
      <4> DEFINE old == CatalogOf(a.normalized)
                 new == CatalogOf(snapshot.normalized)
      <4> HIDE DEF old, new
      <4>1. Differences(old, new) = {} =>
              \A q : Select(old, q) = Select(new, q) /\ Exports(old, q, None) = Exports(new, q, None)
        BY NoDifference, SameChoices
      <4> QED BY <3>1, <4>1, Zenon DEF old, new
    <3> QED BY <3>2 DEF NoChangeMeansSameChoices
  <2>4. \A said, line, got : Chose(said, line, got) => answer'.said = said
    BY DEF Chose, Judged
  <2> QED BY <2>1, <2>2, <2>3, <2>4, AnswersOf
<1> QED BY <1>1, <1>2, PTL DEF Spec

-----------------------------------------------------------------------------
(* What is kept was stated.                                                *)

\* The pages of one acquisition, and what is read off them before the
\* constructions are.
PageText(pages, source) == Text[pages[source]]
KeptBefore(pages) ==
  CopperWeight(PageText(pages, "copper-weight")).kept
    \cup ImpedanceCalculator(PageText(pages, "impedance-calculator")).kept
    \cup Capabilities(PageText(pages, "capabilities")).kept
    \cup ThicknessOptions(PageText(pages, "thickness-options")).kept
ReadLast(pages) == Impedance(PageText(pages, "impedance"), KeptBefore(pages))

\* parse() keeps what is read off each page and refuses what one refuses.
LEMMA ParseOf ==
  ASSUME NEW pages
  PROVE  /\ Parse(pages).kept = KeptBefore(pages) \cup ReadLast(pages).kept
         /\ ~ Parse(pages).refused =>
              /\ ~ CopperWeight(PageText(pages, "copper-weight")).refused
              /\ ~ Capabilities(PageText(pages, "capabilities")).refused
              /\ ~ ThicknessOptions(PageText(pages, "thickness-options")).refused
              /\ ~ ReadLast(pages).refused
<1> DEFINE cop == CopperWeight(PageText(pages, "copper-weight"))
           cal == ImpedanceCalculator(PageText(pages, "impedance-calculator"))
           cap == Capabilities(PageText(pages, "capabilities"))
           thk == ThicknessOptions(PageText(pages, "thickness-options"))
           others == {CopperWeight(p) : p \in PageOf(pages, "copper-weight")}
             \cup {ImpedanceCalculator(p) : p \in PageOf(pages, "impedance-calculator")}
             \cup {Capabilities(p) : p \in PageOf(pages, "capabilities")}
             \cup {ThicknessOptions(p) : p \in PageOf(pages, "thickness-options")}
           all == others
             \cup {Impedance(p, before) : p \in PageOf(pages, "impedance"),
                                          before \in {UNION {o.kept : o \in others}}}
<1>1. others = {cop, cal, cap, thk}
  <2>1. \A source : PageOf(pages, source) = {PageText(pages, source)}
    BY DEF PageOf, PageText
  <2>2. /\ {CopperWeight(p) : p \in PageOf(pages, "copper-weight")} = {cop}
        /\ {ImpedanceCalculator(p) : p \in PageOf(pages, "impedance-calculator")} = {cal}
        /\ {Capabilities(p) : p \in PageOf(pages, "capabilities")} = {cap}
        /\ {ThicknessOptions(p) : p \in PageOf(pages, "thickness-options")} = {thk}
    BY <2>1
  <2> HIDE DEF cop, cal, cap, thk
  <2> QED BY <2>2
<1>2. UNION {o.kept : o \in others} = KeptBefore(pages)
  <2>1. cop.kept \cup cal.kept \cup cap.kept \cup thk.kept = KeptBefore(pages)
    BY DEF KeptBefore
  <2> HIDE DEF cop, cal, cap, thk, others
  <2> QED BY <1>1, <2>1
<1>3. {Impedance(p, before) : p \in PageOf(pages, "impedance"),
                              before \in {UNION {o.kept : o \in others}}}
        = {ReadLast(pages)}
  <2>1. PageOf(pages, "impedance") = {PageText(pages, "impedance")}
    BY DEF PageOf, PageText
  <2>2. \A S, B, page, before : S = {page} /\ B = {before} =>
          {Impedance(p, b) : p \in S, b \in B} = {Impedance(page, before)}
    OBVIOUS
  <2>3. {UNION {o.kept : o \in others}} = {KeptBefore(pages)}
    BY <1>2
  <2> DEFINE S == PageOf(pages, "impedance")
             B == {UNION {o.kept : o \in others}}
  <2>4. S = {PageText(pages, "impedance")} /\ B = {KeptBefore(pages)}
    BY <2>1, <2>3
  <2> HIDE DEF S, B
  <2>5. {Impedance(p, b) : p \in S, b \in B} = {ReadLast(pages)}
    BY <2>2, <2>4 DEF ReadLast
  <2> HIDE DEF others
  <2> QED BY <2>5 DEF S, B
<1>4. all = {cop, cal, cap, thk, ReadLast(pages)}
  <2> HIDE DEF others, cop, cal, cap, thk
  <2> QED BY <1>1, <1>3
<1>5. Parse(pages) = [refused |-> \E o \in all : o.refused,
                      notes |-> UNION {o.notes : o \in all},
                      kept |-> UNION {o.kept : o \in all}]
  BY DEF Parse
<1>6. Parse(pages).kept = KeptBefore(pages) \cup ReadLast(pages).kept
  <2>1. cop.kept \cup cal.kept \cup cap.kept \cup thk.kept = KeptBefore(pages)
    BY DEF KeptBefore
  <2> HIDE DEF all, cop, cal, cap, thk
  <2>2. Parse(pages).kept = UNION {o.kept : o \in all}
    BY <1>5
  <2> QED BY <1>4, <2>1, <2>2
<1>7. Parse(pages).refused <=> \E o \in all : o.refused
  <2> HIDE DEF all
  <2> QED BY <1>5
<1> HIDE DEF all, cal
<1> QED BY <1>4, <1>6, <1>7

\* What is stored from some places of a page is stated at one of them.
LEMMA LastIsStated ==
  ASSUME NEW p, NEW kinds, NEW places, places \subseteq Emitted(p, kinds),
         NEW r \in LastOf(p, places)
  PROVE  r \in ToSet(p) /\ r.what \in kinds /\ r.reads = "whole"
<1>1. PICK i \in places : r = p[i]
  BY DEF LastOf
<1>2. i \in DOMAIN p /\ p[i].what \in kinds /\ p[i].reads = "whole"
  BY DEF Emitted
<1> QED BY <1>1, <1>2 DEF ToSet

\* Being whole is being a statement of its kind that was read whole.
LEMMA InWhole ==
  ASSUME NEW statements, NEW kinds, NEW r
  PROVE  r \in WholeOf(statements, kinds)
           <=> r \in statements /\ r.what \in kinds /\ r.reads = "whole"
BY DEF WholeOf, Whole, Of

\* What each page leaves in the catalog.
LEMMA KeptOfPages ==
  ASSUME NEW p
  PROVE  /\ CopperWeight(p).kept =
              WholeOf(ToSet(p), {"outer options", "heavy outer options",
                                 "inner options", "equivalence"})
                \cup LastOf(p, Emitted(p, {"design rule"}))
         /\ ImpedanceCalculator(p).kept =
              WholeOf(ToSet(p), {"finished copper", "mask constant", "material family",
                                 "mask thickness", "finished inner copper",
                                 "supported weights", "impedance range",
                                 "trace top width"})
                \cup LastOf(p, Emitted(p, {"model core", "model prepreg"}))
         /\ ThicknessOptions(p).kept = WholeOf(ToSet(p), {"stated list", "restriction"})
         /\ Capabilities(p).kept =
              WholeOf(ToSet(p), {"layer range", "impedance tolerance", "thickness",
                                 "thickness range", "multilayer copper",
                                 "2-layer copper", "finished inner options",
                                 "inner default", "heavy thickness", "trace coils"})
                \cup DielectricsKept(p) \cup TracesKept(p)
                \cup LayerCountsKept(ToSet(p)) \cup DrillsAndViasKept(ToSet(p))
<1>1. CopperWeight(p).kept =
        WholeOf(ToSet(p), {"outer options", "heavy outer options", "inner options"}
                            \cup {"equivalence"})
          \cup LastOf(p, Emitted(p, {"design rule"}))
  BY DEF CopperWeight
<1>2. ImpedanceCalculator(p).kept =
        WholeOf(ToSet(p), {"finished copper", "mask constant", "material family"}
                     \cup {"mask thickness", "finished inner copper"}
                     \cup {"supported weights", "impedance range", "trace top width"})
          \cup CalculatorTables(p).kept
  BY DEF ImpedanceCalculator
<1>3. Capabilities(p).kept =
        WholeOf(ToSet(p), {"layer range", "impedance tolerance", "thickness",
                    "thickness range", "multilayer copper", "2-layer copper",
                    "finished inner options", "inner default"}
                     \cup {"heavy thickness", "trace coils"})
          \cup DielectricsKept(p) \cup TracesKept(p) \cup LayerCountsKept(ToSet(p))
          \cup DrillsAndViasKept(ToSet(p))
  BY DEF Capabilities
<1>4. ThicknessOptions(p).kept = WholeOf(ToSet(p), {"stated list", "restriction"})
  BY DEF ThicknessOptions
<1>5. CalculatorTables(p).kept = LastOf(p, Emitted(p, {"model core", "model prepreg"}))
  BY DEF CalculatorTables
<1>6. /\ {"outer options", "heavy outer options", "inner options"} \cup {"equivalence"}
         = {"outer options", "heavy outer options", "inner options", "equivalence"}
      /\ {"finished copper", "mask constant", "material family"}
           \cup {"mask thickness", "finished inner copper"}
           \cup {"supported weights", "impedance range", "trace top width"}
         = {"finished copper", "mask constant", "material family",
            "mask thickness", "finished inner copper",
            "supported weights", "impedance range", "trace top width"}
      /\ {"layer range", "impedance tolerance", "thickness",
          "thickness range", "multilayer copper", "2-layer copper",
          "finished inner options", "inner default"}
           \cup {"heavy thickness", "trace coils"}
         = {"layer range", "impedance tolerance", "thickness",
            "thickness range", "multilayer copper", "2-layer copper",
            "finished inner options", "inner default",
            "heavy thickness", "trace coils"}
  OBVIOUS
<1> QED BY <1>1, <1>2, <1>3, <1>4, <1>5, <1>6, Zenon

\* What the pages say together is what one of them says.
LEMMA TextOf ==
  ASSUME NEW pages \in Acquirable
  PROVE  \A r \in WholeText(pages) :
           \E s \in Sources : /\ r \in ToSet(PageText(pages, s))
                              /\ r.what \in Probes(s) /\ IsStatement(r)
<1>1. \A s \in Sources : pages[s] \in Pages[s]
  BY DEF Acquirable
<1>2. \A s \in Sources : \A r \in ToSet(Text[pages[s]]) :
        r.what \in Probes(s) /\ IsStatement(r)
  BY <1>1, PagesAreRead DEF IsPage
<1> QED BY <1>2 DEF WholeText, PageText

\* The sources by name.
LEMMA SourceNames ==
  Sources = {"impedance", "capabilities", "copper-weight",
             "impedance-calculator", "thickness-options"}
<1>1. 1..5 = {1, 2, 3, 4, 5}
  OBVIOUS
<1> QED BY <1>1 DEF Sources, SourceOrder

\* Only one page is read for a kind of statement.
LEMMA OneSource ==
  ASSUME NEW s \in Sources, NEW what \in Probes(s)
  PROVE  /\ what = "design rule" => s = "copper-weight"
         /\ what = "restriction" => s = "thickness-options"
         /\ what \in {"trace", "via"} => s = "capabilities"
         /\ what = "stackup" => s = "impedance"
<1>2. CASE s = "impedance"
  <2>1. Probes(s) = {"section thickness", "section outer options", "section inner options",
          "generic prepreg", "generic core", "stackup"}
    BY <1>2 DEF Probes
  <2> QED BY <1>2, <2>1
<1>3. CASE s = "capabilities"
  <2>1. Probes(s) =
         {"layer range", "impedance tolerance", "thickness", "thickness range",
          "multilayer copper", "2-layer copper", "finished inner options",
          "inner default", "heavy thickness", "trace coils", "trace row", "trace",
          "board class constant", "prepreg constant", "enumeration", "drill", "via"}
    BY <1>3 DEF Probes
  <2> QED BY <1>3, <2>1
<1>4. CASE s = "copper-weight"
  <2>1. Probes(s) = {"outer options", "heavy outer options", "inner options",
          "equivalence", "design rule"}
    BY <1>4 DEF Probes
  <2> QED BY <1>4, <2>1
<1>5. CASE s = "impedance-calculator"
  <2>1. Probes(s) = {"finished copper", "mask constant", "material family", "mask thickness",
          "finished inner copper", "supported weights", "impedance range",
          "trace top width", "model core", "model prepreg"}
    BY <1>5 DEF Probes
  <2> QED BY <2>1
<1>6. CASE s = "thickness-options"
  <2>1. Probes(s) = {"stated list", "restriction"}
    BY <1>6 DEF Probes
  <2> QED BY <1>6, <2>1
<1> QED BY <1>2, <1>3, <1>4, <1>5, <1>6, SourceNames

LEMMA OnOnePage ==
  ASSUME NEW pages \in Acquirable, NEW r \in WholeText(pages)
  PROVE  /\ r.what = "restriction" => r \in ToSet(PageText(pages, "thickness-options"))
         /\ r.what \in {"trace", "via"} => r \in ToSet(PageText(pages, "capabilities"))
         /\ r.what = "stackup" => r \in ToSet(PageText(pages, "impedance"))
<1>1. PICK s \in Sources : r \in ToSet(PageText(pages, s)) /\ r.what \in Probes(s)
  BY TextOf
<1> QED BY <1>1, OneSource

\* A statement that is made on a page is one of the whole text.
LEMMA PagesInText ==
  ASSUME NEW pages, NEW s \in Sources
  PROVE  ToSet(PageText(pages, s)) \subseteq WholeText(pages)
BY DEF PageText, WholeText

\* The pages are read for what they are.
LEMMA PagesAre ==
  ASSUME NEW pages \in Acquirable, NEW s \in Sources
  PROVE  IsPage(PageText(pages, s), s)
BY PagesAreRead DEF PageText, Acquirable

\* The kinds the adapter makes up itself.
Derived == {"impedance counts", "layer options", "npth via", "via", "construction"}

\* What the catalog keeps as it was stated was stated whole; the others are
\* made of what was.
LEMMA KeptOfCapabilities ==
  ASSUME NEW p, IsPage(p, "capabilities"), NEW r \in Capabilities(p).kept
  PROVE  /\ r.what # "construction"
         /\ r.what \notin Derived => r \in ToSet(p) /\ r.reads = "whole"
         /\ r.what = "layer options" =>
              \E e \in Whole(ToSet(p), "enumeration") :
                r.counts = {1, 2} \cup ImpedanceCounts(e)
         /\ r.what = "via" =>
              \E v \in Whole(ToSet(p), "via") : ~ v.npth /\ r = v
<1> DEFINE kinds == {"layer range", "impedance tolerance", "thickness",
                     "thickness range", "multilayer copper", "2-layer copper",
                     "finished inner options", "inner default",
                     "heavy thickness", "trace coils"}
           says == ToSet(p)
<1>1. \/ r \in WholeOf(says, kinds)
      \/ r \in DielectricsKept(p) \/ r \in TracesKept(p) \/ r \in LayerCountsKept(says)
      \/ r \in DrillsAndViasKept(says)
  BY KeptOfPages
<1>2. CASE r \in WholeOf(says, kinds)
  <2>1. r \in says /\ r.what \in kinds /\ r.reads = "whole"
    <3> HIDE DEF kinds, says
    <3> QED BY <1>2, InWhole
  <2> QED BY <2>1 DEF Derived
<1>3. CASE r \in DielectricsKept(p)
  <2> DEFINE constants == {"board class constant", "prepreg constant"}
             places == {i \in Emitted(p, constants) : Plausible(p[i])}
  <2>1. r \in LastOf(p, places) /\ places \subseteq Emitted(p, constants)
    BY <1>3 DEF DielectricsKept
  <2>2. r \in ToSet(p) /\ r.what \in constants /\ r.reads = "whole"
    <3> HIDE DEF constants, places
    <3> QED BY <2>1, LastIsStated
  <2> QED BY <2>2 DEF Derived
<1>4. CASE r \in TracesKept(p)
  <2>1. TracesEmitted(p) \subseteq Emitted(p, {"trace"})
    BY DEF TracesEmitted
  <2>2. r \in ToSet(p) /\ r.what \in {"trace"} /\ r.reads = "whole"
    BY <1>4, <2>1, LastIsStated DEF TracesKept
  <2> QED BY <2>2 DEF Derived
<1>5. CASE r \in LayerCountsKept(says)
  <2>1. PICK e \in Whole(says, "enumeration") :
          r \in {[what |-> "impedance counts", counts |-> ImpedanceCounts(e)],
                 [what |-> "layer options", counts |-> {1, 2} \cup ImpedanceCounts(e)]}
    BY <1>5 DEF LayerCountsKept
  <2>2. \/ r.what = "impedance counts"
        \/ r.what = "layer options" /\ r.counts = {1, 2} \cup ImpedanceCounts(e)
    <3> DEFINE counts == {1, 2} \cup ImpedanceCounts(e)
               these == ImpedanceCounts(e)
    <3>1. \/ r = [what |-> "impedance counts", counts |-> these]
          \/ r = [what |-> "layer options", counts |-> counts]
      BY <2>1
    <3> HIDE DEF counts, these
    <3>2. CASE r = [what |-> "layer options", counts |-> counts]
      <4>1. r.what = "layer options" /\ r.counts = counts
        BY <3>2
      <4> QED BY <4>1 DEF counts
    <3>3. CASE r = [what |-> "impedance counts", counts |-> these]
      <4>1. r.what = "impedance counts"
        BY <3>3
      <4> QED BY <4>1
    <3> QED BY <3>1, <3>2, <3>3
  <2> QED BY <2>2 DEF Derived
<1>6. CASE r \in DrillsAndViasKept(says)
  <2>1. CASE r \in Whole(says, "drill")
    BY <2>1 DEF Whole, Of, Derived
  <2>2. CASE r \in {[v EXCEPT !.what = IF v.npth THEN "npth via" ELSE "via"]
                    : v \in Whole(says, "via")}
    <3>1. PICK v \in Whole(says, "via") :
            r = [v EXCEPT !.what = IF v.npth THEN "npth via" ELSE "via"]
      BY <2>2
    <3>2. v \in [what : {"via"}, reads : {"whole", "part", "nonsense"},
                 lo : Int, hi : Int, npth : BOOLEAN, diameter : Int]
      BY DEF Whole, Of, IsPage, IsStatement
    <3>3. r.what = IF v.npth THEN "npth via" ELSE "via"
      BY <3>1, <3>2
    <3>4. ~ v.npth => r = v
      BY <3>1, <3>2
    <3> QED BY <3>3, <3>4 DEF Derived
  <2> QED BY <1>6, <2>1, <2>2 DEF DrillsAndViasKept
<1> QED BY <1>1, <1>2, <1>3, <1>4, <1>5, <1>6

\* What the impedance page adds to what was kept.
LEMMA KeptOfImpedance ==
  ASSUME NEW p, NEW before, NEW r \in Impedance(p, before).kept,
         ~ Impedance(p, before).refused
  PROVE  /\ r.what # "via" /\ r.what # "layer options"
         /\ r.what \notin Derived => r \in ToSet(p) /\ r.reads = "whole"
         /\ r.what = "construction" =>
              \E i \in DOMAIN p : /\ p[i].what = "stackup" /\ ~ Contradicts(p[i])
                                  /\ r = Construction(p, i, before)
<1> DEFINE kinds == {"section thickness", "section outer options",
                     "section inner options"} \cup {"generic prepreg"}
           stackups == {i \in DOMAIN p : p[i].what = "stackup"}
<1>1. /\ \A i \in stackups : ~ Contradicts(p[i])
      /\ \/ r \in Whole(ToSet(p), "generic core")
         \/ r \in LastOf(p, Emitted(p, kinds))
         \/ r \in {Construction(p, i, before) : i \in stackups}
  BY DEF Impedance
<1>2. CASE r \in Whole(ToSet(p), "generic core")
  BY <1>2 DEF Whole, Of, Derived
<1>3. CASE r \in LastOf(p, Emitted(p, kinds))
  <2>1. r \in ToSet(p) /\ r.what \in kinds /\ r.reads = "whole"
    <3> HIDE DEF kinds
    <3> QED BY <1>3, LastIsStated
  <2> QED BY <2>1 DEF Derived
<1>4. CASE r \in {Construction(p, i, before) : i \in stackups}
  <2>1. PICK i \in stackups : r = Construction(p, i, before)
    BY <1>4
  <2>2. r.what = "construction"
    BY <2>1 DEF Construction
  <2> QED BY <1>1, <2>1, <2>2 DEF Derived
<1> QED BY <1>1, <1>2, <1>3, <1>4

\* Whatever is kept was stated: as it is, whole, or it is derived from a
\* statement that was.
LEMMA KeptWasStated ==
  ASSUME NEW pages \in Acquirable, ~ Parse(pages).refused,
         NEW r \in Parse(pages).kept
  PROVE  /\ r.what \notin Derived => r \in WholeText(pages) /\ r.reads = "whole"
         /\ r.what = "layer options" =>
              \E e \in Whole(WholeText(pages), "enumeration") :
                r.counts = {1, 2} \cup ImpedanceCounts(e)
         /\ r.what = "via" => r \in Whole(WholeText(pages), "via") /\ ~ r.npth
         /\ r.what = "construction" =>
              LET p == PageText(pages, "impedance")
              IN  \E i \in DOMAIN p : /\ p[i].what = "stackup" /\ ~ Contradicts(p[i])
                                      /\ r = Construction(p, i, KeptBefore(pages))
<1> DEFINE t(s) == PageText(pages, s)
<1>1. \A s \in Sources : ToSet(t(s)) \subseteq WholeText(pages) /\ IsPage(t(s), s)
  BY PagesInText, PagesAre
<1>2. CASE r \in CopperWeight(t("copper-weight")).kept
  <2> DEFINE kinds == {"outer options", "heavy outer options", "inner options",
                       "equivalence"}
             table == {"design rule"}
  <2>1. /\ r \in ToSet(t("copper-weight")) /\ r.reads = "whole"
        /\ r.what \in kinds \/ r.what \in table
    <3>1. \/ r \in WholeOf(ToSet(t("copper-weight")), kinds)
          \/ r \in LastOf(t("copper-weight"), Emitted(t("copper-weight"), table))
      BY <1>2, KeptOfPages
    <3> HIDE DEF kinds, table
    <3> QED BY <3>1, InWhole, LastIsStated
  <2> QED BY <1>1, <2>1, SourceNames DEF Derived
<1>3. CASE r \in ImpedanceCalculator(t("impedance-calculator")).kept
  <2> DEFINE kinds == {"finished copper", "mask constant", "material family",
                       "mask thickness", "finished inner copper",
                       "supported weights", "impedance range", "trace top width"}
             tables == {"model core", "model prepreg"}
             p == t("impedance-calculator")
  <2>1. /\ r \in ToSet(p) /\ r.reads = "whole"
        /\ r.what \in kinds \/ r.what \in tables
    <3>1. \/ r \in WholeOf(ToSet(p), kinds)
          \/ r \in LastOf(p, Emitted(p, tables))
      BY <1>3, KeptOfPages
    <3> HIDE DEF kinds, tables, p
    <3> QED BY <3>1, InWhole, LastIsStated
  <2> QED BY <1>1, <2>1, SourceNames DEF Derived
<1>4. CASE r \in ThicknessOptions(t("thickness-options")).kept
  <2> DEFINE kinds == {"stated list", "restriction"}
  <2>1. /\ r \in ToSet(t("thickness-options")) /\ r.reads = "whole"
        /\ r.what \in kinds
    <3>1. r \in WholeOf(ToSet(t("thickness-options")), kinds)
      BY <1>4, KeptOfPages
    <3> HIDE DEF kinds
    <3> QED BY <3>1, InWhole
  <2> QED BY <1>1, <2>1, SourceNames DEF Derived
<1>5. CASE r \in Capabilities(t("capabilities")).kept
  <2> DEFINE p == t("capabilities")
  <2>1. IsPage(p, "capabilities") /\ ToSet(p) \subseteq WholeText(pages)
    BY <1>1, SourceNames
  <2> HIDE DEF p
  <2>2. /\ \A what : Whole(ToSet(p), what) \subseteq Whole(WholeText(pages), what)
        /\ r \in Capabilities(p).kept
    BY <1>5, <2>1 DEF Whole, Of, p
  <2>3. /\ r.what # "construction"
        /\ r.what \notin Derived => r \in ToSet(p) /\ r.reads = "whole"
        /\ r.what = "layer options" =>
              \E e \in Whole(ToSet(p), "enumeration") :
                r.counts = {1, 2} \cup ImpedanceCounts(e)
        /\ r.what = "via" => \E v \in Whole(ToSet(p), "via") : ~ v.npth /\ r = v
    BY <2>1, <2>2, KeptOfCapabilities, Zenon
  <2> QED BY <2>1, <2>2, <2>3
<1>6. CASE r \in ReadLast(pages).kept
  <2>1. ~ ReadLast(pages).refused
    BY ParseOf
  <2> DEFINE p == t("impedance")
             before == KeptBefore(pages)
  <2>2. ToSet(p) \subseteq WholeText(pages)
    BY <1>1, SourceNames
  <2> HIDE DEF p, before
  <2>3. r \in Impedance(p, before).kept /\ ~ Impedance(p, before).refused
    BY <1>6, <2>1 DEF p, before, ReadLast
  <2>4. /\ r.what # "via" /\ r.what # "layer options"
        /\ r.what \notin Derived => r \in ToSet(p) /\ r.reads = "whole"
        /\ r.what = "construction" =>
              \E i \in DOMAIN p : /\ p[i].what = "stackup" /\ ~ Contradicts(p[i])
                                  /\ r = Construction(p, i, before)
    BY <2>3, KeptOfImpedance, Zenon
  <2> QED BY <2>2, <2>4, Zenon DEF p, before
<1> QED BY <1>2, <1>3, <1>4, <1>5, <1>6, ParseOf DEF KeptBefore

\* A page whose numbers are numbers is legible or refused.
LEMMA NumbersRead ==
  ASSUME NEW pages \in Acquirable, ~ Nonsense(pages), NEW r \in WholeText(pages)
  PROVE  r.reads \in {"whole", "part"}
<1>1. PICK s \in Sources : r \in ToSet(PageText(pages, s)) /\ IsStatement(r)
  BY TextOf
<1>2. r.reads # "nonsense"
  BY <1>1 DEF Nonsense, PageText, Acquirable
<1> QED BY <1>1, <1>2 DEF IsStatement

\* Where a page states a limit for tracks, and where that limit stands.
LEMMA LimitsAre ==
  ASSUME NEW p, NEW i \in LimitsOn(p)
  PROVE  /\ i \in DOMAIN p /\ p[i].what \in {"trace", "design rule"}
         /\ p[i].what = "design rule" => i \in Emitted(p, {"design rule"})
         /\ p[i].what = "trace" => i \in TracesEmitted(p)
BY DEF LimitsOn, TracesEmitted, Emitted

\* What nothing below it supersedes is stored, on either page.
LEMMA StandingIsStored ==
  ASSUME NEW p, NEW i \in LimitsOn(p), ~ Superseded(p, i)
  PROVE  /\ p[i].what = "design rule" => p[i] \in LastOf(p, Emitted(p, {"design rule"}))
         /\ p[i].what = "trace" => p[i] \in LastOf(p, TracesEmitted(p))
<1>1. \A j \in LimitsOn(p) : ~ (j > i /\ SameIdentity(p[i], p[j]))
  BY Zenon DEF Superseded
<1>2. Emitted(p, {"design rule"}) \subseteq LimitsOn(p) /\ TracesEmitted(p) \subseteq LimitsOn(p)
  BY DEF LimitsOn
<1>3. ASSUME NEW places \in SUBSET LimitsOn(p), i \in places
      PROVE  p[i] \in LastOf(p, places)
  <2>1. ~ \E j \in places : j > i /\ SameIdentity(p[i], p[j])
    BY <1>1, <1>3, Zenon
  <2> QED BY <1>3, <2>1, Zenon DEF LastOf
<1> QED BY <1>2, <1>3, LimitsAre

\* A limit that stands on the pages is kept.
LEMMA StandingIsKept ==
  ASSUME NEW pages \in Acquirable, ~ Parse(pages).refused,
         NEW r \in StandingLimits(pages)
  PROVE  /\ r \in Parse(pages).kept
         /\ r.what = "trace" \/ r.what = "design rule"
<1>1. PICK s \in Sources : \E i \in LimitsOn(PageText(pages, s)) :
        ~ Superseded(PageText(pages, s), i) /\ r = PageText(pages, s)[i]
  BY DEF StandingLimits, PageText
<1> DEFINE p == PageText(pages, s)
<1>2. PICK i \in LimitsOn(p) : ~ Superseded(p, i) /\ r = p[i]
  BY <1>1
<1>3. IsPage(p, s)
  BY PagesAre
<1>4. i \in DOMAIN p /\ r.what \in {"trace", "design rule"}
  <2> HIDE DEF p
  <2> QED BY <1>2, LimitsAre
<1>5. r.what \in Probes(s)
  <2> HIDE DEF p
  <2> QED BY <1>2, <1>3, <1>4 DEF IsPage, ToSet
<1>6. /\ CopperWeight(PageText(pages, "copper-weight")).kept \subseteq Parse(pages).kept
      /\ Capabilities(PageText(pages, "capabilities")).kept \subseteq Parse(pages).kept
  BY ParseOf DEF KeptBefore
<1>7. /\ r.what = "design rule" => r \in LastOf(p, Emitted(p, {"design rule"}))
      /\ r.what = "trace" => r \in LastOf(p, TracesEmitted(p))
  <2> HIDE DEF p
  <2> QED BY <1>2, StandingIsStored
<1>8. CASE r.what = "design rule"
  <2>1. s = "copper-weight"
    BY <1>5, <1>8, OneSource
  <2>2. r \in CopperWeight(p).kept
    <3> HIDE DEF p
    <3> QED BY <1>7, <1>8, KeptOfPages
  <2> QED BY <1>6, <1>8, <2>1, <2>2
<1>9. CASE r.what = "trace"
  <2>1. s = "capabilities"
    BY <1>5, <1>9, OneSource
  <2>2. r \in Capabilities(p).kept
    <3> HIDE DEF p
    <3> QED BY <1>7, <1>9, KeptOfPages DEF TracesKept
  <2> QED BY <1>6, <1>9, <2>1, <2>2
<1> QED BY <1>4, <1>8, <1>9

\* What was stated and is not refused is kept.
LEMMA StatedIsKept ==
  ASSUME NEW pages \in Acquirable, ~ Parse(pages).refused, ~ Nonsense(pages),
         NEW r \in WholeText(pages)
  PROVE  /\ r.what = "restriction" => r \in Parse(pages).kept
         /\ r.what = "via" /\ r.reads = "whole" /\ ~ r.npth => r \in Parse(pages).kept
         /\ r.what = "stackup" =>
              LET p == PageText(pages, "impedance")
              IN  \E i \in DOMAIN p : /\ r = p[i]
                    /\ Construction(p, i, KeptBefore(pages)) \in Parse(pages).kept
<1> DEFINE t(s) == PageText(pages, s)
<1>1. r.reads \in {"whole", "part"}
  BY NumbersRead
<1>2. /\ Capabilities(t("capabilities")).kept \subseteq Parse(pages).kept
      /\ ThicknessOptions(t("thickness-options")).kept \subseteq Parse(pages).kept
      /\ ReadLast(pages).kept \subseteq Parse(pages).kept
  BY ParseOf DEF KeptBefore
<1>5. r.what = "restriction" => r \in Parse(pages).kept
  <2> SUFFICES ASSUME r.what = "restriction"
               PROVE  r \in ThicknessOptions(t("thickness-options")).kept
    BY <1>2
  <2> DEFINE p == t("thickness-options")
             kinds == {"stated list", "restriction"}
  <2>1. r \in ToSet(p)
    BY OnOnePage
  <2>2. r.reads # "part"
    <3>1. PICK i \in DOMAIN p : r = p[i]
      BY <2>1 DEF ToSet
    <3>2. ~ ThicknessOptions(p).refused
      BY ParseOf
    <3> HIDE DEF p
    <3> QED BY <3>1, <3>2 DEF ThicknessOptions
  <2>3. r \in ToSet(p) /\ r.what \in kinds /\ r.reads = "whole"
    BY <1>1, <2>1, <2>2
  <2>4. r \in WholeOf(ToSet(p), kinds)
    <3> HIDE DEF kinds, p
    <3> QED BY <2>3, InWhole
  <2> QED BY <2>4, KeptOfPages
<1>6. r.what = "via" /\ r.reads = "whole" /\ ~ r.npth => r \in Parse(pages).kept
  <2> SUFFICES ASSUME r.what = "via", r.reads = "whole", ~ r.npth
               PROVE  r \in Capabilities(t("capabilities")).kept
    BY <1>2
  <2>1. r \in Whole(ToSet(t("capabilities")), "via")
    BY OnOnePage DEF Whole, Of
  <2>2. r \in [what : {"via"}, reads : {"whole", "part", "nonsense"},
               lo : Int, hi : Int, npth : BOOLEAN, diameter : Int]
    BY TextOf DEF IsStatement
  <2>3. r = [r EXCEPT !.what = IF r.npth THEN "npth via" ELSE "via"]
    BY <2>2
  <2>4. r \in DrillsAndViasKept(ToSet(t("capabilities")))
    BY <2>1, <2>3 DEF DrillsAndViasKept
  <2> QED BY <2>4, KeptOfPages
<1>7. ASSUME r.what = "stackup"
      PROVE  \E i \in DOMAIN t("impedance") :
               /\ r = t("impedance")[i]
               /\ Construction(t("impedance"), i, KeptBefore(pages)) \in Parse(pages).kept
  <2> DEFINE p == t("impedance")
             before == KeptBefore(pages)
             stackups == {i \in DOMAIN p : p[i].what = "stackup"}
  <2>1. PICK i \in DOMAIN p : r = p[i]
    BY <1>7, OnOnePage DEF ToSet
  <2>2. /\ ReadLast(pages).refused = Impedance(p, before).refused
        /\ ReadLast(pages).kept = Impedance(p, before).kept
    BY DEF ReadLast
  <2>3. ~ Impedance(p, before).refused
    BY <2>2, ParseOf
  <2>4. i \in stackups
    BY <1>7, <2>1
  <2>5. Construction(p, i, before) \in Impedance(p, before).kept
    <3> HIDE DEF p, before
    <3>1. \A k \in stackups : ~ Contradicts(p[k])
      BY <2>3 DEF Impedance
    <3>2. Construction(p, i, before) \in {Construction(p, k, before) : k \in stackups}
      BY <2>4
    <3> QED BY <3>1, <3>2 DEF Impedance
  <2> QED BY <1>2, <2>1, <2>2, <2>5
<1> QED BY <1>5, <1>6, <1>7

-----------------------------------------------------------------------------
(* Finite sets of numbers have the extremes that selection looks for.      *)

\* A finite set of numbers that is not empty has a largest one.
LEMMA LargestOf ==
  ASSUME NEW S, S \subseteq Int, IsFiniteSet(S), S # {}
  PROVE  Largest(S) \in S /\ \A y \in S : y <= Largest(S)
<1> DEFINE Topped(T) == \E x \in T : \A y \in T : y <= x
           untopped == {T \in SUBSET S : T # {} /\ ~ Topped(T)}
<1>1. Topped(S) => Largest(S) \in S /\ \A y \in S : y <= Largest(S)
  BY DEF Largest
<1>2. SUFFICES ASSUME ~ Topped(S) PROVE FALSE
  BY <1>1
<1>3. IsWellFoundedOn(StrictSubsetOrdering(S), SUBSET S)
  BY FS_FiniteSubsetsOfFinite, FS_StrictSubsetOrderingWellFounded
<1>4. untopped \subseteq SUBSET S /\ untopped # {}
  <2>1. S \in untopped
    BY <1>2
  <2> QED BY <2>1
<1>5. PICK T \in untopped : \A U \in untopped : <<U, T>> \notin StrictSubsetOrdering(S)
  <2> HIDE DEF untopped
  <2> QED BY <1>3, <1>4, WFMin
<1>6. PICK t \in T : TRUE
  BY <1>5
<1> DEFINE rest == T \ {t}
<1>7. rest = {} \/ Topped(rest)
  <2>1. <<rest, T>> \in StrictSubsetOrdering(S)
    BY <1>5, <1>6 DEF StrictSubsetOrdering
  <2> QED BY <1>5, <2>1
<1>8. CASE rest = {}
  <2>1. T = {t} /\ t <= t
    BY <1>5, <1>6, <1>8
  <2> QED BY <1>5, <2>1
<1>9. CASE Topped(rest)
  <2>1. PICK m \in rest : \A y \in rest : y <= m
    BY <1>9
  <2>2. m \in Int /\ t \in Int /\ rest \subseteq Int
    BY <1>5, <1>6
  <2>3. CASE t <= m
    <3>1. \A y \in T : y <= m
      BY <2>1, <2>3
    <3> QED BY <1>5, <2>1, <3>1
  <2>4. CASE m <= t
    <3>1. \A y \in T : y <= t
      BY <2>1, <2>2, <2>4
    <3> QED BY <1>5, <1>6, <3>1
  <2> QED BY <2>2, <2>3, <2>4
<1> QED BY <1>7, <1>8, <1>9

\* The images of a finite set.
LEMMA ImageIsFinite ==
  ASSUME NEW S, IsFiniteSet(S), NEW g
  PROVE  IsFiniteSet({g[x] : x \in S})
<1> DEFINE h == [x \in S |-> g[x]]
           T == {g[x] : x \in S}
<1>1. h \in Surjection(S, T)
  BY DEF Surjection
<1> HIDE DEF h, T
<1>2. IsFiniteSet(T)
  BY <1>1, FS_Surjection
<1> QED BY <1>2 DEF T

\* And a smallest one.
LEMMA SmallestOf ==
  ASSUME NEW S, S \subseteq Int, IsFiniteSet(S), S # {}
  PROVE  Smallest(S) \in S /\ \A y \in S : Smallest(S) <= y
<1> DEFINE g == [x \in S |-> -x]
           T == {g[x] : x \in S}
<1>1. IsFiniteSet(T)
  <2>1. T = {g[x] : x \in S}
    OBVIOUS
  <2> HIDE DEF g, T
  <2> QED BY <2>1, ImageIsFinite
<1>2. T \subseteq Int /\ T # {}
  <2>1. \A x \in S : g[x] \in Int
    OBVIOUS
  <2>2. T \subseteq Int
    <3> HIDE DEF g
    <3> QED BY <2>1
  <2>3. T # {}
    OBVIOUS
  <2> QED BY <2>2, <2>3
<1>3. Largest(T) \in T /\ \A y \in T : y <= Largest(T)
  <2> HIDE DEF T
  <2> QED BY <1>1, <1>2, LargestOf
<1>4. PICK x \in S : Largest(T) = -x
  BY <1>3
<1>5. \A y \in S : x <= y
  <2> TAKE y \in S
  <2>1. -y <= -x
    BY <1>3, <1>4
  <2> QED BY <2>1
<1> QED BY <1>5 DEF Smallest

-----------------------------------------------------------------------------
\* A page ends.
LEMMA PageIsFinite ==
  ASSUME NEW p, NEW s, IsPage(p, s)
  PROVE  IsFiniteSet(ToSet(p))
<1>1. DOMAIN p = 1..Len(p) /\ Len(p) \in Nat
  BY DEF IsPage
<1>2. IsFiniteSet(DOMAIN p)
  BY <1>1, FS_Interval
<1> QED BY <1>2, ImageIsFinite DEF ToSet

\* The whole text is finite.
LEMMA TextIsFinite ==
  ASSUME NEW pages \in Acquirable
  PROVE  IsFiniteSet(WholeText(pages))
<1> DEFINE t(s) == ToSet(Text[pages[s]])
<1>1. \A s \in Sources : IsFiniteSet(t(s))
  BY PagesAre, PageIsFinite DEF PageText
<1>2. WholeText(pages) = t("impedance") \cup t("capabilities") \cup t("copper-weight")
                           \cup t("impedance-calculator") \cup t("thickness-options")
  BY SourceNames DEF WholeText
<1>3. /\ IsFiniteSet(t("impedance")) /\ IsFiniteSet(t("capabilities"))
      /\ IsFiniteSet(t("copper-weight")) /\ IsFiniteSet(t("impedance-calculator"))
      /\ IsFiniteSet(t("thickness-options"))
  BY <1>1, SourceNames
<1> HIDE DEF t
<1> QED BY <1>2, <1>3, FS_Union

\* What selection reads was stated, whole.
LEMMA StatedOfText ==
  ASSUME NEW pages \in Acquirable, ~ Parse(pages).refused,
         NEW what, what \notin {"impedance counts", "layer options", "npth via",
                                "construction"}
  PROVE  /\ Stated(Parse(pages), what) \subseteq Whole(WholeText(pages), what)
         /\ IsFiniteSet(Stated(Parse(pages), what))
         /\ \A r \in Stated(Parse(pages), what) : IsStatement(r)
<1>1. \A r \in Stated(Parse(pages), what) : r \in Whole(WholeText(pages), what)
  <2> TAKE r \in Stated(Parse(pages), what)
  <2>1. r \in Parse(pages).kept /\ r.what = what
    BY DEF Stated
  <2>2. CASE what = "via"
    BY <2>1, <2>2, KeptWasStated
  <2>3. CASE what # "via"
    <3>1. r.what \notin Derived
      BY <2>1, <2>3 DEF Derived
    <3>2. r \in WholeText(pages) /\ r.reads = "whole"
      BY <2>1, <3>1, KeptWasStated
    <3> QED BY <2>1, <3>2 DEF Whole, Of
  <2> QED BY <2>2, <2>3
<1>2. Whole(WholeText(pages), what) \subseteq WholeText(pages)
  BY DEF Whole, Of
<1>3. IsFiniteSet(Stated(Parse(pages), what))
  BY <1>1, <1>2, TextIsFinite, FS_Subset
<1>4. \A r \in Stated(Parse(pages), what) : IsStatement(r)
  BY <1>1, <1>2, TextOf
<1> QED BY <1>1, <1>3, <1>4

\* Every limit that stands on the pages for a weight of copper is one of the
\* limits that decide.
LEMMA LimitsDecide ==
  ASSUME NEW pages \in Acquirable, ~ Parse(pages).refused,
         NEW weight, NEW layers,
         NEW r \in StandingLimits(pages), Covers(r, layers), weight \in r.weights
  PROVE  r \in TraceLimits(Parse(pages), weight, layers)
<1>1. /\ r \in Parse(pages).kept
      /\ r.what = "trace" \/ r.what = "design rule"
  BY StandingIsKept
<1> QED BY <1>1 DEF TraceLimits, Stated

-----------------------------------------------------------------------------
(* Profiles.                                                               *)

\* What is feasible of a requirements file: the statement of FeasibleIsStated,
\* for what selection judges by.
LEMMA TracksHold ==
  ASSUME NEW pages \in Acquirable, ~ Parse(pages).refused, ~ Nonsense(pages),
         NEW q, TraceOffered(Parse(pages), q),
         NEW weight, \/ weight = Outer(Parse(pages), q).weight
                     \/ q.layers > Composable /\ weight = Inner(Parse(pages), q).weight,
         NEW r \in StandingLimits(pages), Covers(r, q.layers), weight \in r.weights
  PROVE  /\ Given(q.track) => q.track >= r.track
         /\ Given(q.space) => q.space >= r.space
<1>1. r \in TraceLimits(Parse(pages), weight, q.layers)
  BY LimitsDecide
<1> DEFINE c == Parse(pages)
           weights == {Outer(c, q).weight}
                        \cup (IF q.layers > Composable THEN {Inner(c, q).weight} ELSE {})
<1>2. weight \in weights
  OBVIOUS
<1>3. \/ ~ Given(q.track) /\ ~ Given(q.space)
      \/ \A w \in weights : \A l \in TraceLimits(c, w, q.layers) :
           /\ Given(q.track) => q.track >= l.track
           /\ Given(q.space) => q.space >= l.space
  BY Zenon DEF TraceOffered
<1> HIDE DEF c, weights
<1> QED BY <1>1, <1>2, <1>3 DEF c

\* A via that is judged feasible is no narrower than any plated one.
LEMMA ViasHold ==
  ASSUME NEW pages \in Acquirable, ~ Parse(pages).refused, ~ Nonsense(pages),
         NEW q \in Requests, ~ Malformed(q), ViaOffered(Parse(pages), q), Given(q.via)
  PROVE  LET text == WholeText(pages)
         IN  /\ \E r \in Whole(text, "via") : ~ r.npth /\ Covers(r, q.layers)
             /\ \A r \in Whole(text, "via") :
                  ~ r.npth /\ Covers(r, q.layers) => q.via >= r.diameter
<1> DEFINE c == Parse(pages)
           text == WholeText(pages)
           rules == {r \in Stated(c, "via") : Covers(r, q.layers)}
           g == [r \in rules |-> r.diameter]
           widths == {r.diameter : r \in rules}
<1>1. rules # {} /\ q.via >= Largest(widths)
  BY DEF ViaOffered
<1>2. \A r \in rules : r \in Whole(text, "via") /\ ~ r.npth /\ r.diameter \in Int
  <2> TAKE r \in rules
  <2>1. r \in c.kept /\ r.what = "via"
    BY DEF Stated
  <2>2. r \in Whole(text, "via") /\ ~ r.npth
    BY <2>1, KeptWasStated
  <2>3. IsStatement(r)
    <3>1. "via" \notin {"impedance counts", "layer options", "npth via", "construction"}
      OBVIOUS
    <3> QED BY <3>1, StatedOfText
  <2>4. r.diameter \in Int
    BY <2>1, <2>3 DEF IsStatement
  <2> QED BY <2>2, <2>4
<1>3. IsFiniteSet(widths)
  <2>1. IsFiniteSet(Stated(c, "via"))
    <3>1. "via" \notin {"impedance counts", "layer options", "npth via", "construction"}
      OBVIOUS
    <3> QED BY <3>1, StatedOfText
  <2>2. IsFiniteSet(rules)
    BY <2>1, FS_Subset
  <2>3. widths = {g[r] : r \in rules}
    OBVIOUS
  <2> HIDE DEF g, rules, widths
  <2> QED BY <2>2, <2>3, ImageIsFinite
<1>4. Largest(widths) \in widths /\ \A y \in widths : y <= Largest(widths)
  <2>1. widths \subseteq Int /\ widths # {}
    BY <1>1, <1>2
  <2> HIDE DEF widths
  <2> QED BY <1>3, <2>1, LargestOf
<1>5. q.via \in Int
  BY NumbersAreNumbers DEF Malformed, Given
<1>6. \A r \in Whole(text, "via") : ~ r.npth /\ Covers(r, q.layers) => r \in rules
  BY StatedIsKept DEF Stated, Whole, Of
<1>7. \A r \in rules : q.via >= r.diameter
  <2> TAKE r \in rules
  <2>1. r.diameter \in widths /\ r.diameter \in Int /\ Largest(widths) \in Int
    BY <1>2, <1>4
  <2>2. r.diameter <= Largest(widths)
    BY <1>4, <2>1
  <2> QED BY <1>1, <1>5, <2>1, <2>2
<1>8. \A r \in rules : Covers(r, q.layers)
  OBVIOUS
<1> HIDE DEF rules, widths
<1> QED BY <1>1, <1>2, <1>6, <1>7, <1>8

\* A restriction that is stated is one that selection looks at.
LEMMA RestrictionsHold ==
  ASSUME NEW pages \in Acquirable, ~ Parse(pages).refused, ~ Nonsense(pages),
         NEW q, ThicknessOffered(Parse(pages), q), ~ q.impedance,
         NEW r \in Of(WholeText(pages), "restriction")
  PROVE  ~ (r.thickness = q.thickness /\ q.layers \in r.excluded)
<1>1. r \in Stated(Parse(pages), "restriction")
  BY StatedIsKept DEF Of, Stated
<1>2. ~ Restricted(Parse(pages), q.thickness, q.layers)
  BY DEF ThicknessOffered
<1> QED BY <1>1, <1>2 DEF Restricted

\* More layers than a composed board has are neither one nor two.
LEMMA MoreThanComposable == \A n : n > Composable => n \notin {1, 2}
<1>1. ~ (1 > 2) /\ ~ (2 > 2)
  OBVIOUS
<1> QED BY <1>1, Zenon DEF Composable

\* More than two layers are offered by an enumeration only: the catalog has
\* one, so the range that is its fallback is never asked.
LEMMA CountsHold ==
  ASSUME NEW pages \in Acquirable, ~ Parse(pages).refused,
         NEW q, LayersOffered(Parse(pages), q), q.layers > Composable
  PROVE  \E r \in Whole(WholeText(pages), "enumeration") : q.layers \in ImpedanceCounts(r)
<1> DEFINE p == PageText(pages, "capabilities")
           says == ToSet(p)
           c == Parse(pages)
           options(e) == [what |-> "layer options", counts |-> {1, 2} \cup ImpedanceCounts(e)]
<1>1. PICK e \in Whole(says, "enumeration") : AscendsByTwo(e)
  <2>1. ~ Capabilities(p).refused
    BY ParseOf
  <2> HIDE DEF p
  <2> QED BY <2>1 DEF Capabilities
<1>2. options(e) \in Stated(c, "layer options")
  <2>1. options(e) \in LayerCountsKept(says)
    <3> DEFINE counts(f) == [what |-> "impedance counts", counts |-> ImpedanceCounts(f)]
    <3>1. LayerCountsKept(says) =
            UNION {{counts(f), options(f)} : f \in Whole(says, "enumeration")}
      BY Zenon DEF LayerCountsKept
    <3> HIDE DEF says, counts, options
    <3> QED BY <3>1
  <2>2. options(e) \in c.kept
    <3> HIDE DEF options, p
    <3>1. options(e) \in Capabilities(p).kept
      BY <2>1, KeptOfPages
    <3>2. Capabilities(p).kept \subseteq c.kept
      BY ParseOf DEF KeptBefore, p
    <3> QED BY <3>1, <3>2
  <2>3. options(e).what = "layer options"
    OBVIOUS
  <2> HIDE DEF options
  <2> QED BY <2>2, <2>3 DEF Stated
<1>3. PICK r \in Stated(c, "layer options") : q.layers \in r.counts
  <2> HIDE DEF options, c
  <2> QED BY <1>2 DEF LayersOffered, c
<1>4. r \in c.kept /\ r.what = "layer options"
  BY <1>3 DEF Stated
<1>5. PICK f \in Whole(WholeText(pages), "enumeration") : r.counts = {1, 2} \cup ImpedanceCounts(f)
  BY <1>4, KeptWasStated
<1>6. q.layers \notin {1, 2}
  BY MoreThanComposable
<1> QED BY <1>3, <1>5, <1>6

\* What a judging command holds: the whole statement it is used by.
Readable(pages) ==
  pages \in Acquirable /\ ~ Parse(pages).refused /\ ~ Nonsense(pages)

\* A selection from these pages, whatever it is of.
LEMMA FeasibleOfPages ==
  ASSUME NEW pages, Readable(pages), NEW q \in Requests, ~ Malformed(q),
         answer'.got = {Select(Parse(pages), q)}, answer'.request = q, answer'.from = pages
  PROVE  FeasibleIsStated'
<1> DEFINE c == Parse(pages)
           text == WholeText(pages)
           got == Select(c, q)
           copper == {got.outer} \cup (IF q.layers > Composable THEN {got.inner} ELSE {})
<1>1. /\ got.rejections = Rejections(c, q)
      /\ got.outer = Outer(c, q).weight /\ got.inner = Inner(c, q).weight
  BY DEF Select
<1> SUFFICES ASSUME Rejections(c, q) = {}
             PROVE  /\ Clear(q, got, StandingLimits(pages))
                    /\ \A r \in Of(text, "restriction") :
                         ~ q.impedance => ~ (r.thickness = q.thickness /\ q.layers \in r.excluded)
                    /\ Given(q.via) =>
                         /\ \E r \in Whole(text, "via") : ~ r.npth /\ Covers(r, q.layers)
                         /\ \A r \in Whole(text, "via") :
                              ~ r.npth /\ Covers(r, q.layers) => q.via >= r.diameter
                    /\ q.layers > Composable =>
                         \E r \in Whole(text, "enumeration") : q.layers \in ImpedanceCounts(r)
  BY <1>1, Zenon DEF FeasibleIsStated
<1>2. /\ pages \in Acquirable /\ ~ Parse(pages).refused /\ ~ Nonsense(pages)
  BY DEF Readable
<1>3. /\ LayersOffered(c, q) /\ ThicknessOffered(c, q)
      /\ TraceOffered(c, q) /\ ViaOffered(c, q)
  <2> HIDE DEF c
  <2> QED BY DEF Rejections
<1>4. Clear(q, got, StandingLimits(pages))
  <2> SUFFICES ASSUME NEW r \in StandingLimits(pages), Covers(r, q.layers),
                      r.weights \cap copper # {}
               PROVE  /\ Given(q.track) => q.track >= r.track
                      /\ Given(q.space) => q.space >= r.space
    BY Zenon DEF Clear
  <2>1. PICK weight \in copper : weight \in r.weights
    OBVIOUS
  <2>2. \/ weight = Outer(c, q).weight
        \/ q.layers > Composable /\ weight = Inner(c, q).weight
    BY <1>1, <2>1
  <2> QED BY <1>2, <1>3, <2>1, <2>2, TracksHold
<1> QED BY <1>2, <1>3, <1>4, RestrictionsHold, ViasHold, CountsHold

\* A profile called feasible is one the pages offer (jlcpcb.py's scoping and
\* selection.select taken together), whatever the pages state and however often:
\* of two statements of one limit it is the last one that the profile keeps to.
THEOREM FeasibleProfiles == Spec => []FeasibleIsStated
<1>1. Init => FeasibleIsStated
  <2>1. Init => answer.said # "selected"
    BY DEF Init
  <2> QED BY <2>1, Zenon DEF FeasibleIsStated
<1>2. IInv /\ FeasibleIsStated /\ [Next]_vars => FeasibleIsStated'
  <2> SUFFICES ASSUME IInv, FeasibleIsStated, [Next]_vars
               PROVE  FeasibleIsStated'
    OBVIOUS
  <2>1. CASE UNCHANGED answer \/ answer'.said # "selected"
    BY <2>1 DEF FeasibleIsStated
  <2>2. ASSUME At("judge"), ~ Malformed(request),
               Chose("selected", None, {Select(Held, request)})
        PROVE  FeasibleIsStated'
    <3>1. /\ answer'.got = {Select(Parse(snapshot.normalized), request)}
          /\ answer'.request = request /\ answer'.from = snapshot.normalized
      BY <2>2, HeldIsRead DEF Chose, Judged
    <3>2. Readable(snapshot.normalized) /\ request \in Requests
      BY <2>2, HeldIsRead DEF Readable
    <3> QED BY <2>2, <3>1, <3>2, FeasibleOfPages
  <2> QED BY <2>1, <2>2, AnswersOf, SaidOf
<1> QED BY <1>1, <1>2, InitIInv, NextIInv, PTL DEF Spec

-----------------------------------------------------------------------------
(* Stacks.                                                                 *)

\* An exact weight gives back the thickness it was read off.
LEMMA ExactWeight ==
  ASSUME NEW a \in Int, NEW u \in Nat, u > 0, (2 * a) % u = 0
  PROVE  /\ (2 * a) \div u \in Int
         /\ (((2 * a) \div u) * u) \div 2 = a
<1> DEFINE n == 2 * a
           w == n \div u
<1>1. n \in Int /\ w \in Int
  OBVIOUS
<1>2. n = u * w + (n % u)
  <2> HIDE DEF n
  <2> QED BY <1>1
<1>3. w * u = 2 * a
  BY <1>1, <1>2
<1>4. (2 * a) \div 2 = a
  OBVIOUS
<1> QED BY <1>1, <1>3, <1>4

\* What the constructions are derived from was stated.
LEMMA KeptBeforeInText ==
  ASSUME NEW pages \in Acquirable, ~ Parse(pages).refused,
         NEW e \in KeptBefore(pages), e.what \notin Derived
  PROVE  e \in WholeText(pages)
BY KeptWasStated, ParseOf

\* The equivalences a weight is read by were stated, and are of something.
LEMMA EquivalenceOf ==
  ASSUME NEW pages \in Acquirable, ~ Parse(pages).refused,
         NEW e \in Whole(KeptBefore(pages), "equivalence")
                     \cup Stated(Parse(pages), "equivalence")
  PROVE  /\ e \in Whole(WholeText(pages), "equivalence")
         /\ e.um \in Nat /\ e.um > 0
<1>1. e.what = "equivalence"
  BY DEF Whole, Of, Stated
<1>2. "equivalence" \notin Derived
  BY DEF Derived
<1>3. e \in WholeText(pages) /\ e.reads = "whole"
  <2>1. CASE e \in Whole(KeptBefore(pages), "equivalence")
    BY <1>1, <1>2, <2>1, KeptBeforeInText DEF Whole, Of
  <2>2. CASE e \in Stated(Parse(pages), "equivalence")
    BY <1>1, <1>2, <2>2, KeptWasStated DEF Stated
  <2> QED BY <2>1, <2>2
<1>4. IsStatement(e)
  BY <1>3, TextOf
<1> QED BY <1>1, <1>3, <1>4 DEF Whole, Of, IsStatement

\* The weight of the outer copper is a number where there is one.
LEMMA OuterIsNumber ==
  ASSUME NEW pages \in Acquirable, ~ Parse(pages).refused,
         NEW q \in Requests, ~ Malformed(q),
         Given(Outer(Parse(pages), q).weight)
  PROVE  Outer(Parse(pages), q).weight \in Int
<1> DEFINE c == Parse(pages)
           records == CopperRecords(c, "outer", q.layers)
           open == {r \in records : ~ r.conditional}
           g == [r \in open |-> r.weights]
           offered == Options(open)
<1>1. \/ Outer(c, q).weight = None \/ Outer(c, q).weight = q.outer
      \/ offered # {} /\ Outer(c, q).weight = Smallest(offered)
  BY DEF Outer, PickWeight
<1>2. Given(q.outer) => q.outer \in Int
  BY NumbersAreNumbers DEF Malformed, Given
<1>3. \A r \in records : /\ r \in WholeText(pages)
                         /\ IsFiniteSet(r.weights) /\ r.weights \subseteq Int
  <2> TAKE r \in records
  <2>1. PICK w \in CopperKinds("outer") : r \in Stated(c, w)
    BY DEF CopperRecords
  <2>2. w \in CopperStatements /\ w \notin Derived
    BY <2>1 DEF CopperKinds, CopperStatements, Derived
  <2>3. r.what = w /\ r \in c.kept
    BY <2>1 DEF Stated
  <2>4. r \in WholeText(pages)
    BY <2>2, <2>3, KeptWasStated
  <2>5. IsStatement(r)
    BY <2>4, TextOf
  <2> QED BY <2>2, <2>3, <2>4, <2>5 DEF IsStatement
<1>4. offered \subseteq Int /\ IsFiniteSet(offered)
  <2>1. IsFiniteSet(open)
    <3>1. open \subseteq WholeText(pages)
      BY <1>3
    <3> HIDE DEF open
    <3> QED BY <3>1, TextIsFinite, FS_Subset
  <2>2. offered = UNION {g[r] : r \in open}
    BY DEF Options
  <2>3. \A r \in open : IsFiniteSet(g[r]) /\ g[r] \subseteq Int
    BY <1>3
  <2> HIDE DEF open, g, offered
  <2>4. IsFiniteSet({g[r] : r \in open})
    BY <2>1, ImageIsFinite
  <2>5. IsFiniteSet(UNION {g[r] : r \in open})
    BY <2>3, <2>4, FS_UNION
  <2> QED BY <2>2, <2>3, <2>5
<1> HIDE DEF offered
<1> QED BY <1>1, <1>2, <1>4, SmallestOf DEF Given

\* What a construction says is what its stackup says.
LEMMA ConstructionOf ==
  ASSUME NEW pages, Readable(pages), NEW s \in Stated(Parse(pages), "construction")
  PROVE  LET p == PageText(pages, "impedance")
         IN  \E i \in DOMAIN p :
               /\ p[i] \in Whole(WholeText(pages), "stackup")
               /\ ~ Contradicts(p[i]) /\ IsStatement(p[i])
               /\ s = Construction(p, i, KeptBefore(pages))
<1> DEFINE p == PageText(pages, "impedance")
<1>1. pages \in Acquirable /\ ~ Parse(pages).refused /\ ~ Nonsense(pages)
  BY DEF Readable
<1>2. s \in Parse(pages).kept /\ s.what = "construction"
  BY DEF Stated
<1>3. PICK i \in DOMAIN p : /\ p[i].what = "stackup" /\ ~ Contradicts(p[i])
                            /\ s = Construction(p, i, KeptBefore(pages))
  BY <1>1, <1>2, KeptWasStated
<1>4. p[i] \in WholeText(pages)
  BY <1>3, SourceNames, PagesInText DEF ToSet
<1>5. p[i].reads = "whole"
  BY <1>1, <1>3, <1>4, NumbersRead DEF Contradicts
<1>6. IsStatement(p[i])
  BY <1>1, <1>4, TextOf
<1> QED BY <1>3, <1>4, <1>5, <1>6 DEF Whole, Of

\* The copper of a candidate is the profile's, at the stated equivalence.
LEMMA CandidateCopper ==
  ASSUME NEW pages, Readable(pages), NEW q,
         NEW s \in Candidates(Parse(pages), q)
  PROVE  \E e \in Whole(WholeText(pages), "equivalence") :
           s.copper_um = (Outer(Parse(pages), q).weight * e.um) \div 2
<1> DEFINE kept == KeptBefore(pages)
           weight == Outer(Parse(pages), q).weight
<1>1. pages \in Acquirable /\ ~ Parse(pages).refused
  BY DEF Readable
<1>2. /\ s \in Stated(Parse(pages), "construction")
      /\ weight # None /\ s.outer = weight
  BY DEF Candidates, Given
<1> DEFINE p == PageText(pages, "impedance")
<1>3. PICK i \in DOMAIN p : /\ p[i] \in Whole(WholeText(pages), "stackup")
                            /\ ~ Contradicts(p[i]) /\ IsStatement(p[i])
                            /\ s = Construction(p, i, kept)
  BY <1>2, ConstructionOf
<1> HIDE DEF p
<1> DEFINE r == p[i]
<1> DEFINE outer == CHOOSE t \in r.outer : TRUE
           exact == {e \in Whole(kept, "equivalence") : (2 * outer) % e.um = 0}
           e == CHOOSE e \in exact : TRUE
<1>4. s.outer = OuterWeight(r, kept) /\ s.copper_um = outer
  <2> HIDE DEF kept, outer
  <2>1. /\ Construction(p, i, kept).outer = OuterWeight(r, kept)
        /\ Construction(p, i, kept).copper_um = CHOOSE t \in r.outer : TRUE
    BY DEF Construction
  <2> QED BY <1>3, <2>1 DEF outer
<1>5. OuterWeight(r, kept) = IF exact = {} THEN None ELSE (2 * outer) \div e.um
  BY DEF OuterWeight
<1>6. e \in exact /\ weight = (2 * outer) \div e.um
  <2> HIDE DEF outer, weight, kept
  <2>1. exact # {}
    BY <1>2, <1>4, <1>5
  <2> QED BY <1>2, <1>4, <1>5, <2>1
<1>7. outer \in Int
  <2>1. r.what = "stackup"
    BY <1>3 DEF Whole, Of
  <2>2. IsFiniteSet(r.outer) /\ r.outer \subseteq Int /\ Cardinality(r.outer) = 1
    BY <1>3, <2>1 DEF IsStatement, Contradicts
  <2>3. \E x : r.outer = {x}
    BY <2>2, FS_Singleton
  <2>4. outer \in r.outer
    BY <2>3
  <2> QED BY <2>2, <2>4
<1> HIDE DEF e
<1>8. e \in Whole(kept, "equivalence") /\ (2 * outer) % e.um = 0
  BY <1>6
<1>9. /\ e \in Whole(WholeText(pages), "equivalence")
      /\ e.um \in Nat /\ e.um > 0
  BY <1>1, <1>8, EquivalenceOf
<1> HIDE DEF outer, weight
<1>10. outer = (weight * e.um) \div 2
  BY <1>6, <1>7, <1>8, <1>9, ExactWeight
<1> QED BY <1>4, <1>9, <1>10 DEF weight

\* The stated options of one section are finitely many.
LEMMA NearIsFinite ==
  ASSUME NEW p, IsPage(p, "impedance"), NEW i
  PROVE  IsFiniteSet(UNION {o.values : o \in OptionsBefore(p, i)})
<1> DEFINE options == OptionsBefore(p, i)
           places == {j \in Emitted(p, {"section thickness"}) :
                        j < i /\ p[j].section = p[i].section}
           g == [o \in options |-> o.values]
           values == UNION {g[o] : o \in options}
<1>1. \A o \in options : o \in ToSet(p) /\ o.what = "section thickness"
  <2> DEFINE kinds == {"section thickness"}
  <2>1. options = LastOf(p, places) /\ places \subseteq Emitted(p, kinds)
    BY Zenon DEF OptionsBefore
  <2> HIDE DEF options, places, kinds
  <2>2. \A o \in options : o \in ToSet(p) /\ o.what \in kinds
    BY <2>1, LastIsStated
  <2> QED BY <2>2 DEF kinds
<1>2. \A o \in options : IsFiniteSet(o.values)
  BY <1>1 DEF IsPage, IsStatement
<1>3. IsFiniteSet(values)
  <2>1. IsFiniteSet(options)
    <3>1. options \subseteq ToSet(p)
      BY <1>1
    <3> HIDE DEF options
    <3> QED BY <3>1, PageIsFinite, FS_Subset
  <2>2. \A o \in options : IsFiniteSet(g[o])
    BY <1>2
  <2> HIDE DEF options, g
  <2>3. IsFiniteSet({g[o] : o \in options})
    BY <2>1, ImageIsFinite
  <2> QED BY <2>2, <2>3, FS_UNION
<1>4. values = UNION {o.values : o \in options}
  OBVIOUS
<1> HIDE DEF options, values
<1> QED BY <1>3, <1>4, Zenon DEF options

\* A candidate was published, whole, for this board.
LEMMA CandidateStated ==
  ASSUME NEW pages, Readable(pages), NEW q, ~ Malformed(q),
         NEW s \in Candidates(Parse(pages), q)
  PROVE  \E r \in Whole(WholeText(pages), "stackup") :
           /\ r.name = s.name /\ r.coppers = q.layers
           /\ Close(r.total, q.thickness)
           /\ r.default # q.impedance
<1> DEFINE kept == KeptBefore(pages)
<1>1. /\ s \in Stated(Parse(pages), "construction")
      /\ s.coppers = q.layers /\ s.nominal = q.thickness /\ s.default # q.impedance
  BY DEF Candidates
<1> DEFINE p == PageText(pages, "impedance")
<1>2. PICK i \in DOMAIN p : /\ p[i] \in Whole(WholeText(pages), "stackup")
                            /\ ~ Contradicts(p[i])
                            /\ s = Construction(p, i, kept)
  BY <1>1, ConstructionOf
<1> DEFINE r == p[i]
<1>3. /\ s.name = r.name /\ s.coppers = r.coppers /\ s.default = r.default
      /\ s.nominal = Nominal(p, i)
  <2> HIDE DEF kept, p
  <2> QED BY <1>2 DEF Construction
<1>0. r \in Whole(WholeText(pages), "stackup") /\ ~ Contradicts(r)
  BY <1>2
<1>7. IsPage(p, "impedance")
  BY PagesAre, SourceNames DEF Readable
<1> HIDE DEF kept, p
<1>4. q.thickness # None
  BY DEF Malformed
<1> DEFINE sections == OptionsBefore(p, i)
           near == {t \in UNION {o.values : o \in sections} :
                      r.total # None /\ Close(t, r.total)}
<1>5. CASE r.coded # None
  <2>1. q.thickness = r.coded
    BY <1>1, <1>3, <1>5 DEF Nominal
  <2>2. Close(r.coded, r.total)
    BY <1>0, <1>5 DEF Contradicts
  <2> QED BY <1>0, <1>1, <1>3, <2>1, <2>2 DEF Close
<1>6. CASE r.coded = None
  <2>1. q.thickness = IF Cardinality(near) = 1 THEN CHOOSE t \in near : TRUE ELSE None
    BY <1>1, <1>3, <1>6 DEF Nominal
  <2>2. IsFiniteSet(near)
    <3> DEFINE stated == UNION {o.values : o \in sections}
    <3>1. IsFiniteSet(stated)
      BY <1>7, NearIsFinite, Zenon
    <3>2. near \subseteq stated
      OBVIOUS
    <3> HIDE DEF near, stated
    <3> QED BY <3>1, <3>2, FS_Subset
  <2>3. near # {}
    <3> HIDE DEF near
    <3>1. Cardinality(near) = 1
      BY <1>4, <2>1
    <3> QED BY <3>1, FS_EmptySet
  <2>4. q.thickness \in near
    <3> HIDE DEF near
    <3> QED BY <1>4, <2>1, <2>3
  <2>5. Close(q.thickness, r.total)
    BY <2>4
  <2> QED BY <1>0, <1>1, <1>3, <2>5 DEF Close
<1> QED BY <1>5, <1>6

\* What is said of a stack that is exported from these pages.
Describes(pages, q, d) ==
  LET text == WholeText(pages)
      weight == Outer(Parse(pages), q).weight
  IN  /\ d.coppers = q.layers
      /\ \E e \in Whole(text, "equivalence") : d.copper_um = (weight * e.um) \div 2
      /\ d.composed =>
           /\ ~ \E r \in Of(text, "stackup") : r.coppers = q.layers
           /\ 2 * d.copper_um + d.dielectric = q.thickness
           /\ \E r \in Whole(text, "board class constant") :
                r.lo = q.layers /\ r.hi = q.layers /\ d.constants = {r.dk}
      /\ ~ d.composed =>
           \E r \in Whole(text, "stackup") :
             /\ r.name = d.name /\ r.coppers = q.layers
             /\ Close(r.total, q.thickness)
             /\ r.default # q.impedance

\* The composed stack is made of stated values and adds up.
LEMMA ComposedDescribes ==
  ASSUME NEW pages, Readable(pages), NEW q \in Requests, ~ Malformed(q),
         q.layers = Composable,
         CanCompose(Parse(pages), q), ~ PublishedAt(Parse(pages), Composable),
         NEW d, d = Composed(Parse(pages), q)
  PROVE  Describes(pages, q, d)
<1> DEFINE c == Parse(pages)
           text == WholeText(pages)
           weight == Outer(c, q).weight
           e == CHOOSE e \in Stated(c, "equivalence") : TRUE
           foil == Foil(c, weight)
<1>1. pages \in Acquirable /\ ~ Parse(pages).refused /\ ~ Nonsense(pages)
  BY DEF Readable
<1>2. /\ Given(weight) /\ Stated(c, "equivalence") # {}
      /\ Cardinality(ExactConstants(c, Composable)) = 1
  BY DEF CanCompose
<1>3. /\ d.coppers = q.layers /\ d.composed /\ d.copper_um = foil
      /\ d.dielectric = q.thickness - 2 * foil
      /\ d.constants = ExactConstants(c, Composable)
  <2> HIDE DEF c, foil
  <2> QED BY DEF Composed, c, foil
<1>4. foil = (weight * e.um) \div 2
  BY DEF Foil
<1>5. e \in Whole(text, "equivalence") /\ e.um \in Nat
  <2>1. e \in Stated(c, "equivalence")
    BY <1>2
  <2> HIDE DEF e
  <2> QED BY <1>1, <2>1, EquivalenceOf
<1>6. weight \in Int
  BY <1>1, <1>2, OuterIsNumber
<1>7. q.thickness \in Int
  BY NumbersAreNumbers DEF Malformed
<1>8. 2 * d.copper_um + d.dielectric = q.thickness
  <2> HIDE DEF weight, e
  <2>1. foil \in Int
    BY <1>4, <1>5, <1>6
  <2> HIDE DEF foil
  <2> QED BY <1>3, <1>7, <2>1
<1>9. ~ \E r \in Of(text, "stackup") : r.coppers = q.layers
  <2> SUFFICES ASSUME NEW r \in Of(text, "stackup"), r.coppers = q.layers
               PROVE  PublishedAt(c, Composable)
    OBVIOUS
  <2> DEFINE p == PageText(pages, "impedance")
  <2>0. PICK i \in DOMAIN p : /\ r = p[i]
                              /\ Construction(p, i, KeptBefore(pages)) \in c.kept
    BY <1>1, StatedIsKept DEF Of
  <2> DEFINE s == Construction(p, i, KeptBefore(pages))
  <2>1. s \in c.kept
    BY <2>0
  <2>2. s.what = "construction" /\ s.coppers = r.coppers
    BY <2>0 DEF Construction
  <2> HIDE DEF s
  <2> QED BY <2>1, <2>2 DEF PublishedAt, Stated
<1>10. \E r \in Whole(text, "board class constant") :
         r.lo = q.layers /\ r.hi = q.layers /\ d.constants = {r.dk}
  <2> DEFINE exact == {r \in Stated(c, "board class constant") :
                         r.lo = q.layers /\ r.hi = q.layers}
             g == [r \in exact |-> r.dk]
  <2>1. /\ Stated(c, "board class constant") \subseteq Whole(text, "board class constant")
        /\ IsFiniteSet(Stated(c, "board class constant"))
    <3>1. "board class constant" \notin {"impedance counts", "layer options", "npth via",
                                         "construction"}
      OBVIOUS
    <3> QED BY <1>1, <3>1, StatedOfText
  <2>2. ExactConstants(c, Composable) = {g[r] : r \in exact}
    BY DEF ExactConstants
  <2>3. IsFiniteSet({g[r] : r \in exact})
    <3>1. IsFiniteSet(exact)
      BY <2>1, FS_Subset
    <3> HIDE DEF exact, g
    <3> QED BY <3>1, ImageIsFinite
  <2>4. PICK x : {g[r] : r \in exact} = {x}
    <3> HIDE DEF exact, g
    <3> QED BY <1>2, <2>2, <2>3, FS_Singleton
  <2>5. PICK r \in exact : x = g[r]
    BY <2>4
  <2>6. d.constants = {r.dk}
    BY <1>3, <2>2, <2>4, <2>5
  <2> QED BY <2>1, <2>5, <2>6
<1> HIDE DEF e, foil
<1> QED BY <1>3, <1>4, <1>5, <1>8, <1>9, <1>10 DEF Describes

\* An export from these pages, composed or published.
LEMMA ExportOfPages ==
  ASSUME NEW pages, Readable(pages), NEW q \in Requests, ~ Malformed(q),
         NEW pick, NEW d \in Exports(Parse(pages), q, pick)
  PROVE  Describes(pages, q, d)
<1> DEFINE c == Parse(pages)
           candidates == Candidates(c, q)
           named == IF Given(pick) THEN {s \in candidates : s.name = pick}
                    ELSE IF Cardinality(candidates) = 1 THEN candidates ELSE {}
<1>1. \/ /\ q.layers = Composable /\ ~ PublishedAt(c, Composable)
         /\ CanCompose(c, q) /\ d = Composed(c, q)
      \/ \E s \in named : d = Published(c, s)
  <2> HIDE DEF c
  <2> QED BY DEF Exports, c
<1>2. CASE /\ q.layers = Composable /\ ~ PublishedAt(c, Composable)
           /\ CanCompose(c, q) /\ d = Composed(c, q)
  BY <1>2, ComposedDescribes, Zenon
<1>3. CASE \E s \in named : d = Published(c, s)
  <2>1. PICK s \in candidates : d = Published(c, s)
    BY <1>3
  <2>2. /\ ~ d.composed /\ d.name = s.name /\ d.coppers = s.coppers
        /\ d.copper_um = s.copper_um
    <3> HIDE DEF c
    <3> QED BY <2>1 DEF Published
  <2>3. s.coppers = q.layers
    BY DEF Candidates
  <2>4. \E e \in Whole(WholeText(pages), "equivalence") :
          s.copper_um = (Outer(c, q).weight * e.um) \div 2
    BY CandidateCopper
  <2>5. \E r \in Whole(WholeText(pages), "stackup") :
          /\ r.name = s.name /\ r.coppers = q.layers
          /\ Close(r.total, q.thickness)
          /\ r.default # q.impedance
    BY CandidateStated
  <2> HIDE DEF c
  <2> QED BY <2>2, <2>3, <2>4, <2>5 DEF c, Describes
<1> QED BY <1>1, <1>2, <1>3

\* An exported stack describes the board that was asked for
\* (selection.export_physical_stackup), whatever the pages state.
THEOREM ExportedStacks == Spec => []ExportDescribesTheBoard
<1>1. Init => ExportDescribesTheBoard
  <2>1. Init => answer.said # "exported"
    BY DEF Init
  <2> QED BY <2>1, Zenon DEF ExportDescribesTheBoard
<1>2. IInv /\ ExportDescribesTheBoard /\ [Next]_vars => ExportDescribesTheBoard'
  <2> SUFFICES ASSUME IInv, ExportDescribesTheBoard, [Next]_vars
               PROVE  ExportDescribesTheBoard'
    OBVIOUS
  <2>1. CASE answer'.said # "exported"
    BY <2>1, Zenon DEF ExportDescribesTheBoard
  <2>2. CASE UNCHANGED answer
    BY <2>2, Zenon DEF ExportDescribesTheBoard
  <2>3. ASSUME At("judge"), ~ Malformed(request), NEW pick, NEW boardLayers,
               Chose("exported", None, Export(Held, request, pick, boardLayers))
        PROVE  ExportDescribesTheBoard'
    <3> DEFINE pages == snapshot.normalized
    <3>1. /\ answer'.got = Export(Parse(pages), request, pick, boardLayers)
          /\ answer'.request = request /\ answer'.from = pages
      BY <2>3, HeldIsRead DEF Chose, Judged
    <3>2. Readable(pages) /\ request \in Requests
      BY <2>3, HeldIsRead DEF Readable
    <3> HIDE DEF pages
    <3>3. \A d \in answer'.got : Describes(pages, request, d)
      <4> TAKE d \in answer'.got
      <4>1. d \in Exports(Parse(pages), request, pick)
        BY <3>1 DEF Export
      <4> QED BY <2>3, <3>2, <4>1, ExportOfPages
    <3>4. CatalogOf(pages) = Parse(pages)
      BY <3>2 DEF CatalogOf, Catalogs, Readable
    <3>5. CatalogOf(answer'.from) = Parse(answer'.from)
      BY <3>1, <3>4, Zenon
    <3>6. \A d \in answer'.got : Describes(answer'.from, answer'.request, d)
      BY <3>1, <3>3, Zenon
    <3> HIDE <3>1, <3>3, <3>4
    <3> QED BY <3>5, <3>6, Zenon DEF ExportDescribesTheBoard, Describes
  <2> QED BY <2>1, <2>2, <2>3, AnswersOf, SaidOf
<1> QED BY <1>1, <1>2, InitIInv, NextIInv, PTL DEF Spec

-----------------------------------------------------------------------------
(* Lines.                                                                  *)

\* The widths that meet a target are finitely many, each a gap of the table.
LEMMA SolutionsAreGaps ==
  ASSUME NEW p, p.lo \in Int, p.hi \in Int, NEW target
  PROVE  /\ IsFiniteSet(Solutions(p, target))
         /\ \A root \in Solutions(p, target) :
              root[1] \in Int /\ root[2] \in Int /\ root[1] <= root[2]
<1> DEFINE met == {w \in p.lo..p.hi : Production(p, w) = target}
           passed == {w \in p.lo..(p.hi - 1) : /\ Gap(p, w)[w] > target
                                               /\ target > Gap(p, w)[w + 1]}
           f == [w \in p.lo..p.hi |-> <<w, w>>]
           g == [w \in p.lo..(p.hi - 1) |-> <<w, w + 1>>]
           points == {f[w] : w \in met}
           gaps == {g[w] : w \in passed}
<1>1. Solutions(p, target) = {<<w, w>> : w \in met} \cup {<<w, w + 1>> : w \in passed}
  BY Zenon DEF Solutions
<1>2. {<<w, w>> : w \in met} = points /\ {<<w, w + 1>> : w \in passed} = gaps
  OBVIOUS
<1>3. IsFiniteSet(met) /\ IsFiniteSet(passed)
  <2>1. IsFiniteSet(p.lo..p.hi) /\ IsFiniteSet(p.lo..(p.hi - 1))
    BY FS_Interval
  <2>2. met \subseteq p.lo..p.hi /\ passed \subseteq p.lo..(p.hi - 1)
    OBVIOUS
  <2> HIDE DEF met, passed
  <2> QED BY <2>1, <2>2, FS_Subset
<1>4. IsFiniteSet(points) /\ IsFiniteSet(gaps)
  <2> HIDE DEF met, passed, f, g
  <2> QED BY <1>3, ImageIsFinite
<1>5. IsFiniteSet(Solutions(p, target))
  <2>1. Solutions(p, target) = points \cup gaps
    BY <1>1, <1>2
  <2> HIDE DEF points, gaps
  <2> QED BY <1>4, <2>1, FS_Union
<1>6. /\ \A w \in met : w \in Int
      /\ \A w \in passed : w \in Int /\ w + 1 \in Int /\ w <= w + 1
  OBVIOUS
<1>7. ASSUME NEW root \in Solutions(p, target)
      PROVE  root[1] \in Int /\ root[2] \in Int /\ root[1] <= root[2]
  <2>1. \/ \E w \in met : root = <<w, w>>
        \/ \E w \in passed : root = <<w, w + 1>>
    BY <1>1, <1>7
  <2> HIDE DEF met, passed
  <2> QED BY <1>6, <2>1
<1> QED BY <1>5, <1>7

\* A finite set that has one element is that element.
LEMMA OnlyOf ==
  ASSUME NEW S, IsFiniteSet(S), One(S)
  PROVE  S = {Only(S)} /\ Only(S) \in S
<1>1. PICK x : S = {x}
  BY FS_Singleton DEF One
<1> QED BY <1>1 DEF Only

\* The minima that stand on the pages for a weight of copper at a layer count.
Binding(pages, weight, layers) ==
  {r \in StandingLimits(pages) : Covers(r, layers) /\ weight \in r.weights}

\* The strictest minimum is at least every one that stands on the pages.
LEMMA StrictestOf ==
  ASSUME NEW pages, Readable(pages), NEW weight, NEW layers,
         TraceLimits(Parse(pages), weight, layers) # {}
  PROVE  LET strictest == StrictestTrack(TraceLimits(Parse(pages), weight, layers))
         IN  /\ strictest \in Int
             /\ \A r \in Binding(pages, weight, layers) :
                  r.track \in Int /\ r.track <= strictest
<1> DEFINE c == Parse(pages)
           limits == TraceLimits(c, weight, layers)
           g == [r \in limits |-> r.track]
           tracks == {r.track : r \in limits}
<1>1. pages \in Acquirable /\ ~ Parse(pages).refused /\ ~ Nonsense(pages)
  BY DEF Readable
<1>2. /\ IsFiniteSet(Stated(c, "trace")) /\ IsFiniteSet(Stated(c, "design rule"))
      /\ \A r \in Stated(c, "trace") \cup Stated(c, "design rule") : IsStatement(r)
  <2>1. \A what \in {"trace", "design rule"} :
          what \notin {"impedance counts", "layer options", "npth via", "construction"}
    OBVIOUS
  <2> QED BY <1>1, <2>1, StatedOfText
<1>3. \A r \in limits : r.track \in Int
  BY <1>2 DEF TraceLimits, Stated, IsStatement
<1>4. IsFiniteSet(limits)
  <2>1. limits \subseteq Stated(c, "trace") \cup Stated(c, "design rule")
    BY DEF TraceLimits
  <2>2. IsFiniteSet(Stated(c, "trace") \cup Stated(c, "design rule"))
    BY <1>2, FS_Union
  <2> HIDE DEF limits
  <2> QED BY <2>1, <2>2, FS_Subset
<1>5. tracks \subseteq Int /\ tracks # {}
  BY <1>3
<1>6. IsFiniteSet(tracks)
  <2>1. tracks = {g[r] : r \in limits}
    OBVIOUS
  <2> HIDE DEF g, limits, tracks
  <2> QED BY <1>4, <2>1, ImageIsFinite
<1>7. Largest(tracks) \in tracks /\ \A y \in tracks : y <= Largest(tracks)
  <2> HIDE DEF tracks
  <2> QED BY <1>5, <1>6, LargestOf
<1>8. StrictestTrack(limits) = Largest(tracks)
  BY DEF StrictestTrack
<1>9. ASSUME NEW r \in Binding(pages, weight, layers)
      PROVE  r.track \in tracks
  <2>1. r \in limits
    BY <1>1, <1>9, LimitsDecide DEF Binding
  <2> QED BY <2>1
<1> HIDE DEF limits, tracks
<1> QED BY <1>5, <1>7, <1>8, <1>9 DEF limits, c

\* Production of a line: what solve() returns, field by field.
LEMMA SolveOf ==
  ASSUME NEW c, NEW q, NEW line, NEW form, NEW got \in SolveLine(c, q, line, form)
  PROVE  \E s : LET topology == Topology(s, line)
                    limits == TraceLimits(c, got.weight, q.layers)
                IN  /\ got.stackup = s.name
                    /\ DOMAIN got.problems = Readings(topology)
                    /\ DOMAIN got.roots = Readings(topology)
                    /\ \A t \in Readings(topology) :
                         got.problems[t].lo = line.min /\ got.problems[t].hi = line.max
                    /\ got.result = Result(q, topology, limits, got.roots)
                    /\ s \in Candidates(c, q)
                    /\ WellPosed(line) /\ TargetAccepted(c, q, line)
<1>1. PICK s : /\ got = Solve(c, q, s, line, form)
               /\ WellPosed(line) /\ TargetAccepted(c, q, line)
               /\ Resolves(c, q, s, line)
  BY Zenon DEF SolveLine
<1>2. s \in Candidates(c, q)
  BY <1>1 DEF Resolves, Placed
<1> DEFINE topology == Topology(s, line)
           problem(x) == Problem(form, x, Trim(c), line.min, line.max)
<1>3. /\ got.problems = [x \in Readings(topology) |-> problem(x)]
      /\ got.roots = [x \in Readings(topology) |-> Roots(got.problems[x], line.target)]
      /\ got.weight = Weight(c, q, s, line) /\ got.stackup = s.name
      /\ got.result = Result(q, topology, TraceLimits(c, got.weight, q.layers), got.roots)
  <2> HIDE DEF problem, topology
  <2> QED BY <1>1 DEF Solve, problem, topology
<1>4. \A x : problem(x).lo = line.min /\ problem(x).hi = line.max
  BY DEF Problem
<1> HIDE DEF problem
<1> QED BY <1>1, <1>2, <1>3, <1>4

\* What is said of a line that is solved for these pages.
Buildable(pages, q, line, got) ==
  LET text == WholeText(pages)
      limits == {r \in StandingLimits(pages) :
                   Covers(r, q.layers) /\ got.weight \in r.weights}
  IN  /\ got.result.feasible =>
           /\ \A t \in DOMAIN got.problems :
                Solutions(got.problems[t], line.target) = {got.result.width}
           /\ \A r \in limits : r.track <= Grid * got.result.width[1]
           /\ \E r \in Whole(text, "stackup") :
                /\ r.name = got.stackup /\ r.coppers = q.layers
                /\ r.default # q.impedance
      /\ got.result.eligible =>
           /\ got.result.feasible
           /\ \E r \in Whole(text, "impedance range") :
                r.min <= line.target /\ line.target <= r.max
      /\ got.result.corridor # None =>
           /\ got.result.corridor[1] <= got.result.corridor[2]
           /\ \A r \in limits : r.track <= got.result.corridor[1]
           /\ \E root \in Solutions(got.problems[Bare], line.target) :
                Grid * root[2] = got.result.corridor[2]

\* Lengths of the grid keep the order of the widths.
LEMMA GridKeepsOrder ==
  ASSUME NEW a \in Int, NEW b \in Int, a <= b
  PROVE  Grid * a \in Int /\ Grid * b \in Int /\ Grid * a <= Grid * b
<1>1. Grid \in Nat
  BY NumbersAreNumbers
<1> QED BY <1>1

\* The corridor between two readings of which each has one width.
LEMMA CorridorOf ==
  ASSUME NEW limits, NEW loaded, NEW bare,
         IsFiniteSet(loaded), IsFiniteSet(bare),
         \A root \in loaded \cup bare :
           root[1] \in Int /\ root[2] \in Int /\ root[1] <= root[2],
         StrictestTrack(limits) \in Int,
         Corridor(limits, loaded, bare) # None
  PROVE  LET corridor == Corridor(limits, loaded, bare)
         IN  /\ limits # {}
             /\ corridor[1] \in Int /\ corridor[1] <= corridor[2]
             /\ StrictestTrack(limits) <= corridor[1]
             /\ \E root \in bare : Grid * root[2] = corridor[2]
<1> DEFINE strictest == StrictestTrack(limits)
           low == Only(loaded)
           high == Only(bare)
           starts == {Grid * low[1], strictest}
<1>1. Enclosed(loaded, bare) /\ Clears(limits, high)
  BY DEF Corridor
<1>2. Corridor(limits, loaded, bare) = <<Largest(starts), Grid * high[2]>>
  <2> HIDE DEF starts, high, strictest
  <2> QED BY <1>1 DEF Corridor, starts, low, high, strictest
<1>3. low \in loaded /\ high \in bare
  BY <1>1, OnlyOf DEF Enclosed
<1>4. limits # {} /\ strictest <= Grid * high[1]
  <2>1. limits # {} /\ Grid * high[1] >= strictest
    BY <1>1 DEF Clears
  <2>2. Grid * high[1] \in Int
    BY <1>3, GridKeepsOrder
  <2> HIDE DEF high, strictest
  <2> QED BY <2>1, <2>2
<1>5. loaded = bare \/ low[2] <= high[1]
  BY <1>1 DEF Enclosed
<1> HIDE DEF low, high, strictest
<1>6. /\ low[1] \in Int /\ high[1] \in Int /\ high[2] \in Int
      /\ low[1] <= high[2] /\ high[1] <= high[2]
  <2>1. /\ low[1] \in Int /\ low[2] \in Int /\ low[1] <= low[2]
        /\ high[1] \in Int /\ high[2] \in Int /\ high[1] <= high[2]
    BY <1>3
  <2>2. CASE loaded = bare
    BY <2>1, <2>2 DEF low, high
  <2>3. CASE low[2] <= high[1]
    BY <2>1, <2>3
  <2> QED BY <1>5, <2>1, <2>2, <2>3
<1>7. /\ Grid * low[1] \in Int /\ Grid * high[2] \in Int /\ Grid * high[1] \in Int
      /\ Grid * low[1] <= Grid * high[2] /\ Grid * high[1] <= Grid * high[2]
  BY <1>6, GridKeepsOrder
<1>8. strictest \in Int
  BY DEF strictest
<1>9. Largest(starts) \in starts /\ \A y \in starts : y <= Largest(starts)
  <2>1. IsFiniteSet(starts)
    <3>1. IsFiniteSet({Grid * low[1]}) /\ IsFiniteSet({strictest})
      BY FS_Singleton
    <3>2. starts = {Grid * low[1]} \cup {strictest}
      OBVIOUS
    <3> HIDE DEF starts
    <3> QED BY <3>1, <3>2, FS_Union
  <2>2. starts \subseteq Int /\ starts # {}
    BY <1>7, <1>8
  <2> HIDE DEF starts
  <2> QED BY <2>1, <2>2, LargestOf
<1>10. Largest(starts) \in Int /\ Largest(starts) <= Grid * high[2]
       /\ strictest <= Largest(starts)
  <2> DEFINE most == Largest(starts)
  <2>1. most = Grid * low[1] \/ most = strictest
    BY <1>9
  <2>2. strictest <= most
    BY <1>9
  <2> HIDE DEF most
  <2> QED BY <1>4, <1>7, <1>8, <2>1, <2>2 DEF most
<1> HIDE DEF starts
<1> QED BY <1>2, <1>3, <1>4, <1>10 DEF strictest

\* A line that is solved for these pages.
LEMMA BuildableOfPages ==
  ASSUME NEW pages, Readable(pages), NEW q \in Requests, ~ Malformed(q),
         NEW line \in Lines[q], NEW form \in Forms,
         NEW got \in SolveLine(Parse(pages), q, line, form)
  PROVE  Buildable(pages, q, line, got)
<1> DEFINE c == Parse(pages)
           text == WholeText(pages)
           limits == TraceLimits(c, got.weight, q.layers)
<1>1. pages \in Acquirable /\ ~ Parse(pages).refused /\ ~ Nonsense(pages)
  BY DEF Readable
<1>2. PICK s : /\ got.stackup = s.name
               /\ DOMAIN got.problems = Readings(Topology(s, line))
               /\ DOMAIN got.roots = Readings(Topology(s, line))
               /\ \A t \in Readings(Topology(s, line)) :
                    got.problems[t].lo = line.min /\ got.problems[t].hi = line.max
               /\ got.result = Result(q, Topology(s, line), limits, got.roots)
               /\ s \in Candidates(c, q)
               /\ WellPosed(line) /\ TargetAccepted(c, q, line)
  BY SolveOf
<1> DEFINE topology == Topology(s, line)
<1>3. line.min \in Int /\ line.max \in Int
  BY <1>2, NumbersAreNumbers DEF WellPosed
<1>4. \A t \in Readings(topology) :
        got.roots[t] = Solutions(got.problems[t], line.target)
  <2>1. Trim(c) \in Int
    BY <1>1, NumbersAreNumbers DEF Catalogs
  <2>2. \A v \in {line.target, line.min, line.max} : v = Bad \/ v \in Int
    BY NumbersAreNumbers
  <2> HIDE DEF c
  <2> QED BY <1>2, <2>1, <2>2, SolvedExactly DEF c
<1>5. \A t \in Readings(topology) :
        /\ IsFiniteSet(got.roots[t])
        /\ \A root \in got.roots[t] :
             root[1] \in Int /\ root[2] \in Int /\ root[1] <= root[2]
  <2> TAKE t \in Readings(topology)
  <2>1. got.problems[t].lo \in Int /\ got.problems[t].hi \in Int
    BY <1>2, <1>3
  <2>2. got.roots[t] = Solutions(got.problems[t], line.target)
    BY <1>4
  <2> QED BY <2>1, <2>2, SolutionsAreGaps
<1>6. limits # {} =>
        /\ StrictestTrack(limits) \in Int
        /\ \A r \in Binding(pages, got.weight, q.layers) :
               r.track \in Int /\ r.track <= StrictestTrack(limits)
  BY StrictestOf
<1> DEFINE point == Point(topology, got.roots[topology])
<1>7. got.result = Result(q, topology, limits, got.roots)
  BY <1>2
<1>8. /\ DOMAIN got.problems = Readings(topology) /\ DOMAIN got.roots = Readings(topology)
      /\ got.stackup = s.name /\ s \in Candidates(c, q) /\ TargetAccepted(c, q, line)
  BY <1>2
<1> HIDE DEF c, limits, text, topology
<1>9. /\ got.result.feasible <=> (point # None /\ Clears(limits, point))
      /\ got.result.feasible => got.result.width = point
      /\ got.result.eligible <=> (got.result.feasible /\ q.impedance)
      /\ got.result.corridor = IF topology = Coated
                               THEN Corridor(limits, got.roots[Coated], got.roots[Bare])
                               ELSE None
  <2> DEFINE feasible == point # None /\ Clears(limits, point)
             width == IF feasible THEN point ELSE None
             eligible == feasible /\ q.impedance
             corridor == IF topology = Coated
                         THEN Corridor(limits, got.roots[Coated], got.roots[Bare])
                         ELSE None
  <2>1. Result(q, topology, limits, got.roots)
          = [feasible |-> feasible, width |-> width,
             eligible |-> eligible, corridor |-> corridor]
    BY Zenon DEF Result
  <2>2. /\ got.result.feasible = feasible /\ got.result.width = width
        /\ got.result.eligible = eligible /\ got.result.corridor = corridor
    <3> HIDE DEF feasible, width, eligible, corridor
    <3> QED BY <1>7, <2>1
  <2>3. feasible => width = point
    OBVIOUS
  <2> HIDE DEF point
  <2> QED BY <2>2, <2>3, Zenon
<1>10. got.result.feasible => /\ topology # Coated /\ One(got.roots[topology])
                              /\ point = Only(got.roots[topology])
                              /\ Clears(limits, point)
  BY <1>9 DEF Point
<1> HIDE DEF point
\* A width to draw.
<1>11. got.result.feasible =>
         /\ \A t \in DOMAIN got.problems :
              Solutions(got.problems[t], line.target) = {got.result.width}
         /\ \A r \in Binding(pages, got.weight, q.layers) :
                r.track <= Grid * got.result.width[1]
         /\ \E r \in Whole(text, "stackup") :
              /\ r.name = got.stackup /\ r.coppers = q.layers
              /\ r.default # q.impedance
  <2> SUFFICES ASSUME got.result.feasible
               PROVE  /\ \A t \in DOMAIN got.problems :
                           Solutions(got.problems[t], line.target) = {point}
                      /\ \A r \in Binding(pages, got.weight, q.layers) :
                             r.track <= Grid * point[1]
                      /\ \E r \in Whole(text, "stackup") :
                           /\ r.name = got.stackup /\ r.coppers = q.layers
                           /\ r.default # q.impedance
    BY <1>9, Zenon
  <2>1. Readings(topology) = {topology}
    BY <1>10 DEF Readings
  <2>2. got.roots[topology] = {point} /\ point \in got.roots[topology]
    BY <1>5, <1>10, <2>1, OnlyOf
  <2>3. Solutions(got.problems[topology], line.target) = {point}
    BY <1>4, <2>1, <2>2
  <2>4. Grid * point[1] \in Int
    BY <1>5, <2>1, <2>2, GridKeepsOrder
  <2>5. limits # {} /\ Grid * point[1] >= StrictestTrack(limits)
    BY <1>10 DEF Clears
  <2>6. \A r \in Binding(pages, got.weight, q.layers) :
            r.track <= Grid * point[1]
    <3> DEFINE drawn == Grid * point[1]
               strictest == StrictestTrack(limits)
    <3>1. \A r \in Binding(pages, got.weight, q.layers) :
              r.track \in Int /\ r.track <= strictest
      BY <1>6, <2>5
    <3>2. strictest \in Int /\ drawn \in Int /\ strictest <= drawn
      BY <1>6, <2>4, <2>5
    <3> HIDE DEF drawn, strictest
    <3> QED BY <3>1, <3>2 DEF drawn
  <2>7. \E r \in Whole(text, "stackup") :
          /\ r.name = got.stackup /\ r.coppers = q.layers
          /\ r.default # q.impedance
    BY <1>8, CandidateStated DEF c, text
  <2> QED BY <1>8, <2>1, <2>3, <2>6, <2>7
\* A target to order.
<1>12. got.result.eligible =>
         /\ got.result.feasible
         /\ \E r \in Whole(text, "impedance range") :
              r.min <= line.target /\ line.target <= r.max
  <2>1. q.impedance => \E r \in Stated(c, "impedance range") :
                         r.min <= line.target /\ line.target <= r.max
    BY <1>8 DEF TargetAccepted
  <2>2. Stated(c, "impedance range") \subseteq Whole(text, "impedance range")
    <3>1. "impedance range" \notin {"impedance counts", "layer options", "npth via",
                                    "construction"}
      OBVIOUS
    <3> QED BY <1>1, <3>1, StatedOfText DEF c, text
  <2> QED BY <1>9, <2>1, <2>2
\* A corridor to reserve.
<1>13. got.result.corridor # None =>
         /\ got.result.corridor[1] <= got.result.corridor[2]
         /\ \A r \in Binding(pages, got.weight, q.layers) :
                r.track <= got.result.corridor[1]
         /\ \E root \in Solutions(got.problems[Bare], line.target) :
              Grid * root[2] = got.result.corridor[2]
  <2> SUFFICES ASSUME got.result.corridor # None
               PROVE  /\ got.result.corridor[1] <= got.result.corridor[2]
                      /\ \A r \in Binding(pages, got.weight, q.layers) :
                             r.track <= got.result.corridor[1]
                      /\ \E root \in Solutions(got.problems[Bare], line.target) :
                           Grid * root[2] = got.result.corridor[2]
    OBVIOUS
  <2> DEFINE loaded == got.roots[Coated]
             bare == got.roots[Bare]
             corridor == Corridor(limits, loaded, bare)
  <2>1. topology = Coated /\ got.result.corridor = corridor /\ corridor # None
    BY <1>9
  <2>2. Coated \in Readings(topology) /\ Bare \in Readings(topology)
    BY <2>1 DEF Readings
  <2>3. limits # {}
    BY <2>1 DEF Corridor, Clears
  <2>4. StrictestTrack(limits) \in Int
    BY <1>6, <2>3
  <2>5. /\ IsFiniteSet(loaded) /\ IsFiniteSet(bare)
        /\ \A root \in loaded \cup bare :
             root[1] \in Int /\ root[2] \in Int /\ root[1] <= root[2]
    BY <1>5, <2>2
  <2>6. bare = Solutions(got.problems[Bare], line.target)
    BY <1>4, <2>2
  <2>7. /\ corridor[1] \in Int /\ corridor[1] <= corridor[2]
        /\ StrictestTrack(limits) <= corridor[1]
        /\ \E root \in bare : Grid * root[2] = corridor[2]
    <3> HIDE DEF loaded, bare
    <3> QED BY <2>1, <2>4, <2>5, CorridorOf
  <2>8. \A r \in Binding(pages, got.weight, q.layers) :
            r.track \in Int /\ r.track <= StrictestTrack(limits)
    BY <1>6, <2>3
  <2>9. \A r \in Binding(pages, got.weight, q.layers) :
            r.track <= corridor[1]
    <3> DEFINE strictest == StrictestTrack(limits)
               start == corridor[1]
    <3>1. strictest \in Int /\ start \in Int /\ strictest <= start
      BY <2>4, <2>7
    <3> HIDE DEF strictest, start
    <3> QED BY <2>8, <3>1 DEF strictest, start
  <2> HIDE DEF corridor, bare
  <2> QED BY <2>1, <2>6, <2>7, <2>9
<1> QED BY <1>11, <1>12, <1>13, Zenon DEF Buildable, Binding, text

\* What a result lets a designer do can be built (impedance._result), whatever
\* the pages state and whatever the closed forms are.
THEOREM UsableLines == Spec => []UsableLineIsBuildable
<1>1. Init => UsableLineIsBuildable
  <2>1. Init => answer.said # "solved"
    BY DEF Init
  <2> QED BY <2>1, Zenon DEF UsableLineIsBuildable
<1>2. IInv /\ UsableLineIsBuildable /\ [Next]_vars => UsableLineIsBuildable'
  <2> SUFFICES ASSUME IInv, UsableLineIsBuildable, [Next]_vars
               PROVE  UsableLineIsBuildable'
    OBVIOUS
  <2>1. CASE answer'.said # "solved"
    BY <2>1, Zenon DEF UsableLineIsBuildable
  <2>2. CASE UNCHANGED answer
    BY <2>2, Zenon DEF UsableLineIsBuildable
  <2>3. ASSUME At("judge"), ~ Malformed(request),
               NEW line \in Lines[request], NEW form \in Forms,
               Chose("solved", line, SolveLine(Held, request, line, form))
        PROVE  UsableLineIsBuildable'
    <3> DEFINE pages == snapshot.normalized
    <3>1. /\ answer'.got = SolveLine(Parse(pages), request, line, form)
          /\ answer'.request = request /\ answer'.from = pages /\ answer'.line = line
      BY <2>3, HeldIsRead DEF Chose, Judged
    <3>2. Readable(pages) /\ request \in Requests
      BY <2>3, HeldIsRead DEF Readable
    <3> HIDE DEF pages
    <3>3. \A got \in answer'.got : Buildable(pages, request, line, got)
      BY <2>3, <3>1, <3>2, BuildableOfPages
    <3>4. \A got \in answer'.got :
            Buildable(answer'.from, answer'.request, answer'.line, got)
      BY <3>1, <3>3, Zenon
    <3> QED BY <3>4, Zenon DEF UsableLineIsBuildable, Buildable
  <2> QED BY <2>1, <2>2, <2>3, AnswersOf, SaidOf
<1> QED BY <1>1, <1>2, InitIInv, NextIInv, PTL DEF Spec
=============================================================================
