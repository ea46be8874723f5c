------------------------------- MODULE Copper -------------------------------
(***************************************************************************)
(* The resistance of a copper path, as it is extracted from a board        *)
(* (pcbqa/extract.py over pcbqa/connectivity.py).                          *)
(*                                                                         *)
(* A net is what joins its contacts: pieces of track, which have a length  *)
(* and a resistance, and vias, which the model gives none.  The shapes the *)
(* contacts come from are abstracted; pads are contacts.                   *)
(***************************************************************************)
EXTENDS Claim, FiniteSets, Functions

CONSTANT ViaOhms    \* what a via may really add: the models leave it out

ASSUME ViasResist == ViaOhms \subseteq Nat

\* What a board file holds: pieces with two ends, measured in whole units.
IsNet(net) ==
  /\ IsFiniteSet(net.pieces)
  /\ \A p \in net.pieces :
       /\ p.kind \in {"track", "via"}
       /\ \E x, y \in p.ends : p.ends = {x, y}
       /\ p.ohms \in Nat /\ p.length \in Nat

Contacts(net) == UNION {p.ends : p \in net.pieces}
Tracks(pieces) == {p \in pieces : p.kind = "track"}
Vias(pieces) == {p \in pieces : p.kind = "via"}

\* Copper leads from a to b: no set of contacts keeps them apart.
Joined(pieces, a, b) ==
  a # b =>
    \A others \in SUBSET ((UNION {p.ends : p \in pieces}) \ {b}) :
      LET side == others \cup {a}
      IN  \E p \in pieces : p.ends \cap side # {} /\ ~ p.ends \subseteq side

\* A route has no piece it could do without.
Routes(net, a, b) ==
  {r \in SUBSET net.pieces :
     Joined(r, a, b) /\ \A p \in r : ~Joined(r \ {p}, a, b)}

Length(pieces) == SumFunction([p \in pieces |-> p.length])

\* NetGraph.trace(): the shortest route, of the tied ones any.
Traced(net, a, b) ==
  CHOOSE r \in Routes(net, a, b) :
    \A other \in Routes(net, a, b) : Length(r) <= Length(other)

\* Mutant: a detour is looked for only at the contacts between the pieces.
SeriesOfInteriors(net, a, b) ==
  \A p \in Tracks(Traced(net, a, b)) :
    ~ \E q \in net.pieces \ {p} : q.ends = p.ends

\* _series_bridge_check(): the terminals part when any one traversed track
\* is taken away, so no other copper carries a share of its current.
Series(net, a, b) ==
  \A p \in Tracks(Traced(net, a, b)) : ~Joined(net.pieces \ {p}, a, b)

\* What path_resistance() refuses to measure.
Measurable(net, a, b) ==
  /\ ~net.plane
  /\ Routes(net, a, b) # {}
  /\ Series(net, a, b)
  /\ \A p \in Tracks(Traced(net, a, b)) : p.weighed

SeriesOhms(net, a, b) ==
  SumFunction([p \in Tracks(Traced(net, a, b)) |-> p.ohms])

\* A junction whose place is ambiguous makes the sum a guess, a via that is
\* left out makes it a lower bound.
ResistanceClaim(net, a, b) ==
  LET route == Traced(net, a, b)
      sum == SeriesOhms(net, a, b)
  IN  IF \E p \in route : p.ambiguous
      THEN Claimed("approximate", sum, sum, "derived", Vias(route) # {})
      ELSE IF Vias(route) # {}
           THEN Claimed("lower_bound", sum, NoBound, "derived", TRUE)
           ELSE Claimed("exact", sum, sum, "derived", FALSE)

-----------------------------------------------------------------------------
(* What the copper really is.  The resistance between two contacts of a    *)
(* network in one piece is a quotient of two sums over its spanning trees  *)
(* (Kirchhoff).                                                            *)

Spans(pieces, contacts) == \A a, b \in contacts : Joined(pieces, a, b)

\* A tree spans, and has no piece it could do without.
Tree(pieces, contacts) ==
  /\ Spans(pieces, contacts)
  /\ \A p \in pieces : ~Spans(pieces \ {p}, contacts)

\* The piece of the net that current from a can reach.
Reached(net, a) ==
  [net EXCEPT !.pieces = {p \in @ : \A c \in p.ends : Joined(net.pieces, a, c)}]

Trees(net) == {t \in SUBSET net.pieces : Tree(t, Contacts(net))}

\* What is a tree with one more piece, from a to b.
Bridge(a, b) == [kind |-> "bridge", ends |-> {a, b}]
Forests(net, a, b) ==
  {f \in SUBSET net.pieces : Tree(f \cup {Bridge(a, b)}, Contacts(net))}

\* The product of the resistances that a choice of pieces leaves out.
LeftOut(net, chosen, ohms) ==
  FoldFunctionOnSet(LAMBDA x, y : x * y, 1, ohms, net.pieces \ chosen)

Over(net, choices, ohms) == SumFunction([c \in choices |-> LeftOut(net, c, ohms)])

Effective(net, a, b, ohms) ==
  Over(net, Forests(net, a, b), ohms) \div Over(net, Trees(net), ohms)

\* Every resistance the path may have, for all that is known of its vias; but
\* a ring of vias that have none determines no current.
RealOhms(net, a, b) ==
  LET part == Reached(net, a)
      assigned == {[p \in part.pieces |-> IF p.kind = "track" THEN p.ohms ELSE vias[p]] :
                     vias \in [Vias(part.pieces) -> ViaOhms]}
  IN  {Effective(part, a, b, ohms) :
         ohms \in {f \in assigned : Over(part, Trees(part), f) # 0}}
=============================================================================
