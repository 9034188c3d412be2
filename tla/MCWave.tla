------------------------------- MODULE MCWave -------------------------------
(***************************************************************************)
(* A small instance of Wave.  Four guests take a ride of their own at 0 or  *)
(* share one at 1; each may move on by rides of their own in steps of the   *)
(* spacing, g2 also by one that arrives after the deadline.  g3 may have    *)
(* bought the ticket or picked the route, g1 may have no route.             *)
(***************************************************************************)
EXTENDS Wave, TLC

CONSTANTS g1, g2, g3, g4,
          Steps,  \* the arrivals of the alternatives
          Late    \* an arrival after the deadline

\* An offer is a pair: the vehicle and its arrival.
Shared    == <<"a", 1>>
MCOffers  == {Shared} \cup (Guests \X ({0, Late} \cup Steps))
MCVehicle == [o \in Offers |-> o[1]]
MCArrives == [o \in Offers |-> o[2]]
MCPlace   == [g \in Guests |-> CASE g = g1 -> 1 [] g = g2 -> 2 [] g = g3 -> 3 [] g = g4 -> 4]

NoRoute == [chosen |-> NoOffer, alts |-> {}, pinned |-> FALSE, purchased |-> FALSE]

Onward(g) == {g} \X (Steps \cup (IF g = g2 THEN {Late} ELSE {}))

Rows(g) ==
  {r \in [chosen : {<<g, 0>>, Shared}, alts : SUBSET Onward(g),
          pinned : BOOLEAN, purchased : BOOLEAN] :
     /\ g # g3 => ~r.pinned /\ ~r.purchased
     /\ ~(r.pinned /\ r.purchased)} \cup (IF g = g1 THEN {NoRoute} ELSE {})

RowsOf(w, x, y, z) ==
  [g \in Guests |-> CASE g = g1 -> w [] g = g2 -> x [] g = g3 -> y [] g = g4 -> z]

MCStarts ==
  {RowsOf(w, x, y, z) : w \in Rows(g1), x \in Rows(g2), y \in Rows(g3), z \in Rows(g4)}
=============================================================================
