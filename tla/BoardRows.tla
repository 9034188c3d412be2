------------------------------ MODULE BoardRows ------------------------------
(***************************************************************************)
(* The rows of a board as LiveBoard and Wave share them: which offer is     *)
(* chosen, which alternatives a row holds, and what exchanging the two      *)
(* does.  Waves is what LiveBoard may assume of wave.Apply; module Wave has *)
(* the algorithm and is shown to keep to it.  Alternatives is the same for    *)
(* planner.pickAlternatives and module Planner.                             *)
(***************************************************************************)
EXTENDS Naturals, FiniteSets

CONSTANTS
  Guests,     \* people who are or may become guests of the event
  Offers,     \* offers that the carriers may sell
  NoOffer,    \* the nil *RouteOption
  Vehicle,    \* [Offers -> anything]: mode and number
  Arrives,    \* [Offers -> Nat]: ArrivalAt
  Deadline,   \* Nat: DeadlineTime of the event
  Spacing     \* Nat: SpacingMin, 0 switches the wave off

ASSUME RowsAssumption ==
  /\ NoOffer \notin Offers
  /\ Arrives \in [Offers -> Nat]
  /\ Deadline \in Nat
  /\ Spacing \in Nat

\* vehicleKey: guests with one ride arrive together.
Ride(o) == <<Vehicle[o], Arrives[o]>>

\* The alternatives that may go with c out of the options F: at most three, one
\* per vehicle, never c's.  Planner has the algorithm, which picks by mode.
Alternatives(F, c) ==
  LET Others == {o \in F : Vehicle[o] # Vehicle[c]}
  IN {A \in SUBSET Others :
        /\ Cardinality(A) <= 3
        /\ \A a, b \in A : Vehicle[a] = Vehicle[b] => a = b
        /\ Cardinality(A) = 3 \/ \A o \in Others : \E a \in A : Vehicle[a] = Vehicle[o]}

\* Mutant of Frozen: only the pin protects a row from the wave.
FrozenPin(row) == row.pinned

Frozen(row) == row.purchased \/ row.pinned

\* Arrivals a and then b, on different rides, are closer than the spacing.
TooClose(a, b) == /\ Ride(a) # Ride(b)
                  /\ Arrives[a] <= Arrives[b]
                  /\ Arrives[b] < Arrives[a] + Spacing

Crowded(rows) ==
  \E g, h \in Guests : /\ rows[g].chosen # NoOffer /\ rows[h].chosen # NoOffer
                       /\ TooClose(rows[g].chosen, rows[h].chosen)

\* The alternatives onto which the wave may move a row: later, in time.
Later(row) == {o \in row.alts : /\ Arrives[o] > Arrives[row.chosen]
                                /\ Arrives[o] <= Deadline}

\* Mutant of Swap: the option that is taken stays among the alternatives.
SwapKeeps(row, o) ==
  IF o = row.chosen THEN row
  ELSE [row EXCEPT !.chosen = o, !.alts = @ \cup ({row.chosen} \ {NoOffer})]

\* Choosing o puts the previous choice, if any, back among the alternatives.
Swap(row, o) ==
  IF o = row.chosen THEN row
  ELSE [row EXCEPT !.chosen = o,
                   !.alts = (@ \ {o}) \cup ({row.chosen} \ {NoOffer})]

Moved(row) ==
  IF row.chosen = NoOffer \/ Frozen(row) THEN {row}
  ELSE {row} \cup {Swap(row, o) : o \in Later(row)}

\* The boards into which the wave may turn these rows: free rows may move later
\* within the deadline, and only if two arrivals are too close.
Waves(rows) ==
  IF Crowded(rows)
  THEN {f \in [Guests -> UNION {Moved(rows[g]) : g \in Guests}] :
          \A g \in Guests : f[g] \in Moved(rows[g])}
  ELSE {rows}
=============================================================================
