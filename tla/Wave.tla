-------------------------------- MODULE Wave --------------------------------
(***************************************************************************)
(* wave.Apply: one person meets every guest, so arrivals on different rides *)
(* must be Spacing minutes apart.  The walk goes through the rows in order  *)
(* of arrival; at the first free row that is too close to the one before it *)
(* and has a later alternative it swaps and starts again on the new order.  *)
(* A last walk marks the rows that remain too close.                        *)
(*                                                                         *)
(* lastArr and lastKey of the walk are the arrival and the ride of the row  *)
(* before, also after a row is skipped because it has the same ride.        *)
(***************************************************************************)
EXTENDS BoardRows

CONSTANTS
  Place,   \* [Guests -> Nat]: the order of the rows on the board
  Starts   \* boards (their rows) that BuildBoard hands to the wave

\* What the wave looks at in a row.
WaveRow == [chosen : Offers \cup {NoOffer}, alts : SUBSET Offers,
            pinned : BOOLEAN, purchased : BOOLEAN]

ASSUME WaveAssumption ==
  /\ IsFiniteSet(Guests)
  /\ Place \in [Guests -> Nat]
  /\ \A g, h \in Guests : Place[g] = Place[h] => g = h
  /\ Starts \subseteq [Guests -> WaveRow]
  /\ \A b \in Starts, g \in Guests :  \* pickAlternatives
       /\ b[g].chosen \notin b[g].alts
       /\ IsFiniteSet(b[g].alts) /\ Cardinality(b[g].alts) <= 3

VARIABLES
  start,    \* history: the rows that the wave was given
  rows,     \* the rows as they are now
  passes,   \* walks that have swapped
  pc,       \* "settle", "done"
  flagged   \* the rows that the last walk marked

vars == <<start, rows, passes, pc, flagged>>

Arriving == {g \in Guests : rows[g].chosen # NoOffer}

\* Mutant of Before: the walk follows the rows of the board.
BeforeByPlace(g, h) == Place[g] < Place[h]

\* sort.SliceStable by arrival.
Before(g, h) ==
  LET a == Arrives[rows[g].chosen]
      b == Arrives[rows[h].chosen]
  IN a < b \/ (a = b /\ Place[g] < Place[h])

\* p is the row that the walk visits just before g.
Precedes(p, g) == /\ Before(p, g)
                  /\ ~\E q \in Arriving : Before(p, q) /\ Before(q, g)

\* The arrival that g is too close to.
Clashes(g) == {p \in Arriving : /\ Precedes(p, g)
                                /\ TooClose(rows[p].chosen, rows[g].chosen)}

Conflicts == {g \in Arriving : Clashes(g) # {}}

\* The alternatives that would keep the gap and the deadline.
Openings(g) == {o \in rows[g].alts :
                  /\ \A p \in Clashes(g) : Arrives[o] >= Arrives[rows[p].chosen] + Spacing
                  /\ Arrives[o] <= Deadline}

\* Mutant of Movable: frozen rows are swapped too.
MovableFrozen == {g \in Conflicts : Openings(g) # {}}

Movable == {g \in Conflicts : ~Frozen(rows[g]) /\ Openings(g) # {}}

\* Mutant of MaxPasses: one walk per row.
MaxPassesOne == Cardinality(Guests)

MaxPasses == Cardinality(Guests) * 3

Init == /\ start \in Starts
        /\ rows = start
        /\ passes = 0
        /\ pc = IF Spacing = 0 THEN "done" ELSE "settle"
        /\ flagged = {}

\* applyOnce with mark = false: the first movable row takes its earliest opening.
Shift ==
  /\ pc = "settle" /\ passes < MaxPasses
  /\ LET free == Movable IN
       \E g \in free :
         /\ \A h \in free : ~Before(h, g)
         /\ LET openings == Openings(g) IN
              \E o \in openings :
                /\ \A p \in openings : Arrives[o] <= Arrives[p]
                /\ rows' = [rows EXCEPT ![g] = Swap(rows[g], o)]
  /\ passes' = passes + 1
  /\ UNCHANGED <<start, pc, flagged>>

\* applyOnce with mark = true.
Mark ==
  /\ pc = "settle"
  /\ passes = MaxPasses \/ Movable = {}
  /\ flagged' = Conflicts
  /\ pc' = "done"
  /\ UNCHANGED <<start, rows, passes>>

Next == Shift \/ Mark

Spec == Init /\ [][Next]_vars

-----------------------------------------------------------------------------
\* The rows keep their shape, the chosen option is none of the alternatives, and
\* the restarts keep their bound.
TypeOK == /\ \A g \in Guests : rows[g].chosen \notin rows[g].alts
          /\ rows \in [Guests -> WaveRow]
          /\ start \in [Guests -> WaveRow]
          /\ passes \in 0..MaxPasses
          /\ pc \in {"settle", "done"}
          /\ flagged \subseteq Guests

\* Whatever the walk does, the rows are ones that LiveBoard expects of the wave:
\* frozen rows stay, others move only later and within the deadline, each
\* keeping its options, and nothing moves when no arrivals are too close.
KeepsToWaves == rows \in Waves(start)

\* The number of restarts is cut at three per row although each swap puts the
\* previous choice back; still the walk always ends because no swap is left.
Settled == pc = "done" /\ Spacing > 0 => Movable = {}

\* Of any two arrivals that remain too close, neighbours in the walk or not, the
\* later ride (either one, if they arrive together) has a marked row.
ClashesAreFlagged ==
  pc = "done" => \A g, h \in Arriving :
    TooClose(rows[g].chosen, rows[h].chosen) =>
      \E f \in flagged :
        \/ Ride(rows[f].chosen) = Ride(rows[h].chosen)
        \/ /\ Arrives[rows[g].chosen] = Arrives[rows[h].chosen]
           /\ Ride(rows[f].chosen) = Ride(rows[g].chosen)

=============================================================================
