---------------------------- MODULE RebuildProofs ----------------------------
(***************************************************************************)
(* The two steps of a rebuild that LiveBoard takes from elsewhere.  For any *)
(* guests, offers, spacing and boards, the walk of wave.Apply keeps to      *)
(* Waves, settles and flags what still clashes; for any offers and wishes,  *)
(* PlanGuest gives the alternatives that LiveBoard supposes, a route held   *)
(* or best, and a status that fits it.                                      *)
(***************************************************************************)
EXTENDS Wave, PlannerProps, FiniteSetTheorems, FunctionTheorems, TLAPS

\* The inductive form of KeepsToWaves: each row is the given one or the given
\* one moved later, and only rows with too close arrivals are touched.
WaveInv ==
  /\ start \in [Guests -> WaveRow] /\ rows \in [Guests -> WaveRow]
  /\ \A g \in Guests : rows[g] \in Moved(start[g])
  /\ rows # start => Crowded(start)

\* Swapping an alternative in leaves a row of the wave with the same marks.
LEMMA SwapShape ==
  ASSUME NEW r \in WaveRow, r.chosen # NoOffer,
         NEW o \in r.alts, o # r.chosen
  PROVE  /\ Swap(r, o) \in WaveRow
         /\ Swap(r, o).chosen = o
         /\ Swap(r, o).alts = (r.alts \ {o}) \cup {r.chosen}
         /\ Swap(r, o).pinned = r.pinned
         /\ Swap(r, o).purchased = r.purchased
  <1>1. o # r.chosen /\ o \in Offers /\ r.chosen \in Offers
    BY DEF WaveRow
  <1>2. Swap(r, o) = [r EXCEPT !.chosen = o,
                          !.alts = (r.alts \ {o}) \cup {r.chosen}]
    BY <1>1 DEF Swap, WaveRow
  <1> QED BY <1>1, <1>2 DEF WaveRow

\* Moving a r twice, each time later, is moving it once: the swap that was
\* undone leaves the first choice among the alternatives.
LEMMA SwapTwice ==
  ASSUME NEW r \in WaveRow, r.chosen # NoOffer,
         NEW o \in Later(r), NEW p \in Later(Swap(r, o))
  PROVE  p \in Later(r) /\ Swap(Swap(r, o), p) = Swap(r, p)
  <1> DEFINE once == Swap(r, o)
  <1>1. o \in r.alts /\ Arrives[o] > Arrives[r.chosen]
    BY DEF Later
  <1>11. o # r.chosen
    BY <1>1, RowsAssumption DEF WaveRow
  <1>2. /\ once \in WaveRow /\ once.chosen = o
        /\ once.alts = (r.alts \ {o}) \cup {r.chosen}
        /\ once.pinned = r.pinned /\ once.purchased = r.purchased
    BY <1>1, <1>11, SwapShape
  <1>3. p \in once.alts /\ Arrives[p] > Arrives[o] /\ Arrives[p] <= Deadline
    BY <1>2 DEF Later
  <1>4. o \in Offers /\ p \in Offers /\ r.chosen \in Offers
    BY <1>1, <1>2, <1>3 DEF WaveRow
  <1>5. Arrives[o] \in Nat /\ Arrives[p] \in Nat /\ Arrives[r.chosen] \in Nat
    BY <1>4, RowsAssumption
  <1>6. p # r.chosen /\ p \in r.alts /\ p # o
    BY <1>1, <1>2, <1>3, <1>5
  <1>7. p \in Later(r)
    BY <1>1, <1>3, <1>5, <1>6 DEF Later
  <1>8. /\ Swap(once, p) \in WaveRow /\ Swap(once, p).chosen = p
        /\ Swap(once, p).alts = (once.alts \ {p}) \cup {o}
        /\ Swap(once, p).pinned = r.pinned /\ Swap(once, p).purchased = r.purchased
    BY <1>2, <1>3, <1>4, <1>6, RowsAssumption, SwapShape
  <1>9. /\ Swap(r, p) \in WaveRow /\ Swap(r, p).chosen = p
        /\ Swap(r, p).alts = (r.alts \ {p}) \cup {r.chosen}
        /\ Swap(r, p).pinned = r.pinned /\ Swap(r, p).purchased = r.purchased
    BY <1>6, SwapShape
  <1>10. Swap(once, p).alts = Swap(r, p).alts
    BY <1>1, <1>2, <1>6, <1>8, <1>9
  <1> QED BY <1>7, <1>8, <1>9, <1>10 DEF WaveRow

\* The walk swaps only free rows, and onto arrivals later than their own: the
\* arrival before is at most the r's own, and an opening keeps the gap to it.
LEMMA ShiftLater ==
  ASSUME WaveInv, NEW g \in Movable, NEW o \in Openings(g)
  PROVE  /\ rows[g].chosen # NoOffer /\ ~Frozen(rows[g])
         /\ o \in Later(rows[g]) /\ Crowded(rows)
  <1>1. g \in Guests /\ rows[g].chosen # NoOffer /\ ~Frozen(rows[g])
    BY DEF Movable, Conflicts, Arriving
  <1>2. PICK p \in Arriving : TooClose(rows[p].chosen, rows[g].chosen) /\ p \in Clashes(g)
    BY DEF Movable, Conflicts, Clashes
  <1>3. p \in Guests /\ rows[p].chosen # NoOffer
    BY DEF Arriving
  <1>4. Arrives[o] >= Arrives[rows[p].chosen] + Spacing /\ o \in rows[g].alts
        /\ Arrives[o] <= Deadline
    BY <1>2 DEF Openings
  <1>5. /\ rows[g].chosen \in Offers /\ rows[p].chosen \in Offers /\ o \in Offers
    BY <1>1, <1>3, <1>4 DEF WaveInv, WaveRow
  <1>6. Arrives[o] > Arrives[rows[g].chosen]
    BY <1>2, <1>4, <1>5, RowsAssumption DEF TooClose
  <1> QED BY <1>1, <1>2, <1>3, <1>4, <1>6 DEF Later, Crowded

\* Before the first walk no row has moved.
LEMMA InitWave == Init => WaveInv
  BY WaveAssumption DEF Init, WaveInv, Moved

\* A swap stays within the options of its row and leaves frozen rows alone.
LEMMA ShiftWave == WaveInv /\ Shift => WaveInv'
  <1> SUFFICES ASSUME WaveInv, Shift PROVE WaveInv'
    OBVIOUS
  <1>1. PICK g \in Movable : \E o \in Openings(g) :
          rows' = [rows EXCEPT ![g] = Swap(rows[g], o)]
    BY DEF Shift
  <1>2. PICK o \in Openings(g) : rows' = [rows EXCEPT ![g] = Swap(rows[g], o)]
    BY <1>1
  <1>3. /\ g \in Guests /\ rows[g].chosen # NoOffer /\ ~Frozen(rows[g])
        /\ o \in Later(rows[g]) /\ Crowded(rows)
    BY <1>1, <1>2, ShiftLater DEF Movable, Conflicts, Arriving
  <1>4. rows[g] \in WaveRow /\ start[g] \in WaveRow /\ start' = start
    BY <1>3 DEF WaveInv, Shift
  <1>5. o \in rows[g].alts /\ o # rows[g].chosen
    BY <1>3, <1>4, RowsAssumption DEF Later, WaveRow
  <1>6. Swap(rows[g], o) \in WaveRow
    BY <1>3, <1>4, <1>5, SwapShape
  <1>7. Swap(rows[g], o) \in Moved(start[g])
    <2>1. CASE rows[g] = start[g]
      BY <1>3, <2>1 DEF Moved
    <2>2. CASE rows[g] # start[g]
      <3>1. PICK first \in Later(start[g]) : rows[g] = Swap(start[g], first)
        BY <1>3, <2>2 DEF WaveInv, Moved
      <3>2. start[g].chosen # NoOffer /\ ~Frozen(start[g])
        BY <1>3, <2>2 DEF WaveInv, Moved
      <3>3. o \in Later(start[g]) /\ Swap(rows[g], o) = Swap(start[g], o)
        BY <1>3, <1>4, <3>1, <3>2, SwapTwice
      <3> QED BY <3>2, <3>3 DEF Moved
    <2> QED BY <2>1, <2>2
  <1>8. Crowded(start)
    BY <1>3 DEF WaveInv
  <1>9. rows' \in [Guests -> WaveRow]
    BY <1>2, <1>3, <1>6 DEF WaveInv
  <1>10. \A h \in Guests : rows'[h] \in Moved(start'[h])
    BY <1>2, <1>3, <1>4, <1>7 DEF WaveInv
  <1> QED BY <1>4, <1>8, <1>9, <1>10 DEF WaveInv

\* Every step of the walk keeps the invariant.
LEMMA StepWave == WaveInv /\ [Next]_vars => WaveInv'
  <1> SUFFICES ASSUME WaveInv, [Next]_vars PROVE WaveInv'
    OBVIOUS
  <1>1. CASE Shift
    BY <1>1, ShiftWave
  <1>2. CASE Mark
    BY <1>2 DEF Mark, WaveInv
  <1>3. CASE UNCHANGED vars
    BY <1>3 DEF vars, WaveInv
  <1> QED BY <1>1, <1>2, <1>3 DEF Next

\* wave.Apply is one of the waves that LiveBoard's rebuild allows for: purchased
\* and pinned rows stay as they are, the others keep their options and move only
\* later and within the deadline, and nothing moves unless arrivals are too
\* close; what is proved of LiveBoard therefore holds with this algorithm.
THEOREM WaveIsAllowed == Spec => []KeepsToWaves
  <1>1. WaveInv => KeepsToWaves
    <2> SUFFICES ASSUME WaveInv PROVE rows \in Waves(start)
      BY DEF KeepsToWaves
    <2>1. CASE Crowded(start)
      <3>1. rows \in [Guests -> UNION {Moved(start[g]) : g \in Guests}]
        BY DEF WaveInv
      <3> QED BY <2>1, <3>1 DEF WaveInv, Waves
    <2>2. CASE ~Crowded(start)
      BY <2>2 DEF WaveInv, Waves
    <2> QED BY <2>1, <2>2
  <1> QED BY <1>1, InitWave, StepWave, PTL DEF Spec

-----------------------------------------------------------------------------
\* The number of walks is bounded because the board has finitely many rows.
LEMMA PassesBound == MaxPasses \in Nat
  <1>1. Cardinality(Guests) \in Nat
    BY WaveAssumption, FS_CardinalityType
  <1> QED BY <1>1 DEF MaxPasses

\* The walk starts from typed rows.
LEMMA InitType == Init => TypeOK
  <1> SUFFICES ASSUME Init PROVE TypeOK
    OBVIOUS
  <1>1. /\ rows = start /\ start \in Starts
        /\ passes = 0 /\ pc \in {"settle", "done"} /\ flagged = {}
    BY DEF Init
  <1>2. start \in [Guests -> WaveRow] /\ \A g \in Guests : start[g].chosen \notin start[g].alts
    BY <1>1, WaveAssumption
  <1> QED BY <1>1, <1>2, PassesBound DEF TypeOK

\* The swap puts the old choice among the alternatives and takes the new one out.
LEMMA ShiftType == WaveInv /\ TypeOK /\ Shift => TypeOK'
  <1> SUFFICES ASSUME WaveInv, TypeOK, Shift PROVE TypeOK'
    OBVIOUS
  <1>1. PICK g \in Movable : \E o \in Openings(g) :
          rows' = [rows EXCEPT ![g] = Swap(rows[g], o)]
    BY DEF Shift
  <1>2. PICK o \in Openings(g) : rows' = [rows EXCEPT ![g] = Swap(rows[g], o)]
    BY <1>1
  <1>3. /\ g \in Guests /\ rows[g].chosen # NoOffer /\ o \in Later(rows[g])
    BY <1>1, <1>2, ShiftLater DEF Movable, Conflicts, Arriving
  <1>4. rows[g] \in WaveRow
    BY <1>3 DEF WaveInv
  <1>5. o \in rows[g].alts /\ o # rows[g].chosen
    BY <1>3, <1>4, RowsAssumption DEF Later, WaveRow
  <1>6. /\ Swap(rows[g], o) \in WaveRow
        /\ Swap(rows[g], o).chosen = o
        /\ Swap(rows[g], o).alts = (rows[g].alts \ {o}) \cup {rows[g].chosen}
    BY <1>3, <1>4, <1>5, SwapShape
  <1>7. rows' \in [Guests -> WaveRow] /\ start' \in [Guests -> WaveRow]
    BY <1>2, <1>3, <1>6 DEF TypeOK, Shift
  <1>8. \A h \in Guests : rows'[h].chosen \notin rows'[h].alts
    BY <1>2, <1>3, <1>5, <1>6 DEF TypeOK
  <1>9. passes' \in 0..MaxPasses
    BY PassesBound DEF TypeOK, Shift
  <1>10. pc' \in {"settle", "done"} /\ flagged' \subseteq Guests
    BY DEF TypeOK, Shift
  <1> QED BY <1>7, <1>8, <1>9, <1>10 DEF TypeOK

\* The walk never lists the chosen route among its own alternatives, loses no
\* row's shape and restarts at most three times per row.
THEOREM TypeCorrect == Spec => []TypeOK
  <1>1. WaveInv /\ TypeOK /\ [Next]_vars => TypeOK'
    <2> SUFFICES ASSUME WaveInv, TypeOK, [Next]_vars PROVE TypeOK'
      OBVIOUS
    <2>1. CASE Shift
      BY <2>1, ShiftType
    <2>2. CASE Mark
      BY <2>2 DEF Mark, TypeOK, Conflicts, Arriving
    <2>3. CASE UNCHANGED vars
      BY <2>3 DEF vars, TypeOK
    <2> QED BY <2>1, <2>2, <2>3 DEF Next
  <1> QED BY <1>1, InitWave, InitType, StepWave, PTL DEF Spec

-----------------------------------------------------------------------------
(* The walk settles: what a row may still move to only becomes less *)

\* The moves that are left: alternatives that arrive later than the route.
Onward == {x \in Guests \X Offers :
             /\ rows[x[1]].chosen # NoOffer
             /\ x[2] \in rows[x[1]].alts
             /\ Arrives[x[2]] > Arrives[rows[x[1]].chosen]}

\* Each walk that swaps uses up one of them.
SettleInv ==
  /\ IsFiniteSet(Onward) /\ passes + Cardinality(Onward) <= MaxPasses
  /\ pc = "done" /\ Spacing > 0 => Movable = {}

\* A set of at most three elements can be numbered.
LEMMA AtMostThree ==
  ASSUME NEW A, IsFiniteSet(A), Cardinality(A) <= 3
  PROVE  \E f \in [A -> 1..3] : \A a, b \in A : f[a] = f[b] => a = b
  <1>1. Cardinality(A) \in Nat /\ ExistsBijection(1..Cardinality(A), A)
    BY FS_CardinalityType
  <1>2. ExistsBijection(A, 1..Cardinality(A))
    BY <1>1, Fun_ExistsBijSymmetric
  <1>3. PICK f : f \in Bijection(A, 1..Cardinality(A))
    BY <1>2 DEF ExistsBijection
  <1>4. f \in [A -> 1..Cardinality(A)] /\ \A a, b \in A : f[a] = f[b] => a = b
    BY <1>3 DEF Bijection, Injection, IsInjective
  <1>5. 1..Cardinality(A) \subseteq 1..3
    BY <1>1
  <1>6. f \in [A -> 1..3]
    BY <1>4, <1>5
  <1> QED BY <1>4, <1>6

\* The planner gives no row more than three alternatives.
LEMMA InitSettles == Init => SettleInv
  <1> SUFFICES ASSUME Init PROVE SettleInv
    OBVIOUS
  <1>1. /\ start \in Starts /\ rows = start /\ passes = 0
        /\ pc = "done" => Spacing = 0
    BY DEF Init
  <1>2. \A g \in Guests : /\ IsFiniteSet(rows[g].alts)
                          /\ Cardinality(rows[g].alts) <= 3
    BY <1>1, WaveAssumption
  <1> DEFINE Number(g) == CHOOSE f \in [rows[g].alts -> 1..3] :
                            \A a, b \in rows[g].alts : f[a] = f[b] => a = b
             code == [x \in Onward |-> <<x[1], Number(x[1])[x[2]]>>]
  <1>3. \A g \in Guests : /\ Number(g) \in [rows[g].alts -> 1..3]
                          /\ \A a, b \in rows[g].alts :
                               Number(g)[a] = Number(g)[b] => a = b
    BY <1>2, AtMostThree
  <1> HIDE DEF Number
  <1>4. \A x \in Onward : x = <<x[1], x[2]>> /\ x[1] \in Guests /\ x[2] \in rows[x[1]].alts
    BY DEF Onward
  <1>5. code \in [Onward -> Guests \X (1..3)]
    BY <1>3, <1>4
  <1>6. ASSUME NEW x \in Onward, NEW y \in Onward, code[x] = code[y] PROVE x = y
    <2>1. x[1] = y[1] /\ Number(x[1])[x[2]] = Number(y[1])[y[2]]
      BY <1>6
    <2> QED BY <1>3, <1>4, <2>1
  <1>7. code \in Injection(Onward, Guests \X (1..3))
    BY <1>5, <1>6 DEF Injection, IsInjective
  <1>8. /\ IsFiniteSet(Guests \X (1..3))
        /\ Cardinality(Guests \X (1..3)) = Cardinality(Guests) * 3
    <2> HIDE DEF code
    <2>1. IsFiniteSet(1..3) /\ Cardinality(1..3) = 3
      BY FS_Interval, 1 \in Int, 3 \in Int, 3 - 1 + 1 = 3, ~(1 > 3)
    <2> QED BY <2>1, WaveAssumption, FS_Product
  <1>9. IsFiniteSet(Onward) /\ Cardinality(Onward) <= MaxPasses
    <2> HIDE DEF code
    <2> QED BY <1>7, <1>8, FS_Injection DEF MaxPasses
  <1>10. Cardinality(Onward) \in Nat
    BY <1>9, FS_CardinalityType
  <1> QED BY <1>1, <1>9, <1>10 DEF SettleInv

\* The alternative taken is no move any more, and the old route is not one.
LEMMA ShiftSettles ==
  ASSUME WaveInv, TypeOK, SettleInv, Shift
  PROVE  SettleInv'
  <1>1. PICK g \in Movable : \E o \in Openings(g) :
          rows' = [rows EXCEPT ![g] = Swap(rows[g], o)]
    BY DEF Shift
  <1>2. PICK o \in Openings(g) : rows' = [rows EXCEPT ![g] = Swap(rows[g], o)]
    BY <1>1
  <1>3. g \in Guests /\ rows[g].chosen # NoOffer /\ o \in Later(rows[g])
    BY <1>1, <1>2, ShiftLater DEF Movable, Conflicts, Arriving
  <1>4. rows[g] \in WaveRow
    BY <1>3 DEF WaveInv
  <1>5. /\ o \in rows[g].alts /\ o # rows[g].chosen /\ o \in Offers
        /\ rows[g].chosen \in Offers
        /\ Arrives[o] > Arrives[rows[g].chosen]
        /\ Arrives[o] \in Nat /\ Arrives[rows[g].chosen] \in Nat
    BY <1>3, <1>4, RowsAssumption DEF Later, WaveRow
  <1>6. /\ Swap(rows[g], o).chosen = o
        /\ Swap(rows[g], o).alts = (rows[g].alts \ {o}) \cup {rows[g].chosen}
    BY <1>3, <1>4, <1>5, SwapShape
  <1>7. /\ rows'[g].chosen = o
        /\ rows'[g].alts = (rows[g].alts \ {o}) \cup {rows[g].chosen}
        /\ \A h \in Guests : h # g => rows'[h] = rows[h]
    BY <1>2, <1>3, <1>6 DEF WaveInv
  <1>8. <<g, o>> \in Onward
    BY <1>3, <1>5 DEF Onward
  <1>9. Onward' \subseteq Onward \ {<<g, o>>}
    <2> SUFFICES ASSUME NEW x \in Onward' PROVE x \in Onward /\ x # <<g, o>>
      OBVIOUS
    <2>1. /\ x = <<x[1], x[2]>> /\ x[1] \in Guests /\ x[2] \in Offers
          /\ rows'[x[1]].chosen # NoOffer
          /\ x[2] \in rows'[x[1]].alts
          /\ Arrives[x[2]] > Arrives[rows'[x[1]].chosen]
      BY DEF Onward
    <2>2. CASE x[1] # g
      <3>1. rows'[x[1]] = rows[x[1]]
        BY <1>7, <2>1, <2>2
      <3> QED BY <2>1, <2>2, <3>1 DEF Onward
    <2>3. CASE x[1] = g
      <3>1. Arrives[x[2]] > Arrives[o] /\ Arrives[x[2]] \in Nat
        BY <1>7, <2>1, <2>3, RowsAssumption
      <3>2. x[2] # o /\ x[2] # rows[g].chosen
        BY <1>5, <3>1
      <3>3. x[2] \in rows[g].alts
        BY <1>7, <2>1, <2>3, <3>2
      <3>4. Arrives[x[2]] > Arrives[rows[g].chosen]
        BY <1>5, <3>1
      <3> QED BY <1>3, <2>1, <2>3, <3>2, <3>3, <3>4 DEF Onward
    <2> QED BY <2>2, <2>3
  <1>10. /\ IsFiniteSet(Onward') /\ Cardinality(Onward') <= Cardinality(Onward) - 1
         /\ Cardinality(Onward') \in Nat /\ Cardinality(Onward) \in Nat
    <2>1. IsFiniteSet(Onward)
      BY DEF SettleInv
    <2>2. /\ IsFiniteSet(Onward \ {<<g, o>>})
          /\ Cardinality(Onward \ {<<g, o>>}) = Cardinality(Onward) - 1
      BY <1>8, <2>1, FS_RemoveElement
    <2>3. IsFiniteSet(Onward') /\ Cardinality(Onward') <= Cardinality(Onward \ {<<g, o>>})
      BY <1>9, <2>2, FS_Subset
    <2> QED BY <2>1, <2>2, <2>3, FS_CardinalityType
  <1>11. passes' = passes + 1 /\ passes \in Nat /\ pc' = "settle" /\ MaxPasses' = MaxPasses
    BY PassesBound DEF Shift, TypeOK, MaxPasses
  <1>12. passes' + Cardinality(Onward') <= MaxPasses'
    BY <1>10, <1>11, PassesBound DEF SettleInv
  <1> QED BY <1>10, <1>11, <1>12 DEF SettleInv

\* When the walks are used up, no move is left.
LEMMA MarkSettles ==
  ASSUME WaveInv, TypeOK, SettleInv, Mark
  PROVE  SettleInv'
  <1>1. rows' = rows /\ passes' = passes
    BY DEF Mark
  <1>2. Movable = {}
    <2> SUFFICES ASSUME passes = MaxPasses, NEW g \in Movable PROVE FALSE
      BY DEF Mark
    <2>1. PICK o \in Openings(g) : TRUE
      BY DEF Movable
    <2>2. g \in Guests /\ rows[g].chosen # NoOffer /\ o \in Later(rows[g])
      BY <2>1, ShiftLater DEF Movable, Conflicts, Arriving
    <2>3. <<g, o>> \in Onward
      BY <2>2 DEF Onward, Later, WaveInv, WaveRow
    <2>4. IsFiniteSet(Onward) /\ Cardinality(Onward) \in Nat
      BY FS_CardinalityType DEF SettleInv
    <2>5. Cardinality(Onward) = 0
      BY <2>4, PassesBound DEF SettleInv
    <2> QED BY <2>3, <2>4, <2>5, FS_EmptySet
  <1>3. Onward' = Onward /\ MaxPasses' = MaxPasses
    BY <1>1 DEF Onward, MaxPasses
  <1>4. Movable' = Movable
    BY <1>1 DEF Movable, Conflicts, Arriving, Clashes, Precedes, Before, Openings
  <1> QED BY <1>1, <1>2, <1>3, <1>4 DEF SettleInv

\* For any number of guests the walk ends because no swap is left, never because
\* its three restarts per row are used up (wave.go: maxPasses).
THEOREM WalkSettles == Spec => []Settled
  <1>1. WaveInv /\ TypeOK /\ SettleInv /\ [Next]_vars => SettleInv'
    <2> SUFFICES ASSUME WaveInv, TypeOK, SettleInv, [Next]_vars PROVE SettleInv'
      OBVIOUS
    <2>1. CASE Shift
      BY <2>1, ShiftSettles
    <2>2. CASE Mark
      BY <2>2, MarkSettles
    <2>3. CASE UNCHANGED vars
      BY <2>3 DEF vars, SettleInv, Onward, MaxPasses, Movable, Conflicts,
                  Arriving, Clashes, Precedes, Before, Openings
    <2> QED BY <2>1, <2>2, <2>3 DEF Next
  <1>2. SettleInv => Settled
    BY DEF SettleInv, Settled
  <1> QED BY <1>1, <1>2, InitWave, StepWave, InitSettles, TypeCorrect, PTL DEF Spec

-----------------------------------------------------------------------------
(* Marking the neighbours in the walk is enough *)

\* The last walk marked the rows that follow a neighbour too closely.
FlagInv == pc = "done" => Spacing = 0 \/ flagged = Conflicts

\* What the walk reads of an arriving row.
LEMMA ArrivalTyped ==
  ASSUME TypeOK, NEW g \in Arriving
  PROVE  /\ g \in Guests /\ rows[g].chosen \in Offers
         /\ Arrives[rows[g].chosen] \in Nat /\ Place[g] \in Nat
  <1>1. g \in Guests /\ rows[g] \in WaveRow /\ rows[g].chosen # NoOffer
    BY DEF Arriving, TypeOK
  <1> QED BY <1>1, RowsAssumption, WaveAssumption DEF WaveRow

\* The order of the walk is a strict total order of the arriving rows.
LEMMA WalkOrder ==
  ASSUME TypeOK, NEW g \in Arriving, NEW h \in Arriving
  PROVE  /\ ~Before(g, g)
         /\ \A k \in Arriving : Before(g, h) /\ Before(h, k) => Before(g, k)
         /\ g = h \/ Before(g, h) \/ Before(h, g)
         /\ Before(g, h) => Arrives[rows[g].chosen] <= Arrives[rows[h].chosen]
  <1>1. \A k \in Arriving : Arrives[rows[k].chosen] \in Nat /\ Place[k] \in Nat
    BY ArrivalTyped
  <1>2. Place[g] = Place[h] => g = h
    BY ArrivalTyped, WaveAssumption
  <1> QED BY <1>1, <1>2 DEF Before

\* Of some arriving rows the walk visits one first and one last: the rows before
\* the one, and those after the other, are a smallest set of their kind.
LEMMA FirstAndLast ==
  ASSUME TypeOK, NEW S \in SUBSET Arriving, S # {}
  PROVE  /\ \E m \in S : \A n \in S : n = m \/ Before(m, n)
         /\ \E m \in S : \A n \in S : n = m \/ Before(n, m)
  <1> DEFINE Below(g) == {q \in Arriving : Before(q, g)}
             Above(g) == {q \in Arriving : Before(g, q)}
             R == StrictSubsetOrdering(Arriving)
  <1>1. IsFiniteSet(Arriving)
    <2>1. Arriving \subseteq Guests
      BY DEF Arriving
    <2> QED BY <2>1, WaveAssumption, FS_Subset
  <1>2. FiniteSubsetsOf(Arriving) = SUBSET Arriving
    BY <1>1, FS_FiniteSubsetsOfFinite
  <1>3. ASSUME NEW U, U # {}, U \subseteq SUBSET Arriving
        PROVE  \E u \in U : \A v \in U : ~(v \subseteq u /\ v # u)
    <2>1. PICK u \in U : \A v \in U : ~(<<v, u>> \in R)
      <3> HIDE DEF R
      <3>1. IsWellFoundedOn(R, SUBSET Arriving)
        BY <1>2, FS_StrictSubsetOrderingWellFounded DEF R
      <3> QED BY <1>3, <3>1, WFMin
    <2>2. \A v \in U : v \in SUBSET Arriving
      BY <1>3
    <2> QED BY <2>1, <2>2 DEF StrictSubsetOrdering
  <1>4. ASSUME NEW m \in S, NEW n \in S, Before(n, m)
        PROVE  /\ Below(n) \subseteq Below(m) /\ Below(n) # Below(m)
               /\ Above(m) \subseteq Above(n) /\ Above(m) # Above(n)
    <2>1. m \in Arriving /\ n \in Arriving
      OBVIOUS
    <2>2. ~Before(n, n) /\ ~Before(m, m)
      BY <2>1, WalkOrder
    <2>3. n \in Below(m) /\ n \notin Below(n) /\ m \in Above(n) /\ m \notin Above(m)
      BY <1>4, <2>1, <2>2
    <2>4. \A q \in Arriving : /\ Before(q, n) => Before(q, m)
                              /\ Before(m, q) => Before(n, q)
      BY <1>4, <2>1, WalkOrder
    <2> QED BY <2>3, <2>4
  <1>5. PICK m \in S : \A n \in S : ~(Below(n) \subseteq Below(m) /\ Below(n) # Below(m))
    <2> DEFINE U == {Below(n) : n \in S}
    <2>1. U # {} /\ U \subseteq SUBSET Arriving
      <3>1. \A n \in S : Below(n) \in SUBSET Arriving
        OBVIOUS
      <3> HIDE DEF Below
      <3> QED BY <3>1
    <2>2. PICK u \in U : \A v \in U : ~(v \subseteq u /\ v # u)
      <3> HIDE DEF U
      <3> QED BY <1>3, <2>1
    <2> HIDE DEF Below
    <2>3. PICK m \in S : u = Below(m)
      OBVIOUS
    <2>4. \A n \in S : Below(n) \in U
      OBVIOUS
    <2> HIDE DEF U
    <2> QED BY <2>2, <2>3, <2>4
  <1>6. PICK l \in S : \A n \in S : ~(Above(n) \subseteq Above(l) /\ Above(n) # Above(l))
    <2> DEFINE U == {Above(n) : n \in S}
    <2>1. U # {} /\ U \subseteq SUBSET Arriving
      <3>1. \A n \in S : Above(n) \in SUBSET Arriving
        OBVIOUS
      <3> HIDE DEF Above
      <3> QED BY <3>1
    <2>2. PICK u \in U : \A v \in U : ~(v \subseteq u /\ v # u)
      <3> HIDE DEF U
      <3> QED BY <1>3, <2>1
    <2> HIDE DEF Above
    <2>3. PICK l \in S : u = Above(l)
      OBVIOUS
    <2>4. \A n \in S : Above(n) \in U
      OBVIOUS
    <2> HIDE DEF U
    <2> QED BY <2>2, <2>3, <2>4
  <1> HIDE DEF Below, Above
  <1>7. \A n \in S : n = m \/ Before(m, n)
    BY <1>4, <1>5, WalkOrder
  <1>8. \A n \in S : n = l \/ Before(n, l)
    BY <1>4, <1>6, WalkOrder
  <1> QED BY <1>7, <1>8

\* If y comes within the spacing of an earlier row x with another ride, the first
\* row of y's ride after x follows its neighbour too closely.
LEMMA RideIsMarked ==
  ASSUME TypeOK, NEW x \in Arriving, NEW y \in Arriving, Before(x, y),
         Ride(rows[x].chosen) # Ride(rows[y].chosen),
         Arrives[rows[y].chosen] < Arrives[rows[x].chosen] + Spacing
  PROVE  \E f \in Conflicts : Ride(rows[f].chosen) = Ride(rows[y].chosen)
  <1> DEFINE S == {k \in Arriving : /\ Before(x, k)
                                    /\ Ride(rows[k].chosen) = Ride(rows[y].chosen)}
             P(k) == {q \in Arriving : Before(q, k)}
  <1>1. PICK k \in S : \A n \in S : n = k \/ Before(k, n)
    <2>1. S \in SUBSET Arriving /\ S # {}
      OBVIOUS
    <2> HIDE DEF S
    <2> QED BY <2>1, FirstAndLast
  <1>2. /\ k \in Arriving /\ Before(x, k)
        /\ Ride(rows[k].chosen) = Ride(rows[y].chosen)
    OBVIOUS
  <1>3. PICK p \in P(k) : \A n \in P(k) : n = p \/ Before(n, p)
    <2>1. P(k) \in SUBSET Arriving /\ P(k) # {}
      BY <1>2
    <2> HIDE DEF P
    <2> QED BY <2>1, FirstAndLast
  <1>4. p \in Arriving /\ Before(p, k) /\ (p = x \/ Before(x, p))
    BY <1>2, <1>3
  <1>5. Precedes(p, k)
    <2> SUFFICES ASSUME NEW q \in Arriving, Before(p, q), Before(q, k) PROVE FALSE
      BY <1>4 DEF Precedes
    <2>1. q = p \/ Before(q, p)
      BY <1>3
    <2> QED BY <1>4, <2>1, WalkOrder
  <1>6. Ride(rows[p].chosen) # Ride(rows[k].chosen)
    <2>1. CASE p = x
      BY <1>2, <2>1
    <2>2. CASE Before(x, p) /\ Ride(rows[p].chosen) = Ride(rows[k].chosen)
      <3>1. p \in S
        BY <1>2, <1>4, <2>2
      <3>2. p = k \/ Before(k, p)
        BY <1>1, <3>1
      <3> QED BY <1>2, <1>4, <3>2, WalkOrder
    <2> QED BY <1>4, <2>1, <2>2
  <1>7. /\ Arrives[rows[k].chosen] = Arrives[rows[y].chosen]
        /\ Arrives[rows[p].chosen] <= Arrives[rows[k].chosen]
        /\ Arrives[rows[x].chosen] <= Arrives[rows[p].chosen]
    BY <1>2, <1>4, WalkOrder, ArrivalTyped DEF Ride
  <1>8. TooClose(rows[p].chosen, rows[k].chosen)
    <2>1. /\ Arrives[rows[p].chosen] \in Nat /\ Arrives[rows[x].chosen] \in Nat
          /\ Arrives[rows[y].chosen] \in Nat /\ Spacing \in Nat
      BY <1>4, ArrivalTyped, RowsAssumption
    <2> QED BY <1>6, <1>7, <2>1 DEF TooClose
  <1>9. k \in Conflicts
    BY <1>2, <1>4, <1>5, <1>8 DEF Conflicts, Clashes
  <1> QED BY <1>2, <1>9

\* What follows for any two arrivals once the neighbours are marked.
LEMMA MarksReachAll == TypeOK /\ FlagInv => ClashesAreFlagged
  <1> SUFFICES ASSUME TypeOK, FlagInv, pc = "done", NEW g \in Arriving, NEW h \in Arriving,
                      TooClose(rows[g].chosen, rows[h].chosen)
               PROVE  \E f \in flagged :
                        \/ Ride(rows[f].chosen) = Ride(rows[h].chosen)
                        \/ /\ Arrives[rows[g].chosen] = Arrives[rows[h].chosen]
                           /\ Ride(rows[f].chosen) = Ride(rows[g].chosen)
    BY DEF ClashesAreFlagged
  <1>1. /\ Arrives[rows[g].chosen] \in Nat /\ Arrives[rows[h].chosen] \in Nat
        /\ Spacing \in Nat
    BY ArrivalTyped, RowsAssumption
  <1>2. /\ Ride(rows[g].chosen) # Ride(rows[h].chosen)
        /\ Arrives[rows[g].chosen] <= Arrives[rows[h].chosen]
        /\ Arrives[rows[h].chosen] < Arrives[rows[g].chosen] + Spacing
    BY DEF TooClose
  <1>3. flagged = Conflicts
    BY <1>1, <1>2 DEF FlagInv
  <1>4. Before(g, h) \/ Before(h, g)
    BY <1>2, WalkOrder
  <1>5. CASE Before(g, h)
    BY <1>2, <1>3, <1>5, RideIsMarked
  <1>6. CASE Before(h, g)
    <2>1. Arrives[rows[g].chosen] = Arrives[rows[h].chosen]
      BY <1>1, <1>2, <1>6, WalkOrder
    <2>2. \E f \in Conflicts : Ride(rows[f].chosen) = Ride(rows[g].chosen)
      <3>1. Arrives[rows[g].chosen] < Arrives[rows[h].chosen] + Spacing
        BY <1>1, <1>2, <2>1
      <3> QED BY <1>2, <1>6, <3>1, RideIsMarked
    <2> QED BY <1>3, <2>1, <2>2
  <1> QED BY <1>4, <1>5, <1>6

\* However many rows share rides, of any two arrivals that stay too close the
\* later ride has a marked row, though applyOnce only compares neighbours.
THEOREM ClashesFlagged == Spec => []ClashesAreFlagged
  <1>1. Init => FlagInv
    BY DEF Init, FlagInv
  <1>2. FlagInv /\ [Next]_vars => FlagInv'
    <2> SUFFICES ASSUME FlagInv, [Next]_vars PROVE FlagInv'
      OBVIOUS
    <2> USE DEF FlagInv, Conflicts, Arriving, Clashes, Precedes, Before
    <2>1. CASE Shift
      BY <2>1 DEF Shift
    <2>2. CASE Mark
      BY <2>2 DEF Mark
    <2>3. CASE UNCHANGED vars
      BY <2>3 DEF vars
    <2> QED BY <2>1, <2>2, <2>3 DEF Next
  <1> QED BY <1>1, <1>2, TypeCorrect, MarksReachAll, PTL DEF Spec

-----------------------------------------------------------------------------
(* Planner: the ranking and the alternatives *)

\* A set of naturals has a least element: the initial segments below its members
\* are finite sets, of which one is smallest.
LEMMA LeastNat ==
  ASSUME NEW T \in SUBSET Nat, T # {}
  PROVE  \E m \in T : \A n \in T : m <= n
<1> DEFINE Upto == {1..n : n \in T}
           R == StrictSubsetOrdering(Nat)
<1>1. Upto # {} /\ Upto \subseteq FiniteSubsetsOf(Nat)
  <2>1. Upto # {}
    OBVIOUS
  <2>2. \A n \in T : 1..n \in SUBSET Nat /\ IsFiniteSet(1..n)
    BY FS_Interval
  <2>3. \A u \in Upto : u \in SUBSET Nat /\ IsFiniteSet(u)
    BY <2>2
  <2> HIDE DEF Upto
  <2>4. \A u \in Upto : u \in FiniteSubsetsOf(Nat)
    BY <2>3 DEF FiniteSubsetsOf
  <2> QED BY <2>1, <2>4
<1>2. PICK s \in Upto : \A t \in Upto : ~(<<t, s>> \in R)
  <2> HIDE DEF Upto, R
  <2>1. IsWellFoundedOn(R, FiniteSubsetsOf(Nat))
    BY FS_StrictSubsetOrderingWellFounded DEF R
  <2> QED BY <1>1, <2>1, WFMin
<1>3. PICK m \in T : s = 1..m
  OBVIOUS
<1>4. ASSUME NEW n \in T, n < m PROVE FALSE
  <2>1. 1..n \subseteq 1..m /\ m \in 1..m /\ m \notin 1..n
    BY <1>4
  <2>2. <<1..n, 1..m>> \in R
    BY <2>1 DEF StrictSubsetOrdering
  <2> QED BY <1>2, <1>3, <2>2
<1> QED BY <1>3, <1>4

\* The ranking holds every option once, in an order that nothing contradicts.
LEMMA RankedHasAll ==
  ASSUME NEW F, IsFiniteSet(F), F # {}, NEW s \in Ranked(F)
  PROVE  /\ Cardinality(F) \in Nat /\ DOMAIN s = 1..Cardinality(F) /\ 1 \in DOMAIN s
         /\ \A i \in DOMAIN s : s[i] \in F
         /\ \A o \in F : \E i \in DOMAIN s : s[i] = o
         /\ \A i, j \in DOMAIN s : i < j => ~Ahead(s[j], s[i])
  <1> DEFINE D == 1..Cardinality(F)
  <1>1. /\ s \in [D -> F] /\ \A i, j \in D : i # j => s[i] # s[j]
        /\ \A i, j \in DOMAIN s : i < j => ~Ahead(s[j], s[i])
    BY DEF Ranked, SetToSeqs
  <1>2. Cardinality(F) \in Nat /\ Cardinality(F) # 0
    BY FS_CardinalityType, FS_EmptySet
  <1>3. IsFiniteSet(D) /\ Cardinality(D) = Cardinality(F)
    BY <1>2, FS_Interval
  <1>4. s \in Injection(D, F)
    BY <1>1 DEF Injection, IsInjective
  <1>5. s \in Surjection(D, F)
    <2> HIDE DEF D
    <2> QED BY <1>3, <1>4, FS_Injection
  <1> QED BY <1>1, <1>2, <1>5 DEF Surjection

\* Of a finite set of positions the k smallest are k, or all there are: a member
\* left out has k smaller ones, and the least of these left out has them taken.
LEMMA ForemostCount ==
  ASSUME NEW I \in SUBSET Nat, IsFiniteSet(I), NEW k \in Nat
  PROVE  /\ Foremost(k, I) \subseteq I /\ IsFiniteSet(Foremost(k, I))
         /\ Cardinality(Foremost(k, I)) \in Nat
         /\ Cardinality(Foremost(k, I)) <= k
         /\ Foremost(k, I) = I \/ Cardinality(Foremost(k, I)) = k
  <1> DEFINE Below(i) == {j \in I : j < i}
             T == Foremost(k, I)
  <1>1. \A i \in I : /\ Below(i) \subseteq I /\ IsFiniteSet(Below(i))
                     /\ Cardinality(Below(i)) \in Nat
    <2> TAKE i \in I
    <2>1. Below(i) \subseteq I
      OBVIOUS
    <2> HIDE DEF Below
    <2>2. IsFiniteSet(Below(i))
      BY <2>1, FS_Subset
    <2> QED BY <2>1, <2>2, FS_CardinalityType
  <1>2. ASSUME NEW i \in I, NEW j \in I, i < j
        PROVE  Cardinality(Below(i)) < Cardinality(Below(j))
    <2>1. Below(i) \subseteq Below(j) /\ i \in Below(j) /\ i \notin Below(i)
      <3>1. i \in Nat /\ j \in Nat /\ \A x \in I : x \in Nat
        OBVIOUS
      <3>2. \A x \in I : x < i => x < j
        BY <1>2, <3>1
      <3>3. ~(i < i)
        BY <3>1
      <3> QED BY <1>2, <3>2, <3>3, Zenon
    <2> HIDE DEF Below
    <2>2. /\ Cardinality(Below(i)) <= Cardinality(Below(j))
          /\ Cardinality(Below(j)) = Cardinality(Below(i)) => Below(j) = Below(i)
      BY <1>1, <2>1, FS_Subset
    <2> QED BY <1>1, <2>1, <2>2
  <1>3. T = {i \in I : Cardinality(Below(i)) < k}
    BY DEF Foremost
  <1> HIDE DEF T, Below
  <1>4. T \subseteq I /\ IsFiniteSet(T) /\ Cardinality(T) \in Nat
    <2>1. T \subseteq I
      BY <1>3
    <2> QED BY <2>1, FS_Subset, FS_CardinalityType
  <1>5. Cardinality(T) <= k
    <2> DEFINE f == [i \in T |-> Cardinality(Below(i))]
    <2>1. \A i \in T : f[i] \in 0..(k - 1)
      BY <1>1, <1>3
    <2>2. \A i, j \in T : f[i] = f[j] => i = j
      <3> SUFFICES ASSUME NEW i \in T, NEW j \in T, f[i] = f[j], i # j PROVE FALSE
        OBVIOUS
      <3>1. i \in I /\ j \in I /\ i \in Nat /\ j \in Nat
        BY <1>4
      <3>2. Cardinality(Below(i)) \in Nat /\ Cardinality(Below(j)) \in Nat
        BY <1>1, <3>1
      <3>3. i < j \/ j < i
        BY <3>1
      <3> QED BY <1>2, <3>1, <3>2, <3>3
    <2>3. f \in Injection(T, 0..(k - 1))
      BY <2>1, <2>2 DEF Injection, IsInjective
    <2>4. IsFiniteSet(0..(k - 1)) /\ Cardinality(0..(k - 1)) = k
      <3>1. 0 \in Int /\ k - 1 \in Int /\ (0 > k - 1 => k = 0) /\ (k - 1) - 0 + 1 = k
        OBVIOUS
      <3> QED BY <3>1, FS_Interval
    <2> HIDE DEF f
    <2> QED BY <2>3, <2>4, FS_Injection
  <1>6. ASSUME T # I PROVE Cardinality(T) = k
    <2> DEFINE Out == {i \in I : i \notin T}
    <2>1. Out \in SUBSET Nat /\ Out # {}
      BY <1>4, <1>6
    <2>2. PICK m \in Out : \A n \in Out : m <= n
      <3> HIDE DEF Out
      <3> QED BY <2>1, LeastNat
    <2>3. m \in I /\ m \in Nat /\ ~(Cardinality(Below(m)) < k)
      BY <1>3, <2>2
    <2>4. Below(m) \subseteq T
      <3> SUFFICES ASSUME NEW j \in Below(m), j \notin T PROVE FALSE
        OBVIOUS
      <3>1. j \in I /\ j < m /\ j \in Nat
        BY DEF Below
      <3> QED BY <2>2, <2>3, <3>1
    <2>5. Cardinality(Below(m)) <= Cardinality(T)
      BY <1>4, <2>4, FS_Subset
    <2> QED BY <1>1, <1>4, <1>5, <2>3, <2>5
  <1> QED BY <1>4, <1>5, <1>6 DEF T

\* The first option of a kind is before all of its kind: the least position.
LEMMA FirstOfKind ==
  ASSUME NEW n \in Nat, NEW s, NEW Kind, NEW i \in 1..n
  PROVE  \E m \in 1..n : /\ Kind[s[m]] = Kind[s[i]]
                         /\ \A j \in 1..(m - 1) : Kind[s[j]] # Kind[s[m]]
  <1> DEFINE Same == {j \in 1..n : Kind[s[j]] = Kind[s[i]]}
  <1>1. Same \in SUBSET Nat /\ Same # {}
    OBVIOUS
  <1>2. PICK m \in Same : \A j \in Same : m <= j
    <2> HIDE DEF Same
    <2> QED BY <1>1, LeastNat
  <1>3. m \in 1..n /\ Kind[s[m]] = Kind[s[i]]
    OBVIOUS
  <1>4. ASSUME NEW j \in 1..(m - 1), Kind[s[j]] = Kind[s[m]] PROVE FALSE
    <2>1. j \in 1..n /\ j < m
      BY <1>3
    <2>2. j \in Same
      BY <1>3, <1>4, <2>1
    <2> HIDE DEF Same
    <2> QED BY <1>2, <1>3, <2>1, <2>2
  <1> QED BY <1>3, <1>4

\* pickAlternatives gives what LiveBoard assumes of it, and an alternative of
\* each other mode as long as three are enough.
LEMMA PicksAlternatives ==
  ASSUME NEW F \in SUBSET Offers, IsFiniteSet(F), F # {}, NEW s \in Ranked(F),
         NEW c \in F
  PROVE  LET A     == PickAlternatives(s, c)
             Modes == {Mode[o] : o \in F} \ {Mode[c]}
         IN /\ A \in Alternatives(F, c)
            /\ Cardinality(Modes) <= 3 => Modes \subseteq {Mode[o] : o \in A}
  <1> DEFINE n      == Cardinality(F)
             Modes  == {Mode[o] : o \in F} \ {Mode[c]}
             firsts == {i \in 1..n : /\ Mode[s[i]] # Mode[c]
                                     /\ \A j \in 1..(i - 1) : Mode[s[j]] # Mode[s[i]]}
             taken  == Foremost(3, firsts)
             others == {i \in 1..n :
                          /\ Vehicle[s[i]] # Vehicle[c]
                          /\ \A j \in taken \cup 1..(i - 1) : Vehicle[s[j]] # Vehicle[s[i]]}
             more   == Foremost(3 - Cardinality(taken), others)
             all    == taken \cup more
             A      == {s[i] : i \in all}
  <1>1. /\ n \in Nat /\ DOMAIN s = 1..n
        /\ \A i \in 1..n : s[i] \in F
        /\ \A o \in F : \E i \in 1..n : s[i] = o
    BY RankedHasAll
  <1>2. PickAlternatives(s, c) = A
    BY <1>1 DEF PickAlternatives, OneOfEachMode, OneOfEachOther
  <1> HIDE DEF n
  <1>3. IsFiniteSet(1..n)
    BY <1>1, FS_Interval
  <1>4. firsts \in SUBSET Nat /\ others \in SUBSET Nat
        /\ IsFiniteSet(firsts) /\ IsFiniteSet(others)
    <2>1. /\ firsts \subseteq 1..n /\ others \subseteq 1..n
          /\ firsts \in SUBSET Nat /\ others \in SUBSET Nat
      OBVIOUS
    <2> HIDE DEF firsts, others
    <2> QED BY <1>3, <2>1, FS_Subset
  <1>5. /\ taken \subseteq firsts /\ IsFiniteSet(taken)
        /\ Cardinality(taken) \in Nat /\ Cardinality(taken) <= 3
        /\ taken = firsts \/ Cardinality(taken) = 3
    <2> HIDE DEF firsts
    <2> QED BY <1>4, ForemostCount
  <1>6. /\ more \subseteq others /\ IsFiniteSet(more)
        /\ Cardinality(more) \in Nat
        /\ Cardinality(more) <= 3 - Cardinality(taken)
        /\ more = others \/ Cardinality(more) = 3 - Cardinality(taken)
    <2>1. 3 - Cardinality(taken) \in Nat
      BY <1>5
    <2> HIDE DEF others, taken
    <2> QED BY <1>4, <2>1, ForemostCount
  \* No two positions are of one vehicle, for two of one vehicle are of one mode.
  <1>7. \A i \in all : i \in 1..n /\ i \in Nat /\ s[i] \in F /\ Vehicle[s[i]] # Vehicle[c]
    <2>1. \A i \in firsts : i \in 1..n /\ Mode[s[i]] # Mode[c]
      OBVIOUS
    <2>2. \A i \in others : i \in 1..n /\ Vehicle[s[i]] # Vehicle[c]
      OBVIOUS
    <2> HIDE DEF firsts, others, taken, more
    <2>3. \A a, b \in F : Vehicle[a] = Vehicle[b] => Mode[a] = Mode[b]
      BY PlannerAssumption
    <2>4. \A i \in all : i \in 1..n /\ (Mode[s[i]] # Mode[c] \/ Vehicle[s[i]] # Vehicle[c])
      BY <1>5, <1>6, <2>1, <2>2
    <2> QED BY <1>1, <2>3, <2>4
  <1>8. ASSUME NEW i \in all, NEW j \in all, Vehicle[s[i]] = Vehicle[s[j]]
        PROVE  i = j
    <2>1. i \in 1..n /\ j \in 1..n /\ s[i] \in F /\ s[j] \in F
      BY <1>7
    <2>2. Mode[s[i]] = Mode[s[j]]
      BY <1>8, <2>1, PlannerAssumption
    <2>3. \A x \in firsts : \A y \in 1..(x - 1) : Mode[s[y]] # Mode[s[x]]
      OBVIOUS
    <2>4. \A x \in others : \A y \in taken \cup 1..(x - 1) : Vehicle[s[y]] # Vehicle[s[x]]
      OBVIOUS
    <2> HIDE DEF firsts, others, taken, more
    <2>5. CASE i \in taken /\ j \in taken
      BY <1>1, <1>5, <2>1, <2>2, <2>3, <2>5
    <2>6. CASE i \in more
      <3>1. j \notin taken
        BY <1>6, <1>8, <2>4, <2>6
      <3>2. j \in more
        BY <3>1
      <3> QED BY <1>1, <1>6, <1>8, <2>1, <2>4, <2>6, <3>2
    <2>7. CASE j \in more
      <3>1. i \notin taken
        BY <1>6, <1>8, <2>4, <2>7
      <3>2. i \in more
        BY <3>1
      <3> QED BY <1>1, <1>6, <1>8, <2>1, <2>4, <2>7, <3>2
    <2> QED BY <2>5, <2>6, <2>7
  <1>9. taken \cap more = {}
    <2> SUFFICES ASSUME NEW i \in taken, i \in more PROVE FALSE
      OBVIOUS
    <2>1. i \in others
      BY <1>6
    <2> QED BY <2>1
  <1>10. /\ IsFiniteSet(all)
         /\ Cardinality(all) = Cardinality(taken) + Cardinality(more)
    <2> HIDE DEF taken, more
    <2>1. Cardinality(taken \cap more) = 0
      BY <1>9, FS_EmptySet
    <2>2. IsFiniteSet(taken \cup more) /\ Cardinality(taken \cup more)
            = Cardinality(taken) + Cardinality(more) - Cardinality(taken \cap more)
      BY <1>5, <1>6, FS_Union
    <2> QED BY <1>5, <1>6, <2>1, <2>2
  <1>11. IsFiniteSet(A) /\ Cardinality(A) = Cardinality(all)
    <2> HIDE DEF all
    <2> DEFINE f == [i \in all |-> s[i]]
    <2>1. f \in Surjection(all, A)
      BY DEF Surjection
    <2>2. f \in Injection(all, A)
      BY <1>8 DEF Injection, IsInjective
    <2> HIDE DEF f, A
    <2> QED BY <1>10, <2>1, <2>2, FS_Surjection
  <1>12. A \in Alternatives(F, c)
    <2>1. A \subseteq {o \in F : Vehicle[o] # Vehicle[c]}
      <3> HIDE DEF all
      <3> QED BY <1>7
    <2>2. Cardinality(A) <= 3
      <3> HIDE DEF A, all, taken, more
      <3> QED BY <1>5, <1>6, <1>10, <1>11
    <2>3. \A a, b \in A : Vehicle[a] = Vehicle[b] => a = b
      <3> HIDE DEF all
      <3> QED BY <1>8
    <2>4. ASSUME Cardinality(A) # 3, NEW o \in F, Vehicle[o] # Vehicle[c]
          PROVE  \E a \in A : Vehicle[a] = Vehicle[o]
      <3>1. more = others
        <4> HIDE DEF A, all, taken, more, others
        <4> QED BY <1>5, <1>6, <1>10, <1>11, <2>4
      <3>2. PICK i \in 1..n : s[i] = o
        BY <1>1
      <3>3. PICK m \in 1..n : /\ Vehicle[s[m]] = Vehicle[s[i]]
                              /\ \A j \in 1..(m - 1) : Vehicle[s[j]] # Vehicle[s[m]]
        <4> HIDE DEF Modes, firsts, taken, others, more, all, A
        <4>1. n \in Nat
          BY <1>1
        <4> QED BY <4>1, FirstOfKind
      <3>4. CASE \E j \in taken : Vehicle[s[j]] = Vehicle[o]
        <4> HIDE DEF taken, more
        <4> QED BY <3>4
      <3>5. CASE \A j \in taken : Vehicle[s[j]] # Vehicle[o]
        <4>1. m \in others
          <5> HIDE DEF taken
          <5> QED BY <2>4, <3>2, <3>3, <3>5
        <4> HIDE DEF taken, others
        <4>2. m \in all
          BY <3>1, <4>1
        <4> HIDE DEF all
        <4> QED BY <3>2, <3>3, <4>2
      <3> QED BY <3>4, <3>5
    <2> HIDE DEF A
    <2> QED BY <2>1, <2>2, <2>3, <2>4 DEF Alternatives
  <1>13. ASSUME Cardinality(Modes) <= 3
         PROVE  Modes \subseteq {Mode[o] : o \in A}
    <2> DEFINE f == [i \in firsts |-> Mode[s[i]]]
    <2>1. f \in Injection(firsts, Modes)
      <3>1. \A i \in firsts : f[i] \in Modes
        BY <1>1
      <3>2. \A i, j \in firsts : f[i] = f[j] => i = j
        <4> SUFFICES ASSUME NEW i \in firsts, NEW j \in firsts, f[i] = f[j] PROVE i = j
          OBVIOUS
        <4>1. /\ i \in Nat /\ j \in Nat /\ i \in 1..n /\ j \in 1..n /\ Mode[s[i]] = Mode[s[j]]
              /\ \A k \in 1..(i - 1) : Mode[s[k]] # Mode[s[i]]
              /\ \A k \in 1..(j - 1) : Mode[s[k]] # Mode[s[j]]
          OBVIOUS
        <4> HIDE DEF firsts
        <4> QED BY <1>1, <4>1
      <3> HIDE DEF Modes
      <3> QED BY <3>1, <3>2 DEF Injection, IsInjective
    <2>2. IsFiniteSet(Modes)
      <3> DEFINE h == [o \in F |-> Mode[o]]
                 M == {Mode[o] : o \in F}
      <3>1. h \in Surjection(F, M)
        BY DEF Surjection
      <3>2. IsFiniteSet(M)
        <4> HIDE DEF h, M
        <4> QED BY <3>1, FS_Surjection
      <3>3. Modes \subseteq M
        OBVIOUS
      <3> HIDE DEF M, Modes
      <3> QED BY <3>2, <3>3, FS_Subset
    <2>3. Cardinality(firsts) <= 3 /\ Cardinality(firsts) \in Nat
      <3> HIDE DEF f, firsts, Modes
      <3> QED BY <1>4, <1>13, <2>1, <2>2, FS_Injection, FS_CardinalityType
    <2>4. taken = firsts
      <3> HIDE DEF Modes, firsts, taken, others, more, all, A, f
      <3>1. CASE Cardinality(taken) = 3
        <4>1. /\ Cardinality(taken) <= Cardinality(firsts)
              /\ Cardinality(firsts) = Cardinality(taken) => firsts = taken
          BY <1>4, <1>5, FS_Subset
        <4> QED BY <2>3, <3>1, <4>1
      <3> QED BY <1>5, <3>1
    <2>5. ASSUME NEW o \in F, Mode[o] # Mode[c] PROVE \E a \in A : Mode[a] = Mode[o]
      <3>1. PICK i \in 1..n : s[i] = o
        BY <1>1
      <3>2. PICK m \in 1..n : /\ Mode[s[m]] = Mode[s[i]]
                              /\ \A j \in 1..(m - 1) : Mode[s[j]] # Mode[s[m]]
        <4> HIDE DEF Modes, firsts, taken, others, more, all, A, f
        <4>1. n \in Nat
          BY <1>1
        <4> QED BY <4>1, FirstOfKind
      <3>3. m \in firsts
        BY <2>5, <3>1, <3>2
      <3>4. m \in all
        <4> HIDE DEF firsts, taken, more
        <4> QED BY <2>4, <3>3
      <3> HIDE DEF all
      <3> QED BY <3>1, <3>2, <3>4
    <2> HIDE DEF A
    <2> QED BY <2>5
  <1> HIDE DEF A, Modes
  <1> QED BY <1>2, <1>12, <1>13 DEF Modes

-----------------------------------------------------------------------------
(* Planner: PlanGuest and the end of BuildBoard *)

\* The types, and one option per key of the map.
PlanType ==
  /\ wish \in Wishes /\ found \subseteq Day \cup Night
  /\ down \in BOOLEAN /\ kept \in BOOLEAN
  /\ stage \in {"day", "night", "plan", "wave", "flag", "done"}
  /\ row \in [status : Status, chosen : Offers \cup {NoOffer}, alts : SUBSET Offers,
              pinned : BOOLEAN, purchased : BOOLEAN]
  /\ \A a, b \in found : Key(a) = Key(b) => a = b

\* A row just planned is one of PlanGuest's results.
AsPlanned ==
  Fresh => /\ InTime(found) # {}
           /\ \E s \in Ranked(InTime(found)) : row = Planned(InTime(found), s)

\* From its plan on the row is in time, and an assembled row has a route.
AfterPlan ==
  stage \in {"wave", "flag", "done"} =>
    /\ row.chosen # NoOffer => Arrives[row.chosen] <= Deadline
    /\ row.status = "assembled" => row.chosen # NoOffer

PlanInv ==
  /\ PlanType /\ AsPlanned /\ AfterPlan
  /\ stage = "done" /\ row.status = "assembled" => ~AtRisk(row.chosen)

\* What arrives in time is a finite set of offers.
LEMMA InTimeFinite ==
  ASSUME PlanType
  PROVE  /\ InTime(found) \in SUBSET Offers /\ IsFiniteSet(InTime(found))
         /\ \A o \in InTime(found) : o \in Offers /\ o # NoOffer /\ Arrives[o] <= Deadline
  <1>1. found \subseteq Offers /\ InTime(found) \subseteq Day \cup Night
    BY PlannerAssumption DEF PlanType, InTime
  <1>2. IsFiniteSet(InTime(found))
    BY <1>1, PlannerAssumption, FS_Subset
  <1> QED BY <1>1, <1>2, RowsAssumption DEF InTime

\* addOption keeps the first option of each key.
LEMMA AddedKeys ==
  ASSUME NEW have \in SUBSET (Day \cup Night),
         \A a, b \in have : Key(a) = Key(b) => a = b,
         NEW results \in SUBSET (Day \cup Night), NEW after \in Added(have, results)
  PROVE  /\ after \in SUBSET (Day \cup Night)
         /\ \A a, b \in after : Key(a) = Key(b) => a = b
  <1> DEFINE New == {o \in results : \A h \in have : Key(h) # Key(o)}
  <1>1. PICK P \in SUBSET New :
          /\ after = have \cup P
          /\ \A k \in {Key(o) : o \in New} : Cardinality({o \in P : Key(o) = k}) = 1
    BY DEF Added
  <1>2. after \in SUBSET (Day \cup Night)
    BY <1>1
  <1>3. ASSUME NEW a \in P, NEW b \in P, Key(a) = Key(b) PROVE a = b
    <2> DEFINE Q == {o \in P : Key(o) = Key(a)}
    <2>1. Cardinality(Q) = 1
      BY <1>1
    <2>2. IsFiniteSet(Q)
      <3>1. Q \subseteq Day \cup Night
        BY <1>1
      <3> HIDE DEF Q
      <3> QED BY <3>1, PlannerAssumption, FS_Subset
    <2>3. a \in Q /\ b \in Q
      BY <1>3
    <2> HIDE DEF Q
    <2>4. \E x : Q = {x}
      BY <2>1, <2>2, FS_Singleton
    <2> QED BY <2>3, <2>4
  <1>4. \A a \in have, b \in P : Key(a) # Key(b)
    BY <1>1
  <1> QED BY <1>1, <1>2, <1>3, <1>4

\* The row planned: its route is held or ranked first, and in time.
LEMMA PlannedRow ==
  ASSUME PlanType, InTime(found) # {}, NEW s \in Ranked(InTime(found))
  PROVE  LET F == InTime(found)
             r == Planned(F, s)
         IN /\ r \in [status : Status, chosen : Offers \cup {NoOffer}, alts : SUBSET Offers,
                      pinned : BOOLEAN, purchased : BOOLEAN]
            /\ r.chosen \in F /\ r.alts = PickAlternatives(s, r.chosen)
            /\ r.status \in {"risk", "reassembled", "assembled"}
            /\ wish.pin \in {Key(o) : o \in F} => Key(r.chosen) = wish.pin
            /\ wish.pin \notin {Key(o) : o \in F} => r.chosen = s[1]
  <1> DEFINE F == InTime(found)
             r == Planned(F, s)
             held == {o \in F : Key(o) = wish.pin}
             c == IF held # {} THEN CHOOSE o \in held : TRUE ELSE s[1]
  <1>1. F \in SUBSET Offers /\ IsFiniteSet(F) /\ F # {}
    BY InTimeFinite
  <1>2. 1 \in DOMAIN s /\ s[1] \in F
    <2> HIDE DEF F
    <2> QED BY <1>1, RankedHasAll DEF F
  <1>3. /\ c \in F
        /\ held # {} => Key(c) = wish.pin
        /\ held = {} => c = s[1]
    <2>1. held # {} => (CHOOSE o \in held : TRUE) \in held
      <3> HIDE DEF held
      <3> QED OBVIOUS
    <2> QED BY <1>2, <2>1
  <1>4. r = [status |-> StatusOf(c, wish.pin # NoKey /\ held = {}), chosen |-> c,
             alts |-> PickAlternatives(s, c), pinned |-> held # {}, purchased |-> FALSE]
    BY DEF Planned
  <1>5. StatusOf(c, wish.pin # NoKey /\ held = {}) \in {"risk", "reassembled", "assembled"}
    BY DEF StatusOf
  <1>6. PickAlternatives(s, c) \in SUBSET Offers
    <2>1. s \in Ranked(F)
      OBVIOUS
    <2> HIDE DEF c, held, F
    <2>2. c \in F
      BY <1>3
    <2>3. PickAlternatives(s, c) \in Alternatives(F, c)
      <3> HIDE DEF r
      <3> QED BY <1>1, <2>1, <2>2, PicksAlternatives
    <2> QED BY <1>1, <2>3 DEF Alternatives
  <1>7. wish.pin \in {Key(o) : o \in F} <=> held # {}
    OBVIOUS
  <1>8. /\ r \in [status : Status, chosen : Offers \cup {NoOffer}, alts : SUBSET Offers,
                  pinned : BOOLEAN, purchased : BOOLEAN]
        /\ r.chosen = c /\ r.alts = PickAlternatives(s, c)
        /\ r.status \in {"risk", "reassembled", "assembled"}
    <2> DEFINE status == StatusOf(c, wish.pin # NoKey /\ held = {})
               alts   == PickAlternatives(s, c)
               pinned == held # {}
    <2>1. /\ status \in {"risk", "reassembled", "assembled"} /\ status \in Status
          /\ c \in Offers /\ alts \in SUBSET Offers /\ pinned \in BOOLEAN
      BY <1>1, <1>3, <1>5, <1>6 DEF Status
    <2>2. r = [status |-> status, chosen |-> c, alts |-> alts,
               pinned |-> pinned, purchased |-> FALSE]
      BY <1>4
    <2> HIDE DEF r, c, held, F, status, alts, pinned
    <2>3. r.chosen = c /\ r.alts = alts /\ r.status = status
      BY <2>2
    <2>4. r \in [status : Status, chosen : Offers \cup {NoOffer}, alts : SUBSET Offers,
                 pinned : BOOLEAN, purchased : BOOLEAN]
      BY <2>1, <2>2
    <2> QED BY <2>1, <2>3, <2>4 DEF alts
  <1> HIDE DEF r, c, held
  <1>9. /\ r.chosen \in F /\ r.alts = PickAlternatives(s, r.chosen)
        /\ wish.pin \in {Key(o) : o \in F} => Key(r.chosen) = wish.pin
        /\ wish.pin \notin {Key(o) : o \in F} => r.chosen = s[1]
    BY <1>3, <1>7, <1>8
  <1> QED BY <1>8, <1>9, Zenon DEF r, F

\* The wave changes only the route, to one in time, and the alternatives.
LEMMA MovedRow ==
  ASSUME PlanType, NEW r \in Moved(row),
         row.chosen # NoOffer => Arrives[row.chosen] <= Deadline
  PROVE  /\ r \in [status : Status, chosen : Offers \cup {NoOffer}, alts : SUBSET Offers,
                   pinned : BOOLEAN, purchased : BOOLEAN]
         /\ r.status = row.status
         /\ r.chosen = NoOffer <=> row.chosen = NoOffer
         /\ r.chosen # NoOffer => Arrives[r.chosen] <= Deadline
  <1>1. CASE r = row
    BY <1>1 DEF PlanType
  <1>2. CASE r # row
    <2>1. PICK o \in Later(row) : r = Swap(row, o)
      BY <1>2 DEF Moved
    <2>2. row.chosen # NoOffer
      BY <1>2 DEF Moved
    <2>3. o \in row.alts /\ Arrives[o] <= Deadline /\ o # row.chosen
      BY <1>2, <2>1 DEF Later, Swap
    <2>4. o \in Offers /\ o # NoOffer /\ row.chosen \in Offers
      BY <2>2, <2>3, RowsAssumption DEF PlanType
    <2>5. r = [row EXCEPT !.chosen = o,
                          !.alts = (row.alts \ {o}) \cup ({row.chosen} \ {NoOffer})]
      BY <2>1, <2>3 DEF Swap
    <2>6. (row.alts \ {o}) \cup ({row.chosen} \ {NoOffer}) \in SUBSET Offers
      BY <2>4 DEF PlanType
    <2> HIDE DEF Moved
    <2> QED BY <2>2, <2>3, <2>4, <2>5, <2>6 DEF PlanType
  <1> QED BY <1>1, <1>2

\* Blank and carried rows are rows, and the carried one is in time.
LEMMA SimpleRows ==
  ASSUME wish \in Wishes
  PROVE  /\ \A status \in Status :
              /\ Blank(status) \in [status : Status, chosen : Offers \cup {NoOffer},
                                    alts : SUBSET Offers, pinned : BOOLEAN, purchased : BOOLEAN]
              /\ Blank(status).status = status /\ Blank(status).chosen = NoOffer
         /\ Prior \in [status : Status, chosen : Offers \cup {NoOffer},
                       alts : SUBSET Offers, pinned : BOOLEAN, purchased : BOOLEAN]
         /\ Prior.status = "assembled" /\ Prior.chosen = wish.prior
         /\ wish.prior # NoOffer => Arrives[Prior.chosen] <= Deadline
  <1>1. wish.prior \in Offers \cup {NoOffer} /\ wish.alts \in SUBSET Offers
    BY PlannerAssumption
  <1>2. wish.prior # NoOffer => Arrives[wish.prior] <= Deadline
    BY PlannerAssumption
  <1>3. /\ Prior.status = "assembled" /\ Prior.chosen = wish.prior
        /\ Prior \in [status : Status, chosen : Offers \cup {NoOffer},
                      alts : SUBSET Offers, pinned : BOOLEAN, purchased : BOOLEAN]
    BY <1>1 DEF Prior, Blank, Status
  <1> QED BY <1>1, <1>2, <1>3 DEF Blank, Status

\* Nothing is planned yet.
LEMMA InitPlan == PlanInit => PlanInv
  <1> SUFFICES ASSUME PlanInit PROVE PlanInv
    OBVIOUS
  <1>1. /\ wish \in Wishes /\ stage = "day" /\ found = {}
        /\ row = Blank("planning") /\ kept = FALSE /\ down = FALSE
    BY DEF PlanInit
  <1>2. "planning" \in Status
    BY DEF Status
  <1>3. PlanType
    BY <1>1, <1>2, SimpleRows DEF PlanType
  <1> QED BY <1>1, <1>3 DEF PlanInv, AsPlanned, AfterPlan, Fresh

\* Each search keeps one option per key; the row is planned after both.
LEMMA SearchesKeep == PlanInv /\ (SearchDay \/ SearchNight) => PlanInv'
  <1> SUFFICES ASSUME PlanInv, SearchDay \/ SearchNight PROVE PlanInv'
    OBVIOUS
  <1>1. /\ found \in SUBSET (Day \cup Night)
        /\ \A a, b \in found : Key(a) = Key(b) => a = b
    BY DEF PlanInv, PlanType
  <1>2. /\ stage' \in {"night", "plan"} /\ wish' = wish /\ row' = row /\ kept' = kept
        /\ down' \in BOOLEAN
    BY DEF SearchDay, SearchNight, PlanInv, PlanType
  <1>3. \/ found' = found
        \/ \E results \in SUBSET (Day \cup Night) : found' \in Added(found, results)
    <2>1. CASE SearchDay
      <3>1. \A answer \in SUBSET Day : DayResults(answer) \in SUBSET (Day \cup Night)
        BY DEF DayResults
      <3> QED BY <2>1, <3>1 DEF SearchDay
    <2>2. CASE SearchNight
      <3>1. \A answer \in SUBSET Night : NightResults(answer) \in SUBSET (Day \cup Night)
        BY DEF NightResults
      <3> QED BY <2>2, <3>1 DEF SearchNight
    <2> QED BY <2>1, <2>2
  <1>4. /\ found' \in SUBSET (Day \cup Night)
        /\ \A a, b \in found' : Key(a) = Key(b) => a = b
    BY <1>1, <1>3, AddedKeys
  <1>5. PlanType'
    BY <1>2, <1>4 DEF PlanInv, PlanType, Key
  <1> QED BY <1>2, <1>5 DEF PlanInv, AsPlanned, AfterPlan, Fresh

\* PlanGuest and planRow: the carried row, no route in time, or a planned row.
LEMMA PlanKeeps == PlanInv /\ Plan => PlanInv'
  <1> SUFFICES ASSUME PlanInv, Plan PROVE PlanInv'
    OBVIOUS
  <1>1. /\ stage' = "wave" /\ wish' = wish /\ found' = found /\ down' = down
        /\ PlanType
    BY DEF Plan, PlanInv
  <1>2. wish \in Wishes /\ "needs_help" \in Status /\ InTime(found)' = InTime(found)
    BY <1>1 DEF PlanType, Status, InTime
  <1>3. CASE /\ Blind /\ kept' = (wish.prior # NoOffer)
             /\ row' = IF wish.prior # NoOffer THEN Prior ELSE Blank("needs_help")
    <2>1. PlanType'
      BY <1>1, <1>2, <1>3, SimpleRows DEF PlanType, Key
    <2>2. ~Fresh'
      BY <1>2, <1>3, SimpleRows DEF Fresh
    <2>3. AfterPlan'
      BY <1>1, <1>2, <1>3, SimpleRows DEF AfterPlan
    <2> QED BY <1>1, <2>1, <2>2, <2>3 DEF PlanInv, AsPlanned
  <1>4. CASE /\ ~Blind /\ InTime(found) = {} /\ row' = Blank("needs_help")
             /\ UNCHANGED kept
    <2>1. PlanType'
      BY <1>1, <1>2, <1>4, SimpleRows DEF PlanType, Key
    <2>2. ~Fresh'
      BY <1>2, <1>4, SimpleRows DEF Fresh
    <2>3. AfterPlan'
      BY <1>1, <1>2, <1>4, SimpleRows DEF AfterPlan
    <2> QED BY <1>1, <2>1, <2>2, <2>3 DEF PlanInv, AsPlanned
  <1>5. CASE /\ InTime(found) # {} /\ UNCHANGED kept
             /\ \E s \in Ranked(InTime(found)) : row' = Planned(InTime(found), s)
    <2>1. PICK s \in Ranked(InTime(found)) : row' = Planned(InTime(found), s)
      BY <1>5
    <2>2. /\ row' \in [status : Status, chosen : Offers \cup {NoOffer}, alts : SUBSET Offers,
                       pinned : BOOLEAN, purchased : BOOLEAN]
          /\ row'.chosen \in InTime(found)
          /\ row'.status \in {"risk", "reassembled", "assembled"}
      BY <1>1, <1>5, <2>1, PlannedRow
    <2>3. PlanType'
      BY <1>1, <1>5, <2>2 DEF PlanType, Key
    <2>4. AsPlanned'
      <3>1. Ranked(InTime(found))' = Ranked(InTime(found))
        BY <1>1, <1>2 DEF Ranked, Ahead, Over, Measure
      <3>2. \A x : Planned(InTime(found), x)' = Planned(InTime(found), x)
        BY <1>1, <1>2 DEF Planned, StatusOf, OverForAll, InTime
      <3> QED BY <1>2, <1>5, <2>1, <3>1, <3>2 DEF AsPlanned
    <2>5. AfterPlan'
      BY <1>1, <2>2, InTimeFinite DEF AfterPlan
    <2> QED BY <1>1, <2>3, <2>4, <2>5 DEF PlanInv
  <1> QED BY <1>3, <1>4, <1>5 DEF Plan

\* The wave moves the row, the last look flags it.
LEMMA EndKeeps == PlanInv /\ (Waved \/ Flag) => PlanInv'
  <1> SUFFICES ASSUME PlanInv, Waved \/ Flag PROVE PlanInv'
    OBVIOUS
  <1>1. /\ wish' = wish /\ found' = found /\ down' = down /\ kept' = kept
        /\ PlanType /\ InTime(found)' = InTime(found)
    BY DEF Waved, Flag, PlanInv, InTime
  <1>2. CASE Waved
    <2>1. row' \in Moved(row) /\ stage' = "flag"
          /\ (row.chosen # NoOffer => Arrives[row.chosen] <= Deadline)
      BY <1>2 DEF Waved, PlanInv, AfterPlan
    <2>2. /\ row' \in [status : Status, chosen : Offers \cup {NoOffer}, alts : SUBSET Offers,
                       pinned : BOOLEAN, purchased : BOOLEAN]
          /\ row'.status = row.status
          /\ row'.chosen = NoOffer <=> row.chosen = NoOffer
          /\ row'.chosen # NoOffer => Arrives[row'.chosen] <= Deadline
      BY <1>1, <2>1, MovedRow
    <2>3. PlanType'
      BY <1>1, <2>1, <2>2 DEF PlanType, Key
    <2>4. AfterPlan'
      BY <1>1, <1>2, <2>1, <2>2 DEF PlanInv, AfterPlan, Waved
    <2> QED BY <2>1, <2>3, <2>4 DEF PlanInv, AsPlanned, Fresh
  <1>3. CASE Flag
    <2>1. /\ stage = "flag" /\ stage' = "done"
          /\ row' = IF row.status = "assembled" /\ AtRisk(row.chosen)
                    THEN [row EXCEPT !.status = "risk"] ELSE row
      BY <1>3 DEF Flag
    <2>2. /\ row' \in [status : Status, chosen : Offers \cup {NoOffer}, alts : SUBSET Offers,
                       pinned : BOOLEAN, purchased : BOOLEAN]
          /\ row'.chosen = row.chosen
          /\ row'.status = row.status \/ row'.status = "risk"
          /\ row'.status = "assembled" => row.status = "assembled" /\ ~AtRisk(row.chosen)
      BY <1>1, <2>1 DEF PlanType, Status
    <2>3. PlanType'
      BY <1>1, <2>1, <2>2 DEF PlanType, Key
    <2>4. AfterPlan'
      BY <1>1, <2>1, <2>2 DEF PlanInv, AfterPlan
    <2>5. row'.status = "assembled" => ~AtRisk(row.chosen)'
      BY <1>1, <2>2 DEF AtRisk, OverForAll, Margin
    <2> QED BY <2>1, <2>3, <2>4, <2>5 DEF PlanInv, AsPlanned, Fresh
  <1> QED BY <1>2, <1>3

\* Every step of the rebuild keeps the invariant.
LEMMA PlanInvariant == PlanSpec => []PlanInv
  <1>1. ASSUME PlanInv, [PlanNext]_planVars PROVE PlanInv'
    <2>1. CASE UNCHANGED planVars
      <3>1. /\ wish' = wish /\ stage' = stage /\ found' = found /\ down' = down
            /\ row' = row /\ kept' = kept
        BY <2>1 DEF planVars
      <3>2. PlanType' /\ AfterPlan'
        BY <1>1, <3>1 DEF PlanInv, PlanType, AfterPlan, InTime, Key
      <3>3. AsPlanned'
        <4>1. InTime(found)' = InTime(found) /\ (Fresh' <=> Fresh)
          BY <3>1 DEF InTime, Fresh
        <4>2. Ranked(InTime(found))' = Ranked(InTime(found))
          BY <3>1, <4>1 DEF Ranked, Ahead, Over, Measure
        <4>3. \A x : Planned(InTime(found), x)' = Planned(InTime(found), x)
          BY <3>1, <4>1 DEF Planned, StatusOf, OverForAll, InTime
        <4> QED BY <1>1, <3>1, <4>1, <4>2, <4>3 DEF PlanInv, AsPlanned
      <3>4. AtRisk(row.chosen)' <=> AtRisk(row.chosen)
        BY <3>1 DEF AtRisk, OverForAll, Margin
      <3> QED BY <1>1, <3>1, <3>2, <3>3, <3>4 DEF PlanInv
    <2> QED BY <1>1, <2>1, SearchesKeep, PlanKeeps, EndKeeps DEF PlanNext
  <1> QED BY <1>1, InitPlan, PTL DEF PlanSpec

\* For any offers and wishes: the plan is the option that the guest has picked, if
\* it is found, and else a best one in time (rankOptions, the pin in PlanGuest).
THEOREM PlanIsHeldOrBest == PlanSpec => []HeldOrBest
  <1>1. ASSUME PlanInv PROVE HeldOrBest
    <2> SUFFICES ASSUME Fresh
                 PROVE  HeldOrBest
      BY DEF HeldOrBest
    <2> DEFINE F == InTime(found)
               c == row.chosen
    <2>1. /\ PlanType /\ F # {}
          /\ \E s \in Ranked(F) : row = Planned(F, s)
      BY <1>1 DEF PlanInv, AsPlanned
    <2>2. PICK s \in Ranked(F) : row = Planned(F, s)
      BY <2>1
    <2>3. /\ wish.pin \in {Key(o) : o \in F} => Key(c) = wish.pin
          /\ wish.pin \notin {Key(o) : o \in F} => c = s[1]
          /\ c \in F
      BY <2>1, <2>2, PlannedRow
    <2>4. F \in SUBSET Offers /\ IsFiniteSet(F)
      BY <2>1, InTimeFinite
    <2> HIDE DEF F
    <2>5. ASSUME c = s[1], NEW o \in F
          PROVE  /\ Over(c) => Over(o)
                 /\ (Over(o) <=> Over(c)) =>
                      IF wish.faster THEN Takes[c] <= Takes[o] ELSE Price[c] <= Price[o]
      <3>1. o \in Offers /\ c \in Offers
        BY <2>3, <2>4
      <3>2. /\ Takes[o] \in Nat /\ Takes[c] \in Nat
            /\ Price[o] \in Nat /\ Price[c] \in Nat
        BY <3>1, PlannerAssumption
      <3>3. /\ Cardinality(F) \in Nat /\ DOMAIN s = 1..Cardinality(F) /\ 1 \in DOMAIN s
            /\ \E i \in DOMAIN s : s[i] = o
            /\ \A i, j \in DOMAIN s : i < j => ~Ahead(s[j], s[i])
        BY <2>1, <2>4, RankedHasAll
      <3>4. PICK i \in DOMAIN s : s[i] = o
        BY <3>3
      <3>5. CASE i = 1
        BY <2>5, <3>2, <3>4, <3>5
      <3>6. CASE i # 1
        <4>1. 1 < i
          BY <3>3, <3>6
        <4>2. ~Ahead(o, c)
          BY <2>5, <3>3, <3>4, <4>1
        <4> QED BY <3>2, <4>2 DEF Ahead, Measure, Over
      <3> QED BY <3>5, <3>6
    <2> QED BY <2>3, <2>5 DEF HeldOrBest, F
  <1> QED BY <1>1, PlanInvariant, PTL

\* For any offers and wishes: the alternatives are those that LiveBoard supposes,
\* with one of each other mode as long as three are enough (pickAlternatives).
THEOREM AlternativesSupposed == PlanSpec => []AlternativesAsSupposed
  <1>1. ASSUME PlanInv PROVE AlternativesAsSupposed
    <2> DEFINE F == InTime(found)
               c == row.chosen
               Modes == {Mode[o] : o \in F} \ {Mode[c]}
    <2>1. \A a, b \in found : Key(a) = Key(b) => a = b
      BY <1>1 DEF PlanInv, PlanType
    <2>2. ASSUME Fresh
          PROVE  /\ row.alts \in Alternatives(F, c)
                 /\ Cardinality(Modes) <= 3 => Modes \subseteq {Mode[o] : o \in row.alts}
      <3>1. /\ PlanType /\ F # {}
            /\ \E s \in Ranked(F) : row = Planned(F, s)
        BY <1>1, <2>2 DEF PlanInv, AsPlanned
      <3>2. PICK s \in Ranked(F) : row = Planned(F, s)
        BY <3>1
      <3>3. c \in F /\ row.alts = PickAlternatives(s, c)
        BY <3>1, <3>2, PlannedRow
      <3>4. F \in SUBSET Offers /\ IsFiniteSet(F)
        BY <3>1, InTimeFinite
      <3> HIDE DEF F, c
      <3> QED BY <3>1, <3>3, <3>4, PicksAlternatives
    <2> QED BY <2>1, <2>2 DEF AlternativesAsSupposed
  <1> QED BY <1>1, PlanInvariant, PTL

\* For any offers and wishes: who is shown as assembled is within the budget and
\* has the slack, or has none at all (reclassifyRisk).
THEOREM AssembledSafely == PlanSpec => []AssembledIsSafe
  <1>1. ASSUME PlanInv PROVE AssembledIsSafe
    <2> SUFFICES ASSUME stage = "done", row.status = "assembled"
                 PROVE  /\ ~OverForAll(row.chosen)
                        /\ Margin(row.chosen) >= RiskMargin \/ Margin(row.chosen) = 0
      BY DEF AssembledIsSafe
    <2>1. /\ ~AtRisk(row.chosen) /\ row.chosen # NoOffer
          /\ Arrives[row.chosen] <= Deadline /\ row.chosen \in Offers
      BY <1>1 DEF PlanInv, AfterPlan, PlanType
    <2>2. /\ Arrives[row.chosen] \in Nat /\ Deadline \in Nat /\ RiskMargin \in Nat
      BY <2>1, RowsAssumption, PlannerAssumption
    <2> QED BY <2>1, <2>2 DEF AtRisk, Margin
  <1> QED BY <1>1, PlanInvariant, PTL
=============================================================================
