-------------------------- MODULE BoardPageProofs ---------------------------
(***************************************************************************)
(* For any guests, offers and answers of the carriers: a card describes the *)
(* route beside it and a seat hint the train of the pair, unless the route  *)
(* has been exchanged since.  Rows travel from the board into a rebuild and *)
(* back, so the invariant speaks of the rows that a rebuild has read, too.  *)
(***************************************************************************)
EXTENDS BoardPageProps, TLAPS

\* A row whose card describes its route, unless it says that the route is new.
Told(row) == row.chosen # NoOffer /\ row.card # row.chosen => row.moved

ToldRow == {row \in Row : Told(row)}

\* A match whose guests ride its train, and whose hint is of this train, as far
\* as they have not changed trains since the rebuild.
Paired(m, rows, shifted) ==
  /\ m \in Match
  /\ m.hint \notin {NoHint, m.on} => m.pair \subseteq shifted
  /\ \A g \in m.pair \ shifted : Riding(rows, g) = m.on

PageInv ==
  /\ pins \in [Guests -> Options]
  /\ board \in Board
  /\ build \in [on : BOOLEAN, pins : [Guests -> Options], prior : [Guests -> Row]]
  /\ \A g \in Guests : board.rows[g] \in ToldRow /\ build.prior[g] \in ToldRow
  /\ \A m \in board.comps : Paired(m, board.rows, board.shifted)

-----------------------------------------------------------------------------
(* Rows *)

\* A row that takes another route says so.
LEMMA RenewedTold ==
  ASSUME NEW row \in ToldRow, NEW o \in Offers
  PROVE  Renewed(row, o) \in ToldRow /\ Renewed(row, o).chosen = o
<1>1. row \in Row /\ Told(row)
  BY DEF ToldRow
<1>2. CASE o = row.chosen
  <2>1. [row EXCEPT !.moved = @ \/ o # row.chosen] = row
    BY <1>1, <1>2 DEF Row
  <2> QED
    BY <1>1, <1>2, <2>1 DEF Swap, Renewed
<1>3. CASE o # row.chosen
  <2> DEFINE A == (row.alts \ {o}) \cup ({row.chosen} \ {NoOffer})
             s == [row EXCEPT !.chosen = o, !.alts = A]
  <2>1. A \subseteq Offers
    BY <1>1 DEF Row, Options
  <2>2. Swap(row, o) = s
    BY <1>1, <1>3 DEF Swap
  <2> HIDE DEF A
  <2>3. /\ [s EXCEPT !.moved = TRUE] \in Row
        /\ [s EXCEPT !.moved = TRUE].chosen = o /\ [s EXCEPT !.moved = TRUE].moved
    BY <1>1, <2>1 DEF Row, Options
  <2>4. [s EXCEPT !.moved = @ \/ o # row.chosen] = [s EXCEPT !.moved = TRUE]
    BY <1>3
  <2> HIDE DEF s
  <2> QED
    BY <2>2, <2>3, <2>4 DEF ToldRow, Told, Renewed
<1> QED
  BY <1>2, <1>3

\* A row that the wave moves says so.
LEMMA WavedTold ==
  ASSUME NEW planned \in ToldRow, NEW row \in Moved(planned)
  PROVE  Waved(row, planned) \in ToldRow
<1>1. planned \in Row /\ Told(planned)
  BY DEF ToldRow
<1>2. CASE row = planned
  <2>1. [planned EXCEPT !.moved = @ \/ planned.chosen # planned.chosen] = planned
    BY <1>1 DEF Row
  <2> QED
    BY <1>2, <2>1 DEF Waved
<1>3. ASSUME NEW o \in Later(planned), row = Swap(planned, o)
      PROVE  Waved(row, planned) \in ToldRow
  <2>1. o \in Offers
    BY <1>1 DEF Later, Row
  <2>2. row.chosen = o
    BY <1>1, <1>3, <2>1 DEF Swap, Row
  <2> QED
    BY <1>3, <2>1, <2>2, RenewedTold DEF Waved, Renewed
<1> QED
  BY <1>2, <1>3 DEF Moved

\* A planned row has a card for its route: a new one, or the prior one, which was
\* for that route or says that it was not.
LEMMA PlannedTold ==
  ASSUME NEW was \in ToldRow, NEW pin, NEW c \in Offers, NEW A \in SUBSET Offers,
         NEW answers \in BOOLEAN
  PROVE  Planned(pin, was, c, A, answers) \in ToldRow
<1> DEFINE r == Planned(pin, was, c, A, answers)
<1>1. was \in Row /\ Told(was)
  BY DEF ToldRow
<1>2. /\ Card(was, c) \in Options /\ Link(was, c, answers) \in Options
      /\ Card(was, c) # c => was.moved
  <2>1. Card(was, c) \in Options /\ Link(was, c, answers) \in Options
    BY <1>1 DEF Card, Link, Row, Options
  <2>2. c # NoOffer
    BY RowsAssumption
  <2> QED
    BY <1>1, <2>1, <2>2 DEF Card, Told
<1>3. r \in Row
  <2> DEFINE held   == c = pin
             moved  == was.moved /\ Card(was, c) # c
             missed == c \in Asks /\ ~answers
             link   == Link(was, c, answers)
             card   == Card(was, c)
  <2>1. held \in BOOLEAN /\ moved \in BOOLEAN /\ missed \in BOOLEAN
    OBVIOUS
  <2>2. c \in Options /\ link \in Options /\ card \in Options
    BY <1>2 DEF Options
  <2>3. r = [chosen |-> c, alts |-> A, pinned |-> held, purchased |-> FALSE, link |-> link,
             card |-> card, moved |-> moved, missed |-> missed]
    BY DEF Planned
  <2> HIDE DEF r, held, moved, missed, link, card
  <2> QED
    BY <2>1, <2>2, <2>3 DEF Row
<1>4. r.chosen = c /\ r.card = Card(was, c) /\ r.moved = (was.moved /\ Card(was, c) # c)
  BY DEF Planned
<1> QED
  BY <1>2, <1>3, <1>4 DEF ToldRow, Told

\* A row without a route has nothing to tell.
LEMMA BlankTold == Blank \in ToldRow
BY DEF Blank, ToldRow, Told, Row, Options

\* Whatever a rebuild plans for a guest is in order.
LEMMA RowsTold ==
  ASSUME PageInv, NEW g \in Guests, NEW sold \in SUBSET Offers, NEW deaf,
         NEW row \in Rows(g, sold, deaf)
  PROVE  row \in ToldRow
<1> DEFINE was == build.prior[g]
           found == Route[g] \cap sold
           F == {o \in found : Arrives[o] <= Deadline}
           answers == g \notin deaf
<1>1. was \in ToldRow /\ was \in Row
  BY DEF PageInv, ToldRow
<1>2. [was EXCEPT !.missed = TRUE] \in ToldRow
  <2>1. /\ [was EXCEPT !.missed = TRUE] \in Row
        /\ [was EXCEPT !.missed = TRUE].chosen = was.chosen
        /\ [was EXCEPT !.missed = TRUE].card = was.card
        /\ [was EXCEPT !.missed = TRUE].moved = was.moved
    BY <1>1 DEF Row
  <2> QED
    BY <1>1, <2>1 DEF ToldRow, Told
<1>3. ASSUME row \in Plans(build.pins[g], was, found, answers) PROVE row \in ToldRow
  <2>1. F \subseteq Offers
    OBVIOUS
  <2>2. CASE F = {}
    BY <1>3, <2>2, BlankTold DEF Plans
  <2>3. CASE F # {}
    <3>1. PICK c \in F : \E A \in Alternatives(F, c) :
                           row = Planned(build.pins[g], was, c, A, answers)
      BY <1>3, <2>3 DEF Plans, Best
    <3>2. \A A \in Alternatives(F, c) : A \subseteq Offers
      BY <2>1 DEF Alternatives
    <3> QED
      BY <1>1, <2>1, <3>1, <3>2, PlannedTold
  <2> QED
    BY <2>2, <2>3
<1> QED
  BY <1>2, <1>3 DEF Rows

-----------------------------------------------------------------------------
(* Matches *)

\* A pair that companions.Find reports rides the train of the match.
LEMMA MatchesPaired ==
  ASSUME NEW rows \in [Guests -> ToldRow], NEW m \in Matches(rows)
  PROVE  /\ m \in Match /\ m.hint = NoHint
         /\ \A g \in m.pair : Riding(rows, g) = m.on
<1>1. PICK g \in Guests, h \in Guests :
        /\ Shared(rows, g, h)
        /\ m = [pair |-> {g, h}, on |-> Riding(rows, g), hint |-> NoHint]
  BY DEF Matches
<1>2. Riding(rows, g) # NoHint /\ Riding(rows, g) = Riding(rows, h)
  BY <1>1 DEF Shared
<1>3. Riding(rows, g) \in Vehicles
  BY <1>2 DEF Riding, Vehicles, ToldRow, Row, Options
<1> QED
  BY <1>1, <1>2, <1>3 DEF Match

\* A match and the same match with a hint differ in the hint alone.
LEMMA WithHint ==
  ASSUME NEW m \in Match, NEW hint \in Vehicles \cup {NoHint}
  PROVE  LET n == [m EXCEPT !.hint = hint]
         IN n \in Match /\ n.hint = hint /\ n.pair = m.pair /\ n.on = m.on
BY DEF Match

\* The matches of a rebuild have hints of their own train.
LEMMA HintedPaired ==
  ASSUME NEW rows \in [Guests -> ToldRow], NEW comps \in Hinted(Matches(rows)),
         NEW m \in comps
  PROVE  Paired(m, rows, {})
<1>1. PICK n \in Matches(rows) : m = n \/ m = [n EXCEPT !.hint = n.on]
  BY DEF Hinted
<1>2. n \in Match /\ n.hint = NoHint /\ \A g \in n.pair : Riding(rows, g) = n.on
  BY MatchesPaired
<1>3. n.on \in Vehicles
  BY <1>2 DEF Match
<1>4. CASE m = n
  BY <1>2, <1>4 DEF Paired
<1>5. CASE m = [n EXCEPT !.hint = n.on]
  BY <1>2, <1>3, <1>5, WithHint DEF Paired
<1> QED
  BY <1>1, <1>4, <1>5

\* A pair that keeps an older hint rode its train then: if it rides another one
\* now, both have changed trains.
LEMMA KeptPaired ==
  ASSUME PageInv, NEW m \in Kept(Matches(board.rows))
  PROVE  Paired(m, board.rows, board.shifted)
<1> DEFINE Old(n) == {k \in board.comps : k.pair = n.pair}
<1>1. board.rows \in [Guests -> ToldRow]
  BY DEF PageInv, Board
<1>2. PICK n \in Matches(board.rows) :
        m = [n EXCEPT !.hint = IF Old(n) = {} THEN NoHint
                               ELSE (CHOOSE k \in Old(n) : TRUE).hint]
  BY DEF Kept
<1>3. n \in Match /\ n.hint = NoHint /\ \A g \in n.pair : Riding(board.rows, g) = n.on
  BY <1>1, MatchesPaired
<1>4. CASE Old(n) = {}
  BY <1>2, <1>3, <1>4, WithHint DEF Paired
<1>5. CASE Old(n) # {}
  <2>1. PICK k \in board.comps : k.pair = n.pair /\ m = [n EXCEPT !.hint = k.hint]
    BY <1>2, <1>5
  <2>2. Paired(k, board.rows, board.shifted) /\ k.hint \in Vehicles \cup {NoHint}
    BY DEF PageInv, Paired, Match
  <2>3. m \in Match /\ m.hint = k.hint /\ m.pair = n.pair /\ m.on = n.on
    BY <1>3, <2>1, <2>2, WithHint
  <2>4. k.hint \notin {NoHint, n.on} => n.pair \subseteq board.shifted
    BY <1>3, <2>1, <2>2 DEF Paired
  <2> QED
    BY <1>3, <2>3, <2>4 DEF Paired
<1> QED
  BY <1>4, <1>5

\* A guest who takes another train is known to have changed.
LEMMA ExchangedInv ==
  ASSUME PageInv, NEW g \in Guests, NEW o \in Offers
  PROVE  LET b == Exchanged(g, o)
         IN /\ b \in Board /\ b.rows[g].chosen = o
            /\ \A h \in Guests : b.rows[h] \in ToldRow
            /\ \A m \in b.comps : Paired(m, b.rows, b.shifted)
<1> DEFINE row == board.rows[g]
           r == Renewed(row, o)
           rows == [board.rows EXCEPT ![g] = r]
           shifted == IF o = row.chosen THEN board.shifted ELSE board.shifted \cup {g}
<1>1. /\ board \in Board /\ board.rows \in [Guests -> ToldRow]
      /\ \A m \in board.comps : Paired(m, board.rows, board.shifted)
  BY DEF PageInv, Board
<1>2. r \in ToldRow /\ r.chosen = o
  BY <1>1, RenewedTold
<1>3. Exchanged(g, o) = [rows |-> rows, comps |-> board.comps, shifted |-> shifted]
  <2>1. board = [rows |-> board.rows, comps |-> board.comps, shifted |-> board.shifted]
    BY <1>1 DEF Board
  <2>2. Exchanged(g, o) = [board EXCEPT !.rows = rows, !.shifted = shifted]
    BY <2>1 DEF Exchanged
  <2> HIDE DEF rows, shifted
  <2> QED
    BY <2>1, <2>2
<1> HIDE DEF r
<1>4. /\ rows \in [Guests -> ToldRow] /\ rows[g] = r
      /\ \A h \in Guests : h # g => rows[h] = board.rows[h]
  BY <1>1, <1>2
<1>5. shifted \subseteq Guests /\ board.shifted \subseteq shifted
  BY <1>1 DEF Board
<1>6. \A h \in Guests \ shifted : Riding(rows, h) = Riding(board.rows, h)
  BY <1>2, <1>4 DEF Riding
<1>7. \A m \in board.comps : Paired(m, rows, shifted)
  BY <1>1, <1>5, <1>6 DEF Paired, Match
<1>8. rows \in [Guests -> Row]
  BY <1>4 DEF ToldRow
<1> HIDE DEF rows, shifted
<1>9. Exchanged(g, o) \in Board
  BY <1>1, <1>3, <1>5, <1>8 DEF Board
<1> QED
  BY <1>2, <1>3, <1>4, <1>7, <1>9

-----------------------------------------------------------------------------
(* Steps *)

\* What a rebuild publishes is in order, as the rows that it read were.
LEMMA PublishStep ==
  ASSUME PageInv, NEW deaf, Publish(deaf)
  PROVE  PageInv'
<1>1. PICK sold \in SUBSET Offers :
        LET may == [g \in Guests |-> Rows(g, sold, deaf)]
        IN \E planned \in {f \in [Guests -> UNION Range(may)] :
                             \A g \in Guests : f[g] \in may[g]} :
           \E waved \in Waves(planned) :
             LET rows  == [g \in Guests |-> Waved(waved[g], planned[g])]
                 stale == {g \in Guests : build.pins[g] # NoOffer /\ ~rows[g].pinned}
             IN /\ \E comps \in Hinted(Matches(rows)) :
                     board' = [rows |-> rows, comps |-> comps, shifted |-> {}]
                /\ pins' = [g \in Guests |-> IF g \in stale THEN NoOffer ELSE pins[g]]
  BY DEF Publish
<1> DEFINE may == [g \in Guests |-> Rows(g, sold, deaf)]
<1>2. PICK planned \in [Guests -> UNION Range(may)] :
        /\ \A g \in Guests : planned[g] \in Rows(g, sold, deaf)
        /\ \E waved \in Waves(planned) :
             LET rows  == [g \in Guests |-> Waved(waved[g], planned[g])]
                 stale == {g \in Guests : build.pins[g] # NoOffer /\ ~rows[g].pinned}
             IN /\ \E comps \in Hinted(Matches(rows)) :
                     board' = [rows |-> rows, comps |-> comps, shifted |-> {}]
                /\ pins' = [g \in Guests |-> IF g \in stale THEN NoOffer ELSE pins[g]]
  BY <1>1
<1>3. PICK waved \in Waves(planned) :
        LET rows  == [g \in Guests |-> Waved(waved[g], planned[g])]
            stale == {g \in Guests : build.pins[g] # NoOffer /\ ~rows[g].pinned}
        IN /\ \E comps \in Hinted(Matches(rows)) :
                board' = [rows |-> rows, comps |-> comps, shifted |-> {}]
           /\ pins' = [g \in Guests |-> IF g \in stale THEN NoOffer ELSE pins[g]]
  BY <1>2
<1> DEFINE rows  == [g \in Guests |-> Waved(waved[g], planned[g])]
           stale == {g \in Guests : build.pins[g] # NoOffer /\ ~rows[g].pinned}
<1>4. PICK comps \in Hinted(Matches(rows)) :
        board' = [rows |-> rows, comps |-> comps, shifted |-> {}]
  BY <1>3
<1>5. \A g \in Guests : planned[g] \in ToldRow
  BY <1>2, RowsTold
<1>6. \A g \in Guests : waved[g] \in Moved(planned[g])
  BY <1>3 DEF Waves, Moved
<1>7. rows \in [Guests -> ToldRow]
  BY <1>5, <1>6, WavedTold
<1>8. pins' \in [Guests -> Options]
  BY <1>3 DEF PageInv, Options
<1> HIDE DEF rows
<1>9. \A m \in comps : Paired(m, rows, {})
  BY <1>4, <1>7, HintedPaired
<1>10. board' \in Board
  <2>1. comps \subseteq Match
    BY <1>9 DEF Paired
  <2>2. rows \in [Guests -> Row]
    BY <1>7 DEF ToldRow
  <2> QED
    BY <1>4, <2>1, <2>2 DEF Board
<1>11. build' = IdleBuild
  BY DEF Publish
<1>12. /\ IdleBuild \in [on : BOOLEAN, pins : [Guests -> Options], prior : [Guests -> Row]]
       /\ \A g \in Guests : IdleBuild.prior[g] \in ToldRow
  BY BlankTold DEF IdleBuild, NoPins, EmptyBoard, Options, ToldRow
<1>13. board'.rows = rows /\ board'.comps = comps /\ board'.shifted = {}
  BY <1>4
<1> QED
  BY <1>7, <1>8, <1>9, <1>10, <1>11, <1>12, <1>13 DEF PageInv

\* A choice pins the route that it brings to the row.
LEMMA ChooseStep ==
  ASSUME PageInv, NEW g \in Guests, NEW o \in Offers, Choose(g, o)
  PROVE  PageInv'
<1> DEFINE b == Exchanged(g, o)
           r == [b.rows[g] EXCEPT !.pinned = TRUE]
<1>1. /\ b \in Board /\ \A h \in Guests : b.rows[h] \in ToldRow
      /\ \A m \in b.comps : Paired(m, b.rows, b.shifted)
  BY ExchangedInv
<1>2. board' = [b EXCEPT !.rows[g].pinned = TRUE] /\ build' = build
  BY DEF Choose
<1>3. pins' \in [Guests -> Options]
  BY DEF Choose, PageInv, Options
<1> HIDE DEF b
<1>4. /\ r \in Row /\ r.chosen = b.rows[g].chosen /\ r.card = b.rows[g].card
      /\ r.moved = b.rows[g].moved
  BY <1>1 DEF ToldRow, Row
<1>5. /\ board'.rows = [b.rows EXCEPT ![g] = r]
      /\ board'.comps = b.comps /\ board'.shifted = b.shifted
  BY <1>1, <1>2 DEF Board
<1> HIDE DEF r
<1>6. r \in ToldRow
  BY <1>1, <1>4 DEF ToldRow, Told
<1>7. /\ board'.rows \in [Guests -> Row]
      /\ \A h \in Guests : board'.rows[h] \in ToldRow
  BY <1>1, <1>4, <1>5, <1>6 DEF Board
<1>8. board' \in Board
  BY <1>1, <1>2, <1>5, <1>7 DEF Board
<1>9. \A h \in Guests : Riding(board'.rows, h) = Riding(b.rows, h)
  BY <1>1, <1>4, <1>5 DEF Riding, Board
<1>10. \A m \in board'.comps : Paired(m, board'.rows, board'.shifted)
  BY <1>1, <1>5, <1>9 DEF Paired, Match
<1> QED
  BY <1>2, <1>3, <1>7, <1>8, <1>10 DEF PageInv

\* Every step keeps what cards and hints say in line with the rows.
LEMMA StepPage == PageInv /\ [Next]_vars => PageInv'
<1> SUFFICES ASSUME PageInv, [Next]_vars PROVE PageInv'
  OBVIOUS
<1>1. CASE Start
  <2>1. build' = [on |-> TRUE, pins |-> pins, prior |-> board.rows]
        /\ UNCHANGED <<pins, board>>
    BY <1>1 DEF Start
  <2>2. build' \in [on : BOOLEAN, pins : [Guests -> Options], prior : [Guests -> Row]]
    BY <2>1 DEF PageInv, Board
  <2> QED
    BY <2>1, <2>2 DEF PageInv
<1>2. CASE Consent
  <2>1. board' = [board EXCEPT !.comps = Kept(Matches(board.rows))]
        /\ UNCHANGED <<pins, build>>
    BY <1>2 DEF Consent
  <2>2. \A m \in Kept(Matches(board.rows)) : Paired(m, board.rows, board.shifted)
    BY KeptPaired
  <2>3. board' \in Board /\ board'.rows = board.rows /\ board'.shifted = board.shifted
        /\ board'.comps = Kept(Matches(board.rows))
    BY <2>1, <2>2 DEF PageInv, Board, Paired
  <2> QED
    BY <2>1, <2>2, <2>3 DEF PageInv
<1>3. ASSUME NEW g \in Guests, NEW o \in Offers, Collapse(g, o) PROVE PageInv'
  <2>1. board' = Exchanged(g, o) /\ UNCHANGED <<pins, build>>
    BY <1>3 DEF Collapse
  <2> QED
    BY <2>1, ExchangedInv DEF PageInv
<1>4. CASE UNCHANGED vars
  BY <1>4 DEF vars, PageInv
<1> QED
  BY <1>1, <1>2, <1>3, <1>4, PublishStep, ChooseStep DEF Next, Rebuild

\* Before the first rebuild there is no route to tell about.
LEMMA InitPage == Init => PageInv
<1> SUFFICES ASSUME Init PROVE PageInv
  OBVIOUS
<1>1. NoPins \in [Guests -> Options]
  BY DEF NoPins, Options
<1>2. Blank \in ToldRow /\ Blank \in Row
  BY BlankTold DEF ToldRow
<1>3. /\ EmptyBoard \in Board /\ EmptyBoard.comps = {}
      /\ \A g \in Guests : EmptyBoard.rows[g] = Blank
  BY <1>2 DEF EmptyBoard, Board
<1>4. /\ IdleBuild \in [on : BOOLEAN, pins : [Guests -> Options], prior : [Guests -> Row]]
      /\ IdleBuild.prior = EmptyBoard.rows
  BY <1>1, <1>2 DEF IdleBuild, EmptyBoard
<1> QED
  BY <1>1, <1>2, <1>3, <1>4 DEF Init, PageInv

\* Cards and hints are in line with the rows in every reachable state.
LEMMA PageInvariant == Spec => []PageInv
BY InitPage, StepPage, PTL DEF Spec

\* For any guests and offers, and whatever searches find: a card that does not
\* describe the route beside it is known to be older than the route.
THEOREM CardsTell == Spec => []CardTells
<1>1. PageInv => CardTells
  BY DEF PageInv, CardTells, ToldRow, Told
<1> QED
  BY <1>1, PageInvariant, PTL

\* For any number of guests: a seat hint that is not of the pair's train is left
\* only to a pair of which both have changed trains since it was fetched.
THEOREM HintsFit == Spec => []HintFits
<1>1. PageInv => HintFits
  BY DEF PageInv, HintFits, Paired
<1> QED
  BY <1>1, PageInvariant, PTL
=============================================================================
