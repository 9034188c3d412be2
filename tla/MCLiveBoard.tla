----------------------------- MODULE MCLiveBoard -----------------------------
(***************************************************************************)
(* Small instances of LiveBoard.  Guest g1 may go by the bus b1, by the     *)
(* train t1 or, too late for the deadline, by the train x1; guest g2 by the *)
(* bus b2 or by the train t1.                                               *)
(***************************************************************************)
EXTENDS LiveBoardProps, TLC

CONSTANTS g1, g2, b1, b2, t1, x1, w1, w2

\* One departure and one price of every vehicle: its number identifies it.
Vehicles(O) == [o \in O |-> ToString(o)]
Numbers(O)  == {ToString(o) : o \in O}

Solo       == {b1, t1, x1}
SoloKeys   == Numbers(Solo)
SoloNumber == Vehicles(Solo)
SoloArrive == (b1 :> 1 @@ t1 :> 4 @@ x1 :> 9)
SoloRank   == (b1 :> 1 @@ t1 :> 2 @@ x1 :> 0)
SoloRoute  == (g1 :> Solo)

\* Two routes without the late train.
Twin       == {b1, t1}
TwinKeys   == Numbers(Twin)
TwinNumber == Vehicles(Twin)
TwinArrive == (b1 :> 1 @@ t1 :> 4)
TwinRank   == (b1 :> 1 @@ t1 :> 2)
TwinRoute  == (g1 :> Twin)

\* Two guests: g2 prefers the bus b2, which arrives just before g1's train t1,
\* and can take that train too.
Pair       == {b2, t1}
PairKeys   == Numbers(Pair)
PairNumber == Vehicles(Pair)
PairArrive == (b2 :> 3 @@ t1 :> 4)
PairRank   == (b2 :> 1 @@ t1 :> 2)
PairRoute  == (g1 :> {t1} @@ g2 :> {b2, t1})

\* g1 comes by the bus b1; the train t1, which g2 prefers, arrives just after it,
\* and the train x1 at the distance that the wave asks for.
Line       == {b1, t1, x1}
LineKeys   == Numbers(Line)
LineNumber == Vehicles(Line)
LineArrive == (b1 :> 3 @@ t1 :> 4 @@ x1 :> 6)
LineRank   == (b1 :> 1 @@ t1 :> 1 @@ x1 :> 2)
LineRoute  == (g1 :> {b1} @@ g2 :> {t1, x1})

\* Rebuild slots are interchangeable.
SlotSymmetry == Permutations({w1, w2})
=============================================================================
