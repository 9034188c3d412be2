-------------------------------- MODULE Feed --------------------------------
(***************************************************************************)
(* What the stream of an event promises to a page that watches it: boards   *)
(* are numbered in the order in which they become current, and a page only  *)
(* ever turns to a board that is newer than the one it shows.               *)
(***************************************************************************)
EXTENDS Naturals

CONSTANT Watchers

VARIABLES
  board,  \* the number of the current board, 0 for none
  shown   \* the board that each page shows

Init == board = 0 /\ shown = [w \in Watchers |-> 0]

Publish == board' = board + 1 /\ UNCHANGED shown

Show(w) ==
  /\ \E b \in shown[w]..board : shown' = [shown EXCEPT ![w] = b]
  /\ UNCHANGED board

Next == Publish \/ \E w \in Watchers : Show(w)

Spec == Init /\ [][Next]_<<board, shown>>
=============================================================================
