--------------------------- MODULE BroadcastProps ----------------------------
(***************************************************************************)
(* What event.State and handleStream promise to the pages.                  *)
(***************************************************************************)
EXTENDS Broadcast

F == INSTANCE Feed WITH Watchers <- Watchers, board <- board, shown <- shown

\* Every variable keeps its type and no channel holds more than its capacity.
TypeOK ==
  /\ board \in Nat
  /\ mu \in Publishers \cup {Nobody}
  /\ sending \in [Publishers -> [board : Nat, todo : SUBSET Watchers]]
  /\ pc \in [Watchers -> {"off", "select", "write", "leave"}]
  /\ alive \in [Watchers -> BOOLEAN]
  /\ chan \in [Watchers -> Seq(Nat)]
  /\ \A w \in Watchers : Len(chan[w]) <= Capacity
  /\ hand \in [Watchers -> Nat]
  /\ shown \in [Watchers -> Nat]
  /\ from \in [Watchers -> Nat]
  /\ missed \in [Watchers -> SUBSET Nat]
  /\ connects \in Nat

\* SetBoard never sends on a closed channel, which would panic: no watcher that
\* is yet to be sent to unsubscribes, whatever the requests do.
SendsToOpenChannels == \A p \in Publishers : sending[p].todo \subseteq Subscribed

\* The boards that the subscription of w owes its page: all that were current
\* since, except those just being sent and those that met a full channel.
Owed(w) ==
  {b \in from[w]..board :
     /\ b > hand[w] /\ b \notin missed[w]
     /\ \A p \in Publishers : ~(w \in sending[p].todo /\ b = sending[p].board)}

\* A page loses a board only to a full channel: what its handler has not yet
\* received is in the channel, once and in order.
NothingLostButOverflow ==
  \A w \in Subscribed :
    /\ {chan[w][i] : i \in 1..Len(chan[w])} = Owed(w) \ {0}
    /\ \A i, j \in 1..Len(chan[w]) : i < j => chan[w][i] < chan[w][j]

\* The stream implements Feed: no concurrent publication, priming or
\* reconnection ever turns a page back to an older board.
NeverBack == F!Spec

\* The newest board was dropped for w.
Behind(w) == board \in missed[w]

\* A page that stays connected ends up with the current board, unless the last
\* one published met a full channel; a new page does not wait for the next one.
CatchesUp ==
  \A w \in Watchers :
    <>[](alive[w] /\ ~Behind(w)) => <>[](shown[w] = board)
=============================================================================
