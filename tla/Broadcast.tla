----------------------------- MODULE Broadcast ------------------------------
(***************************************************************************)
(* The stream of boards: event.State keeps the current board and one        *)
(* buffered channel per subscriber.  SetBoard stores a board and offers it  *)
(* to every channel under the lock, one send at a time; the handlers        *)
(* receive without the lock, write a frame to their page and unsubscribe    *)
(* when the request ends.  A page reconnects by itself.                     *)
(*                                                                         *)
(* Boards are numbered in the order of SetBoard.                            *)
(***************************************************************************)
EXTENDS Naturals, Sequences

CONSTANTS
  Watchers,    \* pages
  Publishers,  \* goroutines that call SetBoard: handlers and rebuilds
  Nobody,      \* holds the lock when nobody does
  Capacity,    \* slots of a channel
  MaxBoards,   \* bound on the boards published
  MaxConnects  \* bound on the connections made

ASSUME BroadcastAssumption ==
  /\ Capacity \in Nat \ {0} /\ MaxBoards \in Nat /\ MaxConnects \in Nat
  /\ Nobody \notin Publishers

VARIABLES
  board,     \* State.Board, 0 for nil
  mu,        \* who holds State.mu inside SetBoard
  sending,   \* each publisher's board and the channels it has yet to offer it to
  pc,        \* where each page's handler is in handleStream
  alive,     \* whether the handler's request is still connected
  chan,      \* the channel of each page's subscription
  hand,      \* the board that the handler received last, 0 for none
  shown,     \* the board that each page shows, 0 for none
  from,      \* history: the board that was current at the subscription
  missed,    \* history: boards dropped since the subscription
  connects   \* connections made

vars == <<board, mu, sending, pc, alive, chan, hand, shown, from, missed, connects>>

store   == <<board, mu, sending>>
history == <<from, missed, connects>>

Subscribed == {w \in Watchers : pc[w] # "off"}

Init ==
  /\ board = 0 /\ mu = Nobody
  /\ sending = [p \in Publishers |-> [board |-> 0, todo |-> {}]]
  /\ pc = [w \in Watchers |-> "off"]
  /\ alive = [w \in Watchers |-> FALSE]
  /\ chan = [w \in Watchers |-> <<>>]
  /\ hand = [w \in Watchers |-> 0]
  /\ shown = [w \in Watchers |-> 0]
  /\ from = [w \in Watchers |-> 0]
  /\ missed = [w \in Watchers |-> {}]
  /\ connects = 0

-----------------------------------------------------------------------------
(* SetBoard *)

\* Mutant of Store: the lock is not held during the sends.
StoreUnlocked(p) ==
  /\ mu = Nobody /\ board < MaxBoards /\ sending[p].todo = {}
  /\ board' = board + 1
  /\ sending' = [sending EXCEPT ![p] = [board |-> board + 1, todo |-> Subscribed]]
  /\ UNCHANGED <<mu, pc, alive, chan, hand, shown, history>>

Store(p) ==
  /\ mu = Nobody /\ board < MaxBoards
  /\ mu' = p
  /\ board' = board + 1
  /\ sending' = [sending EXCEPT ![p] = [board |-> board + 1, todo |-> Subscribed]]
  /\ UNCHANGED <<pc, alive, chan, hand, shown, history>>

Room(w) == Len(chan[w]) < Capacity

\* Mutant of Offered: a full channel loses its oldest board.
OfferedDropsOldest(w, b) == Append(IF Room(w) THEN chan[w] ELSE Tail(chan[w]), b)

\* The channel after a send that does not block.
Offered(w, b) == IF Room(w) THEN Append(chan[w], b) ELSE chan[w]

Send(p, w) ==
  /\ w \in sending[p].todo
  /\ chan' = [chan EXCEPT ![w] = Offered(w, sending[p].board)]
  /\ missed' = [missed EXCEPT ![w] = IF Room(w) THEN @ ELSE @ \cup {sending[p].board}]
  /\ sending' = [sending EXCEPT ![p].todo = @ \ {w}]
  /\ UNCHANGED <<board, mu, pc, alive, hand, shown, from, connects>>

Unlock(p) ==
  /\ mu = p /\ sending[p].todo = {}
  /\ mu' = Nobody
  /\ sending' = [sending EXCEPT ![p].board = 0]
  /\ UNCHANGED <<board, pc, alive, chan, hand, shown, history>>

-----------------------------------------------------------------------------
(* handleStream *)

\* Mutant of Primed: a new subscriber waits for the next board.
PrimedNever == <<>>

\* The channel of a new subscription.
Primed == IF board = 0 THEN <<>> ELSE <<board>>

\* Subscribe, for a new page or one that connects again.
Connect(w) ==
  /\ pc[w] = "off" /\ mu = Nobody /\ connects < MaxConnects
  /\ connects' = connects + 1
  /\ pc' = [pc EXCEPT ![w] = "select"]
  /\ alive' = [alive EXCEPT ![w] = TRUE]
  /\ chan' = [chan EXCEPT ![w] = Primed]
  /\ hand' = [hand EXCEPT ![w] = 0]
  /\ from' = [from EXCEPT ![w] = board]
  /\ missed' = [missed EXCEPT ![w] = {}]
  /\ UNCHANGED <<store, shown>>

Receive(w) ==
  /\ pc[w] = "select" /\ chan[w] # <<>>
  /\ pc' = [pc EXCEPT ![w] = "write"]
  /\ hand' = [hand EXCEPT ![w] = Head(chan[w])]
  /\ chan' = [chan EXCEPT ![w] = Tail(@)]
  /\ UNCHANGED <<store, alive, shown, history>>

\* The frame reaches the page unless the connection is gone; errors of the
\* write are ignored.
Write(w) ==
  /\ pc[w] = "write"
  /\ pc' = [pc EXCEPT ![w] = "select"]
  /\ shown' = IF alive[w] THEN [shown EXCEPT ![w] = hand[w]] ELSE shown
  /\ UNCHANGED <<store, alive, chan, hand, history>>

\* r.Context().Done(): the handler returns.
Leave(w) ==
  /\ pc[w] = "select" /\ ~alive[w]
  /\ pc' = [pc EXCEPT ![w] = "leave"]
  /\ UNCHANGED <<store, alive, chan, hand, shown, history>>

\* Mutant of Unsubscribe: the channel is closed without the lock.
UnsubscribeUnlocked(w) ==
  /\ pc[w] = "leave"
  /\ pc' = [pc EXCEPT ![w] = "off"]
  /\ UNCHANGED <<store, alive, chan, hand, shown, history>>

\* The deferred unsub: the subscription is deleted and its channel closed.
Unsubscribe(w) ==
  /\ pc[w] = "leave" /\ mu = Nobody
  /\ pc' = [pc EXCEPT ![w] = "off"]
  /\ UNCHANGED <<store, alive, chan, hand, shown, history>>

\* The page goes away or its connection breaks.
Disconnect(w) ==
  /\ alive[w]
  /\ alive' = [alive EXCEPT ![w] = FALSE]
  /\ UNCHANGED <<store, pc, chan, hand, shown, history>>

Publish(p) == Store(p) \/ (\E w \in Watchers : Send(p, w)) \/ Unlock(p)

Stream(w) == Receive(w) \/ Write(w) \/ Leave(w) \/ Unsubscribe(w)

Next == \/ \E p \in Publishers : Publish(p)
        \/ \E w \in Watchers : Stream(w) \/ Connect(w) \/ Disconnect(w)

Spec == Init /\ [][Next]_vars

\* SetBoard, once begun, ends, and handlers run: a write to a page returns, if
\* only because the connection is given up.
FairSpec ==
  /\ Spec
  /\ \A p \in Publishers : WF_vars((\E w \in Watchers : Send(p, w)) \/ Unlock(p))
  /\ \A w \in Watchers : WF_vars(Stream(w))
=============================================================================
