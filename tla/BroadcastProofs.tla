--------------------------- MODULE BroadcastProofs ---------------------------
(***************************************************************************)
(* Broadcast implements Feed and never sends on a closed channel, for any   *)
(* number of pages and publishers and any capacity.  The invariant says who *)
(* may be sending (the holder of the lock, of the current board, to open    *)
(* channels) and that what is on its way to a page is in order, between     *)
(* what the page shows and the current board.  Boards are lost to a full    *)
(* channel only.                                                            *)
(***************************************************************************)
EXTENDS BroadcastProps, SequenceTheorems, TLAPS

\* Only the holder of the lock is sending, and it is sending the current board.
Locked ==
  \A p \in Publishers :
    /\ sending[p].todo # {} => mu = p
    /\ mu = p => sending[p].board = board

\* The least board that the page of w may turn to next.
Reached(w) == IF pc[w] = "write" THEN hand[w] ELSE shown[w]

Ordered(w) ==
  /\ shown[w] <= Reached(w) /\ Reached(w) <= board
  /\ \A i \in 1..Len(chan[w]) : Reached(w) <= chan[w][i] /\ chan[w][i] <= board
  /\ \A i, j \in 1..Len(chan[w]) : i < j => chan[w][i] <= chan[w][j]

IInv == TypeOK /\ SendsToOpenChannels /\ Locked /\ \A w \in Watchers : Ordered(w)

-----------------------------------------------------------------------------

\* What a publisher is sending keeps its type.
LEMMA SendingTyped ==
  ASSUME NEW s \in [board : Nat, todo : SUBSET Watchers], NEW w
  PROVE  /\ [s EXCEPT !.board = 0] \in [board : Nat, todo : SUBSET Watchers]
         /\ [s EXCEPT !.todo = @ \ {w}] \in [board : Nat, todo : SUBSET Watchers]
  OBVIOUS

\* Types are kept by every step: the buffer of a channel never overflows.
LEMMA TypeStep == TypeOK /\ [Next]_vars => TypeOK'
<1> SUFFICES ASSUME TypeOK, [Next]_vars PROVE TypeOK'
  OBVIOUS
<1> USE BroadcastAssumption DEF TypeOK
<1>1. ASSUME NEW p \in Publishers, Store(p) PROVE TypeOK'
  BY <1>1 DEF Store, Subscribed, history
<1>2. ASSUME NEW p \in Publishers, NEW w \in Watchers, Send(p, w) PROVE TypeOK'
  <2>1. Offered(w, sending[p].board) \in Seq(Nat)
    BY DEF Offered
  <2>2. Len(Offered(w, sending[p].board)) <= Capacity
    BY DEF Offered, Room
  <2>3. chan' \in [Watchers -> Seq(Nat)] /\ \A v \in Watchers : Len(chan'[v]) <= Capacity
    BY <1>2, <2>1, <2>2 DEF Send
  <2>4. missed' \in [Watchers -> SUBSET Nat]
    BY <1>2 DEF Send
  <2>5. sending' \in [Publishers -> [board : Nat, todo : SUBSET Watchers]]
    <3>1. [sending[p] EXCEPT !.todo = @ \ {w}] \in [board : Nat, todo : SUBSET Watchers]
      BY SendingTyped
    <3> QED
      BY <1>2, <3>1 DEF Send
  <2> QED
    BY <1>2, <2>3, <2>4, <2>5 DEF Send
<1>3. ASSUME NEW p \in Publishers, Unlock(p) PROVE TypeOK'
  <2>1. [sending[p] EXCEPT !.board = 0] \in [board : Nat, todo : SUBSET Watchers]
    BY SendingTyped
  <2>2. sending' \in [Publishers -> [board : Nat, todo : SUBSET Watchers]]
    BY <1>3, <2>1 DEF Unlock
  <2> QED
    BY <1>3, <2>2 DEF Unlock, history
<1>4. ASSUME NEW w \in Watchers, Receive(w) PROVE TypeOK'
  <2>1. Head(chan[w]) \in Nat /\ Tail(chan[w]) \in Seq(Nat) /\ Len(Tail(chan[w])) <= Capacity
    BY <1>4, HeadTailProperties DEF Receive
  <2> QED
    BY <1>4, <2>1 DEF Receive, store, history
<1>5. ASSUME NEW w \in Watchers, Write(w) PROVE TypeOK'
  BY <1>5 DEF Write, store, history
<1>6. ASSUME NEW w \in Watchers, Leave(w) PROVE TypeOK'
  BY <1>6 DEF Leave, store, history
<1>7. ASSUME NEW w \in Watchers, Unsubscribe(w) PROVE TypeOK'
  BY <1>7 DEF Unsubscribe, store, history
<1>8. ASSUME NEW w \in Watchers, Connect(w) PROVE TypeOK'
  <2>1. Primed \in Seq(Nat) /\ Len(Primed) <= Capacity
    BY DEF Primed
  <2> QED
    BY <1>8, <2>1 DEF Connect, store
<1>9. ASSUME NEW w \in Watchers, Disconnect(w) PROVE TypeOK'
  BY <1>9 DEF Disconnect, store, history
<1>10. CASE UNCHANGED vars
  BY <1>10 DEF vars
<1> QED
  BY <1>1, <1>2, <1>3, <1>4, <1>5, <1>6, <1>7, <1>8, <1>9, <1>10
  DEF Next, Publish, Stream

\* The lock keeps every channel open while SetBoard has yet to send on it.
LEMMA SendStep ==
  IInv /\ [Next]_vars => SendsToOpenChannels' /\ Locked'
<1> SUFFICES ASSUME IInv, [Next]_vars PROVE SendsToOpenChannels' /\ Locked'
  OBVIOUS
<1> USE BroadcastAssumption DEF IInv, TypeOK, SendsToOpenChannels, Locked, Subscribed
<1>1. ASSUME NEW p \in Publishers, Store(p) PROVE SendsToOpenChannels' /\ Locked'
  BY <1>1 DEF Store, history
<1>2. ASSUME NEW p \in Publishers, NEW w \in Watchers, Send(p, w)
      PROVE SendsToOpenChannels' /\ Locked'
  BY <1>2 DEF Send
<1>3. ASSUME NEW p \in Publishers, Unlock(p) PROVE SendsToOpenChannels' /\ Locked'
  BY <1>3 DEF Unlock, history
<1>4. ASSUME NEW w \in Watchers, Receive(w) \/ Write(w) \/ Leave(w) \/ Disconnect(w)
      PROVE SendsToOpenChannels' /\ Locked'
  BY <1>4 DEF Receive, Write, Leave, Disconnect, store, history
<1>5. ASSUME NEW w \in Watchers, Unsubscribe(w) \/ Connect(w)
      PROVE SendsToOpenChannels' /\ Locked'
  <2>1. mu = Nobody /\ UNCHANGED store
    BY <1>5 DEF Unsubscribe, Connect
  <2>2. \A p \in Publishers : sending'[p].todo = {}
    BY <2>1 DEF store
  <2> QED
    BY <2>1, <2>2 DEF store
<1>6. CASE UNCHANGED vars
  BY <1>6 DEF vars
<1> QED
  BY <1>1, <1>2, <1>3, <1>4, <1>5, <1>6 DEF Next, Publish, Stream

\* A step that changes neither the board nor anything of w keeps w in order.
LEMMA SameOrder ==
  ASSUME NEW w \in Watchers, Ordered(w), board' = board,
         Reached(w)' = Reached(w), shown'[w] = shown[w], chan'[w] = chan[w]
  PROVE  Ordered(w)'
BY DEF Ordered

\* What is on its way to a page stays in order, whatever step is made.
LEMMA OrderStep ==
  ASSUME IInv, [Next]_vars, NEW v \in Watchers
  PROVE  Ordered(v)'
<1> USE BroadcastAssumption DEF IInv, TypeOK
<1>0. Ordered(v)
  OBVIOUS
<1>1. ASSUME NEW p \in Publishers, Store(p) PROVE Ordered(v)'
  BY <1>0, <1>1 DEF Store, Ordered, Reached, history
<1>2. ASSUME NEW p \in Publishers, NEW w \in Watchers, Send(p, w) PROVE Ordered(v)'
  <2>1. sending[p].board = board
    BY <1>2 DEF Send, Locked
  <2>2. chan'[v] = chan[v] \/ chan'[v] = Append(chan[v], board)
    BY <1>2, <2>1 DEF Send, Offered
  <2>3. board' = board /\ Reached(v)' = Reached(v) /\ shown'[v] = shown[v]
    BY <1>2 DEF Send, Reached
  <2>4. CASE chan'[v] = Append(chan[v], board)
    <3>1. /\ Len(chan'[v]) = Len(chan[v]) + 1
          /\ \A i \in 1..Len(chan[v]) : chan'[v][i] = chan[v][i]
          /\ chan'[v][Len(chan[v]) + 1] = board
      BY <2>4, AppendProperties
    <3>2. Len(chan[v]) \in Nat
      BY LenProperties
    <3>3. \A i \in 1..Len(chan'[v]) : i \in 1..Len(chan[v]) \/ i = Len(chan[v]) + 1
      BY <3>1, <3>2
    <3>4. Reached(v) \in Nat /\ Reached(v) <= board /\ shown[v] <= Reached(v)
      BY <1>0 DEF Ordered, Reached
    <3>5. \A i \in 1..Len(chan'[v]) : Reached(v) <= chan'[v][i] /\ chan'[v][i] <= board
      <4> SUFFICES ASSUME NEW i \in 1..Len(chan'[v])
                   PROVE  Reached(v) <= chan'[v][i] /\ chan'[v][i] <= board
        OBVIOUS
      <4>1. CASE i \in 1..Len(chan[v])
        BY <1>0, <3>1, <4>1 DEF Ordered
      <4>2. CASE i = Len(chan[v]) + 1
        BY <3>1, <3>4, <4>2
      <4> QED
        BY <3>3, <4>1, <4>2
    <3>6. \A i, j \in 1..Len(chan'[v]) : i < j => chan'[v][i] <= chan'[v][j]
      <4> SUFFICES ASSUME NEW i \in 1..Len(chan'[v]), NEW j \in 1..Len(chan'[v]), i < j
                   PROVE  chan'[v][i] <= chan'[v][j]
        OBVIOUS
      <4>1. i \in 1..Len(chan[v])
        BY <3>1, <3>2
      <4> QED
        BY <1>0, <3>1, <3>3, <4>1 DEF Ordered
    <3> QED
      BY <2>3, <3>4, <3>5, <3>6 DEF Ordered
  <2> QED
    BY <1>0, <2>2, <2>3, <2>4, SameOrder
<1>3. ASSUME NEW p \in Publishers, Unlock(p) PROVE Ordered(v)'
  BY <1>0, <1>3, SameOrder DEF Unlock, Reached, history
<1>4. ASSUME NEW w \in Watchers, Receive(w) PROVE Ordered(v)'
  <2>1. CASE v # w
    BY <1>0, <1>4, <2>1, SameOrder DEF Receive, Reached, store
  <2>2. CASE v = w
    <3>1. /\ Head(chan[v]) = chan[v][1] /\ Len(chan[v]) >= 1
          /\ Len(Tail(chan[v])) = Len(chan[v]) - 1
          /\ \A i \in 1..Len(Tail(chan[v])) : Tail(chan[v])[i] = chan[v][i + 1]
      BY <1>4, <2>2, HeadTailProperties DEF Receive
    <3>2. chan'[v] = Tail(chan[v]) /\ Reached(v)' = chan[v][1] /\ Reached(v) = shown[v]
      BY <1>4, <2>2, <3>1 DEF Receive, Reached
    <3>3. UNCHANGED <<board, shown>>
      BY <1>4 DEF Receive, store
    <3> DEFINE n == Len(chan[v])
    <3>4. n \in Nat /\ n >= 1 /\ Len(chan'[v]) = n - 1
      BY <3>1, <3>2, LenProperties
    <3>5. \A i \in 1..Len(chan'[v]) : i + 1 \in 1..n /\ chan'[v][i] = chan[v][i + 1]
      BY <3>1, <3>2, <3>4
    <3>6. 1 \in 1..n /\ \A i \in 1..Len(chan'[v]) : 1 < i + 1
      BY <3>4
    <3>7. \A i \in 1..Len(chan'[v]) : Reached(v)' <= chan'[v][i] /\ chan'[v][i] <= board
      BY <1>0, <3>2, <3>5, <3>6 DEF Ordered
    <3>8. \A i, j \in 1..Len(chan'[v]) : i < j => chan'[v][i] <= chan'[v][j]
      <4> SUFFICES ASSUME NEW i \in 1..Len(chan'[v]), NEW j \in 1..Len(chan'[v]), i < j
                   PROVE  chan'[v][i] <= chan'[v][j]
        OBVIOUS
      <4>1. i + 1 < j + 1 /\ i + 1 \in 1..n /\ j + 1 \in 1..n
        BY <3>4, <3>5
      <4>2. chan[v][i + 1] <= chan[v][j + 1]
        BY <1>0, <4>1 DEF Ordered
      <4> QED
        BY <3>5, <4>2
    <3>9. shown[v] <= chan[v][1] /\ chan[v][1] <= board
      BY <1>0, <3>2, <3>6 DEF Ordered
    <3> QED
      BY <3>2, <3>3, <3>7, <3>8, <3>9 DEF Ordered
  <2> QED
    BY <2>1, <2>2
<1>5. ASSUME NEW w \in Watchers, Write(w) PROVE Ordered(v)'
  <2>1. CASE v # w
    BY <1>0, <1>5, <2>1, SameOrder DEF Write, Reached, store
  <2>2. CASE v = w
    BY <1>0, <1>5, <2>2 DEF Write, Ordered, Reached, store
  <2> QED
    BY <2>1, <2>2
<1>6. ASSUME NEW w \in Watchers, Leave(w) \/ Unsubscribe(w) \/ Disconnect(w)
      PROVE Ordered(v)'
  BY <1>0, <1>6, SameOrder DEF Leave, Unsubscribe, Disconnect, Reached, store, history
<1>7. ASSUME NEW w \in Watchers, Connect(w) PROVE Ordered(v)'
  <2>1. CASE v # w
    BY <1>0, <1>7, <2>1, SameOrder DEF Connect, Reached, store
  <2>2. CASE v = w
    BY <1>0, <1>7, <2>2 DEF Connect, Primed, Ordered, Reached, store
  <2> QED
    BY <2>1, <2>2
<1>8. CASE UNCHANGED vars
  BY <1>0, <1>8, SameOrder DEF vars, Reached
<1> QED
  BY <1>1, <1>2, <1>3, <1>4, <1>5, <1>6, <1>7, <1>8 DEF Next, Publish, Stream

-----------------------------------------------------------------------------

\* The invariant holds when the server starts.
LEMMA InitIInv == Init => IInv
BY BroadcastAssumption
DEF Init, IInv, TypeOK, SendsToOpenChannels, Locked, Ordered, Reached, Subscribed

\* The invariant holds always.
THEOREM Invariance == Spec => []IInv
<1>1. IInv /\ [Next]_vars => IInv'
  BY TypeStep, SendStep, OrderStep DEF IInv
<1> QED
  BY InitIInv, <1>1, PTL DEF Spec

\* Every variable keeps its type and no channel exceeds its capacity: SetBoard
\* and handleStream never block each other on a channel.
THEOREM TypeCorrect == Spec => []TypeOK
BY Invariance, PTL DEF IInv

\* SetBoard never sends on a closed channel, for any number of publishers and
\* of pages that come and go.
THEOREM NoSendOnClosed == Spec => []SendsToOpenChannels
BY Invariance, PTL DEF IInv

\* Each step of the stream is a publication of Feed, a page that turns to a
\* board no older than its own, or a stutter.
LEMMA FeedStep == IInv /\ [Next]_vars => [F!Next]_<<board, shown>>
<1> SUFFICES ASSUME IInv, [Next]_vars PROVE [F!Next]_<<board, shown>>
  OBVIOUS
<1>1. ASSUME NEW p \in Publishers, Store(p) PROVE F!Publish
  BY <1>1 DEF Store, F!Publish
<1>2. ASSUME NEW w \in Watchers, Write(w) PROVE F!Show(w) \/ UNCHANGED <<board, shown>>
  <2>1. CASE alive[w]
    <3>1. hand[w] \in shown[w]..board
      BY <1>2 DEF Write, IInv, TypeOK, Ordered, Reached
    <3> QED
      BY <1>2, <2>1, <3>1 DEF Write, F!Show, store
  <2> QED
    BY <1>2, <2>1 DEF Write, store
<1>3. ASSUME NEW p \in Publishers, NEW w \in Watchers, Send(p, w)
      PROVE UNCHANGED <<board, shown>>
  BY <1>3 DEF Send
<1>4. ASSUME NEW p \in Publishers, Unlock(p) PROVE UNCHANGED <<board, shown>>
  BY <1>4 DEF Unlock
<1>5. ASSUME NEW w \in Watchers,
             Receive(w) \/ Leave(w) \/ Unsubscribe(w) \/ Connect(w) \/ Disconnect(w)
      PROVE UNCHANGED <<board, shown>>
  BY <1>5 DEF Receive, Leave, Unsubscribe, Connect, Disconnect, store
<1>6. CASE UNCHANGED vars
  BY <1>6 DEF vars
<1> QED
  BY <1>1, <1>2, <1>3, <1>4, <1>5, <1>6 DEF Next, Publish, Stream, F!Next

\* The stream implements Feed: whatever is published, dropped, cut off and
\* connected again, no page ever turns back to an older board.
THEOREM ImplementsFeed == Spec => NeverBack
<1>1. Init => F!Init
  BY DEF Init, F!Init
<1> QED
  BY <1>1, FeedStep, Invariance, PTL DEF Spec, NeverBack, F!Spec

-----------------------------------------------------------------------------
(* What is lost *)

Contents(s) == {s[i] : i \in 1..Len(s)}

Increasing(s) == \A i, j \in 1..Len(s) : i < j => s[i] < s[j]

\* A publisher has yet to offer the current board to w.
Due(w) == \E p \in Publishers : w \in sending[p].todo

\* Owed(w) without the publishers.
Waiting(w) ==
  {b \in from[w]..board : b > hand[w] /\ b \notin missed[w] /\ (b = board => ~Due(w))}

\* The inductive form of NothingLostButOverflow: a board that is due has neither
\* been received nor missed.
Lossless(w) ==
  w \in Subscribed =>
    /\ from[w] <= board /\ hand[w] <= board
    /\ \A b \in missed[w] : b <= board
    /\ Due(w) => hand[w] < board /\ board \notin missed[w]
    /\ Contents(chan[w]) = Waiting(w) \ {0}
    /\ Increasing(chan[w])

\* A channel that gets a board newer than all it holds.
LEMMA AppendNewer ==
  ASSUME NEW s \in Seq(Nat), NEW n \in Nat, Increasing(s), \A b \in Contents(s) : b < n
  PROVE  /\ Contents(Append(s, n)) = Contents(s) \cup {n}
         /\ Increasing(Append(s, n))
<1> DEFINE t == Append(s, n)
<1>1. /\ Len(t) = Len(s) + 1 /\ Len(s) \in Nat
      /\ \A i \in 1..Len(s) : t[i] = s[i]
      /\ t[Len(s) + 1] = n
  BY AppendProperties, LenProperties
<1>2. \A i \in 1..Len(t) : i \in 1..Len(s) \/ i = Len(s) + 1
  BY <1>1
<1>3. 1..Len(s) \subseteq 1..Len(t) /\ Len(s) + 1 \in 1..Len(t)
  BY <1>1
<1> HIDE DEF t
<1>4. Contents(t) = Contents(s) \cup {n}
  BY <1>1, <1>2, <1>3 DEF Contents
<1>5. ASSUME NEW i \in 1..Len(t), NEW j \in 1..Len(t), i < j PROVE t[i] < t[j]
  <2>1. i \in 1..Len(s)
    BY <1>1, <1>5
  <2>2. CASE j \in 1..Len(s)
    BY <1>1, <1>5, <2>1, <2>2 DEF Increasing
  <2>3. CASE j = Len(s) + 1
    BY <1>1, <2>1, <2>3 DEF Contents
  <2> QED
    BY <1>2, <2>2, <2>3
<1> QED
  BY <1>4, <1>5 DEF Increasing, t

\* A channel that gives away its oldest board keeps the newer ones.
LEMMA TailNewer ==
  ASSUME NEW s \in Seq(Nat), s # <<>>, Increasing(s)
  PROVE  /\ Head(s) \in Contents(s)
         /\ Contents(Tail(s)) = {b \in Contents(s) : b > Head(s)}
         /\ Increasing(Tail(s))
<1> DEFINE n == Len(s)  t == Tail(s)
<1>1. /\ Head(s) = s[1] /\ n \in Nat /\ n >= 1 /\ Len(t) = n - 1
      /\ \A i \in 1..Len(t) : t[i] = s[i + 1]
      /\ \A i \in 1..n : s[i] \in Nat
  BY HeadTailProperties, LenProperties, ElementOfSeq
<1>2. 1 \in 1..n /\ \A i \in 1..Len(t) : i + 1 \in 1..n /\ 1 < i + 1
  BY <1>1
<1>3. \A i \in 1..n : i # 1 => i - 1 \in 1..Len(t) /\ (i - 1) + 1 = i
  BY <1>1
<1> HIDE DEF n, t
<1>4. \A i, j \in 1..n : i < j => s[i] < s[j]
  BY DEF Increasing, n
<1>5. Contents(t) \subseteq {b \in Contents(s) : b > Head(s)}
  <2> SUFFICES ASSUME NEW i \in 1..Len(t)
               PROVE  t[i] \in Contents(s) /\ t[i] > Head(s)
    BY DEF Contents
  <2>1. t[i] = s[i + 1] /\ i + 1 \in 1..n
    BY <1>1, <1>2
  <2>2. s[1] < s[i + 1]
    BY <1>2, <1>4
  <2> QED
    BY <1>1, <1>2, <2>1, <2>2 DEF Contents, n
<1>6. {b \in Contents(s) : b > Head(s)} \subseteq Contents(t)
  <2> SUFFICES ASSUME NEW i \in 1..n, s[i] > Head(s) PROVE s[i] \in Contents(t)
    BY DEF Contents, n
  <2>1. i # 1
    BY <1>1, <1>2
  <2>2. i - 1 \in 1..Len(t) /\ t[i - 1] = s[i]
    BY <1>1, <1>3, <2>1
  <2> QED
    BY <2>2 DEF Contents
<1>7. ASSUME NEW i \in 1..Len(t), NEW j \in 1..Len(t), i < j PROVE t[i] < t[j]
  <2>1. i + 1 < j + 1 /\ i + 1 \in 1..n /\ j + 1 \in 1..n
    BY <1>1, <1>2, <1>7
  <2> QED
    BY <1>1, <1>4, <2>1
<1>8. Head(s) \in Contents(s)
  BY <1>1, <1>2 DEF Contents, n
<1> QED
  BY <1>5, <1>6, <1>7, <1>8 DEF Increasing, t

-----------------------------------------------------------------------------
(* What is lost, step by step *)

\* Who is sending is sending the current board, so Waiting is what is owed.
LEMMA OwedIsWaiting ==
  IInv => \A w \in Watchers : Owed(w) = Waiting(w)
BY DEF IInv, Locked, Owed, Waiting, Due, TypeOK

\* Nothing is due while the lock is free.
LEMMA FreeMeansSent ==
  IInv /\ mu = Nobody => \A w \in Watchers : ~Due(w)
BY BroadcastAssumption DEF IInv, Locked, Due

\* A step that leaves the subscription of w and the publishers alone.
LEMMA SameLoss ==
  ASSUME NEW w \in Watchers, Lossless(w),
         pc'[w] = "off" <=> pc[w] = "off",
         board' = board, sending' = sending, chan'[w] = chan[w], hand'[w] = hand[w],
         from'[w] = from[w], missed'[w] = missed[w]
  PROVE  Lossless(w)'
BY DEF Lossless, Subscribed, Waiting, Due

\* A new board is due to every subscriber.
LEMMA StoreLoss ==
  ASSUME IInv, NEW p \in Publishers, Store(p), NEW v \in Watchers, Lossless(v)
  PROVE  Lossless(v)'
<1> SUFFICES ASSUME v \in Subscribed PROVE Lossless(v)'
  BY DEF Store, Lossless, Subscribed
<1>1. /\ board' = board + 1 /\ UNCHANGED <<pc, chan, hand, from, missed>>
      /\ board \in Nat /\ from[v] \in Nat /\ hand[v] \in Nat /\ missed[v] \subseteq Nat
  BY DEF Store, history, IInv, TypeOK
<1>2. ~Due(v)
  BY FreeMeansSent DEF Store
<1>3. Due(v)'
  BY DEF Store, Due, IInv, TypeOK
<1>4. Waiting(v)' = Waiting(v)
  BY <1>1, <1>2, <1>3 DEF Waiting, Lossless
<1> QED
  BY <1>1, <1>2, <1>3, <1>4 DEF Lossless, Subscribed

\* A send puts the board that was due into the channel or counts it as missed.
LEMMA SendLoss ==
  ASSUME IInv, NEW p \in Publishers, NEW w \in Watchers, Send(p, w),
         NEW v \in Watchers, Lossless(v)
  PROVE  Lossless(v)'
<1> USE DEF IInv, TypeOK
<1>1. /\ UNCHANGED <<board, pc, hand, from>> /\ mu = p
      /\ w \in sending[p].todo /\ sending[p].board = board
      /\ \A q \in Publishers : sending[q].todo # {} => q = p
  BY DEF Send, Locked
<1>2. \A q \in Publishers : sending'[q].todo = IF q = p THEN sending[p].todo \ {w}
                                                         ELSE sending[q].todo
  BY DEF Send
<1>3. CASE v # w
  <2>1. Due(v)' <=> Due(v)
    BY <1>2, <1>3 DEF Due
  <2>2. chan'[v] = chan[v] /\ missed'[v] = missed[v]
    BY <1>3 DEF Send
  <2> QED
    BY <1>1, <2>1, <2>2 DEF Lossless, Subscribed, Waiting
<1>4. CASE v = w
  <2>1. Due(v) /\ ~Due(v)'
    BY <1>1, <1>2, <1>4 DEF Due
  <2>2. v \in Subscribed
    BY <1>1, <1>4 DEF SendsToOpenChannels
  <2>3. /\ from[v] <= board /\ hand[v] < board /\ board \notin missed[v]
        /\ Contents(chan[v]) = Waiting(v) \ {0} /\ Increasing(chan[v])
        /\ \A b \in missed[v] : b <= board
        /\ board \in Nat /\ from[v] \in Nat /\ hand[v] \in Nat /\ missed[v] \subseteq Nat
    BY <2>1, <2>2 DEF Lossless
  <2>4. \A b \in Contents(chan[v]) : b < board
    BY <2>1, <2>3 DEF Waiting
  <2>5. CASE Room(v)
    <3>1. chan'[v] = Append(chan[v], board) /\ missed'[v] = missed[v]
      BY <1>1, <1>4, <2>5 DEF Send, Offered
    <3>2. Waiting(v)' = Waiting(v) \cup {board}
      BY <1>1, <2>1, <2>3, <3>1 DEF Waiting
    <3>3. /\ Contents(chan'[v]) = Contents(chan[v]) \cup {board}
          /\ Increasing(chan'[v])
      BY <2>3, <2>4, <3>1, AppendNewer
    <3> QED
      BY <1>1, <2>1, <2>3, <3>1, <3>2, <3>3 DEF Lossless, Subscribed
  <2>6. CASE ~Room(v)
    <3>1. chan'[v] = chan[v] /\ missed'[v] = missed[v] \cup {board}
      BY <1>1, <1>4, <2>6 DEF Send, Offered
    <3>2. Waiting(v)' = Waiting(v)
      BY <1>1, <2>1, <2>3, <3>1 DEF Waiting
    <3> QED
      BY <1>1, <2>1, <2>3, <3>1, <3>2 DEF Lossless, Subscribed
  <2> QED
    BY <2>5, <2>6
<1> QED
  BY <1>3, <1>4

\* The oldest board of the channel becomes the one received last.
LEMMA ReceiveLoss ==
  ASSUME IInv, NEW w \in Watchers, Receive(w), NEW v \in Watchers, Lossless(v)
  PROVE  Lossless(v)'
<1> USE DEF IInv, TypeOK
<1>1. UNCHANGED <<board, sending, from, missed>>
  BY DEF Receive, store, history
<1>2. CASE v # w
  BY <1>1, <1>2, SameLoss DEF Receive
<1>3. CASE v = w
  <2>1. /\ v \in Subscribed /\ v \in Subscribed'
        /\ hand'[v] = Head(chan[v]) /\ chan'[v] = Tail(chan[v])
        /\ chan[v] \in Seq(Nat) /\ chan[v] # <<>> /\ Increasing(chan[v])
    BY <1>3 DEF Receive, Lossless, Subscribed
  <2>2. /\ Head(chan[v]) \in Contents(chan[v])
        /\ Contents(chan'[v]) = {b \in Contents(chan[v]) : b > Head(chan[v])}
        /\ Increasing(chan'[v])
    BY <2>1, TailNewer
  <2>3. /\ Contents(chan[v]) = Waiting(v) \ {0}
        /\ board \in Nat /\ from[v] \in Nat /\ hand[v] \in Nat
    BY <2>1 DEF Lossless
  <2>4. Due(v)' <=> Due(v)
    BY <1>1 DEF Due
  <2>5. /\ hand'[v] \in Nat /\ hand'[v] > hand[v] /\ hand'[v] <= board
        /\ Due(v) => hand'[v] < board
    BY <2>1, <2>2, <2>3 DEF Waiting
  <2>6. Waiting(v)' = {b \in Waiting(v) : b > hand'[v]}
    BY <1>1, <2>3, <2>4, <2>5 DEF Waiting
  <2>7. Contents(chan'[v]) = Waiting(v)' \ {0}
    BY <2>1, <2>2, <2>3, <2>6
  <2> QED
    BY <1>1, <2>1, <2>2, <2>4, <2>5, <2>7 DEF Lossless
<1> QED
  BY <1>2, <1>3

\* A subscription begins with the current board.
LEMMA ConnectLoss ==
  ASSUME IInv, NEW w \in Watchers, Connect(w), NEW v \in Watchers, Lossless(v)
  PROVE  Lossless(v)'
<1> USE DEF IInv, TypeOK
<1>1. CASE v # w
  BY <1>1, SameLoss DEF Connect, store
<1>2. CASE v = w
  <2>1. /\ chan'[v] = Primed /\ hand'[v] = 0 /\ from'[v] = board /\ missed'[v] = {}
        /\ board' = board /\ sending' = sending /\ mu = Nobody /\ board \in Nat
    BY <1>2 DEF Connect, store
  <2>2. ~Due(v)'
    BY <2>1, FreeMeansSent DEF Due
  <2>3. Waiting(v)' \ {0} = {board} \ {0}
    BY <2>1, <2>2 DEF Waiting
  <2>4. Contents(chan'[v]) = {board} \ {0} /\ Increasing(chan'[v])
    BY <2>1 DEF Primed, Contents, Increasing
  <2> QED
    BY <2>1, <2>2, <2>3, <2>4 DEF Lossless
<1> QED
  BY <1>1, <1>2

\* Every step accounts for every board.
LEMMA LossStep ==
  ASSUME IInv, [Next]_vars, NEW v \in Watchers, Lossless(v)
  PROVE  Lossless(v)'
<1>1. ASSUME NEW p \in Publishers, Unlock(p) PROVE Lossless(v)'
  <2>1. Due(v)' <=> Due(v)
    BY <1>1 DEF Unlock, Due, IInv, TypeOK
  <2> QED
    BY <1>1, <2>1 DEF Unlock, history, Lossless, Subscribed, Waiting
<1>2. ASSUME NEW w \in Watchers, Write(w) \/ Leave(w) \/ Disconnect(w)
      PROVE Lossless(v)'
  BY <1>2, SameLoss DEF Write, Leave, Disconnect, store, history, IInv, TypeOK
<1>3. ASSUME NEW w \in Watchers, Unsubscribe(w) PROVE Lossless(v)'
  <2>1. CASE v # w
    BY <1>3, <2>1, SameLoss DEF Unsubscribe, store, history, IInv, TypeOK
  <2>2. CASE v = w
    BY <1>3, <2>2 DEF Unsubscribe, Lossless, Subscribed, IInv, TypeOK
  <2> QED
    BY <2>1, <2>2
<1>4. CASE UNCHANGED vars
  BY <1>4, SameLoss DEF vars
<1> QED
  BY <1>1, <1>2, <1>3, <1>4, StoreLoss, SendLoss, ReceiveLoss, ConnectLoss
  DEF Next, Publish, Stream

\* For any capacity and any number of publishers and pages, a page loses a board
\* only to a full channel: what its handler has not yet received is in the
\* channel, once and in order.
THEOREM NothingLost == Spec => []NothingLostButOverflow
<1> DEFINE Kept == IInv /\ \A w \in Watchers : Lossless(w)
<1>1. Init => Kept
  <2>1. Init => \A w \in Watchers : Lossless(w)
    BY DEF Init, Lossless, Subscribed
  <2> QED
    BY <2>1, InitIInv
<1>2. Kept /\ [Next]_vars => Kept'
  <2> SUFFICES ASSUME Kept, [Next]_vars PROVE Kept'
    OBVIOUS
  <2>1. \A w \in Watchers : Lossless(w)'
    BY LossStep
  <2>2. IInv'
    BY TypeStep, SendStep, OrderStep DEF IInv
  <2> QED
    BY <2>1, <2>2
<1>3. Kept => NothingLostButOverflow
  BY OwedIsWaiting DEF Lossless, NothingLostButOverflow, Contents, Increasing, Subscribed
<1> QED
  BY <1>1, <1>2, <1>3, PTL DEF Spec
=============================================================================
