---------------------------- MODULE ClientProofs ----------------------------
(***************************************************************************)
(* Identical calls collapse into one flight and no slot of the gate is lost *)
(* or given back twice, for any number of goroutines, keys, slots and       *)
(* retries.  The invariant adds to both that the flight of a leading call   *)
(* is in the map until the call removes it.  No open circuit is stormed, and *)
(* a fresh call gets an answer that nobody was given before it began.       *)
(***************************************************************************)
EXTENDS ClientProps, FiniteSetTheorems, TLAPS

\* A call that leads a flight finds it in the map.
InMap == \A c \in Callers : Leads(c) => flight[callers[c].key].busy

Holders == {c \in Callers : callers[c].pc \in {"space", "wire"}}

IInv == TypeOK /\ OneFlightPerKey /\ InMap /\ SlotsAccounted

\* Goroutine c is now at pc; no other has moved, and none has changed its key.
Moved(c, pc) ==
  /\ callers' \in [Callers -> Caller]
  /\ callers'[c].pc = pc
  /\ \A d \in Callers : d # c => callers'[d].pc = callers[d].pc
  /\ \A d \in Callers : callers'[d].key = callers[d].key

-----------------------------------------------------------------------------

\* A goroutine without a call has its type.
LEMMA IdleType == Idle \in Caller
BY ClientAssumption DEF Idle, Caller, Points, Results

\* A search is for a key, and must be fresh or need not.
LEMMA AskTypes == ASSUME NEW a \in Asks PROVE a[1] \in Keys /\ a[2] \in BOOLEAN
BY ClientAssumption

\* Goto moves one goroutine.
LEMMA GotoMoves ==
  ASSUME TypeOK, NEW c \in Callers, NEW pc \in Points, Goto(c, pc)
  PROVE  Moved(c, pc)
<1>1. [callers[c] EXCEPT !.pc = pc] \in Caller
  BY DEF TypeOK, Caller
<1>2. callers' = [callers EXCEPT ![c] = [callers[c] EXCEPT !.pc = pc]]
  BY DEF Goto, TypeOK
<1> QED
  BY <1>1, <1>2 DEF Moved, TypeOK, Caller

\* With moves one goroutine, which now has its result.
LEMMA WithMoves ==
  ASSUME TypeOK, NEW c \in Callers, NEW pc \in Points, NEW res \in Results,
         NEW req \in Nat, With(c, pc, res, req)
  PROVE  Moved(c, pc)
<1> DEFINE r == [callers[c] EXCEPT !.pc = pc, !.res = res, !.req = req]
<1>1. r \in Caller /\ r.pc = pc /\ r.key = callers[c].key
  BY DEF TypeOK, Caller
<1>2. callers' = [callers EXCEPT ![c] = r]
  BY DEF With, TypeOK
<1> QED
  BY <1>1, <1>2 DEF Moved, TypeOK, Caller

\* The end of a context moves one goroutine.
LEMMA QuitMoves ==
  ASSUME TypeOK, NEW c \in Callers, NEW pc \in Points, Quit(c, pc)
  PROVE  Moved(c, pc)
BY WithMoves DEF Quit, Results

\* Closing the done channel moves the leader; its followers only get a result.
LEMMA CloseMoves ==
  ASSUME TypeOK, NEW c \in Callers, Close(c)
  PROVE  Moved(c, "delete")
<1> DEFINE gets(d) == [callers[d] EXCEPT !.res = callers[c].res, !.req = callers[c].req]
           goes    == [callers[c] EXCEPT !.pc = "delete"]
<1>1. goes \in Caller /\ goes.pc = "delete" /\ goes.key = callers[c].key
  BY DEF TypeOK, Caller, Points
<1>2. \A d \in Callers : /\ gets(d) \in Caller
                         /\ gets(d).pc = callers[d].pc /\ gets(d).key = callers[d].key
  BY DEF TypeOK, Caller
<1>3. callers'[c] = goes
  BY DEF Close, Landed
<1>4. \A d \in Callers : d # c => callers'[d] = gets(d) \/ callers'[d] = callers[d]
  BY DEF Close, Landed
<1>5. callers' \in [Callers -> Caller]
  <2>1. \A d \in Callers : callers'[d] \in Caller
    BY <1>1, <1>2, <1>3, <1>4 DEF TypeOK
  <2>2. DOMAIN callers' = Callers /\ callers' = [d \in Callers |-> callers'[d]]
    BY DEF Close, Landed
  <2> QED
    BY <2>1, <2>2
<1> QED
  BY <1>1, <1>2, <1>3, <1>4, <1>5 DEF Moved

\* A failed request goes to a backoff or ends the retries.
LEMMA FailureMoves ==
  ASSUME TypeOK, NEW c \in Callers, ReportFailure(c)
  PROVE  Moved(c, "backoff") \/ Moved(c, "close")
<1>1. CASE callers[c].tries < Retries
  <2> DEFINE n == callers[c].tries + 1
             r == [callers[c] EXCEPT !.pc = "backoff", !.res = "none", !.tries = n]
  <2>0. n \in 0..Retries
    BY <1>1, ClientAssumption DEF TypeOK, Caller
  <2>1. r \in Caller /\ r.pc = "backoff" /\ r.key = callers[c].key
    BY <2>0 DEF TypeOK, Caller, Points, Results
  <2>2. callers' = [callers EXCEPT ![c] = r]
    BY <1>1 DEF ReportFailure, TypeOK
  <2> QED
    BY <2>1, <2>2 DEF Moved, TypeOK, Caller
<1>2. CASE ~(callers[c].tries < Retries)
  BY <1>2, WithMoves DEF ReportFailure, Points, Results
<1> QED
  BY <1>1, <1>2

-----------------------------------------------------------------------------

\* A request on its way holds a slot; without it one slot less is in use.
LEMMA SlotHeld ==
  ASSUME IInv, NEW c \in Callers, At(c, "space") \/ At(c, "wire")
  PROVE  slots \in 1..Slots /\ Cardinality(Holders \ {c}) = slots - 1
<1>1. IsFiniteSet(Holders) /\ c \in Holders
  BY ClientAssumption, FS_Subset DEF Holders, At
<1>2. Cardinality(Holders \ {c}) = Cardinality(Holders) - 1
  BY <1>1, FS_RemoveElement
<1>3. Cardinality(Holders) \in Nat /\ Cardinality(Holders) # 0
  BY <1>1, FS_CardinalityType, FS_EmptySet
<1> QED
  BY <1>2, <1>3, ClientAssumption DEF IInv, TypeOK, SlotsAccounted, Holders

\* A slot is taken: one more is in use.
LEMMA SlotTaken ==
  ASSUME SlotsAccounted, NEW c \in Callers, c \notin Holders, Holders' = Holders \cup {c},
         slots' = slots + 1
  PROVE  SlotsAccounted'
<1>1. IsFiniteSet(Holders)
  BY ClientAssumption, FS_Subset DEF Holders
<1>2. Cardinality(Holders \cup {c}) = Cardinality(Holders) + 1
  BY <1>1, FS_AddElement
<1> QED
  BY <1>2 DEF SlotsAccounted, Holders

\* A goroutine that neither takes nor gives back a slot leaves them as they are.
LEMMA SlotsSame ==
  ASSUME SlotsAccounted, NEW c \in Callers, NEW pc, slots' = slots, Moved(c, pc),
         pc \in {"space", "wire"} <=> callers[c].pc \in {"space", "wire"}
  PROVE  SlotsAccounted'
<1>1. Holders' = Holders
  BY DEF Holders, Moved
<1> QED
  BY <1>1 DEF SlotsAccounted, Holders

\* A goroutine that ends its request gives back the slot it holds.
LEMMA SlotBack ==
  ASSUME IInv, NEW c \in Callers, NEW pc \in Points \ {"space", "wire"}, Moved(c, pc),
         At(c, "space") \/ At(c, "wire"), slots' = slots - 1
  PROVE  SlotsAccounted' /\ slots' \in 0..Slots
<1>1. Holders' = Holders \ {c}
  BY DEF Holders, Moved
<1>2. slots \in 1..Slots /\ Cardinality(Holders \ {c}) = slots - 1
  BY SlotHeld
<1>3. slots' = Cardinality(Holders')
  BY <1>1, <1>2
<1>4. slots' \in 0..Slots
  BY <1>2, ClientAssumption
<1> QED
  BY <1>3, <1>4 DEF SlotsAccounted, Holders

\* The points at which a call leads a flight.
Leading == {"allow", "gate", "space", "wire", "report", "backoff", "close", "delete"}

\* While the map is left alone and a goroutine leads only if it led before, no
\* second flight for a key begins.
LEMMA FlightsSame ==
  ASSUME OneFlightPerKey, InMap, NEW c \in Callers, NEW pc, Moved(c, pc),
         pc \in Leading => Leads(c),
         \A k \in Keys : flight[k].busy => flight'[k].busy, TypeOK
  PROVE  OneFlightPerKey' /\ InMap'
<1>1. \A d \in Callers : Leads(d)' => Leads(d)
  BY DEF Leads, Leading, Moved
<1>2. \A d \in Callers : callers'[d].key = callers[d].key /\ callers[d].key \in Keys
  BY DEF Moved, TypeOK, Caller
<1> QED
  BY <1>1, <1>2 DEF OneFlightPerKey, InMap

\* The invariant as one step of goroutine c must establish it.
Kept == TypeOK' /\ OneFlightPerKey' /\ InMap' /\ SlotsAccounted'

\* A call that finds no flight leads one: nobody else leads one for its key.
LEMMA LeadStep == ASSUME IInv, NEW c \in Callers, Lead(c) PROVE Kept
<1> USE DEF IInv
<1>1. Moved(c, "allow")
  BY GotoMoves DEF Lead, Points
<1>2. callers[c].key \in Keys
  BY DEF TypeOK, Caller
<1>3. flight' \in [Keys -> [busy : BOOLEAN, res : Results, req : Nat]]
  BY DEF Lead, TypeOK, NoFlight, Results
<1>4. TypeOK'
  BY <1>1, <1>3 DEF Lead, TypeOK, Moved, gate, breaker, history
<1>5. SlotsAccounted'
  BY <1>1, SlotsSame DEF Lead, gate, At
<1>6. \A d \in Callers : Leads(d) => callers[d].key # callers[c].key
  BY DEF InMap, Lead, Grounded
<1>7. \A d \in Callers : d # c => (Leads(d)' <=> Leads(d)) /\ callers'[d].key = callers[d].key
  BY <1>1 DEF Moved, Leads
<1>8. OneFlightPerKey'
  BY <1>1, <1>6, <1>7 DEF OneFlightPerKey, Moved
<1>9. InMap'
  <2>1. flight'[callers[c].key].busy
    BY <1>2 DEF Lead, TypeOK
  <2>2. \A d \in Callers : Leads(d) => flight'[callers[d].key].busy
    BY <1>2, <1>6 DEF Lead, InMap, TypeOK, Caller
  <2> QED
    BY <1>1, <1>7, <2>1, <2>2 DEF InMap, Moved
<1> QED
  BY <1>4, <1>5, <1>8, <1>9 DEF Kept

\* The leader removes its flight, which is no one else's.
LEMMA DeleteStep == ASSUME IInv, NEW c \in Callers, Delete(c) PROVE Kept
<1> USE DEF IInv
<1>1. PICK pc \in {"save", "done"} : Moved(c, pc)
  BY GotoMoves DEF Delete, Points
<1>2. flight' \in [Keys -> [busy : BOOLEAN, res : Results, req : Nat]]
  BY DEF Delete, TypeOK, NoFlight, Results
<1>4. TypeOK'
  BY <1>1, <1>2 DEF Delete, TypeOK, Moved, gate, breaker, history
<1>5. SlotsAccounted'
  BY <1>1, SlotsSame DEF Delete, gate, At
<1>6. \A d \in Callers : Leads(d)' => Leads(d) /\ d # c
  BY <1>1 DEF Moved, Leads
<1>7. \A d \in Callers : callers'[d].key = callers[d].key
  BY <1>1 DEF Moved
<1>8. OneFlightPerKey'
  BY <1>6, <1>7 DEF OneFlightPerKey
<1>9. \A d \in Callers : Leads(d) /\ d # c => callers[d].key # callers[c].key
  BY DEF OneFlightPerKey, Leads, Delete, At
<1>10. InMap'
  BY <1>6, <1>7, <1>9 DEF InMap, Delete, TypeOK, Caller
<1> QED
  BY <1>4, <1>5, <1>8, <1>10 DEF Kept

\* The leader wakes its followers; the flight stays in the map.
LEMMA CloseStep == ASSUME IInv, NEW c \in Callers, Close(c) PROVE Kept
<1> USE DEF IInv
<1>1. Moved(c, "delete")
  BY CloseMoves
<1>2. flight' \in [Keys -> [busy : BOOLEAN, res : Results, req : Nat]]
  BY DEF Close, TypeOK, Caller
<1>3. \A k \in Keys : flight[k].busy => flight'[k].busy
  BY DEF Close, TypeOK
<1>4. TypeOK'
  BY <1>1, <1>2 DEF Close, TypeOK, Moved, gate, breaker, history
<1>5. SlotsAccounted'
  BY <1>1, SlotsSame DEF Close, gate, At
<1>6. Leads(c)
  BY DEF Close, At, Leads
<1> QED
  BY <1>1, <1>3, <1>4, <1>5, <1>6, FlightsSame DEF Kept

\* A step at the gate or on the wire moves the goroutine and counts its slot.
LEMMA GateStep ==
  ASSUME IInv, NEW c \in Callers,
         Gate(c) \/ Send(c) \/ SpaceQuit(c) \/ Answer(c) \/ Cancelled(c)
  PROVE  Kept
<1> USE DEF IInv
<1>0. slots' \in 0..Slots /\ SlotsAccounted' /\ \E pc \in Leading : Moved(c, pc)
  <2>1. CASE Gate(c) /\ slots < Slots /\ slots' = slots + 1 /\ Goto(c, "space")
    <3>1. Moved(c, "space")
      BY <2>1, GotoMoves DEF Points
    <3>2. c \notin Holders /\ Holders' = Holders \cup {c}
      BY <2>1, <3>1 DEF Holders, Moved, Gate, At
    <3> QED
      BY <2>1, <3>1, <3>2, SlotTaken, ClientAssumption DEF TypeOK, Leading
  <2>2. CASE Gate(c) /\ Quit(c, "close") /\ UNCHANGED slots
    <3>1. Moved(c, "close")
      BY <2>2, QuitMoves DEF Points
    <3> QED
      BY <2>2, <3>1, SlotsSame DEF Gate, At, TypeOK, Leading
  <2>3. CASE Send(c)
    <3>1. Moved(c, "wire")
      BY <2>3, GotoMoves DEF Send, Points
    <3> QED
      BY <2>3, <3>1, SlotsSame DEF Send, At, TypeOK, Leading, gate
  <2>4. CASE SpaceQuit(c) \/ Cancelled(c)
    <3>1. Moved(c, "close") /\ slots' = slots - 1
      BY <2>4, QuitMoves DEF SpaceQuit, Cancelled, Points
    <3> QED
      BY <2>4, <3>1, SlotBack DEF SpaceQuit, Cancelled, Points, Leading
  <2>5. CASE Answer(c)
    <3>1. PICK pc \in {"report", "close"} : Moved(c, pc)
      BY <2>5, WithMoves DEF Answer, Points, Results, TypeOK, Caller
    <3>2. slots' = slots - 1
      BY <2>5 DEF Answer
    <3> QED
      BY <2>5, <3>1, <3>2, SlotBack DEF Answer, Points, Leading
  <2> QED
    BY <2>1, <2>2, <2>3, <2>4, <2>5 DEF Gate
<1>1. PICK pc \in Leading : Moved(c, pc)
  BY <1>0
<1>2. Leads(c)
  BY DEF Leads, Gate, Send, SpaceQuit, Answer, Cancelled, At
<1>3. /\ UNCHANGED <<flight, cache, fails, open, begun, returned>>
      /\ answered' \in Nat /\ storm' \in [Callers -> Nat]
  BY DEF Gate, Send, SpaceQuit, Answer, Cancelled, TypeOK, gate, breaker, history
<1>4. TypeOK'
  BY <1>0, <1>1, <1>3 DEF TypeOK, Moved
<1>5. OneFlightPerKey' /\ InMap'
  BY <1>1, <1>2, <1>3, FlightsSame
<1> QED
  BY <1>0, <1>4, <1>5 DEF Kept

\* The other steps of a call touch neither the gate nor the map of flights.
LEMMA OtherStep ==
  ASSUME IInv, NEW c \in Callers,
         \/ Follow(c) \/ FollowEnds(c) \/ Allow(c) \/ ReportSuccess(c)
         \/ ReportFailure(c) \/ Backoff(c) \/ Save(c)
  PROVE  Kept
<1> USE DEF IInv
<1>1. PICK pc \in {"follow", "done", "close", "gate", "allow", "backoff"} : Moved(c, pc)
  <2>1. CASE Follow(c)
    BY <2>1, WithMoves DEF Follow, Points, TypeOK, Caller
  <2>2. CASE FollowEnds(c) \/ Backoff(c)
    BY <2>2, GotoMoves, QuitMoves DEF FollowEnds, Backoff, Again, Points
  <2>3. CASE Allow(c)
    BY <2>3, GotoMoves, WithMoves DEF Allow, Points, Results
  <2>4. CASE ReportSuccess(c) \/ Save(c)
    BY <2>4, GotoMoves DEF ReportSuccess, Save, Points
  <2>5. CASE ReportFailure(c)
    BY <2>5, FailureMoves
  <2> QED
    BY <2>1, <2>2, <2>3, <2>4, <2>5
<1>2. pc \in Leading => Leads(c)
  <2>1. CASE Follow(c) \/ FollowEnds(c) \/ Save(c)
    <3>1. Moved(c, "follow") \/ Moved(c, "done")
      BY <2>1, WithMoves, GotoMoves, QuitMoves
      DEF Follow, FollowEnds, Save, Points, TypeOK, Caller
    <3>2. pc \in {"follow", "done"}
      BY <1>1, <3>1 DEF Moved
    <3> QED
      BY <3>2 DEF Leading
  <2>2. CASE Allow(c) \/ ReportSuccess(c) \/ ReportFailure(c) \/ Backoff(c)
    BY <2>2 DEF Allow, ReportSuccess, ReportFailure, Backoff, At, Leads
  <2> QED
    BY <2>1, <2>2
<1>3. /\ UNCHANGED <<flight, slots, answered, begun>>
      /\ cache' \in [Keys -> Nat] /\ open' \in BOOLEAN /\ fails' \in 0..(Threshold - 1)
      /\ returned' \subseteq Nat /\ storm' \in [Callers -> Nat]
  <2>1. CASE Follow(c) \/ FollowEnds(c) \/ Allow(c) \/ Backoff(c)
    BY <2>1 DEF Follow, FollowEnds, Allow, Backoff, TypeOK, gate, breaker, history
  <2>2. CASE ReportSuccess(c)
    <3>1. 0 \in 0..(Threshold - 1)
      BY ClientAssumption
    <3> QED
      BY <2>2, <3>1 DEF ReportSuccess, TypeOK, gate, history
  <2>3. CASE ReportFailure(c)
    BY <2>3, ClientAssumption DEF ReportFailure, Trips, TypeOK, gate
  <2>4. CASE Save(c)
    <3>1. callers[c].key \in Keys /\ callers[c].req \in Nat
      BY DEF TypeOK, Caller
    <3>2. cache' \in [Keys -> Nat]
      BY <2>4, <3>1 DEF Save, TypeOK
    <3> QED
      BY <2>4, <3>2 DEF Save, TypeOK, gate, breaker, history
  <2> QED
    BY <2>1, <2>2, <2>3, <2>4
<1>4. TypeOK'
  BY <1>1, <1>3 DEF TypeOK, Moved
<1>5. SlotsAccounted'
  BY <1>1, <1>3, SlotsSame
  DEF Follow, FollowEnds, Allow, ReportSuccess, ReportFailure, Backoff, Save, At
<1>6. OneFlightPerKey' /\ InMap'
  BY <1>1, <1>2, <1>3, FlightsSame
<1> QED
  BY <1>4, <1>5, <1>6 DEF Kept

\* A goroutine that begins a call or returns from one leads no flight.
LEMMA EdgeStep ==
  ASSUME IInv, NEW c \in Callers,
         Return(c) \/ \E k \in Keys, fresh \in BOOLEAN : Begin(c, k, fresh)
  PROVE  Kept
<1> USE DEF IInv
<1>1. PICK r \in Caller :
        /\ r.pc \in {"idle", "done", "join"}
        /\ callers' = [callers EXCEPT ![c] = r]
  <2>1. CASE Return(c)
    BY <2>1, IdleType DEF Return, Idle
  <2>2. ASSUME NEW k \in Keys, NEW fresh \in BOOLEAN, Begin(c, k, fresh)
        PROVE  \E r \in Caller : /\ r.pc \in {"idle", "done", "join"}
                                 /\ callers' = [callers EXCEPT ![c] = r]
    <3> DEFINE r == [Idle EXCEPT !.pc  = IF Hit(k, fresh) THEN "done" ELSE "join",
                                 !.res = IF Hit(k, fresh) THEN "ok" ELSE "none",
                                 !.req = IF Hit(k, fresh) THEN cache[k] ELSE 0,
                                 !.key = k, !.fresh = fresh,
                                 !.old = IF fresh THEN returned \ {flight[k].req} ELSE {}]
    <3>1. cache[k] \in Nat /\ returned \subseteq Nat
      BY DEF TypeOK
    <3>2. r \in Caller /\ r.pc \in {"done", "join"}
      BY <3>1, IdleType DEF Idle, Caller, Points, Results
    <3> QED
      BY <2>2, <3>2 DEF Begin
  <2> QED
    BY <2>1, <2>2
<1>2. /\ UNCHANGED <<flight, cache, slots, answered, fails, open, storm>>
      /\ begun' \in 0..MaxCalls /\ returned' \subseteq Nat
  <2>1. CASE Return(c)
    BY <2>1 DEF Return, TypeOK, Caller, gate, breaker
  <2>2. ASSUME NEW k \in Keys, NEW fresh \in BOOLEAN, Begin(c, k, fresh)
        PROVE  /\ UNCHANGED <<flight, cache, slots, answered, fails, open, storm>>
               /\ begun' \in 0..MaxCalls /\ returned' \subseteq Nat
    <3>1. begun' = begun + 1 /\ begun < MaxCalls /\ begun \in 0..MaxCalls
      BY <2>2 DEF Begin, TypeOK
    <3>2. begun' \in 0..MaxCalls
      BY <3>1, ClientAssumption
    <3> QED
      BY <2>2, <3>2 DEF Begin, TypeOK, gate, breaker, history
  <2> QED
    BY <2>1, <2>2
<1>3. callers[c].pc \in {"idle", "done"}
  BY DEF Return, Begin, At
<1>4. TypeOK'
  BY <1>1, <1>2 DEF TypeOK
<1>5. \A d \in Callers : d # c => callers'[d] = callers[d]
  BY <1>1 DEF TypeOK
<1>6. callers'[c].pc \in {"idle", "done", "join"}
  BY <1>1 DEF TypeOK
<1>7. SlotsAccounted'
  <2>1. Holders' = Holders
    BY <1>3, <1>5, <1>6 DEF Holders
  <2> QED
    BY <1>2, <2>1 DEF SlotsAccounted, Holders
<1>8. \A d \in Callers : Leads(d)' => Leads(d) /\ d # c
  BY <1>5, <1>6 DEF Leads
<1>9. OneFlightPerKey' /\ InMap'
  BY <1>2, <1>5, <1>8 DEF OneFlightPerKey, InMap
<1> QED
  BY <1>4, <1>7, <1>9 DEF Kept

\* Time and contexts disturb neither flights nor slots.
LEMMA EnvironmentStep ==
  ASSUME IInv,
         (\E c \in Callers : EndContext(c)) \/ (\E k \in Keys : Expire(k)) \/ CoolDown
           \/ UNCHANGED vars
  PROVE  Kept
<1> USE DEF IInv
<1>1. ASSUME NEW c \in Callers, EndContext(c) PROVE Kept
  <2> DEFINE r == [callers[c] EXCEPT !.alive = FALSE]
  <2>1. r \in Caller /\ r.pc = callers[c].pc /\ r.key = callers[c].key
    BY DEF TypeOK, Caller
  <2>2. callers' = [callers EXCEPT ![c] = r]
    BY <1>1 DEF EndContext, TypeOK
  <2>3. Moved(c, callers[c].pc)
    BY <2>1, <2>2 DEF Moved, TypeOK, Caller
  <2>4. TypeOK'
    BY <1>1, <2>3 DEF EndContext, TypeOK, Moved, gate, breaker, history
  <2>5. SlotsAccounted'
    BY <1>1, <2>3, SlotsSame DEF EndContext, gate
  <2>6. callers[c].pc \in Leading => Leads(c)
    BY DEF Leading, Leads
  <2>7. OneFlightPerKey' /\ InMap'
    BY <1>1, <2>3, <2>6, FlightsSame DEF EndContext
  <2> QED
    BY <2>4, <2>5, <2>7 DEF Kept
<1>2. ASSUME NEW k \in Keys, Expire(k) PROVE Kept
  BY <1>2 DEF Expire, Kept, TypeOK, OneFlightPerKey, InMap, SlotsAccounted, Leads,
     gate, breaker, history
<1>3. CASE CoolDown
  BY <1>3 DEF CoolDown, Kept, TypeOK, OneFlightPerKey, InMap, SlotsAccounted, Leads,
     gate, history
<1>4. CASE UNCHANGED vars
  BY <1>4 DEF vars, Kept, TypeOK, OneFlightPerKey, InMap, SlotsAccounted, Leads
<1> QED
  BY <1>1, <1>2, <1>3, <1>4

-----------------------------------------------------------------------------

\* The invariant holds before the first call.
LEMMA InitIInv == Init => IInv
<1> SUFFICES ASSUME Init PROVE IInv
  OBVIOUS
<1>1. callers \in [Callers -> Caller]
  BY IdleType DEF Init
<1>2. TypeOK
  <2>1. 0 \in 0..Slots /\ 0 \in 0..(Threshold - 1) /\ 0 \in 0..MaxCalls
    BY ClientAssumption
  <2>2. flight \in [Keys -> [busy : BOOLEAN, res : Results, req : Nat]]
    BY DEF Init, NoFlight, Results
  <2> QED
    BY <1>1, <2>1, <2>2 DEF Init, TypeOK
<1>3. \A c \in Callers : callers[c].pc = "idle"
  BY DEF Init, Idle
<1>4. OneFlightPerKey /\ InMap
  BY <1>3 DEF OneFlightPerKey, InMap, Leads
<1>5. {c \in Callers : callers[c].pc \in {"space", "wire"}} = {}
  BY <1>3
<1>6. SlotsAccounted
  BY <1>5, FS_EmptySet DEF SlotsAccounted, Init
<1> QED
  BY <1>2, <1>4, <1>6 DEF IInv

\* Every step keeps the invariant.
LEMMA StepIInv == IInv /\ [Next]_vars => IInv'
<1> SUFFICES ASSUME IInv, [Next]_vars PROVE Kept
  BY DEF Kept, IInv
<1>1. ASSUME NEW c \in Callers, Step(c) PROVE Kept
  BY <1>1, LeadStep, DeleteStep, CloseStep, GateStep, OtherStep, EdgeStep DEF Step
<1> QED
  BY <1>1, AskTypes, EdgeStep, EnvironmentStep DEF Next

\* The invariant holds always.
THEOREM Invariance == Spec => []IInv
BY InitIInv, StepIInv, PTL DEF Spec

\* Every variable keeps its type: the gate is never over its capacity, and the
\* count of failures stays below the threshold.
THEOREM TypeCorrect == Spec => []TypeOK
BY Invariance, PTL DEF IInv

\* Identical calls collapse into one flight, for any number of goroutines,
\* whatever fails, is retried or is cut off.
THEOREM SingleFlight == Spec => []OneFlightPerKey
BY Invariance, PTL DEF IInv

\* No outcome of a request and no end of a context loses a slot of the gate.
THEOREM NoSlotLost == Spec => []SlotsAccounted
BY Invariance, PTL DEF IInv

-----------------------------------------------------------------------------
(* The circuit *)

\* What NoRetryStorm needs to be inductive: while the circuit is open, whoever
\* has passed it and not yet sent has sent nothing since it opened.
StormInv ==
  open => \A c \in Callers : /\ storm[c] <= 1
                             /\ callers[c].pc \in {"gate", "space"} => storm[c] = 0

\* While the circuit is open nobody comes to the gate from elsewhere.
LEMMA ToTheGate ==
  ASSUME TypeOK, open, NEW c \in Callers, Step(c), NEW d \in Callers,
         callers'[d].pc \in {"gate", "space"}
  PROVE  callers[d].pc \in {"gate", "space"}
<1> DEFINE Elsewhere == Points \ {"gate", "space"}
<1>1. CASE Return(c)
  <2>1. \/ Moved(c, "idle")
        \/ d # c /\ callers'[d] = callers[d]
        \/ callers'[d] = Idle
    BY <1>1 DEF Return, TypeOK
  <2> QED
    BY <2>1 DEF Idle, Moved
<1>2. CASE Gate(c)
  <2>1. callers[c].pc = "gate" /\ \E pc \in Points : Moved(c, pc)
    BY <1>2, GotoMoves, QuitMoves DEF Gate, At, Points
  <2> QED
    BY <2>1 DEF Moved
<1>3. ASSUME NEW pc \in Elsewhere, Moved(c, pc)
      PROVE  callers[d].pc \in {"gate", "space"}
  BY <1>3 DEF Moved
<1>4. CASE Lead(c) \/ Save(c) \/ Backoff(c) \/ FollowEnds(c) \/ SpaceQuit(c) \/ Cancelled(c)
  <2>1. Moved(c, "allow") \/ Moved(c, "done") \/ Moved(c, "close")
    BY <1>4, GotoMoves, QuitMoves
    DEF Lead, Save, Backoff, Again, FollowEnds, SpaceQuit, Cancelled, Points
  <2> QED
    BY <2>1, <1>3 DEF Points
<1>5. CASE Follow(c) \/ Allow(c) \/ Send(c) \/ Answer(c)
  <2>1. Moved(c, "follow") \/ Moved(c, "close") \/ Moved(c, "wire") \/ Moved(c, "report")
    BY <1>5, GotoMoves, WithMoves DEF Follow, Allow, Send, Answer, Points, Results, TypeOK, Caller
  <2> QED
    BY <2>1, <1>3 DEF Points
<1>6. CASE ReportSuccess(c) \/ ReportFailure(c) \/ Close(c) \/ Delete(c)
  <2>1. Moved(c, "close") \/ Moved(c, "backoff") \/ Moved(c, "delete") \/ Moved(c, "save")
           \/ Moved(c, "done")
    BY <1>6, GotoMoves, FailureMoves, CloseMoves DEF ReportSuccess, Delete, Points
  <2> QED
    BY <2>1, <1>3 DEF Points
<1> QED
  BY <1>1, <1>2, <1>4, <1>5, <1>6 DEF Step

\* What the steps of a call do to the circuit and to the requests counted.
LEMMA StormSteps ==
  ASSUME TypeOK, NEW c \in Callers, Step(c), open'
  PROVE  \/ open /\ UNCHANGED storm
         \/ open /\ callers[c].pc = "space" /\ callers'[c].pc = "wire"
              /\ storm' = [storm EXCEPT ![c] = @ + 1]
         \/ storm' = [d \in Callers |-> 0]
<1>1. CASE Send(c)
  <2>1. callers'[c].pc = "wire"
    BY <1>1, GotoMoves DEF Send, Moved, Points
  <2> QED
    BY <1>1, <2>1 DEF Send, At, breaker
<1>2. CASE ReportFailure(c)
  BY <1>2 DEF ReportFailure
<1>3. CASE ReportSuccess(c)
  BY <1>3 DEF ReportSuccess
<1>4. CASE Lead(c) \/ Follow(c) \/ FollowEnds(c) \/ Allow(c) \/ Gate(c)
             \/ SpaceQuit(c) \/ Answer(c) \/ Cancelled(c) \/ Backoff(c)
             \/ Close(c) \/ Delete(c) \/ Save(c) \/ Return(c)
  BY <1>4 DEF Lead, Follow, FollowEnds, Allow, Gate, SpaceQuit, Answer, Cancelled,
     Backoff, Close, Delete, Save, Return, breaker, history
<1> QED
  BY <1>1, <1>2, <1>3, <1>4 DEF Step

\* Every step keeps the count of the requests of a storm.
LEMMA StepStorm == TypeOK /\ StormInv /\ [Next]_vars => StormInv'
<1> SUFFICES ASSUME TypeOK, StormInv, [Next]_vars, open', NEW d \in Callers
             PROVE  /\ storm'[d] <= 1
                    /\ callers'[d].pc \in {"gate", "space"} => storm'[d] = 0
  BY DEF StormInv
<1>1. ASSUME NEW c \in Callers, Step(c)
      PROVE  /\ storm'[d] <= 1
             /\ callers'[d].pc \in {"gate", "space"} => storm'[d] = 0
  <2>1. CASE open /\ UNCHANGED storm
    BY <1>1, <2>1, ToTheGate DEF StormInv
  <2>2. CASE open /\ callers[c].pc = "space" /\ callers'[c].pc = "wire"
               /\ storm' = [storm EXCEPT ![c] = @ + 1]
    <3>1. storm[c] = 0 /\ storm \in [Callers -> Nat]
      BY <2>2 DEF StormInv, TypeOK
    <3>2. CASE d = c
      BY <2>2, <3>1, <3>2
    <3>3. CASE d # c
      BY <1>1, <2>2, <3>1, <3>3, ToTheGate DEF StormInv
    <3> QED
      BY <3>2, <3>3
  <2>3. CASE storm' = [e \in Callers |-> 0]
    BY <2>3
  <2> QED
    BY <1>1, <2>1, <2>2, <2>3, StormSteps
<1>2. ASSUME NEW c \in Callers, EndContext(c)
      PROVE  /\ open /\ UNCHANGED storm
             /\ callers'[d].pc = callers[d].pc
  BY <1>2 DEF EndContext, TypeOK, Caller, breaker, history
<1>3. ASSUME NEW c \in Callers, NEW k \in Keys, NEW fresh \in BOOLEAN, Begin(c, k, fresh)
      PROVE  /\ open /\ UNCHANGED storm
             /\ callers'[d].pc \in {callers[d].pc, "join", "done"}
  BY <1>3, IdleType DEF Begin, TypeOK, Caller, breaker, history
<1>4. CASE \E k \in Keys : Expire(k)
  BY <1>4 DEF Expire, StormInv, breaker, history
<1>5. CASE CoolDown
  BY <1>5 DEF CoolDown
<1>6. CASE UNCHANGED vars
  BY <1>6 DEF vars, StormInv
<1> QED
  BY <1>1, <1>2, <1>3, <1>4, <1>5, <1>6, AskTypes DEF Next, StormInv

\* While the circuit is open no goroutine sends more than the one request for
\* which it had been let through, for any number of goroutines and retries.
THEOREM NoStorm == Spec => []NoRetryStorm
<1>1. Init => StormInv
  BY DEF Init, StormInv
<1>2. StormInv => NoRetryStorm
  BY DEF StormInv, NoRetryStorm
<1> QED
  BY <1>1, <1>2, StepStorm, TypeCorrect, PTL DEF Spec

-----------------------------------------------------------------------------
(* Fresh calls *)

\* The call of record r has been answered, and its flight has not landed.
Pending(r) == r.pc \in {"report", "close"} /\ r.res = "ok"

\* The call of record r has a payload.
Holds(r) == r.res = "ok"

\* A call holds a payload that a request has brought, and never one that had been
\* returned to somebody before the call began.
Sound(r) ==
  /\ r.old \subseteq returned
  /\ Holds(r) => r.req \in 0..answered /\ r.req \notin r.old
  /\ Pending(r) => r.req # 0 /\ r.req \notin returned
  /\ r.pc = "save" => r.res = "ok"

\* The payload of a call whose flight has not landed is nobody else's: no other
\* call holds it, no flight carries it and it is not in the cache.
OwnRequests ==
  \A c \in Callers : Pending(callers[c]) =>
    /\ \A d \in Callers : Holds(callers[d]) /\ callers[d].req = callers[c].req => c = d
    /\ \A k \in Keys : /\ flight[k].res = "ok" => flight[k].req # callers[c].req
                       /\ cache[k] # callers[c].req

\* Flights and the cache carry payloads that requests have brought.
Numbered == \A k \in Keys : /\ flight[k].res = "ok" => flight[k].req \in 0..answered
                        /\ cache[k] \in 0..answered

\* The flight that a call is about to join carries nothing that it knows as old.
JoinsNew ==
  \A c \in Callers : LET f == flight[callers[c].key]
                     IN  callers[c].pc = "join" /\ f.res = "ok" => f.req \notin callers[c].old

\* The inductive form of FreshIsLive.
FreshInv ==
  /\ returned \subseteq 0..answered
  /\ \A c \in Callers : Sound(callers[c])
  /\ OwnRequests
  /\ Numbered
  /\ JoinsNew

\* A step of one call that brings and returns nothing.
LEMMA OneSound ==
  ASSUME TypeOK, FreshInv, NEW c \in Callers, NEW r \in Caller,
         callers' = [callers EXCEPT ![c] = r], UNCHANGED <<flight, cache, answered, returned>>,
         Sound(r), Pending(r) => Pending(callers[c]) /\ r.req = callers[c].req,
         Holds(r) => \A d \in Callers \ {c} :
                       Pending(callers[d]) => r.req # callers[d].req,
         r.pc = "join" => /\ flight[r.key].res = "ok" => flight[r.key].req \notin r.old
  PROVE  FreshInv'
<1>1. callers'[c] = r /\ \A d \in Callers : d # c => callers'[d] = callers[d]
  BY DEF TypeOK
<1>2. \A d \in Callers : Sound(callers[d])'
  BY <1>1 DEF FreshInv, Sound, Pending, Holds
<1>3. OwnRequests'
  <2> SUFFICES ASSUME NEW e \in Callers, Pending(callers[e])'
               PROVE  /\ \A d \in Callers :
                           Holds(callers[d])' /\ callers'[d].req = callers'[e].req => e = d
                      /\ \A k \in Keys : /\ flight'[k].res = "ok" => flight'[k].req # callers'[e].req
                                         /\ cache'[k] # callers'[e].req
    BY DEF OwnRequests
  <2>1. Pending(callers[e]) /\ callers'[e].req = callers[e].req
    BY <1>1 DEF Pending
  <2>2. ASSUME NEW d \in Callers, Holds(callers[d])', callers'[d].req = callers'[e].req
        PROVE  e = d
    <3>1. CASE d = c
      BY <1>1, <2>1, <2>2, <3>1 DEF Holds
    <3>2. CASE d # c
      BY <1>1, <2>1, <2>2, <3>2 DEF Holds, FreshInv, OwnRequests
    <3> QED
      BY <3>1, <3>2
  <2>3. \A k \in Keys : /\ flight'[k].res = "ok" => flight'[k].req # callers'[e].req
                        /\ cache'[k] # callers'[e].req
    BY <2>1 DEF FreshInv, OwnRequests
  <2> QED
    BY <2>2, <2>3
<1>4. JoinsNew' /\ Numbered'
  BY <1>1 DEF FreshInv, JoinsNew, Numbered
<1> QED
  BY <1>2, <1>3, <1>4 DEF FreshInv

\* The same for a step made with Goto or With.
LEMMA MoveSound ==
  ASSUME TypeOK, FreshInv, NEW c \in Callers, NEW pc \in Points, NEW res \in Results,
         NEW req \in Nat, UNCHANGED <<flight, cache, answered, returned>>,
         \/ With(c, pc, res, req)
         \/ Goto(c, pc) /\ res = callers[c].res /\ req = callers[c].req,
         res = "ok" => /\ req \in 0..answered /\ req \notin callers[c].old
                       /\ \A d \in Callers \ {c} :
                            Pending(callers[d]) => req # callers[d].req,
         pc # "join", pc = "save" => res = "ok",
         pc \in {"report", "close"} /\ res = "ok" => Pending(callers[c]) /\ req = callers[c].req
  PROVE  FreshInv'
<1> DEFINE r == [callers[c] EXCEPT !.pc = pc, !.res = res, !.req = req]
<1>1. callers' = [callers EXCEPT ![c] = r]
  BY DEF With, Goto, TypeOK, Caller
<1>2. /\ r \in Caller /\ r.pc = pc /\ r.res = res /\ r.req = req /\ r.old = callers[c].old
      /\ Sound(callers[c])
  BY DEF TypeOK, Caller, FreshInv
<1> HIDE DEF r
<1>3. Pending(r) => Pending(callers[c]) /\ r.req = callers[c].req
  BY <1>2 DEF Pending
<1>4. Sound(r)
  BY <1>2, <1>3 DEF Sound, Pending, Holds
<1>5. Holds(r) => \A d \in Callers \ {c} : Pending(callers[d]) => r.req # callers[d].req
  BY <1>2 DEF Holds
<1> QED
  BY <1>1, <1>2, <1>3, <1>4, <1>5, OneSound

\* What a call holds is on no other call's way.
LEMMA HeldIsLanded ==
  ASSUME FreshInv, NEW c \in Callers, Holds(callers[c])
  PROVE  \A d \in Callers \ {c} : Pending(callers[d]) => callers[c].req # callers[d].req
BY DEF FreshInv, OwnRequests

\* A call that waits: it gets what has not been returned yet, or an error.
LEMMA WaitsSound ==
  ASSUME TypeOK, FreshInv, NEW c \in Callers,
         Follow(c) \/ FollowEnds(c) \/ Allow(c) \/ Gate(c) \/ Send(c) \/ SpaceQuit(c)
           \/ Cancelled(c) \/ ReportSuccess(c) \/ Backoff(c)
  PROVE  FreshInv'
<1>0. /\ callers[c].res \in Results /\ callers[c].req \in Nat /\ callers[c].key \in Keys
      /\ Sound(callers[c])
  BY DEF TypeOK, Caller, FreshInv
<1>1. UNCHANGED <<flight, cache, answered, returned>>
  BY DEF Follow, FollowEnds, Allow, Gate, Send, SpaceQuit, Cancelled, ReportSuccess,
     Backoff, gate, history
<1>2. ASSUME NEW pc \in {"done", "close"}, Quit(c, pc)
      PROVE  FreshInv'
  BY <1>1, <1>2, MoveSound DEF Quit, Points, Results
<1>3. ASSUME NEW pc \in {"done", "gate", "space", "wire", "allow"}, Goto(c, pc)
      PROVE  FreshInv'
  <2>1. callers[c].res = "ok" => Holds(callers[c])
    BY DEF Holds
  <2> QED
    BY <1>0, <1>1, <1>3, <2>1, HeldIsLanded, MoveSound DEF Points, Sound
<1>4. CASE Follow(c)
  <2> DEFINE f == flight[callers[c].key]
  <2>1. f.res \in Results /\ f.req \in Nat /\ With(c, "follow", f.res, f.req)
    BY <1>0, <1>4 DEF Follow, TypeOK
  <2>2. f.res = "ok" => /\ f.req \in 0..answered /\ f.req \notin callers[c].old
                        /\ \A d \in Callers \ {c} : Pending(callers[d]) => f.req # callers[d].req
    BY <1>0, <1>4 DEF FreshInv, JoinsNew, Numbered, OwnRequests, Follow, At
  <2> HIDE DEF f
  <2> QED
    BY <1>1, <2>1, <2>2, MoveSound DEF Points
<1>5. CASE FollowEnds(c) \/ Gate(c) \/ Send(c) \/ SpaceQuit(c) \/ Cancelled(c) \/ Backoff(c)
  BY <1>2, <1>3, <1>5 DEF FollowEnds, Gate, Send, SpaceQuit, Cancelled, Backoff, Again
<1>6. CASE Allow(c)
  BY <1>1, <1>3, <1>6, MoveSound DEF Allow, Points, Results
<1>7. CASE ReportSuccess(c)
  <2>1. /\ callers[c].res = "ok" /\ Goto(c, "close")
        /\ Pending(callers[c]) /\ Holds(callers[c])
    BY <1>7 DEF ReportSuccess, At, Pending, Holds
  <2> QED
    BY <1>0, <1>1, <2>1, HeldIsLanded, MoveSound DEF Points, Sound
<1> QED
  BY <1>4, <1>5, <1>6, <1>7

\* A request that failed is tried again or gives an error.
LEMMA FailureSound ==
  ASSUME TypeOK, FreshInv, NEW c \in Callers, ReportFailure(c)
  PROVE  FreshInv'
<1>1. /\ UNCHANGED <<flight, cache, answered, returned>> /\ callers[c].pc = "report"
      /\ Sound(callers[c]) /\ callers[c] \in Caller
  BY DEF ReportFailure, At, gate, FreshInv, TypeOK
<1>2. CASE callers[c].tries < Retries
  <2> DEFINE n == callers[c].tries + 1
             r == [callers[c] EXCEPT !.pc = "backoff", !.res = "none", !.tries = n]
  <2>1. n \in 0..Retries
    BY <1>1, <1>2, ClientAssumption DEF Caller
  <2>2. /\ r \in Caller /\ r.pc = "backoff" /\ r.res = "none" /\ r.old = callers[c].old
    BY <1>1, <2>1 DEF Caller, Points, Results
  <2>3. callers' = [callers EXCEPT ![c] = r]
    BY <1>2 DEF ReportFailure, TypeOK
  <2> HIDE DEF r
  <2>4. Sound(r) /\ ~Pending(r) /\ ~Holds(r)
    BY <1>1, <2>2 DEF Sound, Pending, Holds
  <2> QED
    BY <1>1, <2>2, <2>3, <2>4, OneSound
<1>3. CASE ~(callers[c].tries < Retries)
  BY <1>1, <1>3, MoveSound DEF ReportFailure, Points, Results
<1> QED
  BY <1>2, <1>3

\* A new payload is nobody's yet.
LEMMA PayloadSound ==
  ASSUME TypeOK, FreshInv, NEW c \in Callers, With(c, "report", "ok", answered + 1),
         answered' = answered + 1, UNCHANGED <<flight, cache, returned>>
  PROVE  FreshInv'
<1> DEFINE r == [callers[c] EXCEPT !.pc = "report", !.res = "ok", !.req = answered + 1]
<1>1. /\ callers' = [callers EXCEPT ![c] = r] /\ answered' = answered + 1 /\ answered \in Nat
      /\ UNCHANGED <<flight, cache, returned>>
  BY DEF With, TypeOK
<1>2. r.pc = "report" /\ r.res = "ok" /\ r.req = answered + 1 /\ r.old = callers[c].old
  BY DEF TypeOK, Caller
<1> HIDE DEF r
<1>3. callers'[c] = r /\ \A d \in Callers : d # c => callers'[d] = callers[d]
  BY <1>1 DEF TypeOK
<1>4. returned \subseteq 0..answered /\ callers[c].old \subseteq returned
  BY DEF FreshInv, Sound
<1>5. answered + 1 \notin returned /\ answered + 1 \notin callers[c].old
  BY <1>1, <1>4
<1>6. returned' \subseteq 0..answered'
  BY <1>1, <1>4
<1>7. \A d \in Callers : Sound(callers[d])'
  <2>1. Sound(callers[c])'
    BY <1>1, <1>2, <1>3, <1>4, <1>5 DEF Sound, Pending, Holds
  <2>2. \A d \in Callers : d # c => Sound(callers[d])'
    BY <1>1, <1>3 DEF FreshInv, Sound, Pending, Holds
  <2> QED
    BY <2>1, <2>2
<1>8. OwnRequests'
  <2> SUFFICES ASSUME NEW e \in Callers, Pending(callers[e])'
               PROVE  /\ \A d \in Callers :
                           Holds(callers[d])' /\ callers'[d].req = callers'[e].req => e = d
                      /\ \A k \in Keys : /\ flight'[k].res = "ok" => flight'[k].req # callers'[e].req
                                         /\ cache'[k] # callers'[e].req
    BY DEF OwnRequests
  <2>1. \A d \in Callers : Holds(callers[d]) => callers[d].req # answered + 1
    BY <1>1 DEF FreshInv, Sound
  <2>2. \A k \in Keys : /\ flight[k].res = "ok" => flight[k].req # answered + 1
                        /\ cache[k] # answered + 1
    BY <1>1 DEF FreshInv, Numbered
  <2>3. CASE e = c
    BY <1>1, <1>2, <1>3, <2>1, <2>2, <2>3 DEF Holds
  <2>4. CASE e # c
    <3>1. Pending(callers[e]) /\ Holds(callers[e]) /\ callers'[e] = callers[e]
      BY <1>3, <2>4 DEF Pending, Holds
    <3>2. \A d \in Callers : Holds(callers[d])' /\ callers'[d].req = callers'[e].req => e = d
      BY <1>2, <1>3, <2>1, <3>1 DEF FreshInv, OwnRequests, Holds
    <3> QED
      BY <1>1, <3>1, <3>2 DEF FreshInv, OwnRequests
  <2> QED
    BY <2>3, <2>4
<1>9. Numbered'
  BY <1>1 DEF FreshInv, Numbered
<1>10. JoinsNew'
  BY <1>1, <1>2, <1>3 DEF FreshInv, JoinsNew
<1> QED
  BY <1>6, <1>7, <1>8, <1>9, <1>10 DEF FreshInv

\* An answer is a new payload, or none.
LEMMA AnswerSound ==
  ASSUME TypeOK, FreshInv, NEW c \in Callers, Answer(c)
  PROVE  FreshInv'
<1>1. UNCHANGED <<flight, cache, returned>>
  BY DEF Answer, history
<1>2. CASE With(c, "report", "ok", answered + 1) /\ answered' = answered + 1
  BY <1>1, <1>2, PayloadSound
<1>3. CASE (With(c, "close", "error", 0) \/ With(c, "report", "failed", 0))
           /\ UNCHANGED answered
  BY <1>1, <1>3, MoveSound DEF Points, Results
<1> QED
  BY <1>2, <1>3 DEF Answer

\* The map of flights changes at one key, where no other call's request comes in;
\* what is in the cache stays there or is held by the call.
LEMMA MapSound ==
  ASSUME TypeOK, FreshInv, NEW c \in Callers, NEW r \in Caller,
         callers' = [callers EXCEPT ![c] = r], UNCHANGED <<answered, returned>>,
         callers[c].pc # "join", r.pc # "join", Sound(r), ~Pending(r),
         Holds(r) => Holds(callers[c]) /\ r.req = callers[c].req,
         \A k \in Keys : flight'[k].res = "ok" => flight'[k] = flight[k],
         \A k \in Keys : cache'[k] = cache[k]
                         \/ (Holds(callers[c]) /\ cache'[k] = callers[c].req)
  PROVE  FreshInv'
<1>1. callers'[c] = r /\ \A d \in Callers : d # c => callers'[d] = callers[d]
  BY DEF TypeOK
<1>2. \A d \in Callers : Sound(callers[d])'
  BY <1>1 DEF FreshInv, Sound, Pending, Holds
<1>3. OwnRequests'
  <2> SUFFICES ASSUME NEW e \in Callers, Pending(callers[e])'
               PROVE  /\ \A d \in Callers :
                           Holds(callers[d])' /\ callers'[d].req = callers'[e].req => e = d
                      /\ \A k \in Keys : /\ flight'[k].res = "ok" => flight'[k].req # callers'[e].req
                                         /\ cache'[k] # callers'[e].req
    BY DEF OwnRequests
  <2>1. e # c /\ callers'[e] = callers[e] /\ Pending(callers[e])
    BY <1>1 DEF Pending
  <2>2. Holds(callers[c]) => callers[c].req # callers[e].req
    BY <2>1 DEF FreshInv, OwnRequests
  <2>3. \A d \in Callers : Holds(callers[d])' /\ callers'[d].req = callers'[e].req => e = d
    BY <1>1, <2>1, <2>2 DEF FreshInv, OwnRequests, Holds
  <2>4. \A k \in Keys : flight'[k].res = "ok" => flight'[k].req # callers'[e].req
    BY <2>1 DEF FreshInv, OwnRequests
  <2>5. \A k \in Keys : cache'[k] # callers'[e].req
    BY <2>1, <2>2 DEF FreshInv, OwnRequests
  <2> QED
    BY <2>3, <2>4, <2>5
<1>4. Numbered'
  BY DEF FreshInv, Numbered, Sound
<1>5. JoinsNew'
  BY <1>1 DEF FreshInv, JoinsNew, TypeOK, Caller
<1> QED
  BY <1>2, <1>3, <1>4, <1>5 DEF FreshInv

\* A flight that begins carries nothing, one that is removed carries nothing any
\* more, and what its leader then stores it has.
LEMMA FlightSound ==
  ASSUME TypeOK, FreshInv, NEW c \in Callers, Delete(c) \/ Save(c)
  PROVE  FreshInv'
<1> DEFINE r(pc) == [callers[c] EXCEPT !.pc = pc]
<1>1. /\ callers[c] \in Caller /\ callers[c].key \in Keys /\ Sound(callers[c])
      /\ callers[c].pc \in {"delete", "save"} /\ UNCHANGED <<answered, returned>>
  BY DEF Delete, Save, At, gate, history, TypeOK, Caller, FreshInv
<1>2. PICK pc \in {"save", "done"} : /\ callers' = [callers EXCEPT ![c] = r(pc)]
                                     /\ pc = "save" => callers[c].res = "ok"
  BY DEF Delete, Save, Goto, TypeOK
<1>3. /\ r(pc) \in Caller /\ r(pc).pc = pc /\ r(pc).res = callers[c].res
      /\ r(pc).req = callers[c].req /\ r(pc).old = callers[c].old
  BY <1>1 DEF Caller, Points
<1> HIDE DEF r
<1>4. Sound(r(pc)) /\ ~Pending(r(pc)) /\ (Holds(r(pc)) => Holds(callers[c]))
  BY <1>1, <1>2, <1>3 DEF Sound, Pending, Holds
<1>5. \A k \in Keys : flight'[k].res = "ok" => flight'[k] = flight[k]
  BY DEF Delete, Save, NoFlight, TypeOK
<1>6. \A k \in Keys : cache'[k] = cache[k] \/ (Holds(callers[c]) /\ cache'[k] = callers[c].req)
  BY <1>1 DEF Delete, Save, At, Sound, Holds, TypeOK
<1> QED
  BY <1>1, <1>2, <1>3, <1>4, <1>5, <1>6, MapSound

\* A flight that begins has not landed.
LEMMA LeadSound ==
  ASSUME TypeOK, FreshInv, NEW c \in Callers, Lead(c)
  PROVE  FreshInv'
<1> DEFINE r == [callers[c] EXCEPT !.pc = "allow"]
<1>1. /\ callers' = [callers EXCEPT ![c] = r] /\ UNCHANGED <<cache, answered, returned>>
  BY DEF Lead, Goto, TypeOK, gate, history
<1>2. /\ r.pc = "allow" /\ r.res = callers[c].res /\ r.req = callers[c].req
      /\ r.old = callers[c].old /\ Sound(callers[c])
  BY DEF TypeOK, Caller, FreshInv
<1> HIDE DEF r
<1>3. callers'[c] = r /\ \A d \in Callers : d # c => callers'[d] = callers[d]
  BY <1>1 DEF TypeOK
<1>4. \A k \in Keys : flight'[k] = flight[k] \/ flight'[k].res = "none"
  BY DEF Lead, TypeOK, NoFlight
<1>5. \A d \in Callers : Sound(callers[d])'
  BY <1>1, <1>2, <1>3 DEF FreshInv, Sound, Pending, Holds
<1>6. OwnRequests' /\ Numbered'
  BY <1>1, <1>2, <1>3, <1>4 DEF FreshInv, OwnRequests, Numbered, Pending, Holds
<1>7. JoinsNew'
  BY <1>2, <1>3, <1>4 DEF FreshInv, JoinsNew, TypeOK, Caller
<1> QED
  BY <1>1, <1>5, <1>6, <1>7 DEF FreshInv

\* A flight that lands gives its followers what nobody has returned yet.
LEMMA CloseSound ==
  ASSUME TypeOK, FreshInv, NEW c \in Callers, Close(c)
  PROVE  FreshInv'
<1> DEFINE gets(d) == [callers[d] EXCEPT !.res = callers[c].res, !.req = callers[c].req]
           goes    == [callers[c] EXCEPT !.pc = "delete"]
<1>1. /\ UNCHANGED <<cache, answered, returned>> /\ callers[c].pc = "close" /\ callers[c] \in Caller
      /\ callers[c].key \in Keys /\ Sound(callers[c])
  BY DEF Close, At, gate, history, TypeOK, Caller, FreshInv
<1>2. /\ callers'[c] = goes /\ goes.pc = "delete" /\ goes.key = callers[c].key
      /\ goes.res = callers[c].res /\ goes.req = callers[c].req /\ goes.old = callers[c].old
  BY <1>1 DEF Close, Landed, Caller
<1>3. \A d \in Callers : d # c =>
        \/ callers'[d] = callers[d]
        \/ callers[d].pc = "follow" /\ callers'[d] = gets(d)
  BY DEF Close, Landed, At
<1>4. \A d \in Callers : /\ gets(d).pc = callers[d].pc /\ gets(d).res = callers[c].res
                         /\ gets(d).req = callers[c].req /\ gets(d).old = callers[d].old
                         /\ gets(d).key = callers[d].key
  BY DEF TypeOK, Caller
<1> HIDE DEF gets, goes
<1>5. callers[c].res = "ok" => callers[c].req \notin returned /\ callers[c].req \in 0..answered
  BY <1>1 DEF Sound, Pending, Holds
<1>6. \A d \in Callers : Sound(callers[d])'
  <2>1. Sound(callers[c])'
    BY <1>1, <1>2 DEF Sound, Pending, Holds
  <2>2. ASSUME NEW d \in Callers, d # c, callers'[d] = callers[d]
        PROVE  Sound(callers[d])'
    BY <1>1, <2>2 DEF FreshInv, Sound, Pending, Holds
  <2>3. ASSUME NEW d \in Callers, d # c, callers[d].pc = "follow", callers'[d] = gets(d)
        PROVE  Sound(callers[d])'
    <3>1. callers[d].old \subseteq returned
      BY DEF FreshInv, Sound
    <3> QED
      BY <1>1, <1>4, <1>5, <2>3, <3>1 DEF Sound, Pending, Holds
  <2> QED
    BY <1>3, <2>1, <2>2, <2>3
<1>7. /\ \A d \in Callers : Pending(callers[d])' => /\ d # c /\ callers'[d] = callers[d]
                                                    /\ Pending(callers[d])
      /\ \A d \in Callers : Holds(callers[d])' =>
           \/ Holds(callers[d]) /\ callers'[d].req = callers[d].req
           \/ callers[c].res = "ok" /\ callers'[d].req = callers[c].req
  BY <1>1, <1>2, <1>3, <1>4 DEF Pending, Holds
<1>8. \A k \in Keys : flight'[k] = flight[k] \/ (/\ flight'[k].res = callers[c].res
                                                 /\ flight'[k].req = callers[c].req)
  BY DEF Close, TypeOK
<1>9. OwnRequests'
  <2> SUFFICES ASSUME NEW e \in Callers, Pending(callers[e])'
               PROVE  /\ \A d \in Callers :
                           Holds(callers[d])' /\ callers'[d].req = callers'[e].req => e = d
                      /\ \A k \in Keys : /\ flight'[k].res = "ok" => flight'[k].req # callers'[e].req
                                         /\ cache'[k] # callers'[e].req
    BY DEF OwnRequests
  <2>1. e # c /\ callers'[e] = callers[e] /\ Pending(callers[e])
    BY <1>7
  <2>2. callers[c].res = "ok" => callers[c].req # callers[e].req
    BY <2>1 DEF FreshInv, OwnRequests, Holds
  <2>3. \A d \in Callers : Holds(callers[d])' /\ callers'[d].req = callers'[e].req => e = d
    BY <1>7, <2>1, <2>2 DEF FreshInv, OwnRequests
  <2>4. \A k \in Keys : flight'[k].res = "ok" => flight'[k].req # callers'[e].req
    BY <1>8, <2>1, <2>2 DEF FreshInv, OwnRequests
  <2>5. \A k \in Keys : cache'[k] # callers'[e].req
    BY <1>1, <2>1 DEF FreshInv, OwnRequests
  <2> QED
    BY <2>3, <2>4, <2>5
<1>10. Numbered'
  BY <1>1, <1>5, <1>8 DEF FreshInv, Numbered
<1>11. JoinsNew'
  <2> SUFFICES ASSUME NEW d \in Callers, callers'[d].pc = "join",
                      flight'[callers'[d].key].res = "ok"
               PROVE  flight'[callers'[d].key].req \notin callers'[d].old
    BY DEF JoinsNew
  <2>1. callers'[d] = callers[d] /\ callers[d].pc = "join" /\ callers[d].key \in Keys
    BY <1>2, <1>3, <1>4 DEF TypeOK, Caller
  <2>2. callers[d].old \subseteq returned
    BY DEF FreshInv, Sound
  <2> QED
    BY <1>5, <1>8, <2>1, <2>2 DEF FreshInv, JoinsNew
<1> QED
  BY <1>1, <1>6, <1>9, <1>10, <1>11 DEF FreshInv

\* A call that begins knows what was returned before, but for the landed flight it
\* may join; a payload of the cache is on nobody's way.
LEMMA BeginSound ==
  ASSUME TypeOK, FreshInv, NEW c \in Callers, NEW k \in Keys, NEW fresh \in BOOLEAN,
         Begin(c, k, fresh)
  PROVE  FreshInv'
<1> DEFINE known == IF fresh THEN returned \ {flight[k].req} ELSE {}
           r == [Idle EXCEPT !.pc  = IF Hit(k, fresh) THEN "done" ELSE "join",
                             !.res = IF Hit(k, fresh) THEN "ok" ELSE "none",
                             !.req = IF Hit(k, fresh) THEN cache[k] ELSE 0,
                             !.key = k, !.fresh = fresh, !.old = known]
<1>1. callers' = [callers EXCEPT ![c] = r] /\ UNCHANGED <<flight, cache, answered, returned>>
  BY DEF Begin, gate, history
<1>2. cache[k] \in Nat /\ returned \subseteq Nat
  BY DEF TypeOK
<1>3. r \in Caller
  BY <1>2, IdleType DEF Idle, Caller, Points, Results
<1>4. /\ r.key = k /\ r.old = known /\ r.pc \in {"done", "join"}
      /\ r.res = "ok" => known = {} /\ r.req = cache[k]
      /\ Holds(r) => r.res = "ok"
  BY DEF Idle, Hit, Holds
<1> HIDE DEF r
<1>5. Sound(r) /\ ~Pending(r)
  BY <1>4 DEF Sound, Pending, FreshInv, Numbered
<1>6. Holds(r) => \A d \in Callers \ {c} : Pending(callers[d]) => r.req # callers[d].req
  BY <1>4 DEF FreshInv, OwnRequests
<1>7. r.pc = "join" => (flight[r.key].res = "ok" => flight[r.key].req \notin r.old)
  BY <1>4
<1> QED
  BY <1>1, <1>3, <1>5, <1>6, <1>7, OneSound

\* What a call returns is on nobody's way.
LEMMA ReturnSound ==
  ASSUME TypeOK, FreshInv, NEW c \in Callers, Return(c)
  PROVE  FreshInv'
<1>1. /\ callers[c].pc = "done" /\ UNCHANGED <<flight, cache, answered>>
      /\ callers'[c] = Idle /\ \A d \in Callers : d # c => callers'[d] = callers[d]
  BY DEF Return, At, gate, TypeOK
<1>2. /\ returned \subseteq returned'
      /\ \A q \in returned' : q \in returned \/ (Holds(callers[c]) /\ q = callers[c].req)
  BY DEF Return, Holds
<1>3. Idle.pc = "idle" /\ Idle.res = "none" /\ Idle.old = {}
  BY DEF Idle
<1>4. \A d \in Callers : Pending(callers[d])' => d # c /\ callers'[d] = callers[d]
                                                 /\ Pending(callers[d])
  BY <1>1, <1>3 DEF Pending
<1>5. \A d \in Callers : Pending(callers[d]) /\ d # c => callers[d].req \notin returned'
  BY <1>2 DEF FreshInv, Sound, OwnRequests
<1>6. \A d \in Callers : Sound(callers[d])'
  <2>1. Sound(callers[c])'
    BY <1>1, <1>3 DEF Sound, Pending, Holds
  <2>2. ASSUME NEW d \in Callers, d # c PROVE Sound(callers[d])'
    BY <1>1, <1>2, <1>5, <2>2 DEF FreshInv, Sound, Pending, Holds
  <2> QED
    BY <2>1, <2>2
<1>7. OwnRequests'
  BY <1>1, <1>3, <1>4 DEF FreshInv, OwnRequests, Holds
<1>8. Numbered' /\ JoinsNew'
  BY <1>1, <1>3 DEF FreshInv, Numbered, JoinsNew
<1>9. returned' \subseteq 0..answered'
  BY <1>1, <1>2 DEF FreshInv, Sound
<1> QED
  BY <1>6, <1>7, <1>8, <1>9 DEF FreshInv

\* Every step keeps payloads apart and returned payloads old.
LEMMA StepSound == TypeOK /\ FreshInv /\ [Next]_vars => FreshInv'
<1> SUFFICES ASSUME TypeOK, FreshInv, [Next]_vars PROVE FreshInv'
  OBVIOUS
<1>1. ASSUME NEW c \in Callers, Step(c) PROVE FreshInv'
  BY <1>1, WaitsSound, FailureSound, AnswerSound, LeadSound, CloseSound, FlightSound,
     ReturnSound DEF Step
<1>2. ASSUME NEW c \in Callers, EndContext(c) PROVE FreshInv'
  <2> DEFINE r == [callers[c] EXCEPT !.alive = FALSE]
  <2>1. /\ r \in Caller /\ r.pc = callers[c].pc /\ r.key = callers[c].key
        /\ r.res = callers[c].res /\ r.req = callers[c].req /\ r.old = callers[c].old
    BY DEF TypeOK, Caller
  <2>2. callers' = [callers EXCEPT ![c] = r] /\ UNCHANGED <<flight, cache, answered, returned>>
    BY <1>2 DEF EndContext, TypeOK, gate, history
  <2> HIDE DEF r
  <2>3. /\ Sound(r) /\ (Pending(r) => Pending(callers[c]))
        /\ Holds(r) => Holds(callers[c])
        /\ r.pc = "join" => (flight[r.key].res = "ok" => flight[r.key].req \notin r.old)
    BY <2>1 DEF FreshInv, Sound, Pending, Holds, JoinsNew
  <2> QED
    BY <2>1, <2>2, <2>3, HeldIsLanded, OneSound
<1>3. ASSUME NEW k \in Keys, Expire(k) PROVE FreshInv'
  <2>1. /\ UNCHANGED <<callers, flight, answered, returned>>
        /\ \A j \in Keys : cache'[j] = cache[j] \/ cache'[j] = 0
        /\ answered \in Nat
    BY <1>3 DEF Expire, gate, history, TypeOK
  <2>2. OwnRequests'
    BY <2>1 DEF FreshInv, Sound, OwnRequests, Pending, Holds
  <2> QED
    BY <2>1, <2>2 DEF FreshInv, Sound, Pending, Holds, Numbered, JoinsNew
<1>4. ASSUME CoolDown \/ UNCHANGED vars PROVE FreshInv'
  <2>1. UNCHANGED <<callers, flight, cache, answered, returned>>
    BY <1>4 DEF CoolDown, vars, gate, history
  <2> QED
    BY <2>1 DEF FreshInv, Sound, Pending, Holds, OwnRequests, Numbered, JoinsNew
<1> QED
  BY <1>1, <1>2, <1>3, <1>4, AskTypes, BeginSound DEF Next

\* For any number of goroutines, keys, slots and retries, a fresh call never
\* returns what any call had returned before it began, but for the payload of a
\* flight that had landed and was still in the map.
THEOREM FreshStaysLive == Spec => []FreshIsLive
<1>1. Init => FreshInv
  BY DEF Init, Idle, NoFlight, FreshInv, Sound, Pending, Holds, OwnRequests, Numbered, JoinsNew
<1>2. FreshInv => FreshIsLive
  BY DEF FreshInv, Sound, Holds, FreshIsLive
<1> QED
  BY <1>1, <1>2, StepSound, TypeCorrect, PTL DEF Spec
=============================================================================
