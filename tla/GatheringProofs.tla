--------------------------- MODULE GatheringProofs ---------------------------
(***************************************************************************)
(* For every number of organizers, guests and sentences: unless amendments  *)
(* cross, the frame of the event is what the words add up to; and whatever  *)
(* crosses, nobody is dropped, doubled or given back a ticket by words.     *)
(***************************************************************************)
EXTENDS GatheringProps, FiniteSetTheorems, TLAPS

\* The event is a record of its four fields, whatever they hold.
Shaped == event = [place |-> event.place, date |-> event.date,
                   hour |-> event.hour, guests |-> event.guests]

IInv == Shaped /\ FrameAsAsked

\* An amendment that met the frame of its own draft does what was asked.
LEMMA ApplyKeeps ==
  ASSUME IInv, NEW c \in Editors, AmendApply(c)
  PROVE  IInv'
<1> DEFINE ask == edits[c].ask
           prior == edits[c].prior
<1>1. PICK place \in {prior.place, None}, date \in {prior.date, None},
           hour \in {prior.hour, None},
           people \in SUBSET {prior.guests[i].who : i \in DOMAIN prior.guests} :
        event' = Amended(event, Reply(ask, place, date, hour, Of(prior.guests, people)))
  BY DEF AmendApply
<1>2. /\ event'.place = Take(event.place, IF ask.place # None THEN ask.place ELSE place)
      /\ event'.date = Take(event.date, IF ask.date # None THEN ask.date ELSE date)
      /\ event'.hour = Take(event.hour,
                           Normal(IF ask.hour # None THEN ask.hour ELSE hour))
      /\ Shaped'
  BY <1>1 DEF Amended, Shaped, Reply
<1>3. /\ wish'.place = IF ask.place = None THEN wish.place ELSE ask.place
      /\ wish'.date = IF ask.date = None THEN wish.date ELSE ask.date
      /\ wish'.hour = IF ask.hour = None THEN wish.hour ELSE ask.hour
  BY DEF AmendApply
<1>4. SUFFICES ASSUME ~crossed'
               PROVE  /\ event'.place = wish'.place
                      /\ event'.date = wish'.date
                      /\ event'.hour \in {wish'.hour, DefaultHour}
  BY <1>2 DEF IInv, FrameAsAsked
<1>5. /\ ~crossed
      /\ Frame(event) = Frame(prior)
  <2>1. crossed' = (crossed \/ Frame(event) # Frame(prior))
    BY DEF AmendApply
  <2> QED BY <1>4, <2>1
<1>6. /\ prior.place = event.place
      /\ prior.date = event.date
      /\ prior.hour = event.hour
  BY <1>5 DEF Frame
<1>7. /\ event.place = wish.place
      /\ event.date = wish.date
      /\ event.hour \in {wish.hour, DefaultHour}
  BY <1>5 DEF IInv, FrameAsAsked
<1>8. event'.place = wish'.place /\ event'.date = wish'.date
  BY <1>1, <1>2, <1>3, <1>6, <1>7 DEF Take
<1>9. event'.hour \in {IF ask.hour = None THEN event.hour ELSE ask.hour, DefaultHour}
  BY <1>1, <1>2, <1>6, GatheringAssumption DEF Take, Normal
<1> QED
  BY <1>3, <1>4, <1>7, <1>8, <1>9

\* Guests who join, are added, buy or give back leave the frame alone.
LEMMA GuestKeeps ==
  ASSUME IInv, Guest
  PROVE  IInv'
<1>1. /\ event' = [event EXCEPT !.guests = event'.guests]
      /\ wish' = wish /\ crossed' = crossed
  <2>1. CASE \E w \in Persons, t \in Trips : Join(w, t) \/ Add(w, t)
    BY <2>1 DEF IInv, Shaped, Join, Add
  <2>2. CASE \E i \in DOMAIN event.guests : Buy(i) \/ Unbuy(i)
    BY <2>2 DEF IInv, Shaped, Buy, Unbuy
  <2> QED BY <2>1, <2>2 DEF Guest
<1> QED BY <1>1 DEF IInv, Shaped, FrameAsAsked

\* Unless amendments crossed, place and date are what the organizer's words add
\* up to and the hour is that or the default, for any number of organizers and
\* sentences and whatever the model leaves out (handleAmend).
THEOREM FrameStaysAsAsked == Spec => []FrameAsAsked
<1>1. Init => IInv
  BY GatheringAssumption DEF Init, IInv, Shaped, FrameAsAsked, Frame, Event
<1>2. IInv /\ [Next]_vars => IInv'
  <2> SUFFICES ASSUME IInv, [Next]_vars PROVE IInv'
    OBVIOUS
  <2>1. ASSUME NEW c \in Editors, AmendApply(c) PROVE IInv'
    BY <2>1, ApplyKeeps
  <2>2. CASE Guest
    BY <2>2, GuestKeeps
  <2>3. ASSUME UNCHANGED <<event, wish, crossed>> PROVE IInv'
    BY <2>3 DEF IInv, Shaped, FrameAsAsked
  <2>4. ASSUME NEW c \in Editors, AmendAsk(c) \/ AmendFails(c)
        PROVE  UNCHANGED <<event, wish, crossed>>
    BY <2>4 DEF AmendAsk, AmendFails
  <2>5. CASE Rebuild \/ Loop \/ StopAll \/ Clock \/ Breaker
    <3>1. UNCHANGED <<event, wish>> /\ UNCHANGED crossed
      BY <2>5 DEF Rebuild, Loop, LoopBuilds, LoopEnds, LoopWaits, StopAll,
                  Clock, Breaker, Passive
    <3> QED BY <3>1, <2>3
  <2>6. CASE UNCHANGED vars
    BY <2>6, <2>3 DEF vars
  <2> QED
    BY <2>1, <2>2, <2>3, <2>4, <2>5, <2>6 DEF Next, Amend
<1>3. IInv => FrameAsAsked
  BY DEF IInv
<1> QED
  BY <1>1, <1>2, <1>3, PTL DEF Spec

-----------------------------------------------------------------------------
(* The walk over the entries of a draft *)

\* A set of naturals has a least element: the initial segments below its members
\* are finite sets, of which one is smallest.
LEMMA LeastNat ==
  ASSUME NEW T \in SUBSET Nat, T # {}
  PROVE  \E m \in T : \A n \in T : m <= n
<1> DEFINE Upto == {1..n : n \in T}
           R == StrictSubsetOrdering(Nat)
<1>1. Upto # {} /\ Upto \subseteq FiniteSubsetsOf(Nat)
  <2>1. Upto # {}
    OBVIOUS
  <2>2. \A n \in T : 1..n \in SUBSET Nat /\ IsFiniteSet(1..n)
    BY FS_Interval
  <2>3. \A u \in Upto : u \in SUBSET Nat /\ IsFiniteSet(u)
    BY <2>2
  <2> HIDE DEF Upto
  <2>4. \A u \in Upto : u \in FiniteSubsetsOf(Nat)
    BY <2>3 DEF FiniteSubsetsOf
  <2> QED BY <2>1, <2>4
<1>2. PICK s \in Upto : \A t \in Upto : ~(<<t, s>> \in R)
  <2> HIDE DEF Upto, R
  <2>1. IsWellFoundedOn(R, FiniteSubsetsOf(Nat))
    BY FS_StrictSubsetOrderingWellFounded DEF R
  <2> QED BY <1>1, <2>1, WFMin
<1>3. PICK m \in T : s = 1..m
  OBVIOUS
<1>4. ASSUME NEW n \in T, n < m PROVE FALSE
  <2>1. 1..n \subseteq 1..m /\ m \in 1..m /\ m \notin 1..n
    BY <1>4
  <2>2. <<1..n, 1..m>> \in R
    BY <2>1 DEF StrictSubsetOrdering
  <2> QED BY <1>2, <1>3, <2>2
<1> QED BY <1>3, <1>4

\* The induction that the walks need: a set that holds 0 and, with each number
\* below n, the next one, holds the numbers up to n.
LEMMA UpTo ==
  ASSUME NEW n \in Nat, NEW G, 0 \in G,
         \A i \in 1..n : i - 1 \in G => i \in G
  PROVE  0..n \subseteq G
<1> DEFINE Bad == (0..n) \ G
<1> SUFFICES ASSUME Bad # {} PROVE FALSE
  OBVIOUS
<1>1. PICK m \in Bad : \A k \in Bad : m <= k
  <2> HIDE DEF Bad
  <2>1. Bad \in SUBSET Nat
    BY DEF Bad
  <2> QED BY <2>1, LeastNat
<1>2. m \in 1..n /\ m - 1 \in 0..n /\ ~(m <= m - 1)
  OBVIOUS
<1>3. m - 1 \in G
  BY <1>1, <1>2
<1> QED BY <1>2, <1>3

\* The list after each of the first n entries.
AfterEach(f, guests, entries, n) ==
  f = [i \in 0..n |-> IF i = 0 THEN guests ELSE Enter(f[i - 1], entries[i])]

\* PutAll is the last of the lists after each entry.
LEMMA PutAllUnfolds ==
  ASSUME NEW guests, NEW entries, Len(entries) \in Nat
  PROVE  \E f : /\ AfterEach(f, guests, entries, Len(entries))
                /\ PutAll(guests, entries) = f[Len(entries)]
<1> DEFINE N == Len(entries)
           G == {n \in 0..N : \E f : AfterEach(f, guests, entries, n)}
           h == CHOOSE f : AfterEach(f, guests, entries, N)
<1>1. 0 \in G
  <2>1. AfterEach([i \in 0..0 |-> guests], guests, entries, 0)
    BY DEF AfterEach
  <2> QED BY <2>1
<1>2. ASSUME NEW n \in 1..N, n - 1 \in G PROVE n \in G
  <2>1. PICK f : AfterEach(f, guests, entries, n - 1)
    BY <1>2
  <2>2. AfterEach([i \in 0..n |-> IF i = n THEN Enter(f[n - 1], entries[n]) ELSE f[i]],
                  guests, entries, n)
    BY <2>1 DEF AfterEach
  <2> QED BY <2>2
<1>3. AfterEach(h, guests, entries, N)
  <2>1. 0..N \subseteq G
    <3> HIDE DEF G
    <3> QED BY <1>1, <1>2, UpTo
  <2>2. N \in G
    BY <2>1
  <2> QED BY <2>2
<1>4. PutAll(guests, entries) = h[N]
  BY DEF PutAll, AfterEach
<1> QED BY <1>3, <1>4

\* What a model keeps of one entry, and of each of the first n.
Keep(kept, e, people) == IF e.who \in people THEN Append(kept, e) ELSE kept

KeptEach(f, entries, people, n) ==
  f = [i \in 0..n |-> IF i = 0 THEN <<>> ELSE Keep(f[i - 1], entries[i], people)]

Entry == [who : Persons, trip : Trips]

\* Of is the last of the lists kept of the first entries.
LEMMA OfUnfolds ==
  ASSUME NEW entries, NEW people, Len(entries) \in Nat
  PROVE  \E f : /\ KeptEach(f, entries, people, Len(entries))
                /\ Of(entries, people) = f[Len(entries)]
<1> DEFINE N == Len(entries)
           G == {n \in 0..N : \E f : KeptEach(f, entries, people, n)}
           h == CHOOSE f : KeptEach(f, entries, people, N)
<1>1. 0 \in G
  <2>1. KeptEach([i \in 0..0 |-> <<>>], entries, people, 0)
    BY DEF KeptEach
  <2> QED BY <2>1
<1>2. ASSUME NEW n \in 1..N, n - 1 \in G PROVE n \in G
  <2>1. PICK f : KeptEach(f, entries, people, n - 1)
    BY <1>2
  <2>2. KeptEach([i \in 0..n |-> IF i = n THEN Keep(f[n - 1], entries[n], people) ELSE f[i]],
                 entries, people, n)
    BY <2>1 DEF KeptEach
  <2> QED BY <2>2
<1>3. KeptEach(h, entries, people, N)
  <2>1. 0..N \subseteq G
    <3> HIDE DEF G
    <3> QED BY <1>1, <1>2, UpTo
  <2>2. N \in G
    BY <2>1
  <2> QED BY <2>2
<1>4. Of(entries, people) = h[N]
  BY DEF Of, KeptEach, Keep
<1> QED BY <1>3, <1>4

\* What the model keeps of a list is a list.
LEMMA OfTyped ==
  ASSUME NEW entries \in Seq(Entry), NEW people
  PROVE  Of(entries, people) \in Seq(Entry)
<1> DEFINE N == Len(entries)
<1>1. N \in Nat
  OBVIOUS
<1>2. PICK f : KeptEach(f, entries, people, N) /\ Of(entries, people) = f[N]
  BY <1>1, OfUnfolds
<1> DEFINE G == {i \in 0..N : f[i] \in Seq(Entry)}
<1>3. 0 \in G
  BY <1>1, <1>2 DEF KeptEach
<1>4. ASSUME NEW i \in 1..N, i - 1 \in G PROVE i \in G
  <2>1. i \in 0..N /\ i # 0 /\ f[i - 1] \in Seq(Entry) /\ entries[i] \in Entry
    BY <1>4
  <2>2. f[i] = Keep(f[i - 1], entries[i], people)
    BY <1>2, <2>1 DEF KeptEach
  <2>3. Append(f[i - 1], entries[i]) \in Seq(Entry)
    BY <2>1
  <2> QED BY <2>1, <2>2, <2>3 DEF Keep
<1>5. N \in G
  <2>1. 0..N \subseteq G
    <3> HIDE DEF G, N
    <3> QED BY <1>1, <1>3, <1>4, UpTo
  <2> QED BY <1>1, <2>1
<1> QED BY <1>2, <1>5

-----------------------------------------------------------------------------
(* The guest list *)

\* A list of guests in which whoever came by joining or by words came once.
Single(guests) ==
  \A i, j \in DOMAIN guests :
    i < j /\ guests[j].by \in {"self", "words"} => guests[i].who # guests[j].who

\* The list b has every guest of a, with the ticket as it was.
Keeps(a, b) ==
  /\ Len(a) <= Len(b)
  /\ \A i \in DOMAIN a : b[i].who = a[i].who /\ b[i].bought = a[i].bought

\* A trip is given to the guest of that name, or a new guest is the last one.
LEMMA PutKeeps ==
  ASSUME NEW guests \in Seq(GuestRow), NEW w \in Persons, NEW trip \in Trips,
         NEW by \in Sources, Single(guests),
         by \in {"self", "words"} => Named[w] = w
  PROVE  /\ Put(guests, w, trip, by) \in Seq(GuestRow)
         /\ Single(Put(guests, w, trip, by))
         /\ Keeps(guests, Put(guests, w, trip, by))
<1> DEFINE Same == {i \in DOMAIN guests : guests[i].who = w}
           First == CHOOSE i \in Same : \A j \in Same : i <= j
           row == NewGuest(Named[w], trip, by)
<1>1. CASE Same = {}
  <2>1. Put(guests, w, trip, by) = Append(guests, row)
    BY <1>1 DEF Put
  <2>2. row \in GuestRow /\ row.who = Named[w] /\ row.by = by
    BY GatheringAssumption DEF NewGuest, GuestRow
  <2>3. \A i \in DOMAIN guests : by \in {"self", "words"} => guests[i].who # row.who
    BY <1>1, <2>2
  <2> HIDE DEF row
  <2>4. /\ Append(guests, row) \in Seq(GuestRow)
        /\ Len(Append(guests, row)) = Len(guests) + 1
        /\ \A i \in 1..Len(guests) : Append(guests, row)[i] = guests[i]
        /\ Append(guests, row)[Len(guests) + 1] = row
    BY <2>2
  <2>5. DOMAIN guests = 1..Len(guests)
        /\ DOMAIN Append(guests, row) = 1..(Len(guests) + 1)
    BY <2>4
  <2>6. Single(Append(guests, row))
    <3> SUFFICES ASSUME NEW i \in 1..(Len(guests) + 1), NEW j \in 1..(Len(guests) + 1),
                        i < j, Append(guests, row)[j].by \in {"self", "words"}
                 PROVE  Append(guests, row)[i].who # Append(guests, row)[j].who
      BY <2>5 DEF Single
    <3>1. i \in 1..Len(guests)
      OBVIOUS
    <3>2. CASE j = Len(guests) + 1
      BY <2>2, <2>3, <2>4, <2>5, <3>1, <3>2
    <3>3. CASE j \in 1..Len(guests)
      BY <2>4, <2>5, <3>1, <3>3 DEF Single
    <3> QED BY <3>2, <3>3
  <2>7. Keeps(guests, Append(guests, row))
    BY <2>4, <2>5 DEF Keeps
  <2> QED BY <2>1, <2>4, <2>6, <2>7
<1>2. CASE Same # {}
  <2>1. Put(guests, w, trip, by) = [guests EXCEPT ![First].trip = trip]
    BY <1>2 DEF Put
  <2>2. First \in DOMAIN guests
    <3>1. Same \in SUBSET Nat
      OBVIOUS
    <3>2. \E i \in Same : \A j \in Same : i <= j
      <4> HIDE DEF Same
      <4> QED BY <1>2, <3>1, LeastNat
    <3>3. First \in Same
      BY <3>2
    <3> QED BY <3>3
  <2> HIDE DEF First
  <2> DEFINE put == [guests EXCEPT ![First].trip = trip]
  <2>3. put \in Seq(GuestRow) /\ Len(put) = Len(guests) /\ DOMAIN put = DOMAIN guests
    <3>1. [guests[First] EXCEPT !.trip = trip] \in GuestRow
      <4>1. guests[First] \in GuestRow
        BY <2>2
      <4> QED BY <4>1 DEF GuestRow
    <3>2. put = [guests EXCEPT ![First] = [guests[First] EXCEPT !.trip = trip]]
      BY <2>2
    <3> QED BY <2>2, <3>1, <3>2
  <2>4. ASSUME NEW i \in DOMAIN guests
        PROVE  /\ put[i].who = guests[i].who /\ put[i].bought = guests[i].bought
               /\ put[i].by = guests[i].by
    BY <2>2 DEF GuestRow
  <2> HIDE DEF put
  <2>5. Single(put)
    BY <2>3, <2>4 DEF Single
  <2>6. Keeps(guests, put)
    BY <2>3, <2>4 DEF Keeps
  <2> QED BY <2>1, <2>3, <2>5, <2>6 DEF put
<1> QED BY <1>1, <1>2

\* So do all the entries of a draft.
LEMMA PutAllKeeps ==
  ASSUME NEW guests \in Seq(GuestRow), Single(guests), NEW entries \in Seq(Entry)
  PROVE  /\ PutAll(guests, entries) \in Seq(GuestRow)
         /\ Single(PutAll(guests, entries))
         /\ Keeps(guests, PutAll(guests, entries))
<1> DEFINE N == Len(entries)
<1>0. N \in Nat
  OBVIOUS
<1>1. PICK f : AfterEach(f, guests, entries, N) /\ PutAll(guests, entries) = f[N]
  BY <1>0, PutAllUnfolds
<1> DEFINE G == {i \in 0..N : f[i] \in Seq(GuestRow) /\ Single(f[i]) /\ Keeps(guests, f[i])}
<1>2. 0 \in G
  <2>1. f[0] = guests
    BY <1>1 DEF AfterEach
  <2>2. Keeps(guests, guests)
    BY DEF Keeps
  <2> QED BY <2>1, <2>2
<1>3. ASSUME NEW i \in 1..N, i - 1 \in G PROVE i \in G
  <2> DEFINE e == entries[i]
             by == IF Named[e.who] = e.who THEN "words" ELSE "nameless"
  <2>1. i \in 0..N /\ f[i] = Enter(f[i - 1], e)
    BY <1>0, <1>1 DEF AfterEach
  <2>2. f[i - 1] \in Seq(GuestRow) /\ Single(f[i - 1]) /\ Keeps(guests, f[i - 1])
    BY <1>3
  <2>3. e.who \in Persons /\ e.trip \in Trips
    <3>1. e \in Entry
      OBVIOUS
    <3> QED BY <3>1 DEF Entry
  <2>4. by \in Sources /\ (by \in {"self", "words"} => Named[e.who] = e.who)
    BY DEF Sources
  <2>5. f[i] = Put(f[i - 1], e.who, e.trip, by)
    BY <2>1 DEF Enter
  <2> HIDE DEF e, by
  <2>6. f[i] \in Seq(GuestRow) /\ Single(f[i]) /\ Keeps(f[i - 1], f[i])
    BY <2>2, <2>3, <2>4, <2>5, PutKeeps
  <2>7. Keeps(guests, f[i])
    BY <2>2, <2>6 DEF Keeps
  <2> QED BY <2>1, <2>6, <2>7
<1>4. N \in G
  <2>1. 0..N \subseteq G
    <3> HIDE DEF G, N
    <3> QED BY <1>0, <1>2, <1>3, UpTo
  <2> QED BY <1>0, <2>1
<1> QED BY <1>1, <1>4

-----------------------------------------------------------------------------
(* Words, joins and the form, whatever crosses *)

\* The inductive invariant: the types, and one row per person.
ListInv == TypeOK /\ Single(event.guests)

\* The invariant implies that nobody has two rows.
LEMMA SingleIsOne == ListInv => OneRowPerPerson
  BY DEF ListInv, Single, OneRowPerPerson

\* An organizer who asks nothing holds a typed draft.
LEMMA NoDraftTyped == NoDraft \in EventDraft /\ NoEdit \in [on : BOOLEAN, prior : EventDraft, ask : EventDraft]
<1>1. <<>> \in Seq(Entry)
  OBVIOUS
<1>2. NoDraft \in EventDraft
  BY <1>1 DEF NoDraft, EventDraft, Entry
<1> QED BY <1>2 DEF NoEdit

\* The draft made of a typed event is typed (eventToDraft).
LEMMA DraftTyped ==
  ASSUME NEW ev \in Event
  PROVE  Draft(ev) \in EventDraft
<1> DEFINE list == [i \in DOMAIN ev.guests |->
                      [who |-> ev.guests[i].who, trip |-> ev.guests[i].trip]]
<1>1. ev.guests \in Seq(GuestRow) /\ ev.place \in Places
      /\ ev.date \in Dates \cup {None} /\ ev.hour \in Hours \cup {None}
  BY DEF Event
<1>2. Len(ev.guests) \in Nat /\ DOMAIN ev.guests = 1..Len(ev.guests)
      /\ \A i \in 1..Len(ev.guests) : ev.guests[i] \in GuestRow
  BY <1>1
<1>3. \A i \in 1..Len(ev.guests) :
        [who |-> ev.guests[i].who, trip |-> ev.guests[i].trip] \in Entry
  BY <1>2 DEF GuestRow, Entry
<1>4. list \in Seq(Entry)
  BY <1>2, <1>3
<1> QED BY <1>1, <1>4 DEF Draft, EventDraft, Entry

\* An event that a request may have changed.
LEMMA EventTyped ==
  ASSUME NEW ev \in Event, NEW guests \in Seq(GuestRow)
  PROVE  [ev EXCEPT !.guests = guests] \in Event
  BY DEF Event

\* A merged draft leaves an event whose list keeps everybody, once.
LEMMA ApplyList ==
  ASSUME ListInv, NEW c \in Editors, AmendApply(c)
  PROVE  ListInv' /\ Keeps(event.guests, event'.guests)
<1> DEFINE ask == edits[c].ask
           prior == edits[c].prior
<1>1. PICK place \in {prior.place, None}, date \in {prior.date, None},
           hour \in {prior.hour, None},
           people \in SUBSET {prior.guests[i].who : i \in DOMAIN prior.guests} :
        event' = Amended(event, Reply(ask, place, date, hour, Of(prior.guests, people)))
  BY DEF AmendApply
<1> DEFINE draft == Reply(ask, place, date, hour, Of(prior.guests, people))
<1>2. ask \in EventDraft /\ prior \in EventDraft
  BY DEF ListInv, TypeOK
<1>3. /\ draft.place \in Places \cup {None} /\ draft.date \in Dates \cup {None}
      /\ draft.hour \in Hours \cup {None}
  BY <1>1, <1>2, GatheringAssumption DEF Reply, EventDraft, Normal
<1>4. draft.guests \in Seq(Entry)
  <2>1. prior.guests \in Seq(Entry) /\ ask.guests \in Seq(Entry)
    BY <1>2 DEF EventDraft, Entry
  <2>2. Of(prior.guests, people) \in Seq(Entry)
    BY <2>1, OfTyped
  <2> QED BY <2>1, <2>2 DEF Reply
<1>5. /\ event.place \in Places /\ event.date \in Dates \cup {None}
      /\ event.hour \in Hours \cup {None}
      /\ event.guests \in Seq(GuestRow) /\ Single(event.guests)
  BY DEF ListInv, TypeOK, Event
<1> HIDE DEF draft
<1>6. /\ PutAll(event.guests, draft.guests) \in Seq(GuestRow)
      /\ Single(PutAll(event.guests, draft.guests))
      /\ Keeps(event.guests, PutAll(event.guests, draft.guests))
  BY <1>4, <1>5, PutAllKeeps
<1>7. event' = Amended(event, draft)
  BY <1>1 DEF draft
<1>8. /\ event' \in Event
      /\ event'.guests = PutAll(event.guests, draft.guests)
  <2>1. Amended(event, draft) \in Event
    BY <1>3, <1>5, <1>6 DEF Amended, Event, Take
  <2> QED BY <1>7, <2>1 DEF Amended
<1>9. due' \in Nat
  <2>1. Kicks(event, event') \in {0, 1}
    BY DEF Kicks
  <2>2. due' = due + Kicks(event, event')
    BY DEF AmendApply
  <2> QED BY <2>1, <2>2 DEF ListInv, TypeOK
<1>10. edits' \in [Editors -> [on : BOOLEAN, prior : EventDraft, ask : EventDraft]]
  BY NoDraftTyped DEF AmendApply, ListInv, TypeOK
<1>11. crossed' \in BOOLEAN
  <2>1. crossed' = (crossed \/ Frame(event) # Frame(prior))
    BY DEF AmendApply
  <2>2. crossed \in BOOLEAN
    BY DEF ListInv, TypeOK
  <2> QED BY <2>1, <2>2
<1>12. UNCHANGED <<planned, calls, now, loop, open>>
  BY DEF AmendApply, Untouched
<1>13. TypeOK'
  BY <1>8, <1>9, <1>10, <1>11, <1>12 DEF ListInv, TypeOK
<1> QED BY <1>6, <1>8, <1>13 DEF ListInv

\* handleJoin looks for the name that it would give.
LEMMA JoinList ==
  ASSUME ListInv, NEW w \in Persons, NEW t \in Trips, Join(w, t)
  PROVE  ListInv'
<1> DEFINE guests == Put(event.guests, JoinName(w), t, "self")
<1>1. event \in Event /\ event.guests \in Seq(GuestRow) /\ Single(event.guests)
  BY DEF ListInv, TypeOK, Event
<1>2. JoinName(w) \in Persons /\ Named[JoinName(w)] = JoinName(w)
  BY GatheringAssumption DEF JoinName
<1>3. guests \in Seq(GuestRow) /\ Single(guests)
  BY <1>1, <1>2, PutKeeps DEF Sources
<1>4. event' = [event EXCEPT !.guests = guests]
  BY DEF Join
<1> HIDE DEF guests
<1>5. event' \in Event /\ event'.guests = guests
  BY <1>1, <1>3, <1>4 DEF Event
<1>6. due' \in Nat /\ calls' \in 0..MaxCalls
  BY GatheringAssumption DEF Join, Request, ListInv, TypeOK
<1>7. UNCHANGED <<now, loop, open, edits, planned, crossed>>
  BY DEF Join, Untouched
<1>8. TypeOK'
  BY <1>5, <1>6, <1>7 DEF ListInv, TypeOK
<1> QED BY <1>3, <1>5, <1>8 DEF ListInv

\* The organizer's form appends a row that may repeat a guest.
LEMMA AddList ==
  ASSUME ListInv, NEW w \in Persons, NEW t \in Trips, Add(w, t)
  PROVE  ListInv'
<1> DEFINE row == NewGuest(w, t, "host")
           guests == Append(event.guests, row)
<1>1. event \in Event /\ event.guests \in Seq(GuestRow) /\ Single(event.guests)
  BY DEF ListInv, TypeOK, Event
<1>2. row \in GuestRow /\ row.by = "host"
  BY DEF NewGuest, GuestRow, Sources
<1> HIDE DEF row
<1>3. /\ guests \in Seq(GuestRow) /\ DOMAIN guests = 1..(Len(event.guests) + 1)
      /\ DOMAIN event.guests = 1..Len(event.guests)
      /\ \A i \in 1..Len(event.guests) : guests[i] = event.guests[i]
      /\ guests[Len(event.guests) + 1] = row
  BY <1>1, <1>2
<1>4. event' = [event EXCEPT !.guests = guests]
  BY DEF Add, row
<1> HIDE DEF guests
<1>5. Single(guests)
  <2> SUFFICES ASSUME NEW i \in 1..(Len(event.guests) + 1), NEW j \in 1..(Len(event.guests) + 1),
                      i < j, guests[j].by \in {"self", "words"}
               PROVE  guests[i].who # guests[j].who
    BY <1>3 DEF Single
  <2>1. j \in 1..Len(event.guests) /\ i \in 1..Len(event.guests)
    BY <1>2, <1>3
  <2> QED BY <1>1, <1>3, <2>1 DEF Single
<1>6. event' \in Event /\ event'.guests = guests
  BY <1>1, <1>3, <1>4 DEF Event
<1>7. due' \in Nat /\ calls' \in 0..MaxCalls
  BY GatheringAssumption DEF Add, Request, ListInv, TypeOK
<1>8. UNCHANGED <<now, loop, open, edits, planned, crossed>>
  BY DEF Add, Untouched
<1>9. TypeOK'
  BY <1>6, <1>7, <1>8 DEF ListInv, TypeOK
<1> QED BY <1>5, <1>6, <1>9 DEF ListInv

\* A ticket is bought or given back: nothing else of the list changes.
LEMMA TicketList ==
  ASSUME ListInv, NEW i \in DOMAIN event.guests, Buy(i) \/ Unbuy(i)
  PROVE  ListInv'
<1>1. /\ event \in Event /\ event.guests \in Seq(GuestRow) /\ Single(event.guests)
      /\ event.guests[i] \in GuestRow
  BY DEF ListInv, TypeOK, Event
<1>2. PICK b \in BOOLEAN : event' = [event EXCEPT !.guests[i].bought = b]
  BY DEF Buy, Unbuy
<1> DEFINE guests == [event.guests EXCEPT ![i] = [event.guests[i] EXCEPT !.bought = b]]
<1>3. event'.guests = guests /\ event' = [event EXCEPT !.guests = guests]
  BY <1>1, <1>2 DEF Event
<1>4. [event.guests[i] EXCEPT !.bought = b] \in GuestRow
  BY <1>1 DEF GuestRow
<1>5. guests \in Seq(GuestRow) /\ DOMAIN guests = DOMAIN event.guests
  BY <1>1, <1>4
<1>6. \A j \in DOMAIN guests : /\ guests[j].who = event.guests[j].who
                               /\ guests[j].by = event.guests[j].by
  BY <1>1, <1>5 DEF GuestRow
<1> HIDE DEF guests
<1>7. Single(guests)
  BY <1>1, <1>5, <1>6 DEF Single
<1>8. event' \in Event
  BY <1>1, <1>3, <1>5, EventTyped
<1>9. due' \in Nat /\ calls' \in 0..MaxCalls
  BY GatheringAssumption DEF Buy, Unbuy, Request, ListInv, TypeOK
<1>10. UNCHANGED <<now, loop, open, edits, planned, crossed>>
  BY DEF Buy, Unbuy, Untouched
<1>11. TypeOK'
  BY <1>8, <1>9, <1>10 DEF ListInv, TypeOK
<1> QED BY <1>3, <1>7, <1>11 DEF ListInv

\* Sending a draft to the model and giving up leave the event alone.
LEMMA AskList ==
  ASSUME ListInv, NEW c \in Editors, AmendAsk(c) \/ AmendFails(c)
  PROVE  ListInv' /\ event' = event
<1>1. Draft(event) \in EventDraft
  BY DraftTyped DEF ListInv, TypeOK
<1>2. edits' \in [Editors -> [on : BOOLEAN, prior : EventDraft, ask : EventDraft]]
  <2>1. CASE AmendAsk(c)
    BY <1>1, <2>1, GatheringAssumption DEF AmendAsk, ListInv, TypeOK
  <2>2. CASE AmendFails(c)
    BY <2>2, NoDraftTyped DEF AmendFails, ListInv, TypeOK
  <2> QED BY <2>1, <2>2
<1>3. /\ UNCHANGED <<event, due, planned, now, loop, open>> /\ UNCHANGED crossed
      /\ calls' \in 0..MaxCalls
  BY GatheringAssumption DEF AmendAsk, AmendFails, Untouched, Request, ListInv, TypeOK
<1>4. TypeOK'
  BY <1>2, <1>3 DEF ListInv, TypeOK
<1> QED BY <1>3, <1>4 DEF ListInv

\* Rebuilds, the loop and the clock only read the event.
LEMMA OtherList ==
  ASSUME ListInv, Rebuild \/ Loop \/ StopAll \/ Clock \/ Breaker
  PROVE  ListInv'
<1>1. UNCHANGED <<event, edits, calls>> /\ UNCHANGED crossed
  BY DEF Rebuild, Loop, LoopBuilds, LoopEnds, LoopWaits, StopAll, Clock, Breaker, Passive
<1>2. due' \in Nat /\ now' \in 0..Horizon
  BY GatheringAssumption DEF Rebuild, Loop, LoopBuilds, LoopEnds, LoopWaits, StopAll,
     Clock, Breaker, Untouched, ListInv, TypeOK
<1>3. planned' \in EventDraft
  <2>1. Draft(event) \in EventDraft
    BY DraftTyped DEF ListInv, TypeOK
  <2> QED BY <2>1 DEF Rebuild, Loop, LoopBuilds, LoopEnds, LoopWaits, StopAll, Clock,
                      Breaker, ListInv, TypeOK
<1>4. open' \in BOOLEAN
  <2>1. open' = open \/ open' = ~open
    BY DEF Rebuild, Loop, LoopBuilds, LoopEnds, LoopWaits, StopAll, Clock, Breaker, Untouched
  <2>2. open \in BOOLEAN
    BY DEF ListInv, TypeOK
  <2> QED BY <2>1, <2>2
<1>5. loop' \in {"waiting", "building", "ended", "stopped"}
  BY DEF Rebuild, Loop, LoopBuilds, LoopEnds, LoopWaits, StopAll, Clock, Breaker,
     Untouched, ListInv, TypeOK
<1>6. TypeOK'
  BY <1>1, <1>2, <1>3, <1>4, <1>5 DEF ListInv, TypeOK
<1> QED BY <1>1, <1>6 DEF ListInv

\* Every request, and every step of the loop, keeps the list invariant.
LEMMA ListStep == ListInv /\ [Next]_vars => ListInv'
<1> SUFFICES ASSUME ListInv, [Next]_vars PROVE ListInv'
  OBVIOUS
<1>1. ASSUME NEW c \in Editors, AmendAsk(c) \/ Amend(c) PROVE ListInv'
  BY <1>1, AskList, ApplyList DEF Amend
<1>2. CASE Guest
  BY <1>2, JoinList, AddList, TicketList DEF Guest
<1>3. CASE Rebuild \/ Loop \/ StopAll \/ Clock \/ Breaker
  BY <1>3, OtherList
<1>4. CASE UNCHANGED vars
  BY <1>4 DEF vars, ListInv, TypeOK
<1> QED BY <1>1, <1>2, <1>3, <1>4 DEF Next

\* A created event may repeat guests of the form; nobody has joined it yet.
LEMMA ListInit == Init => ListInv
<1> SUFFICES ASSUME Init PROVE ListInv
  OBVIOUS
<1>1. event \in Event /\ now = 0 /\ loop = "waiting" /\ due = 1 /\ calls = 0
  BY GatheringAssumption DEF Init
<1>2. open \in BOOLEAN /\ crossed \in BOOLEAN
  BY DEF Init
<1>3. planned \in EventDraft
      /\ edits \in [Editors -> [on : BOOLEAN, prior : EventDraft, ask : EventDraft]]
  BY NoDraftTyped DEF Init
<1>4. TypeOK
  BY <1>1, <1>2, <1>3, GatheringAssumption DEF TypeOK
<1>5. \A i \in DOMAIN event.guests : event.guests[i].by = "host"
  BY GatheringAssumption DEF Init
<1> QED BY <1>4, <1>5 DEF ListInv, Single

\* The list is typed and has one row per name in every reachable state.
THEOREM ListAlways == Spec => []ListInv
  BY ListInit, ListStep, PTL DEF Spec

\* Every variable keeps its type: in particular the list stays a list of guests
\* through every merge of a draft (applyDraftToEvent).
THEOREM TypesKept == Spec => []TypeOK
<1>1. ListInv => TypeOK
  BY DEF ListInv
<1> QED BY <1>1, ListAlways, PTL

\* However joins, words and the form cross, whoever came by the link or by words
\* has one row (handleJoin, applyDraftToEvent).
THEOREM OneRowEach == Spec => []OneRowPerPerson
  BY SingleIsOne, ListAlways, PTL

\* Merging a draft of an older event deletes nobody and undoes no purchase
\* (applyDraftToEvent; join.go:112).
THEOREM WordsKeep == Spec => WordsKeepPeople
<1> DEFINE Kept == \A c \in Editors, i \in DOMAIN event.guests :
                     edits[c].on /\ ~edits'[c].on =>
                       /\ i \in DOMAIN event'.guests
                       /\ event'.guests[i].who = event.guests[i].who
                       /\ event'.guests[i].bought = event.guests[i].bought
<1>1. ListInv /\ [Next]_vars => [Kept]_vars
  <2> SUFFICES ASSUME ListInv, Next, NEW c \in Editors, NEW i \in DOMAIN event.guests,
                      edits[c].on, ~edits'[c].on
               PROVE  /\ i \in DOMAIN event'.guests
                      /\ event'.guests[i].who = event.guests[i].who
                      /\ event'.guests[i].bought = event.guests[i].bought
    BY DEF vars
  <2>1. event.guests \in Seq(GuestRow)
    BY DEF ListInv, TypeOK, Event
  <2>2. ASSUME NEW d \in Editors, AmendApply(d)
        PROVE  /\ i \in DOMAIN event'.guests
               /\ event'.guests[i].who = event.guests[i].who
               /\ event'.guests[i].bought = event.guests[i].bought
    <3>1. Keeps(event.guests, event'.guests) /\ event'.guests \in Seq(GuestRow)
      BY <2>2, ApplyList DEF ListInv, TypeOK, Event
    <3> QED BY <2>1, <3>1 DEF Keeps
  <2>3. ASSUME NEW d \in Editors, AmendAsk(d) \/ AmendFails(d) PROVE event' = event
    BY <2>3, AskList
  <2>4. CASE Guest \/ Rebuild \/ Loop \/ StopAll \/ Clock \/ Breaker
    <3>1. edits' = edits
      BY <2>4 DEF Guest, Join, Add, Buy, Unbuy, Rebuild, Loop, LoopBuilds, LoopEnds,
                  LoopWaits, StopAll, Clock, Breaker, Passive
    <3> QED BY <3>1
  <2> QED BY <2>2, <2>3, <2>4 DEF Next, Amend
<1> HIDE DEF Kept
<1>2. Spec => [][Kept]_vars
  BY <1>1, ListAlways, PTL DEF Spec
<1> QED BY <1>2 DEF WordsKeepPeople, Kept
=============================================================================
