------------------------------ MODULE Gathering ------------------------------
(***************************************************************************)
(* What people do to the event itself while time passes: guests join by the *)
(* link, the organizer adds them or runs the event with words, tickets are  *)
(* bought and given back, and one recheck loop per event comes round.       *)
(*                                                                         *)
(* An amendment sends a draft of the event to a language model, waits for   *)
(* up to 45 s and merges the model's draft into the event as it is by then. *)
(* The loop begins with the event, passes over ticks, and returns for good  *)
(* at the first tick after the gather time.                                 *)
(*                                                                         *)
(* Here a person is a name with a city; a trip stands for profile, party,   *)
(* lodging and companions; place stands for name, destination, buffer,      *)
(* spacing and budget, which are merged alike.  The board is LiveBoard's.   *)
(***************************************************************************)
EXTENDS Naturals, FiniteSets, Sequences

CONSTANTS
  Persons,      \* names with their cities, among them those without a name
  Named,        \* [Persons -> Persons]: the empty name becomes the default one
  Trips,        \* what a guest asks of the planner
  Places, Dates, Hours,
  None,         \* a field that is empty
  DefaultHour,  \* 15:00
  GatherAt,     \* [Dates \X Hours -> Nat]: Date and Deadline as an instant
  Starts,       \* the events that may be created
  Asks,         \* what the organizer may say: a draft of what is to change
  Editors,      \* slots for amendments in progress
  MaxCalls,     \* bound on the number of requests
  Horizon       \* bound on the clock; later gather times stay ahead

\* How a guest came into the list: by the form or at creation, by the link, by
\* words, by words about someone without a name.
Sources == {"host", "self", "words", "nameless"}

GuestRow == [who : Persons, trip : Trips, bought : BOOLEAN, by : Sources]

Event == [place : Places, date : Dates \cup {None}, hour : Hours \cup {None},
          guests : Seq(GuestRow)]

EventDraft == [place : Places \cup {None}, date : Dates \cup {None},
               hour : Hours \cup {None}, guests : Seq([who : Persons, trip : Trips])]

ASSUME GatheringAssumption ==
  /\ Named \in [Persons -> Persons]
  /\ \A w \in Persons : Named[Named[w]] = Named[w]
  /\ None \notin Places \cup Dates \cup Hours
  /\ DefaultHour \in Hours
  /\ GatherAt \in [Dates \X Hours -> Nat]
  /\ Starts \subseteq Event
  /\ \A ev \in Starts : \A i \in DOMAIN ev.guests : ev.guests[i].by = "host"
  /\ Asks \subseteq EventDraft
  /\ MaxCalls \in Nat /\ Horizon \in Nat

VARIABLES
  event,    \* State.Event: the frame and the guests
  now,      \* the clock
  loop,     \* the goroutine of Manager.loop
  open,     \* the circuit breaker, as BreakerOpen answers
  edits,    \* the amendments in progress
  due,      \* rebuilds that were kicked off and have not read the event yet
  planned,  \* history: the event as the last rebuild read it
  wish,     \* history: the frame that the organizer's words add up to
  crossed,  \* history: an amendment met a frame that had changed meanwhile
  calls     \* the number of requests so far

vars == <<event, now, loop, open, edits, due, planned, wish, crossed, calls>>

-----------------------------------------------------------------------------
(* The event *)

NewGuest(w, trip, by) == [who |-> w, trip |-> trip, bought |-> FALSE, by |-> by]

Frame(ev) == [place |-> ev.place, date |-> ev.date, hour |-> ev.hour]

\* eventToDraft: what of the event goes to the model, and to a rebuild.
Draft(ev) ==
  [place |-> ev.place, date |-> ev.date, hour |-> ev.hour,
   guests |-> [i \in DOMAIN ev.guests |->
                 [who |-> ev.guests[i].who, trip |-> ev.guests[i].trip]]]

NoDraft == [place |-> None, date |-> None, hour |-> None, guests |-> <<>>]

\* GatherTime exists if date and deadline parse; afterwards nothing is rechecked.
Past == /\ event.date # None /\ event.hour # None
        /\ now > GatherAt[event.date, event.hour]

AllBought == event.guests # <<>> /\ \A i \in DOMAIN event.guests : event.guests[i].bought

-----------------------------------------------------------------------------
(* The guest list *)

\* The guest of that name and city, if any, gets the new trip; otherwise a row
\* is appended, under the default name if the name is empty.
Put(guests, w, trip, by) ==
  LET Same == {i \in DOMAIN guests : guests[i].who = w}
      First == CHOOSE i \in Same : \A j \in Same : i <= j
  IN IF Same = {} THEN Append(guests, NewGuest(Named[w], trip, by))
     ELSE [guests EXCEPT ![First].trip = trip]

\* Mutant of JoinName: the default name is given when the row is appended.
JoinNameLate(w) == w

\* handleJoin gives the default name before it looks for the guest.
JoinName(w) == Named[w]

\* Mutant of PutAll: the draft's list replaces the event's.
PutAllReplaces(guests, entries) ==
  [i \in DOMAIN entries |-> NewGuest(entries[i].who, entries[i].trip, "words")]

\* applyDraftToEvent, one entry of the draft.
Enter(guests, e) ==
  Put(guests, e.who, e.trip, IF Named[e.who] = e.who THEN "words" ELSE "nameless")

\* applyDraftToEvent, the guests: each entry of the draft in turn.
PutAll(guests, entries) ==
  LET after[i \in 0..Len(entries)] ==
        IF i = 0 THEN guests ELSE Enter(after[i - 1], entries[i])
  IN after[Len(entries)]

\* Mutant of Take: the empty field of a draft empties the event's.
TakeEmpty(old, new) == new

\* Mutant of Take: only what is missing is filled in.
TakeMissing(old, new) == IF old = None THEN new ELSE old

\* applyDraftToEvent, one field of the frame.
Take(old, new) == IF new = None THEN old ELSE new

Amended(ev, draft) ==
  [place  |-> Take(ev.place, draft.place),
   date   |-> Take(ev.date, draft.date),
   hour   |-> Take(ev.hour, draft.hour),
   guests |-> PutAll(ev.guests, draft.guests)]

-----------------------------------------------------------------------------
(* The language model *)

\* normalizeDraft: a deadline that the model leaves out becomes 15:00.
Normal(hour) == IF hour = None THEN DefaultHour ELSE hour

\* What the model keeps of a list of guests.
Of(entries, people) ==
  LET kept[i \in 0..Len(entries)] ==
        IF i = 0 THEN <<>>
        ELSE IF entries[i].who \in people THEN Append(kept[i - 1], entries[i])
        ELSE kept[i - 1]
  IN kept[Len(entries)]

\* The model merges what was asked into what it keeps of the prior draft.
Reply(ask, place, date, hour, guests) ==
  [place  |-> IF ask.place # None THEN ask.place ELSE place,
   date   |-> IF ask.date # None THEN ask.date ELSE date,
   hour   |-> Normal(IF ask.hour # None THEN ask.hour ELSE hour),
   guests |-> guests \o ask.guests]

-----------------------------------------------------------------------------
(* Requests *)

Request == calls < MaxCalls /\ calls' = calls + 1

NoEdit == [on |-> FALSE, prior |-> NoDraft, ask |-> NoDraft]

\* Mutant of Kicks: only a new guest calls for a rebuild.
KicksForGuests(old, new) == IF Len(new.guests) > Len(old.guests) THEN 1 ELSE 0

\* handleAmend kicks off a rebuild unless the list of changes is empty.
Kicks(old, new) == IF new # old THEN 1 ELSE 0

Untouched == UNCHANGED <<now, loop, open>>

\* handleAmend up to the call of the model.
AmendAsk(c) ==
  /\ ~edits[c].on
  /\ Request
  /\ \E ask \in Asks :
       edits' = [edits EXCEPT ![c] = [on |-> TRUE, prior |-> Draft(event), ask |-> ask]]
  /\ UNCHANGED <<event, due, planned, wish, crossed>> /\ Untouched

\* The model fails, its answer is no draft, or the 45 s are over.
AmendFails(c) ==
  /\ edits[c].on
  /\ edits' = [edits EXCEPT ![c] = NoEdit]
  /\ UNCHANGED <<event, due, planned, wish, crossed, calls>> /\ Untouched

\* The model answers, and its draft is merged into the event as it is now.  The
\* model invents nothing, but may leave out fields and guests of the prior draft.
AmendApply(c) ==
  /\ edits[c].on
  /\ LET prior == edits[c].prior IN
     \E place \in {prior.place, None}, date \in {prior.date, None},
        hour \in {prior.hour, None},
        people \in SUBSET {prior.guests[i].who : i \in DOMAIN prior.guests} :
       event' = Amended(event, Reply(edits[c].ask, place, date, hour,
                                     Of(prior.guests, people)))
  /\ edits' = [edits EXCEPT ![c] = NoEdit]
  /\ due' = due + Kicks(event, event')
  /\ LET ask == edits[c].ask
         Said(old, new) == IF new = None THEN old ELSE new
     IN wish' = [place |-> Said(wish.place, ask.place),
                 date  |-> Said(wish.date, ask.date),
                 hour  |-> Said(wish.hour, ask.hour)]
  /\ crossed' = (crossed \/ Frame(event) # Frame(edits[c].prior))
  /\ UNCHANGED <<planned, calls>> /\ Untouched

Join(w, trip) ==
  /\ Request
  /\ event' = [event EXCEPT !.guests = Put(@, JoinName(w), trip, "self")]
  /\ due' = due + 1
  /\ UNCHANGED <<edits, planned, wish, crossed>> /\ Untouched

\* handleAddGuest appends whatever the organizer typed.
Add(w, trip) ==
  /\ Request
  /\ event' = [event EXCEPT !.guests = Append(@, NewGuest(w, trip, "host"))]
  /\ due' = due + 1
  /\ UNCHANGED <<edits, planned, wish, crossed>> /\ Untouched

Buy(i) ==
  /\ Request
  /\ event' = [event EXCEPT !.guests[i].bought = TRUE]
  /\ UNCHANGED <<edits, due, planned, wish, crossed>> /\ Untouched

\* A rebuild is kicked off if the board shows the row as bought.
Unbuy(i) ==
  /\ Request
  /\ event' = [event EXCEPT !.guests[i].bought = FALSE]
  /\ \E shown \in {0, 1} : due' = due + shown
  /\ UNCHANGED <<edits, planned, wish, crossed>> /\ Untouched

-----------------------------------------------------------------------------
(* Rebuilds and the loop *)

Passive == UNCHANGED <<event, edits, wish, crossed, calls>>

\* A rebuild that kickBuild or kickRebuild spawned reads the event.
Rebuild ==
  /\ due > 0
  /\ due' = due - 1
  /\ planned' = Draft(event)
  /\ Passive /\ Untouched

\* Mutant of Over: the loop also ends when everybody has bought.
OverOrBought == Past \/ AllBought

\* What makes the loop return at a tick.
Over == Past

\* A tick while the circuit is open, or with every ticket bought, does nothing.
LoopBuilds ==
  /\ loop = "waiting" /\ ~open /\ ~Over /\ ~AllBought
  /\ loop' = "building"
  /\ planned' = Draft(event)
  /\ Passive /\ UNCHANGED <<now, open, due>>

LoopEnds ==
  /\ loop = "waiting" /\ ~open /\ Over
  /\ loop' = "ended"
  /\ Passive /\ UNCHANGED <<now, open, due, planned>>

\* BuildAndStore returns; its context ends after one period at the latest.
LoopWaits ==
  /\ loop = "building"
  /\ loop' = "waiting"
  /\ Passive /\ UNCHANGED <<now, open, due, planned>>

\* main stops every loop before the server shuts down.
StopAll ==
  /\ loop # "stopped"
  /\ loop' = "stopped"
  /\ Passive /\ UNCHANGED <<now, open, due, planned>>

Clock ==
  /\ now < Horizon
  /\ now' = now + 1
  /\ Passive /\ UNCHANGED <<loop, open, due, planned>>

\* The circuit opens after failures and closes after the cooldown: see Client.
Breaker ==
  /\ open' = ~open
  /\ Passive /\ UNCHANGED <<now, loop, due, planned>>

-----------------------------------------------------------------------------
\* handleCreateEvent requires a destination and a guest, not a date or an hour;
\* it kicks off the first rebuild and starts the loop.
Init ==
  /\ event \in Starts
  /\ now = 0 /\ loop = "waiting" /\ open = FALSE
  /\ edits = [c \in Editors |-> NoEdit]
  /\ due = 1 /\ planned = NoDraft
  /\ wish = Frame(event) /\ crossed = FALSE
  /\ calls = 0

Amend(c) == AmendFails(c) \/ AmendApply(c)

Loop == LoopBuilds \/ LoopEnds \/ LoopWaits

Guest ==
  \/ \E w \in Persons, t \in Trips : Join(w, t) \/ Add(w, t)
  \/ \E i \in DOMAIN event.guests : Buy(i) \/ Unbuy(i)

Next == \/ \E c \in Editors : AmendAsk(c) \/ Amend(c)
        \/ Guest \/ Rebuild \/ Loop \/ StopAll \/ Clock \/ Breaker

\* Goroutines are scheduled, the ticker ticks, calls of the model time out.
Fairness == /\ WF_vars(Rebuild) /\ WF_vars(Loop) /\ WF_vars(Clock)
            /\ \A c \in Editors : WF_vars(Amend(c))

Spec == Init /\ [][Next]_vars /\ Fairness
=============================================================================
