--------------------------- MODULE GatheringProps ---------------------------
(***************************************************************************)
(* What Gathering should guarantee: the properties of its runs.             *)
(***************************************************************************)
EXTENDS Gathering

\* Every variable holds a value of its Go type; an event has a destination.
TypeOK ==
  /\ event \in Event
  /\ now \in 0..Horizon
  /\ loop \in {"waiting", "building", "ended", "stopped"}
  /\ open \in BOOLEAN
  /\ edits \in [Editors -> [on : BOOLEAN, prior : EventDraft, ask : EventDraft]]
  /\ due \in Nat /\ planned \in EventDraft
  /\ crossed \in BOOLEAN /\ calls \in 0..MaxCalls

\* A row that someone got by joining or by words is the only one of that name
\* and city so far, however joins and drafts of an older list cross (handleJoin
\* and applyDraftToEvent look at the list as it is).  The organizer's form may
\* repeat a guest, and words about a guest without a name do.
OneRowPerPerson ==
  \A i, j \in DOMAIN event.guests :
    i < j /\ event.guests[j].by \in {"self", "words"} =>
      event.guests[i].who # event.guests[j].who

\* Words delete nobody and undo no purchase, although the draft that is merged
\* comes from an older event (join.go:112: nothing is ever deleted by words).
WordsKeepPeople ==
  [][\A c \in Editors, i \in DOMAIN event.guests :
       edits[c].on /\ ~edits'[c].on =>
         /\ i \in DOMAIN event'.guests
         /\ event'.guests[i].who = event.guests[i].who
         /\ event'.guests[i].bought = event.guests[i].bought]_vars

\* Unless amendments crossed, place and date are what the organizer's words add
\* up to, whatever the model leaves out of its drafts; the hour may have been
\* reset to the default by a draft without one (normalizeDraft).
FrameAsAsked ==
  ~crossed => /\ event.place = wish.place
              /\ event.date = wish.date
              /\ event.hour \in {wish.hour, DefaultHour}

\* Once requests cease, the last rebuild has read the event with every change.
ChangesArePlanned == <>[](planned = Draft(event))

\* While the gather time is ahead, rechecks go on: an outage or a time in which
\* everybody had bought does not end the loop.
ChecksGoOn ==
  [](~Past) => \/ []<>(loop = "building")
               \/ []<>(open \/ AllBought)
               \/ <>(loop = "stopped")

=============================================================================
