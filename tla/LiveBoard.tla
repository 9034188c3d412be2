------------------------------ MODULE LiveBoard ------------------------------
(***************************************************************************)
(* The life of one event's board: the guests' own flags (event.State.Event) *)
(* and the last published board (event.State.Board) are two variables that  *)
(* HTTP handlers, background rebuilds and the recheck loop read and write   *)
(* without a common lock: each lock of State covers a single read or write. *)
(*                                                                         *)
(* A rebuild (Manager.BuildAndStore) reads the guests, reads the board,     *)
(* plans every row from searches that take up to 90 s, publishes a whole    *)
(* board and then clears stale pins.  A handler copies the board, edits its *)
(* copy and publishes it.  Every writer replaces the whole board.           *)
(*                                                                         *)
(* An offer is a vehicle at a price (RouteOption); its key (OptionKey) is   *)
(* the vehicle and departure without the price.  Statuses assembled, risk,  *)
(* waiting and reassembled are one status here, "planned": they differ in   *)
(* wording, and told says if the row's log claims a collapse.               *)
(***************************************************************************)
EXTENDS BoardRows

CONSTANTS
  Invited,    \* the guests the event is created with
  Keys,       \* option identities
  NoKey,      \* the empty PinnedKey
  KeyOf,      \* [Offers -> Keys]: RouteOption.Key
  Rank,       \* [Offers -> Nat]: the order of rankOptions, smaller is better
  Night,      \* the offers that only the search on the previous date returns
  Route,      \* [Guests -> SUBSET Offers]: offers from the guest's city
  Caching,    \* BOOLEAN: FALSE is a search cache with a zero TTL
  Workers,    \* slots for rebuilds started by requests
  Ticker,     \* the slot of the recheck loop's own rebuild
  Clients,    \* slots for requests in progress
  Calls,      \* the requests that the environment issues
  MaxCalls,   \* bound on the number of requests
  MaxMoves,   \* bound on the number of inventory changes
  MaxFails    \* bound on the number of failed searches

Builds == Workers \cup {Ticker}
Passes == {"day", "night"}
Operations == {"choose", "buy", "unbuy", "consent", "revoke", "collapse",
               "add", "join", "recheck", "tick"}

ASSUME ConstantsAssumption ==
  /\ Invited \subseteq Guests /\ Invited # {}
  /\ NoKey \notin Keys
  /\ KeyOf \in [Offers -> Keys]
  /\ \A a, b \in Offers : KeyOf[a] = KeyOf[b] => Vehicle[a] = Vehicle[b]
  /\ Rank \in [Offers -> Nat]
  /\ Night \subseteq Offers
  /\ Route \in [Guests -> SUBSET Offers]
  /\ Caching \in BOOLEAN
  /\ Ticker \notin Workers
  /\ Calls \subseteq Operations
  /\ MaxCalls \in Nat /\ MaxMoves \in Nat /\ MaxFails \in Nat

VARIABLES
  guests,   \* State.Event.Guests: each guest's flags
  board,    \* State.Board: the last published board
  builds,   \* the rebuilds in progress, one record per slot
  reqs,     \* the requests in progress, one record per slot
  live,     \* what the carriers sell to each guest now
  cache,    \* the search cache entries for each guest's two searches
  agreed,   \* history: the guests who ever consented to show their name
  calls, moves, fails  \* counters of the bounded events

bounds == <<calls, moves, fails>>
vars == <<guests, board, builds, reqs, live, cache, agreed, bounds>>

-----------------------------------------------------------------------------
(* Data *)

Guest == [in : BOOLEAN, purchased : BOOLEAN, pin : Keys \cup {NoKey},
          optin : BOOLEAN, consent : BOOLEAN]

Status == {"absent", "planning", "needs_help", "planned", "purchased"}

Row == [status : Status, chosen : Offers \cup {NoOffer}, alts : SUBSET Offers,
        pinned : BOOLEAN, purchased : BOOLEAN, told : BOOLEAN,
        card : Offers \cup {NoOffer}]

Match == [pair : SUBSET Guests, mutual : BOOLEAN]

Board == [rows : [Guests -> Row], comps : SUBSET Match]

Nobody == [in |-> FALSE, purchased |-> FALSE, pin |-> NoKey,
           optin |-> FALSE, consent |-> FALSE]

NewGuest(optin) == [Nobody EXCEPT !.in = TRUE, !.optin = optin]

\* The zero BoardRow with a status; "absent" stands for no row at all.
Blank(status) ==
  [status |-> status, chosen |-> NoOffer, alts |-> {}, pinned |-> FALSE,
   purchased |-> FALSE, told |-> FALSE, card |-> NoOffer]

EmptyBoard == [rows |-> [g \in Guests |-> Blank("absent")], comps |-> {}]

\* kickBuild: every guest planning, nothing chosen, no companions.
Placeholder(ev) ==
  [rows  |-> [g \in Guests |-> Blank(IF ev[g].in THEN "planning" ELSE "absent")],
   comps |-> {}]

\* Mutant of Matches: one consent is enough.
MatchesEither(ev, rows) ==
  LET Shared == {p \in Guests \X Guests :
                   /\ p[1] # p[2] /\ ev[p[1]].optin /\ ev[p[2]].optin
                   /\ rows[p[1]].chosen # NoOffer /\ rows[p[2]].chosen # NoOffer
                   /\ Vehicle[rows[p[1]].chosen] = Vehicle[rows[p[2]].chosen]}
  IN {[pair |-> {p[1], p[2]}, mutual |-> ev[p[1]].consent \/ ev[p[2]].consent]
        : p \in Shared}

\* companions.Find: opted-in guests whose chosen routes share the vehicle.
Matches(ev, rows) ==
  LET Rides(g) == ev[g].optin /\ rows[g].chosen # NoOffer
      Shared == {p \in Guests \X Guests :
                   /\ p[1] # p[2] /\ Rides(p[1]) /\ Rides(p[2])
                   /\ Vehicle[rows[p[1]].chosen] = Vehicle[rows[p[2]].chosen]}
  IN {[pair |-> {p[1], p[2]}, mutual |-> ev[p[1]].consent /\ ev[p[2]].consent]
        : p \in Shared}

\* handleGuestCard: there is no card without a row on the board.
HasCard(g) == board.rows[g].status # "absent"

\* companions.ForGuest: the guests whom the card of g names, g included.
NamesShown(g) ==
  UNION {IF m.mutual THEN m.pair ELSE {g} : m \in {c \in board.comps : g \in c.pair}}

-----------------------------------------------------------------------------
(* planner.PlanGuest and Orchestrator.planRow *)

\* Mutant of InWindow: the deadline is not checked.
InWindowAll(found) == found

InWindow(found) == {o \in found : Arrives[o] <= Deadline}

\* rankOptions sorts the values of a map, so equal ranks come in any order.
Best(F) == {o \in F : \A p \in F : Rank[o] <= Rank[p]}

\* Mutant of Assembled: a guest's first route counts as a new one.
AssembledAnew(guest, was, c, A, lost) ==
  [status    |-> IF guest.purchased THEN "purchased" ELSE "planned",
   chosen    |-> c,
   alts      |-> A,
   pinned    |-> KeyOf[c] = guest.pin,
   purchased |-> guest.purchased,
   told      |-> lost \/ was.chosen # c,
   card      |-> IF was.chosen = c /\ was.card # NoOffer THEN was.card ELSE c]

\* The row of a guest for whom c was chosen out of the offers found.
Assembled(guest, was, c, A, lost) ==
  [status    |-> IF guest.purchased THEN "purchased" ELSE "planned",
   chosen    |-> c,
   alts      |-> A,
   pinned    |-> KeyOf[c] = guest.pin,
   purchased |-> guest.purchased,
   told      |-> lost \/ (was.chosen # NoOffer /\ was.chosen # c),
   card      |-> IF was.chosen = c /\ was.card # NoOffer THEN was.card ELSE c]

\* The rows a search that found these offers may yield.
Plans(guest, was, found) ==
  LET F    == InWindow(found)
      held == {o \in F : KeyOf[o] = guest.pin}
      lost == guest.pin # NoKey /\ held = {}
      pick == IF held # {} THEN held ELSE Best(F)
  IN IF F = {}
     THEN {[Blank("needs_help") EXCEPT !.told = (was.chosen # NoOffer)]}
     ELSE UNION {{Assembled(guest, was, c, A, lost) : A \in Alternatives(F, c)}
                   : c \in pick}

\* Mutant of Carried: a row that was frozen once is carried for ever.
CarriedOnceFrozen(guest, was) ==
  (guest.purchased \/ was.purchased) /\ was.chosen # NoOffer

\* A purchased guest's row is carried; a failed search carries the row too.
Carried(guest, was) == guest.purchased /\ was.chosen # NoOffer

Freeze(was) == [was EXCEPT !.purchased = TRUE, !.status = "purchased"]

Unseen(was) == IF was.chosen # NoOffer THEN was ELSE Blank("needs_help")

-----------------------------------------------------------------------------
(* Rebuilds: Manager.BuildAndStore *)

IdleBuild == [pc |-> "idle", fresh |-> FALSE, ev |-> [g \in Guests |-> Nobody],
              prior |-> EmptyBoard, rows |-> EmptyBoard.rows, todo |-> {}]

Starting(fresh) == [IdleBuild EXCEPT !.pc = "start", !.fresh = fresh]

\* go BuildAndStore(...): a rebuild begins in a free slot.
Spawn(fresh) ==
  \E b \in Workers : /\ builds[b].pc = "idle"
                     /\ builds' = [builds EXCEPT ![b] = Starting(fresh)]

BuildSnapshot(b) ==
  /\ builds[b].pc = "start"
  /\ builds' = [builds EXCEPT ![b].pc = "prior", ![b].ev = guests]
  /\ UNCHANGED <<guests, board, reqs, live, cache, agreed, bounds>>

BuildPrior(b) ==
  /\ builds[b].pc = "prior"
  /\ builds' = [builds EXCEPT ![b].pc = "plan", ![b].prior = board,
                  ![b].todo = {g \in Guests : builds[b].ev[g].in}]
  /\ UNCHANGED <<guests, board, reqs, live, cache, agreed, bounds>>

Sold(p) == IF p = "night" THEN Night ELSE Offers \ Night

\* A search answers from the cache, or from the live inventory, or fails.
Replies(g, p, fresh) ==
  IF ~fresh /\ cache[g][p].hit
  THEN {[ok |-> TRUE, offers |-> cache[g][p].offers]}
  ELSE {[ok |-> TRUE, offers |-> live[g] \cap Sold(p)]}
         \cup (IF fails < MaxFails THEN {[ok |-> FALSE, offers |-> {}]} ELSE {})

Remembered(entry, fresh, reply) ==
  IF Caching /\ ~fresh /\ reply.ok THEN [hit |-> TRUE, offers |-> reply.offers]
  ELSE entry

BuildPlan(b, g) ==
  /\ builds[b].pc = "plan"
  /\ g \in builds[b].todo
  /\ LET guest == builds[b].ev[g]
         was   == builds[b].prior.rows[g]
         fresh == builds[b].fresh
         Done(row) == builds' = [builds EXCEPT ![b].rows[g] = row,
                                               ![b].todo = @ \ {g}]
     IN IF Carried(guest, was)
        THEN Done(Freeze(was)) /\ UNCHANGED <<cache, fails>>
        ELSE \E d \in Replies(g, "day", fresh), n \in Replies(g, "night", fresh) :
               /\ fails' = fails + (IF d.ok THEN 0 ELSE 1) + (IF n.ok THEN 0 ELSE 1)
               /\ fails' <= MaxFails
               /\ cache' = [cache EXCEPT
                    ![g] = [day   |-> Remembered(@.day, fresh, d),
                            night |-> Remembered(@.night, fresh, n)]]
               /\ \E row \in (IF d.offers \cup n.offers = {} /\ ~d.ok
                              THEN {Unseen(was)}
                              ELSE Plans(guest, was, d.offers \cup n.offers)) :
                    Done(row)
  /\ UNCHANGED <<guests, board, reqs, live, agreed, calls, moves>>

BuildPublish(b) ==
  /\ builds[b].pc = "plan"
  /\ builds[b].todo = {}
  /\ \E rows \in Waves(builds[b].rows) :
       /\ board' = [rows |-> rows, comps |-> Matches(builds[b].ev, rows)]
       /\ builds' = [builds EXCEPT ![b].pc = "clear", ![b].rows = rows,
                                   ![b].prior = EmptyBoard]
  /\ UNCHANGED <<guests, reqs, live, cache, agreed, bounds>>

\* Mutant of Stale: every pin of the snapshot is dropped.
StaleAll(b) == {g \in Guests : builds[b].ev[g].pin # NoKey /\ ~builds[b].ev[g].purchased}

\* Pins of the snapshot that the published board does not hold are dropped.
Stale(b) == {g \in Guests : /\ builds[b].ev[g].in
                            /\ builds[b].ev[g].pin # NoKey
                            /\ ~builds[b].ev[g].purchased
                            /\ ~builds[b].rows[g].pinned}

BuildClear(b) ==
  /\ builds[b].pc = "clear"
  /\ guests' = [g \in Guests |->
                  IF g \in Stale(b) THEN [guests[g] EXCEPT !.pin = NoKey]
                  ELSE guests[g]]
  /\ builds' = [builds EXCEPT ![b] = IdleBuild]
  /\ UNCHANGED <<board, reqs, live, cache, agreed, bounds>>

\* One tick of Manager.loop before the gather time, with the circuit closed.
AllPurchased == /\ \E g \in Guests : guests[g].in
                /\ \A g \in Guests : guests[g].in => guests[g].purchased

Tick ==
  /\ "tick" \in Calls
  /\ builds[Ticker].pc = "idle"
  /\ ~AllPurchased
  /\ builds' = [builds EXCEPT ![Ticker] = Starting(TRUE)]
  /\ UNCHANGED <<guests, board, reqs, live, cache, agreed, bounds>>

-----------------------------------------------------------------------------
(* Requests: each handler copies the board, edits the copy, publishes it.   *)

IdleReq == [op |-> "none", pc |-> "idle", g |-> CHOOSE g \in Guests : TRUE,
            key |-> NoKey, copy |-> EmptyBoard]

\* A request that the environment may issue now, in the free slot c.
Arrive(c, op) ==
  /\ op \in Calls
  /\ calls < MaxCalls
  /\ calls' = calls + 1
  /\ reqs[c].pc = "idle"

At(c, op, pc) == reqs[c].op = op /\ reqs[c].pc = pc

Begin(c, op, pc, g, key, copy) ==
  reqs' = [reqs EXCEPT ![c] = [op |-> op, pc |-> pc, g |-> g, key |-> key,
                               copy |-> copy]]

Goto(c, pc) == reqs' = [reqs EXCEPT ![c].pc = pc]

Finish(c) == reqs' = [reqs EXCEPT ![c] = IdleReq]

WithRow(g, row) == [board EXCEPT !.rows[g] = row]

\* handleGuestChoose: validate on a copy, pin the guest, publish, rebuild.
ChooseRead(c, g, k) ==
  /\ Arrive(c, "choose")
  /\ board.rows[g].status # "absent"
  /\ ~board.rows[g].purchased
  /\ \E o \in board.rows[g].alts \cup ({board.rows[g].chosen} \ {NoOffer}) :
       /\ KeyOf[o] = k
       /\ Begin(c, "choose", "event", g, k,
                WithRow(g, [Swap(board.rows[g], o) EXCEPT !.pinned = TRUE]))
  /\ UNCHANGED <<guests, board, builds, live, cache, agreed, moves, fails>>

ChooseEvent(c) ==
  /\ At(c, "choose", "event")
  /\ guests' = [guests EXCEPT ![reqs[c].g].pin = reqs[c].key]
  /\ Goto(c, "store")
  /\ UNCHANGED <<board, builds, live, cache, agreed, bounds>>

ChooseStore(c) ==
  /\ At(c, "choose", "store")
  /\ board' = reqs[c].copy
  /\ Spawn(FALSE)
  /\ Finish(c)
  /\ UNCHANGED <<guests, live, cache, agreed, bounds>>

\* handleGuestPurchased with purchased = true: nothing to rebuild.
BuyRead(c, g) ==
  /\ Arrive(c, "buy")
  /\ board.rows[g].chosen # NoOffer
  /\ Begin(c, "buy", "event", g, KeyOf[board.rows[g].chosen],
           WithRow(g, Freeze(board.rows[g])))
  /\ UNCHANGED <<guests, board, builds, live, cache, agreed, moves, fails>>

BuyEvent(c) ==
  /\ At(c, "buy", "event")
  /\ guests' = [guests EXCEPT ![reqs[c].g].purchased = TRUE,
                              ![reqs[c].g].pin = reqs[c].key]
  /\ Goto(c, "store")
  /\ UNCHANGED <<board, builds, live, cache, agreed, bounds>>

\* handleGuestPurchased with purchased = false on a frozen row; the rebuild is
\* kicked before the copy is published.
UnbuyRead(c, g) ==
  /\ Arrive(c, "unbuy")
  /\ board.rows[g].purchased
  /\ Begin(c, "unbuy", "event", g, NoKey,
           WithRow(g, [board.rows[g] EXCEPT !.purchased = FALSE,
                                            !.status = "planned"]))
  /\ UNCHANGED <<guests, board, builds, live, cache, agreed, moves, fails>>

UnbuyEvent(c) ==
  /\ At(c, "unbuy", "event")
  /\ guests' = [guests EXCEPT ![reqs[c].g].purchased = FALSE]
  /\ Spawn(FALSE)
  /\ Goto(c, "store")
  /\ UNCHANGED <<board, live, cache, agreed, bounds>>

\* The same request on a row that is not frozen clears the flag, republishes.
UnbuyNoop(c, g) ==
  /\ Arrive(c, "unbuy")
  /\ board.rows[g].status # "absent" /\ ~board.rows[g].purchased
  /\ Begin(c, "unbuy", "flag", g, NoKey, board)
  /\ UNCHANGED <<guests, board, builds, live, cache, agreed, moves, fails>>

UnbuyFlag(c) ==
  /\ At(c, "unbuy", "flag")
  /\ guests' = [guests EXCEPT ![reqs[c].g].purchased = FALSE]
  /\ Goto(c, "store")
  /\ UNCHANGED <<board, builds, live, cache, agreed, bounds>>

\* handleGuestConsent: set the flag, copy the board, match again, publish.
ConsentEvent(c, g, op) ==
  /\ op \in {"consent", "revoke"}
  /\ Arrive(c, op)
  /\ guests[g].in
  /\ guests' = [guests EXCEPT ![g].consent = (op = "consent")]
  /\ agreed' = IF op = "consent" THEN agreed \cup {g} ELSE agreed
  /\ Begin(c, op, "read", g, NoKey, EmptyBoard)
  /\ UNCHANGED <<board, builds, live, cache, moves, fails>>

ConsentRead(c) ==
  /\ reqs[c].op \in {"consent", "revoke"} /\ reqs[c].pc = "read"
  /\ reqs' = [reqs EXCEPT ![c].pc = "match", ![c].copy = board]
  /\ UNCHANGED <<guests, board, builds, live, cache, agreed, bounds>>

ConsentMatch(c) ==
  /\ reqs[c].op \in {"consent", "revoke"} /\ reqs[c].pc = "match"
  /\ reqs' = [reqs EXCEPT ![c].pc = "store",
                          ![c].copy.comps = Matches(guests, reqs[c].copy.rows)]
  /\ UNCHANGED <<guests, board, builds, live, cache, agreed, bounds>>

\* handleDemoCollapse: one unpurchased guest moves onto an alternative.
CollapseRead(c, g) ==
  /\ Arrive(c, "collapse")
  /\ board.rows[g].chosen # NoOffer /\ ~board.rows[g].purchased
  /\ \E o \in board.rows[g].alts :
       Begin(c, "collapse", "store", g, NoKey,
             WithRow(g, [Swap(board.rows[g], o) EXCEPT !.told = TRUE,
                                                       !.status = "planned"]))
  /\ UNCHANGED <<guests, board, builds, live, cache, agreed, moves, fails>>

\* SetBoard(nb) as the last step of the handlers that kick nothing after it.
CopyStore(c) ==
  /\ reqs[c].op \in {"buy", "unbuy", "consent", "revoke", "collapse"}
  /\ reqs[c].pc = "store"
  /\ board' = reqs[c].copy
  /\ Finish(c)
  /\ UNCHANGED <<guests, builds, live, cache, agreed, bounds>>

\* handleAddGuest and kickBuild: a placeholder replaces the whole board.
AddEvent(c, g) ==
  /\ Arrive(c, "add")
  /\ ~guests[g].in
  /\ \E optin \in BOOLEAN : guests' = [guests EXCEPT ![g] = NewGuest(optin)]
  /\ Begin(c, "add", "read", g, NoKey, EmptyBoard)
  /\ UNCHANGED <<board, builds, live, cache, agreed, moves, fails>>

AddRead(c) ==
  /\ At(c, "add", "read")
  /\ reqs' = [reqs EXCEPT ![c].pc = "store", ![c].copy = Placeholder(guests)]
  /\ UNCHANGED <<guests, board, builds, live, cache, agreed, bounds>>

AddStore(c) ==
  /\ At(c, "add", "store")
  /\ board' = reqs[c].copy
  /\ Spawn(FALSE)
  /\ Finish(c)
  /\ UNCHANGED <<guests, live, cache, agreed, bounds>>

\* handleJoin: the same name and city updates the guest, else adds one.
Join(c, g, optin) ==
  /\ Arrive(c, "join")
  /\ guests' = [guests EXCEPT ![g] = IF guests[g].in
                                     THEN [guests[g] EXCEPT !.optin = optin]
                                     ELSE NewGuest(optin)]
  /\ Spawn(FALSE)
  /\ UNCHANGED <<board, reqs, live, cache, agreed, moves, fails>>

\* handleRecheck: a rebuild with live searches.
Recheck(c) ==
  /\ Arrive(c, "recheck")
  /\ Spawn(TRUE)
  /\ UNCHANGED <<guests, board, reqs, live, cache, agreed, moves, fails>>

-----------------------------------------------------------------------------
(* The carriers' inventory and the age of cache entries *)

SellOut(g, o) ==
  /\ moves < MaxMoves
  /\ o \in live[g]
  /\ live' = [live EXCEPT ![g] = @ \ {o}]
  /\ moves' = moves + 1
  /\ UNCHANGED <<guests, board, builds, reqs, cache, agreed, calls, fails>>

OneOfferPerKey(F) == \A o, p \in F : KeyOf[o] = KeyOf[p] => o = p

PutOnSale(g, o) ==
  /\ moves < MaxMoves
  /\ o \in Route[g] \ live[g]
  /\ OneOfferPerKey(live[g] \cup {o})
  /\ live' = [live EXCEPT ![g] = @ \cup {o}]
  /\ moves' = moves + 1
  /\ UNCHANGED <<guests, board, builds, reqs, cache, agreed, calls, fails>>

NoEntry == [hit |-> FALSE, offers |-> {}]

Expire(g, p) ==
  /\ cache[g][p].hit
  /\ cache' = [cache EXCEPT ![g][p] = NoEntry]
  /\ UNCHANGED <<guests, board, builds, reqs, live, agreed, bounds>>

-----------------------------------------------------------------------------
(* The event has just been created: handleCreateEvent published the          *)
(* placeholder and kicked the first rebuild.                                 *)

Init ==
  /\ guests \in {[g \in Guests |-> IF g \in Invited THEN NewGuest(optin[g]) ELSE Nobody]
                   : optin \in [Guests -> BOOLEAN]}
  /\ board = Placeholder(guests)
  /\ \E b \in Workers :
       builds = [w \in Builds |-> IF w = b THEN Starting(FALSE) ELSE IdleBuild]
  /\ reqs = [c \in Clients |-> IdleReq]
  /\ live \in {L \in [Guests -> SUBSET Offers] :
                 \A g \in Guests : L[g] \subseteq Route[g] /\ OneOfferPerKey(L[g])}
  /\ cache = [g \in Guests |-> [day |-> NoEntry, night |-> NoEntry]]
  /\ agreed = {}
  /\ calls = 0 /\ moves = 0 /\ fails = 0

Rebuild(b) == \/ BuildSnapshot(b) \/ BuildPrior(b) \/ BuildPublish(b) \/ BuildClear(b)
              \/ \E g \in Guests : BuildPlan(b, g)

Serve(c) == \/ ChooseEvent(c) \/ ChooseStore(c) \/ BuyEvent(c)
            \/ UnbuyEvent(c) \/ UnbuyFlag(c) \/ ConsentRead(c) \/ ConsentMatch(c)
            \/ CopyStore(c) \/ AddRead(c) \/ AddStore(c)

Request(c) ==
  \/ Recheck(c)
  \/ \E g \in Guests :
       \/ \E k \in Keys : ChooseRead(c, g, k)
       \/ BuyRead(c, g) \/ UnbuyRead(c, g) \/ UnbuyNoop(c, g)
       \/ \E op \in {"consent", "revoke"} : ConsentEvent(c, g, op)
       \/ CollapseRead(c, g)
       \/ AddEvent(c, g)
       \/ \E optin \in BOOLEAN : Join(c, g, optin)

Environment ==
  \/ \E g \in Guests, o \in Offers : SellOut(g, o) \/ PutOnSale(g, o)
  \/ \E g \in Guests, p \in Passes : Expire(g, p)

Next == \/ \E b \in Builds : Rebuild(b)
        \/ Tick
        \/ \E c \in Clients : Serve(c) \/ Request(c)
        \/ Environment

Spec == Init /\ [][Next]_vars

\* Goroutines are scheduled and the ticker keeps ticking; nothing obliges the
\* guests to call or the carriers to sell.
Fairness == /\ \A b \in Builds : WF_vars(Rebuild(b))
            /\ \A c \in Clients : WF_vars(Serve(c))
            /\ WF_vars(Tick)

FairSpec == Spec /\ Fairness
=============================================================================
