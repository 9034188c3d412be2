--------------------------- MODULE LiveBoardProps ---------------------------
(***************************************************************************)
(* What LiveBoard should guarantee: the properties of its runs.             *)
(***************************************************************************)
EXTENDS LiveBoard

Build == [pc : {"idle", "start", "prior", "plan", "clear"}, fresh : BOOLEAN,
          ev : [Guests -> Guest], prior : Board, rows : [Guests -> Row],
          todo : SUBSET Guests]

Req == [op : Operations \cup {"none"},
        pc : {"idle", "event", "flag", "read", "match", "store"},
        g : Guests, key : Keys \cup {NoKey}, copy : Board]

Entry == [hit : BOOLEAN, offers : SUBSET Offers]

\* Every variable holds a value of its Go type: the flags, the board, the
\* rebuilds and requests in progress, the inventory and the search cache.
TypeOK ==
  /\ guests \in [Guests -> Guest]
  /\ board \in Board
  /\ builds \in [Builds -> Build]
  /\ reqs \in [Clients -> Req]
  /\ live \in [Guests -> SUBSET Offers]
  /\ cache \in [Guests -> [day : Entry, night : Entry]]
  /\ agreed \in SUBSET Guests
  /\ calls \in Nat /\ moves \in Nat /\ fails \in Nat

Quiet == /\ \A b \in Builds : builds[b].pc = "idle"
         /\ \A c \in Clients : reqs[c].pc = "idle"

-----------------------------------------------------------------------------
(* Safety under every interleaving *)

\* One row is coherent: the frozen mark and the status agree, a frozen row has
\* a route, and no two options on the card share an identity.
Coherent(row) ==
  /\ row.purchased <=> row.status = "purchased"
  /\ row.purchased \/ row.pinned => row.chosen # NoOffer
  /\ row.chosen = NoOffer => row.alts = {}
  /\ \A a, b \in row.alts \cup ({row.chosen} \ {NoOffer}) :
       KeyOf[a] = KeyOf[b] => a = b
  /\ row.chosen \notin row.alts

\* Whatever handlers and rebuilds overwrite each other, every published row
\* stays coherent (handleGuestChoose picks an option by its key, handleGuest-
\* Purchased freezes the chosen one, planRow and the wave swap options).
RowsCoherent == \A g \in Guests : Coherent(board.rows[g])

\* Rebuilds and swaps only ever put routes that make the deadline on the board.
InTime == \A g \in Guests : board.rows[g].chosen # NoOffer =>
            Arrives[board.rows[g].chosen] <= Deadline

\* A guest's card names another guest only if both have consented at some time,
\* whichever stale board is published (companions.ForGuest).
NamesWereAgreed ==
  \A g \in Guests : HasCard(g) =>
    \A h \in NamesShown(g) : h # g => {g, h} \subseteq agreed

\* A rebuild that has read a purchase together with the row's route publishes
\* that route frozen, whatever its searches find and wherever the wave goes.
KeepsBoughtTicket ==
  [][\A b \in Builds, g \in Guests :
       /\ builds[b].pc = "plan" /\ builds'[b].pc = "clear"
       /\ builds[b].ev[g].in /\ builds[b].ev[g].purchased
       /\ builds[b].prior.rows[g].chosen # NoOffer
       => /\ board'.rows[g].purchased
          /\ board'.rows[g].chosen = builds[b].prior.rows[g].chosen]_vars

\* While no offer comes or goes and no search fails, no rebuild drops a guest's
\* pin, whenever the guest chose (BuildAndStore drops the stale ones).
PinKeptWhenCalm ==
  [][moves' = 0 /\ fails' = 0 =>
       \A g \in Guests : guests[g].pin # NoKey => guests'[g].pin # NoKey]_vars

\* What a guest may take and be in time.
WaysInTime(g) == {o \in live[g] : Arrives[o] <= Deadline}

\* While no offer comes or goes and no search fails, a guest who has only one way
\* to be in time is never told that a route died: not when rebuilds and handlers
\* publish over each other, nor when others choose, join or are moved by the wave
\* (the collapse detection of planRow, the alternatives, wave.Apply).
OnlyWayStands ==
  moves = 0 /\ fails = 0 =>
    \A g \in Guests : board.rows[g].told => \E a, b \in WaysInTime(g) : a # b

-----------------------------------------------------------------------------
(* Liveness: the recheck loop settles the board *)

\* The row agrees with the guest's flags and with what the carriers sell.
Agrees(g) ==
  LET row == board.rows[g]
  IN /\ row.status # "absent"
     /\ guests[g].purchased <=> row.purchased
     /\ row.chosen = NoOffer => InWindow(live[g]) = {}
     /\ ~guests[g].purchased =>
          /\ row.chosen # NoOffer => row.chosen \in live[g]
          /\ guests[g].pin # NoKey => /\ row.pinned
                                      /\ KeyOf[row.chosen] = guests[g].pin

\* Requests, sales and failures being finite, the rechecks bring every guest's
\* row in agreement with the guest, unless everybody has bought a ticket.
BoardSettles == <>[](AllPurchased \/ \A g \in Guests : guests[g].in => Agrees(g))

-----------------------------------------------------------------------------
(* Statements of the repository that the code does not keep *)

\* guest.go:194: purchased rows are exempt from re-planning.  At rest, a guest
\* who bought a ticket has a frozen row with the option that they bought.
BoughtIsShown ==
  Quiet => \A g \in Guests : guests[g].purchased =>
             /\ board.rows[g].purchased
             /\ KeyOf[board.rows[g].chosen] = guests[g].pin

\* app/README.md:61: a pin outlives rechecks as long as its option is on sale.
PinOutlivesRechecks ==
  [][\A g \in Guests :
       (\E o \in WaysInTime(g) : KeyOf[o] = guests[g].pin) => guests'[g].pin # NoKey]_vars

\* orchestrator.go:5 and 172: a row is shown as rebuilt when its route collapsed,
\* and its log says that the old one is not to be had any more.  No row says so
\* while nothing was sold out and no search has failed.
CollapseIsReal == moves = 0 /\ fails = 0 => \A g \in Guests : ~board.rows[g].told

=============================================================================
