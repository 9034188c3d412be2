-------------------------- MODULE LiveBoardProofs --------------------------
(***************************************************************************)
(* Proofs about LiveBoard for every set of guests and offers, any number of *)
(* concurrent rebuilds and requests, and any bounds.                        *)
(***************************************************************************)
EXTENDS LiveBoardProps, TLAPS

\* A row that is coherent and whose options all make the deadline.
GoodRow == {row \in Row : /\ Coherent(row)
                          /\ \A o \in row.alts : Arrives[o] <= Deadline
                          /\ row.chosen # NoOffer => Arrives[row.chosen] <= Deadline}

GoodBoard == [rows : [Guests -> GoodRow], comps : SUBSET Match]

GoodBuild == {b \in Build : /\ b.prior \in GoodBoard
                            /\ b.rows \in [Guests -> GoodRow]}

GoodReq == {r \in Req : r.copy \in GoodBoard}

\* The inductive form of TypeOK, RowsCoherent and InTime: every row that some
\* rebuild or request still holds and may yet publish is good as well.
RowsInv ==
  /\ guests \in [Guests -> Guest]
  /\ board \in GoodBoard
  /\ builds \in [Builds -> GoodBuild]
  /\ reqs \in [Clients -> GoodReq]
  /\ live \in [Guests -> SUBSET Offers]
  /\ cache \in [Guests -> [day : Entry, night : Entry]]
  /\ agreed \in SUBSET Guests
  /\ calls \in Nat /\ moves \in Nat /\ fails \in Nat

-----------------------------------------------------------------------------
(* The operators on rows keep them good. *)

\* A row without a route is good under any status but that of a purchase.
LEMMA BlankGood ==
  ASSUME NEW status \in Status, status # "purchased"
  PROVE  Blank(status) \in GoodRow
  BY ConstantsAssumption, RowsAssumption DEF Blank, GoodRow, Row, Coherent, Status

\* The board before the first rebuild is good and has no matches.
LEMMA EmptyGood == EmptyBoard \in GoodBoard /\ EmptyBoard.comps = {}
  BY BlankGood DEF EmptyBoard, GoodBoard, Status

\* The placeholder of kickBuild is a good board.
LEMMA PlaceholderGood ==
  ASSUME NEW ev \in [Guests -> Guest]
  PROVE  Placeholder(ev) \in GoodBoard
  BY BlankGood DEF Placeholder, GoodBoard, Status

\* companions.Find pairs guests.
LEMMA MatchesType ==
  ASSUME NEW ev \in [Guests -> Guest], NEW rows \in [Guests -> Row]
  PROVE  Matches(ev, rows) \in SUBSET Match
  BY DEF Matches, Match, Guest

\* Freezing a row that has a route (planRow for a buyer) leaves it good.
LEMMA FreezeGood ==
  ASSUME NEW row \in GoodRow, row.chosen # NoOffer
  PROVE  Freeze(row) \in GoodRow
  BY DEF Freeze, GoodRow, Row, Coherent, Status

\* The row of a guest whose searches failed is good.
LEMMA UnseenGood ==
  ASSUME NEW row \in GoodRow
  PROVE  Unseen(row) \in GoodRow
  BY BlankGood DEF Unseen, Status

\* Taking an alternative puts the previous option in its place: the row stays
\* good, and its options are the same.
LEMMA SwapGood ==
  ASSUME NEW row \in GoodRow, NEW o \in row.alts \cup ({row.chosen} \ {NoOffer})
  PROVE  /\ Swap(row, o) \in GoodRow
         /\ Swap(row, o).chosen = o
         /\ Swap(row, o).purchased = row.purchased
         /\ Swap(row, o).status = row.status
  <1>1. CASE o = row.chosen
    BY <1>1 DEF Swap
  <1>2. CASE o # row.chosen
    <2> DEFINE swapped == [row EXCEPT !.chosen = o,
                              !.alts = (@ \ {o}) \cup ({row.chosen} \ {NoOffer})]
    <2>1. o \in row.alts /\ row.chosen # NoOffer /\ row \in Row
      BY <1>2 DEF GoodRow, Coherent
    <2>2. o \in Offers /\ o # NoOffer
      BY <2>1, ConstantsAssumption, RowsAssumption DEF Row
    <2>3. swapped \in Row
      BY <2>1, <2>2 DEF Row
    <2>4. /\ swapped.chosen = o
          /\ swapped.alts = (row.alts \ {o}) \cup {row.chosen}
          /\ swapped.purchased = row.purchased
          /\ swapped.pinned = row.pinned
          /\ swapped.status = row.status
      BY <2>1 DEF Row
    <2>5. swapped.alts \cup ({swapped.chosen} \ {NoOffer})
            = row.alts \cup ({row.chosen} \ {NoOffer})
      BY <2>1, <2>2, <2>4
    <2>6. Coherent(swapped)
      BY <1>2, <2>1, <2>2, <2>4, <2>5 DEF GoodRow, Coherent
    <2>7. swapped \in GoodRow
      BY <2>1, <2>2, <2>3, <2>4, <2>6 DEF GoodRow
    <2> QED BY <1>2, <2>4, <2>7 DEF Swap
  <1> QED BY <1>1, <1>2

\* Whatever the wave swaps, rows stay good and bought rows are left alone.
LEMMA WavesGood ==
  ASSUME NEW rows \in [Guests -> GoodRow], NEW f \in Waves(rows)
  PROVE  /\ f \in [Guests -> GoodRow]
         /\ \A g \in Guests : rows[g].purchased => f[g] = rows[g]
  <1>1. ASSUME NEW g \in Guests
        PROVE  Moved(rows[g]) \subseteq GoodRow
    BY SwapGood DEF Moved, Later
  <1>2. CASE Crowded(rows)
    <2>1. f \in [Guests -> UNION {Moved(rows[g]) : g \in Guests}]
      BY <1>2 DEF Waves
    <2>2. \A g \in Guests : f[g] \in Moved(rows[g])
      BY <1>2 DEF Waves
    <2>3. f \in [Guests -> GoodRow]
      BY <2>1, <2>2, <1>1
    <2>4. \A g \in Guests : rows[g].purchased => f[g] = rows[g]
      BY <2>2 DEF Moved, Frozen
    <2> QED BY <2>3, <2>4
  <1>3. CASE ~Crowded(rows)
    BY <1>3 DEF Waves
  <1> QED BY <1>2, <1>3

\* Every row that PlanGuest may return is good: its route makes the deadline
\* and its alternatives are other departures.
LEMMA PlansGood ==
  ASSUME NEW guest \in Guest, NEW was \in GoodRow, NEW found \in SUBSET Offers,
         NEW row \in Plans(guest, was, found)
  PROVE  row \in GoodRow
  <1> DEFINE F    == InWindow(found)
             held == {o \in F : KeyOf[o] = guest.pin}
             lost == guest.pin # NoKey /\ held = {}
             pick == IF held # {} THEN held ELSE Best(F)
  <1>1. F \subseteq Offers /\ \A o \in F : Arrives[o] <= Deadline
    BY DEF InWindow
  <1>2. pick \subseteq F
    BY DEF Best
  <1>3. CASE F = {}
    <2>1. row = [Blank("needs_help") EXCEPT !.told = (was.chosen # NoOffer)]
      BY <1>3 DEF Plans
    <2> QED BY <2>1, ConstantsAssumption, RowsAssumption DEF Blank, GoodRow, Row, Coherent, Status
  <1>4. CASE F # {}
    <2>1. PICK c \in pick : \E A \in Alternatives(F, c) :
            row = Assembled(guest, was, c, A, lost)
      BY <1>4 DEF Plans
    <2>a. PICK A \in Alternatives(F, c) : row = Assembled(guest, was, c, A, lost)
      BY <2>1
    <2>2. c \in Offers /\ c # NoOffer /\ Arrives[c] <= Deadline
      BY <2>1, <1>1, <1>2, ConstantsAssumption, RowsAssumption
    <2>3. /\ A \subseteq F
          /\ c \notin A
          /\ \A a \in A : Vehicle[a] # Vehicle[c]
          /\ \A a, b \in A : Vehicle[a] = Vehicle[b] => a = b
      BY <2>a DEF Alternatives
    <2>4. A \subseteq Offers /\ \A a \in A : Arrives[a] <= Deadline
      BY <2>3, <1>1
    <2>5. \A a, b \in A \cup {c} : KeyOf[a] = KeyOf[b] => a = b
      BY <2>2, <2>3, <2>4, ConstantsAssumption, RowsAssumption
    <2>6. Assembled(guest, was, c, A, lost) \in Row
      BY <2>2, <2>4 DEF Assembled, Row, Guest, Status, GoodRow
    <2>7. Coherent(Assembled(guest, was, c, A, lost))
      BY <2>2, <2>3, <2>5 DEF Assembled, Coherent, Guest
    <2> QED BY <2>a, <2>2, <2>4, <2>6, <2>7 DEF GoodRow, Assembled
  <1> QED BY <1>3, <1>4

-----------------------------------------------------------------------------
(* Type correctness and good rows: RowsInv is inductive. *)

\* A guest who joins, and the place of one who has not, have the type of guests.
LEMMA NewGuestType == Nobody \in Guest /\ \A optin \in BOOLEAN : NewGuest(optin) \in Guest
  BY DEF Nobody, NewGuest, Guest

\* Setting one flag or the pin of a guest leaves a guest.
LEMMA GuestUpdates ==
  ASSUME RowsInv, NEW g \in Guests, NEW f \in BOOLEAN, NEW key \in Keys \cup {NoKey}
  PROVE  /\ [guests EXCEPT ![g].purchased = f] \in [Guests -> Guest]
         /\ [guests EXCEPT ![g].purchased = f, ![g].pin = key] \in [Guests -> Guest]
         /\ [guests EXCEPT ![g].pin = key] \in [Guests -> Guest]
         /\ [guests EXCEPT ![g].consent = f] \in [Guests -> Guest]
         /\ [guests[g] EXCEPT !.optin = f] \in Guest
  <1>1. guests[g] \in Guest /\ guests \in [Guests -> Guest]
    BY DEF RowsInv
  <1>2. /\ [guests[g] EXCEPT !.purchased = f] \in Guest
        /\ [guests[g] EXCEPT !.pin = key] \in Guest
        /\ [guests[g] EXCEPT !.consent = f] \in Guest
        /\ [guests[g] EXCEPT !.optin = f] \in Guest
    BY <1>1 DEF Guest
  <1>3. [[guests[g] EXCEPT !.purchased = f] EXCEPT !.pin = key] \in Guest
    BY <1>2 DEF Guest
  <1>4. [guests EXCEPT ![g].purchased = f] \in [Guests -> Guest]
    BY <1>1, <1>2
  <1>5. [guests EXCEPT ![g].pin = key] \in [Guests -> Guest]
    BY <1>1, <1>2
  <1>6. [guests EXCEPT ![g].consent = f] \in [Guests -> Guest]
    BY <1>1, <1>2
  <1>7. [guests EXCEPT ![g].purchased = f, ![g].pin = key] \in [Guests -> Guest]
    BY <1>1, <1>3
  <1> QED BY <1>2, <1>4, <1>5, <1>6, <1>7

\* A rebuild that is not running, and one that starts, carry nothing bad.
LEMMA IdleBuildGood == IdleBuild \in GoodBuild /\ \A f \in BOOLEAN : Starting(f) \in GoodBuild
  <1>1. IdleBuild \in GoodBuild
    BY EmptyGood, NewGuestType
    DEF IdleBuild, GoodBuild, Build, GoodBoard, Board, GoodRow
  <1> QED
    BY <1>1 DEF Starting, GoodBuild, Build

\* A client without a request carries a good board.
LEMMA IdleReqGood == IdleReq \in GoodReq
  <1>1. (CHOOSE g \in Guests : TRUE) \in Guests
    BY ConstantsAssumption, RowsAssumption
  <1> QED
    BY <1>1, EmptyGood DEF IdleReq, GoodReq, Req, GoodBoard, Board, GoodRow

\* Starting a rebuild in the background keeps all rebuilds good.
LEMMA SpawnGood ==
  ASSUME RowsInv, NEW fresh \in BOOLEAN, Spawn(fresh)
  PROVE  builds' \in [Builds -> GoodBuild]
  BY IdleBuildGood DEF RowsInv, Spawn, Builds

\* A rebuild's step changes its own record and at most board, guests, cache.
LEMMA RebuildGood ==
  ASSUME RowsInv, NEW b \in Builds, Rebuild(b)
  PROVE  RowsInv'
  <1>0. builds[b] \in GoodBuild
    BY DEF RowsInv
  <1>1. CASE BuildSnapshot(b)
    <2>1. builds'[b] \in GoodBuild
      BY <1>0, <1>1 DEF BuildSnapshot, RowsInv, GoodBuild, Build
    <2> QED BY <1>1, <2>1 DEF BuildSnapshot, RowsInv, bounds
  <1>2. CASE BuildPrior(b)
    <2>1. builds'[b] \in GoodBuild
      BY <1>0, <1>2 DEF BuildPrior, RowsInv, GoodBuild, Build, GoodBoard, Board, GoodRow
    <2> QED BY <1>2, <2>1 DEF BuildPrior, RowsInv, bounds
  <1>3. ASSUME NEW g \in Guests, BuildPlan(b, g)
        PROVE  RowsInv'
    <2> DEFINE guest == builds[b].ev[g]
               was   == builds[b].prior.rows[g]
    <2>1. guest \in Guest /\ was \in GoodRow /\ builds[b].fresh \in BOOLEAN
      BY <1>0 DEF GoodBuild, Build, GoodBoard
    <2>2. ASSUME NEW row \in GoodRow,
                 builds' = [builds EXCEPT ![b].rows[g] = row, ![b].todo = @ \ {g}]
          PROVE  builds' \in [Builds -> GoodBuild]
      <3>1. builds'[b] \in GoodBuild
        BY <1>0, <2>2 DEF RowsInv, GoodBuild, Build, GoodRow
      <3> QED BY <2>2, <3>1 DEF RowsInv
    <2>3. CASE Carried(guest, was)
      BY <1>3, <2>1, <2>2, <2>3, FreezeGood DEF BuildPlan, RowsInv, Carried
    <2>4. CASE ~Carried(guest, was)
      <3>1. PICK d \in Replies(g, "day", builds[b].fresh),
                 n \in Replies(g, "night", builds[b].fresh) :
              /\ fails' = fails + (IF d.ok THEN 0 ELSE 1) + (IF n.ok THEN 0 ELSE 1)
              /\ cache' = [cache EXCEPT
                    ![g] = [day   |-> Remembered(@.day, builds[b].fresh, d),
                            night |-> Remembered(@.night, builds[b].fresh, n)]]
              /\ \E row \in (IF d.offers \cup n.offers = {} /\ ~d.ok
                             THEN {Unseen(was)}
                             ELSE Plans(guest, was, d.offers \cup n.offers)) :
                   builds' = [builds EXCEPT ![b].rows[g] = row, ![b].todo = @ \ {g}]
        BY <1>3, <2>4 DEF BuildPlan
      <3>2. /\ cache[g].day.offers \subseteq Offers
            /\ cache[g].night.offers \subseteq Offers
            /\ live[g] \subseteq Offers
        BY DEF RowsInv, Entry
      <3>3. d.offers \subseteq Offers /\ n.offers \subseteq Offers
        BY <3>1, <3>2 DEF Replies
      <3>4. builds' \in [Builds -> GoodBuild]
        BY <2>1, <2>2, <3>1, <3>3, UnseenGood, PlansGood
      <3>5. cache' \in [Guests -> [day : Entry, night : Entry]]
        <4>1. \A e \in Entry : /\ Remembered(e, builds[b].fresh, d) \in Entry
                               /\ Remembered(e, builds[b].fresh, n) \in Entry
          BY <3>3 DEF Remembered, Entry
        <4>2. cache[g].day \in Entry /\ cache[g].night \in Entry
          BY DEF RowsInv
        <4> QED BY <3>1, <4>1, <4>2 DEF RowsInv
      <3>6. fails' \in Nat
        BY <3>1 DEF RowsInv
      <3> QED BY <1>3, <3>4, <3>5, <3>6 DEF BuildPlan, RowsInv
    <2> QED BY <2>3, <2>4
  <1>4. CASE BuildPublish(b)
    <2>1. PICK rows \in Waves(builds[b].rows) :
            /\ board' = [rows |-> rows, comps |-> Matches(builds[b].ev, rows)]
            /\ builds' = [builds EXCEPT ![b].pc = "clear", ![b].rows = rows,
                                        ![b].prior = EmptyBoard]
      BY <1>4 DEF BuildPublish
    <2>2. rows \in [Guests -> GoodRow]
      BY <1>0, <2>1, WavesGood DEF GoodBuild
    <2>3. board' \in GoodBoard
      BY <1>0, <2>1, <2>2, MatchesType DEF GoodBoard, GoodBuild, Build, GoodRow
    <2>4. builds'[b] \in GoodBuild
      BY <1>0, <2>1, <2>2, EmptyGood
      DEF RowsInv, GoodBuild, Build, GoodBoard, Board, GoodRow
    <2> QED BY <1>4, <2>1, <2>3, <2>4 DEF BuildPublish, RowsInv, bounds
  <1>5. CASE BuildClear(b)
    <2>1. guests' \in [Guests -> Guest]
      BY <1>5 DEF BuildClear, RowsInv, Guest
    <2> QED BY <1>5, <2>1, IdleBuildGood DEF BuildClear, RowsInv, bounds
  <1> QED BY <1>1, <1>2, <1>3, <1>4, <1>5 DEF Rebuild

\* A request's later steps publish the copy that it holds or set flags.
LEMMA ServeGood ==
  ASSUME RowsInv, NEW c \in Clients, Serve(c)
  PROVE  RowsInv'
  <1>0. reqs[c] \in GoodReq /\ reqs[c].copy \in GoodBoard
    BY DEF RowsInv, GoodReq
  <1>f. ASSUME Finish(c)
        PROVE  reqs' \in [Clients -> GoodReq]
    BY <1>f, IdleReqGood DEF Finish, RowsInv
  <1>g. ASSUME NEW pc \in {"store"}, Goto(c, pc)
        PROVE  reqs' \in [Clients -> GoodReq]
    <2>1. reqs'[c] \in GoodReq
      BY <1>0, <1>g DEF Goto, RowsInv, GoodReq, Req
    <2> QED BY <1>g, <2>1 DEF Goto, RowsInv
  <1>1. CASE ChooseEvent(c)
    <2>1. guests' \in [Guests -> Guest]
      BY <1>0, <1>1, GuestUpdates DEF ChooseEvent, GoodReq, Req
    <2> QED BY <1>1, <1>g, <2>1 DEF ChooseEvent, RowsInv, bounds
  <1>2. CASE ChooseStore(c)
    BY <1>0, <1>2, <1>f, SpawnGood DEF ChooseStore, RowsInv, bounds
  <1>3. CASE BuyEvent(c)
    <2>1. guests' \in [Guests -> Guest]
      BY <1>0, <1>3, GuestUpdates DEF BuyEvent, GoodReq, Req
    <2> QED BY <1>3, <1>g, <2>1 DEF BuyEvent, RowsInv, bounds
  <1>4. CASE UnbuyEvent(c)
    <2>1. guests' \in [Guests -> Guest]
      BY <1>0, <1>4, GuestUpdates DEF UnbuyEvent, GoodReq, Req
    <2> QED BY <1>4, <1>g, <2>1, SpawnGood DEF UnbuyEvent, RowsInv, bounds
  <1>5. CASE UnbuyFlag(c)
    <2>1. guests' \in [Guests -> Guest]
      BY <1>0, <1>5, GuestUpdates DEF UnbuyFlag, GoodReq, Req
    <2> QED BY <1>5, <1>g, <2>1 DEF UnbuyFlag, RowsInv, bounds
  <1>6. CASE ConsentRead(c)
    <2>1. reqs'[c] \in GoodReq
      BY <1>0, <1>6 DEF ConsentRead, RowsInv, GoodReq, Req, GoodBoard, Board, GoodRow
    <2> QED BY <1>6, <2>1 DEF ConsentRead, RowsInv, bounds
  <1>7. CASE ConsentMatch(c)
    <2>1. Matches(guests, reqs[c].copy.rows) \in SUBSET Match
      BY <1>0, MatchesType DEF RowsInv, GoodBoard, GoodRow
    <2>2. reqs'[c] \in GoodReq
      BY <1>0, <1>7, <2>1 DEF ConsentMatch, RowsInv, GoodReq, Req, GoodBoard, Board, GoodRow
    <2> QED BY <1>7, <2>2 DEF ConsentMatch, RowsInv, bounds
  <1>8. CASE CopyStore(c)
    BY <1>0, <1>8, <1>f DEF CopyStore, RowsInv, bounds
  <1>9. CASE AddRead(c)
    <2>1. Placeholder(guests) \in GoodBoard
      BY PlaceholderGood DEF RowsInv
    <2>2. reqs'[c] \in GoodReq
      BY <1>0, <1>9, <2>1 DEF AddRead, RowsInv, GoodReq, Req, GoodBoard, Board, GoodRow
    <2> QED BY <1>9, <2>2 DEF AddRead, RowsInv, bounds
  <1>10. CASE AddStore(c)
    BY <1>0, <1>10, <1>f, SpawnGood DEF AddStore, RowsInv, bounds
  <1> QED
    BY <1>1, <1>2, <1>3, <1>4, <1>5, <1>6, <1>7, <1>8, <1>9, <1>10 DEF Serve

\* cloneBoard with one row replaced by a good one is a good board.
LEMMA WithRowGood ==
  ASSUME RowsInv, NEW g \in Guests, NEW row \in GoodRow
  PROVE  WithRow(g, row) \in GoodBoard
  BY DEF WithRow, RowsInv, GoodBoard

\* A request that has made its copy carries a good board.
LEMMA BeginGood ==
  ASSUME RowsInv, NEW c \in Clients, NEW op \in Operations, NEW pc, NEW g \in Guests,
         NEW key \in Keys \cup {NoKey}, NEW copy \in GoodBoard,
         pc \in {"event", "flag", "read", "match", "store"},
         Begin(c, op, pc, g, key, copy)
  PROVE  reqs' \in [Clients -> GoodReq]
  <1>1. [op |-> op, pc |-> pc, g |-> g, key |-> key, copy |-> copy] \in GoodReq
    BY DEF GoodReq, Req, GoodBoard, Board, GoodRow
  <1> QED BY <1>1 DEF Begin, RowsInv

\* A request's first step copies the board with one good row changed.
LEMMA RequestGood ==
  ASSUME RowsInv, NEW c \in Clients, Request(c)
  PROVE  RowsInv'
  <1> USE DEF Operations
  <1>0. board \in GoodBoard /\ \A g \in Guests : board.rows[g] \in GoodRow
    BY DEF RowsInv, GoodBoard
  <1>1. CASE Recheck(c)
    <2>1. builds' \in [Builds -> GoodBuild]
      BY <1>1, SpawnGood DEF Recheck
    <2> QED BY <1>1, <2>1 DEF Recheck, Arrive, RowsInv
  <1>2. ASSUME NEW g \in Guests, NEW k \in Keys, ChooseRead(c, g, k)
        PROVE  RowsInv'
    <2> DEFINE row == board.rows[g]
    <2>1. PICK o \in row.alts \cup ({row.chosen} \ {NoOffer}) :
            Begin(c, "choose", "event", g, k,
                  WithRow(g, [Swap(row, o) EXCEPT !.pinned = TRUE]))
      BY <1>2 DEF ChooseRead
    <2>2. o # NoOffer
      BY <1>0, ConstantsAssumption, RowsAssumption DEF GoodRow, Row
    <2>3. Swap(row, o) \in GoodRow /\ Swap(row, o).chosen = o
      BY <1>0, SwapGood
    <2>4. [Swap(row, o) EXCEPT !.pinned = TRUE] \in GoodRow
      BY <2>2, <2>3 DEF GoodRow, Row, Coherent
    <2>5. reqs' \in [Clients -> GoodReq]
      BY <2>1, <2>4, BeginGood, WithRowGood
    <2> QED BY <1>2, <2>5 DEF ChooseRead, Arrive, RowsInv
  <1>3. ASSUME NEW g \in Guests, BuyRead(c, g)
        PROVE  RowsInv'
    <2>1. board.rows[g].chosen \in Offers
      BY <1>0, <1>3 DEF BuyRead, GoodRow, Row
    <2>2. KeyOf[board.rows[g].chosen] \in Keys
      BY <2>1, ConstantsAssumption, RowsAssumption
    <2>3. WithRow(g, Freeze(board.rows[g])) \in GoodBoard
      BY <1>0, <1>3, FreezeGood, WithRowGood DEF BuyRead
    <2>4. reqs' \in [Clients -> GoodReq]
      BY <1>3, <2>2, <2>3, BeginGood DEF BuyRead
    <2> QED BY <1>3, <2>4 DEF BuyRead, Arrive, RowsInv
  <1>4. ASSUME NEW g \in Guests, UnbuyRead(c, g)
        PROVE  RowsInv'
    <2> DEFINE row  == board.rows[g]
               thaw == [row EXCEPT !.purchased = FALSE, !.status = "planned"]
    <2>a. row \in Row /\ Coherent(row) /\ row.purchased
      BY <1>0, <1>4 DEF UnbuyRead, GoodRow
    <2>b. thaw \in Row
      BY <2>a DEF Row, Status
    <2>c. /\ thaw.chosen = row.chosen /\ thaw.alts = row.alts
          /\ thaw.pinned = row.pinned /\ thaw.purchased = FALSE
          /\ thaw.status = "planned"
      BY <2>a DEF Row
    <2>d. Coherent(thaw)
      BY <2>a, <2>c DEF Coherent
    <2>1. thaw \in GoodRow
      BY <1>0, <2>b, <2>c, <2>d DEF GoodRow
    <2>2. reqs' \in [Clients -> GoodReq]
      BY <1>4, <2>1, BeginGood, WithRowGood DEF UnbuyRead
    <2> QED BY <1>4, <2>2 DEF UnbuyRead, Arrive, RowsInv
  <1>5. ASSUME NEW g \in Guests, UnbuyNoop(c, g)
        PROVE  RowsInv'
    <2>1. reqs' \in [Clients -> GoodReq]
      BY <1>0, <1>5, BeginGood DEF UnbuyNoop
    <2> QED BY <1>5, <2>1 DEF UnbuyNoop, Arrive, RowsInv
  <1>6. ASSUME NEW g \in Guests, NEW op \in {"consent", "revoke"}, ConsentEvent(c, g, op)
        PROVE  RowsInv'
    <2>1. guests' \in [Guests -> Guest] /\ agreed' \in SUBSET Guests
      BY <1>6 DEF ConsentEvent, RowsInv, Guest
    <2>2. reqs' \in [Clients -> GoodReq]
      BY <1>6, BeginGood, EmptyGood DEF ConsentEvent
    <2> QED BY <1>6, <2>1, <2>2 DEF ConsentEvent, Arrive, RowsInv
  <1>7. ASSUME NEW g \in Guests, CollapseRead(c, g)
        PROVE  RowsInv'
    <2> DEFINE row == board.rows[g]
    <2>1. PICK o \in row.alts :
            Begin(c, "collapse", "store", g, NoKey,
                  WithRow(g, [Swap(row, o) EXCEPT !.told = TRUE, !.status = "planned"]))
      BY <1>7 DEF CollapseRead
    <2>2. /\ Swap(row, o) \in GoodRow
          /\ Swap(row, o).purchased = row.purchased /\ ~row.purchased
      BY <1>0, <1>7, SwapGood DEF CollapseRead
    <2>3. [Swap(row, o) EXCEPT !.told = TRUE, !.status = "planned"] \in GoodRow
      BY <2>2 DEF GoodRow, Row, Coherent, Status
    <2>4. reqs' \in [Clients -> GoodReq]
      BY <2>1, <2>3, BeginGood, WithRowGood
    <2> QED BY <1>7, <2>4 DEF CollapseRead, Arrive, RowsInv
  <1>8. ASSUME NEW g \in Guests, AddEvent(c, g)
        PROVE  RowsInv'
    <2>1. guests' \in [Guests -> Guest]
      BY <1>8, NewGuestType DEF AddEvent, RowsInv
    <2>2. reqs' \in [Clients -> GoodReq]
      BY <1>8, BeginGood, EmptyGood DEF AddEvent
    <2> QED BY <1>8, <2>1, <2>2 DEF AddEvent, Arrive, RowsInv
  <1>9. ASSUME NEW g \in Guests, NEW optin \in BOOLEAN, Join(c, g, optin)
        PROVE  RowsInv'
    <2>1. guests' \in [Guests -> Guest]
      BY <1>9, NewGuestType, GuestUpdates DEF Join, RowsInv
    <2>2. builds' \in [Builds -> GoodBuild]
      BY <1>9, SpawnGood DEF Join
    <2> QED BY <1>9, <2>1, <2>2 DEF Join, Arrive, RowsInv
  <1> QED
    BY <1>1, <1>2, <1>3, <1>4, <1>5, <1>6, <1>7, <1>8, <1>9 DEF Request

\* Inventory and the cache change no row.
LEMMA EnvironmentGood ==
  ASSUME RowsInv, Environment
  PROVE  RowsInv'
  <1>1. ASSUME NEW g \in Guests, NEW o \in Offers, SellOut(g, o)
        PROVE  RowsInv'
    BY <1>1 DEF SellOut, RowsInv
  <1>2. ASSUME NEW g \in Guests, NEW o \in Offers, PutOnSale(g, o)
        PROVE  RowsInv'
    BY <1>2 DEF PutOnSale, RowsInv
  <1>3. ASSUME NEW g \in Guests, NEW p \in Passes, Expire(g, p)
        PROVE  RowsInv'
    <2>1. NoEntry \in Entry
      BY DEF NoEntry, Entry
    <2>2. [cache[g] EXCEPT ![p] = NoEntry] \in [day : Entry, night : Entry]
      BY <2>1 DEF RowsInv, Passes
    <2>3. cache' \in [Guests -> [day : Entry, night : Entry]]
      BY <1>3, <2>2 DEF Expire, RowsInv
    <2> QED BY <1>3, <2>3 DEF Expire, RowsInv, bounds
  <1> QED BY <1>1, <1>2, <1>3 DEF Environment

\* The invariant holds when the event has been created.
LEMMA InitGood == Init => RowsInv
  <1> SUFFICES ASSUME Init PROVE RowsInv
    OBVIOUS
  <1>1. guests \in [Guests -> Guest]
    BY NewGuestType DEF Init
  <1>2. board \in GoodBoard
    BY <1>1, PlaceholderGood DEF Init
  <1>3. builds \in [Builds -> GoodBuild]
    BY IdleBuildGood DEF Init
  <1>4. reqs \in [Clients -> GoodReq]
    BY IdleReqGood DEF Init
  <1>5. cache \in [Guests -> [day : Entry, night : Entry]]
    BY DEF Init, NoEntry, Entry
  <1> QED BY <1>1, <1>2, <1>3, <1>4, <1>5 DEF Init, RowsInv

\* Every step of a rebuild, a request or the environment keeps the invariant.
LEMMA StepGood == RowsInv /\ [Next]_vars => RowsInv'
  <1> SUFFICES ASSUME RowsInv, [Next]_vars PROVE RowsInv'
    OBVIOUS
  <1>1. ASSUME NEW b \in Builds, Rebuild(b) PROVE RowsInv'
    BY <1>1, RebuildGood
  <1>2. CASE Tick
    BY <1>2, IdleBuildGood DEF Tick, RowsInv, bounds
  <1>3. ASSUME NEW c \in Clients, Serve(c) \/ Request(c) PROVE RowsInv'
    BY <1>3, ServeGood, RequestGood
  <1>4. CASE Environment
    BY <1>4, EnvironmentGood
  <1>5. CASE UNCHANGED vars
    BY <1>5 DEF vars, bounds, RowsInv
  <1> QED BY <1>1, <1>2, <1>3, <1>4, <1>5 DEF Next

\* Every row, published or on its way to the board, is good at any time.
LEMMA RowsInvariant == Spec => []RowsInv
  BY InitGood, StepGood, PTL DEF Spec

\* Every variable keeps its type, for any number of guests, rebuilds, requests.
THEOREM TypeCorrect == Spec => []TypeOK
  <1>1. RowsInv => TypeOK
    BY DEF RowsInv, TypeOK, GoodBoard, Board, GoodRow, GoodBuild, GoodReq
  <1> QED BY <1>1, RowsInvariant, PTL

\* However handlers and rebuilds overwrite each other's boards, every row that
\* is published is coherent: frozen rows have a route and no two options on a
\* card share a key.
THEOREM RowsStayCoherent == Spec => []RowsCoherent
  <1>1. RowsInv => RowsCoherent
    BY DEF RowsInv, RowsCoherent, GoodBoard, GoodRow
  <1> QED BY <1>1, RowsInvariant, PTL

\* No rebuild, swap or wave shift puts a route past the deadline on the board.
THEOREM RoutesInTime == Spec => []InTime
  <1>1. RowsInv => InTime
    BY DEF RowsInv, InTime, GoodBoard, GoodRow
  <1> QED BY <1>1, RowsInvariant, PTL

-----------------------------------------------------------------------------
(* What relates a board to what a rebuild or request has read before: names *)
(* are shown only to guests who agreed, and a rebuild keeps the ticket that *)
(* it has read.                                                             *)

MutualAgreed(comps) == \A m \in comps : m.mutual => m.pair \subseteq agreed

\* The inductive form of NamesWereAgreed: who consents now, or consented in a
\* snapshot that a rebuild still holds, has agreed; so have the guests of every
\* match on the board and on the copies that requests may yet publish.
ConsentInv ==
  /\ \A g \in Guests : guests[g].consent => g \in agreed
  /\ \A b \in Builds, g \in Guests : builds[b].ev[g].consent => g \in agreed
  /\ MutualAgreed(board.comps)
  /\ \A c \in Clients : MutualAgreed(reqs[c].copy.comps)

\* Matches marks a pair mutual only by the flags that it is given.
LEMMA MatchesAgreed ==
  ASSUME NEW ev \in [Guests -> Guest], NEW rows \in [Guests -> Row],
         \A g \in Guests : ev[g].consent => g \in agreed
  PROVE  MutualAgreed(Matches(ev, rows))
  <1> SUFFICES ASSUME NEW m \in Matches(ev, rows), m.mutual
               PROVE  m.pair \subseteq agreed
    BY DEF MutualAgreed
  <1>1. PICK g \in Guests, h \in Guests :
          m = [pair |-> {g, h}, mutual |-> ev[g].consent /\ ev[h].consent]
    BY DEF Matches
  <1>2. m.pair = {g, h} /\ (m.mutual <=> ev[g].consent /\ ev[h].consent)
    BY <1>1
  <1> QED BY <1>2

\* Nobody, idle slots and placeholders reveal nothing.
LEMMA NothingMutual ==
  /\ ~Nobody.consent /\ \A optin \in BOOLEAN : ~NewGuest(optin).consent
  /\ \A g \in Guests : ~IdleBuild.ev[g].consent
  /\ \A f \in BOOLEAN, g \in Guests : ~Starting(f).ev[g].consent
  /\ EmptyBoard.comps = {} /\ IdleReq.copy = EmptyBoard
  /\ \A ev : Placeholder(ev).comps = {}
  BY DEF Nobody, NewGuest, IdleBuild, Starting, EmptyBoard, IdleReq, Placeholder

\* A rebuild that a request starts holds no snapshot yet.
LEMMA SpawnAgreed ==
  ASSUME RowsInv, ConsentInv, NEW fresh \in BOOLEAN, Spawn(fresh)
  PROVE  \A b \in Builds, g \in Guests : builds'[b].ev[g].consent => g \in agreed
  BY NothingMutual DEF RowsInv, ConsentInv, Spawn, Builds

\* A rebuild takes its consents from the guests and publishes only its own.
LEMMA RebuildAgreed ==
  ASSUME RowsInv, ConsentInv, NEW b \in Builds, Rebuild(b)
  PROVE  ConsentInv'
  <1> USE DEF ConsentInv, MutualAgreed
  <1>0. builds \in [Builds -> GoodBuild] /\ builds[b] \in GoodBuild
    BY DEF RowsInv
  <1>1. CASE BuildSnapshot(b)
    BY <1>0, <1>1 DEF BuildSnapshot
  <1>2. CASE BuildPrior(b)
    BY <1>0, <1>2 DEF BuildPrior
  <1>3. ASSUME NEW g \in Guests, BuildPlan(b, g)
        PROVE  ConsentInv'
    <2>1. \E row, todo : builds' = [builds EXCEPT ![b].rows[g] = row, ![b].todo = todo]
      BY <1>3 DEF BuildPlan
    <2>2. \A w \in Builds : builds'[w].ev = builds[w].ev
      BY <1>0, <2>1 DEF GoodBuild, Build
    <2> QED BY <1>3, <2>2 DEF BuildPlan
  <1>4. CASE BuildPublish(b)
    <2>1. PICK rows \in Waves(builds[b].rows) :
            /\ board' = [rows |-> rows, comps |-> Matches(builds[b].ev, rows)]
            /\ builds' = [builds EXCEPT ![b].pc = "clear", ![b].rows = rows,
                                        ![b].prior = EmptyBoard]
      BY <1>4 DEF BuildPublish
    <2>2. rows \in [Guests -> Row] /\ builds[b].ev \in [Guests -> Guest]
      BY <1>0, <2>1, WavesGood DEF GoodBuild, Build, GoodRow
    <2>3. MutualAgreed(board'.comps)
      BY <2>1, <2>2, MatchesAgreed
    <2>4. \A w \in Builds : builds'[w].ev = builds[w].ev
      BY <1>0, <2>1 DEF GoodBuild, Build
    <2> QED BY <1>4, <2>3, <2>4 DEF BuildPublish
  <1>5. CASE BuildClear(b)
    <2>1. \A g \in Guests : guests'[g].consent = guests[g].consent
      BY <1>5 DEF BuildClear, RowsInv, Guest
    <2>2. \A w \in Builds, g \in Guests : builds'[w].ev[g].consent => g \in agreed
      BY <1>0, <1>5, NothingMutual DEF BuildClear
    <2> QED BY <1>5, <2>1, <2>2 DEF BuildClear
  <1> QED BY <1>1, <1>2, <1>3, <1>4, <1>5 DEF Rebuild

\* A request publishes its copy, or matches it again by the present flags.
LEMMA ServeAgreed ==
  ASSUME RowsInv, ConsentInv, NEW c \in Clients, Serve(c)
  PROVE  ConsentInv'
  <1> USE DEF ConsentInv, MutualAgreed
  <1>0. reqs \in [Clients -> GoodReq] /\ reqs[c] \in GoodReq /\ guests \in [Guests -> Guest]
    BY DEF RowsInv
  <1>f. ASSUME Finish(c)
        PROVE  \A d \in Clients : MutualAgreed(reqs'[d].copy.comps)
    BY <1>0, <1>f, NothingMutual DEF Finish
  <1>g. ASSUME NEW pc, Goto(c, pc)
        PROVE  \A d \in Clients : reqs'[d].copy = reqs[d].copy
    BY <1>0, <1>g DEF Goto, GoodReq, Req
  <1>h. ASSUME NEW g, NEW f, NEW k,
               \/ guests' = [guests EXCEPT ![g].pin = k]
               \/ guests' = [guests EXCEPT ![g].purchased = f]
               \/ guests' = [guests EXCEPT ![g].purchased = f, ![g].pin = k]
        PROVE  \A h \in Guests : guests'[h].consent = guests[h].consent
    BY <1>0, <1>h DEF Guest
  <1>1. CASE ChooseEvent(c)
    BY <1>1, <1>g, <1>h DEF ChooseEvent
  <1>2. CASE ChooseStore(c)
    BY <1>0, <1>2, <1>f, SpawnAgreed DEF ChooseStore
  <1>3. CASE BuyEvent(c)
    BY <1>3, <1>g, <1>h DEF BuyEvent
  <1>4. CASE UnbuyEvent(c)
    BY <1>4, <1>g, <1>h, SpawnAgreed DEF UnbuyEvent
  <1>5. CASE UnbuyFlag(c)
    BY <1>5, <1>g, <1>h DEF UnbuyFlag
  <1>6. CASE ConsentRead(c)
    <2>1. \A d \in Clients : MutualAgreed(reqs'[d].copy.comps)
      BY <1>0, <1>6 DEF ConsentRead, GoodReq, Req
    <2> QED BY <1>6, <2>1 DEF ConsentRead
  <1>7. CASE ConsentMatch(c)
    <2>1. MutualAgreed(Matches(guests, reqs[c].copy.rows))
      BY <1>0, MatchesAgreed DEF GoodReq, GoodBoard, GoodRow
    <2>2. \A d \in Clients : MutualAgreed(reqs'[d].copy.comps)
      BY <1>0, <1>7, <2>1 DEF ConsentMatch, GoodReq, Req, Board
    <2> QED BY <1>7, <2>2 DEF ConsentMatch
  <1>8. CASE CopyStore(c)
    BY <1>0, <1>8, <1>f DEF CopyStore
  <1>9. CASE AddRead(c)
    <2>1. \A d \in Clients : MutualAgreed(reqs'[d].copy.comps)
      BY <1>0, <1>9, NothingMutual DEF AddRead, GoodReq, Req
    <2> QED BY <1>9, <2>1 DEF AddRead
  <1>10. CASE AddStore(c)
    BY <1>0, <1>10, <1>f, SpawnAgreed DEF AddStore
  <1> QED
    BY <1>1, <1>2, <1>3, <1>4, <1>5, <1>6, <1>7, <1>8, <1>9, <1>10 DEF Serve

\* A request begins with a copy of the board, whose matches have agreed, or
\* sets the guest's own flag, which the history records.
LEMMA RequestAgreed ==
  ASSUME RowsInv, ConsentInv, NEW c \in Clients, Request(c)
  PROVE  ConsentInv'
  <1> USE DEF ConsentInv, MutualAgreed
  <1>0. /\ reqs \in [Clients -> GoodReq] /\ guests \in [Guests -> Guest]
        /\ board \in Board
    BY DEF RowsInv, GoodBoard, Board, GoodRow
  <1>b. ASSUME NEW op, NEW pc, NEW g, NEW key, NEW copy, MutualAgreed(copy.comps),
               Begin(c, op, pc, g, key, copy)
        PROVE  \A d \in Clients : MutualAgreed(reqs'[d].copy.comps)
    BY <1>0, <1>b DEF Begin
  <1>r. \A g, row : MutualAgreed(WithRow(g, row).comps)
    BY <1>0 DEF WithRow, Board
  <1>1. CASE Recheck(c)
    BY <1>1, SpawnAgreed DEF Recheck
  <1>2. ASSUME NEW g \in Guests, NEW k \in Keys, ChooseRead(c, g, k)
        PROVE  ConsentInv'
    BY <1>2, <1>b, <1>r DEF ChooseRead
  <1>3. ASSUME NEW g \in Guests, BuyRead(c, g)
        PROVE  ConsentInv'
    BY <1>3, <1>b, <1>r DEF BuyRead
  <1>4. ASSUME NEW g \in Guests, UnbuyRead(c, g)
        PROVE  ConsentInv'
    BY <1>4, <1>b, <1>r DEF UnbuyRead
  <1>5. ASSUME NEW g \in Guests, UnbuyNoop(c, g)
        PROVE  ConsentInv'
    BY <1>5, <1>b DEF UnbuyNoop
  <1>6. ASSUME NEW g \in Guests, NEW op \in {"consent", "revoke"}, ConsentEvent(c, g, op)
        PROVE  ConsentInv'
    <2>1. agreed \subseteq agreed'
      BY <1>6 DEF ConsentEvent
    <2>2. \A h \in Guests : guests'[h].consent => h \in agreed'
      BY <1>0, <1>6 DEF ConsentEvent, Guest
    <2>3. \A d \in Clients : MutualAgreed(reqs'[d].copy.comps)
      BY <1>6, <1>b, NothingMutual DEF ConsentEvent
    <2> QED BY <1>6, <2>1, <2>2, <2>3 DEF ConsentEvent
  <1>7. ASSUME NEW g \in Guests, CollapseRead(c, g)
        PROVE  ConsentInv'
    BY <1>7, <1>b, <1>r DEF CollapseRead
  <1>8. ASSUME NEW g \in Guests, AddEvent(c, g)
        PROVE  ConsentInv'
    <2>1. \A h \in Guests : guests'[h].consent => h \in agreed
      BY <1>0, <1>8, NothingMutual DEF AddEvent
    <2>2. \A d \in Clients : MutualAgreed(reqs'[d].copy.comps)
      BY <1>8, <1>b, NothingMutual DEF AddEvent
    <2> QED BY <1>8, <2>1, <2>2 DEF AddEvent
  <1>9. ASSUME NEW g \in Guests, NEW optin \in BOOLEAN, Join(c, g, optin)
        PROVE  ConsentInv'
    <2>1. [guests[g] EXCEPT !.optin = optin].consent = guests[g].consent
      BY <1>0 DEF Guest
    <2>2. \A h \in Guests : guests'[h].consent => h \in agreed
      BY <1>0, <1>9, <2>1, NothingMutual DEF Join
    <2> QED BY <1>9, <2>2, SpawnAgreed DEF Join
  <1> QED
    BY <1>1, <1>2, <1>3, <1>4, <1>5, <1>6, <1>7, <1>8, <1>9 DEF Request

\* ConsentInv holds initially and every step preserves it, given RowsInv.
LEMMA InitAgreed == Init => ConsentInv
  <1> SUFFICES ASSUME Init PROVE ConsentInv
    OBVIOUS
  <1>1. \A g \in Guests : ~guests[g].consent
    BY NothingMutual DEF Init
  <1>2. \A b \in Builds, g \in Guests : ~builds[b].ev[g].consent
    BY NothingMutual DEF Init
  <1>3. board.comps = {} /\ \A c \in Clients : reqs[c].copy.comps = {}
    BY NothingMutual DEF Init
  <1> QED BY <1>1, <1>2, <1>3 DEF ConsentInv, MutualAgreed

\* No step pairs a name with somebody who never agreed.
LEMMA StepAgreed == RowsInv /\ ConsentInv /\ [Next]_vars => ConsentInv'
  <1> SUFFICES ASSUME RowsInv, ConsentInv, [Next]_vars PROVE ConsentInv'
    OBVIOUS
  <1>1. ASSUME NEW b \in Builds, Rebuild(b) PROVE ConsentInv'
    BY <1>1, RebuildAgreed
  <1>2. CASE Tick
    BY <1>2, NothingMutual DEF Tick, RowsInv, ConsentInv, MutualAgreed, bounds
  <1>3. ASSUME NEW c \in Clients, Serve(c) \/ Request(c) PROVE ConsentInv'
    BY <1>3, ServeAgreed, RequestAgreed
  <1>4. CASE Environment
    BY <1>4 DEF Environment, SellOut, PutOnSale, Expire, ConsentInv, MutualAgreed
  <1>5. CASE UNCHANGED vars
    BY <1>5 DEF vars, bounds, ConsentInv, MutualAgreed
  <1> QED BY <1>1, <1>2, <1>3, <1>4, <1>5 DEF Next

\* Consent and its revocation race with rebuilds and other requests that hold
\* older flags, but no interleaving shows a name of a guest who never agreed.
THEOREM NamesStayAgreed == Spec => []NamesWereAgreed
  <1>1. ConsentInv => NamesWereAgreed
    <2> SUFFICES ASSUME ConsentInv, NEW g \in Guests, NEW h \in NamesShown(g), h # g
                 PROVE  {g, h} \subseteq agreed
      BY DEF NamesWereAgreed
    <2>1. PICK m \in board.comps : g \in m.pair /\ h \in IF m.mutual THEN m.pair ELSE {g}
      BY DEF NamesShown
    <2> QED BY <2>1 DEF ConsentInv, MutualAgreed
  <1> QED BY <1>1, InitAgreed, StepAgreed, RowsInvariant, PTL DEF Spec

-----------------------------------------------------------------------------
(* A rebuild keeps the tickets that it has read. *)

\* The ticket of g is among what the rebuild b has read of guests and board.
HasRead(b, g) == /\ builds[b].ev[g].in /\ builds[b].ev[g].purchased
                 /\ builds[b].prior.rows[g].chosen # NoOffer

\* The inductive form of KeepsBoughtTicket: while a rebuild plans, each ticket
\* that it has read is either still to be planned or frozen in its rows.
TicketInv ==
  \A b \in Builds, g \in Guests :
    builds[b].pc = "plan" /\ HasRead(b, g) /\ g \notin builds[b].todo =>
      /\ builds[b].rows[g].purchased
      /\ builds[b].rows[g].chosen = builds[b].prior.rows[g].chosen

\* Steps that leave all rebuilds alone, or reset one, keep TicketInv.
LEMMA IdleTickets ==
  ASSUME RowsInv, TicketInv, NEW b \in Builds, NEW r, r.pc # "plan",
         builds' = [builds EXCEPT ![b] = r] \/ UNCHANGED builds
  PROVE  TicketInv'
  <1>1. builds'[b].pc # "plan" \/ builds'[b] = builds[b]
    BY DEF RowsInv
  <1>2. \A w \in Builds \ {b} : builds'[w] = builds[w]
    BY DEF RowsInv
  <1> QED BY <1>1, <1>2 DEF TicketInv, HasRead

\* A rebuild that starts owes no ticket yet: it has read nothing.
LEMMA SpawnTickets ==
  ASSUME RowsInv, TicketInv, NEW fresh \in BOOLEAN, Spawn(fresh)
  PROVE  TicketInv'
  <1>1. Starting(fresh).pc # "plan"
    BY DEF Starting, IdleBuild
  <1>2. PICK b \in Workers : builds' = [builds EXCEPT ![b] = Starting(fresh)]
    BY DEF Spawn
  <1> QED BY <1>1, <1>2, IdleTickets DEF Builds

\* Planning a guest whose ticket was read carries the row of the prior board.
LEMMA PlanTickets ==
  ASSUME RowsInv, TicketInv, NEW b \in Builds, NEW g \in Guests, BuildPlan(b, g)
  PROVE  TicketInv'
  <1>0. builds \in [Builds -> GoodBuild] /\ builds[b] \in GoodBuild
    BY DEF RowsInv
  <1>1. PICK row : builds' = [builds EXCEPT ![b].rows[g] = row, ![b].todo = @ \ {g}]
    BY DEF BuildPlan
  <1>2. /\ \A w \in Builds \ {b} : builds'[w] = builds[w]
        /\ builds'[b].ev = builds[b].ev /\ builds'[b].prior = builds[b].prior
        /\ builds'[b].todo = builds[b].todo \ {g}
        /\ builds'[b].rows = [builds[b].rows EXCEPT ![g] = row]
        /\ builds[b].rows \in [Guests -> GoodRow]
        /\ builds[b].pc = "plan"
    BY <1>0, <1>1 DEF GoodBuild, Build, BuildPlan
  <1>3. ASSUME HasRead(b, g)
        PROVE  builds'[b].rows[g] = Freeze(builds[b].prior.rows[g])
    <2>1. Carried(builds[b].ev[g], builds[b].prior.rows[g])
      BY <1>3 DEF HasRead, Carried
    <2>2. builds' = [builds EXCEPT ![b].rows[g] = Freeze(builds[b].prior.rows[g]),
                                   ![b].todo = @ \ {g}]
      BY <2>1 DEF BuildPlan
    <2> QED BY <1>0, <2>2 DEF GoodBuild, Build
  <1>4. ASSUME HasRead(b, g)
        PROVE  /\ builds'[b].rows[g].purchased
               /\ builds'[b].rows[g].chosen = builds[b].prior.rows[g].chosen
    <2>1. builds[b].prior.rows[g] \in Row
      BY <1>0 DEF GoodBuild, GoodBoard, GoodRow
    <2> QED BY <1>3, <1>4, <2>1 DEF Freeze, Row
  <1>5. ASSUME NEW w \in Builds, NEW h \in Guests, builds'[w].pc = "plan",
               HasRead(w, h)', h \notin builds'[w].todo
        PROVE  /\ builds'[w].rows[h].purchased
               /\ builds'[w].rows[h].chosen = builds'[w].prior.rows[h].chosen
    <2>1. CASE w # b
      BY <1>2, <1>5, <2>1 DEF TicketInv, HasRead
    <2>2. CASE w = b /\ h # g
      BY <1>2, <1>5, <2>2 DEF TicketInv, HasRead
    <2>3. CASE w = b /\ h = g
      BY <1>2, <1>4, <1>5, <2>3 DEF HasRead
    <2> QED BY <2>1, <2>2, <2>3
  <1> QED BY <1>5 DEF TicketInv

\* A step of a rebuild keeps its plan in line with the tickets it has read.
LEMMA RebuildTickets ==
  ASSUME RowsInv, TicketInv, NEW b \in Builds, Rebuild(b)
  PROVE  TicketInv'
  <1>0. builds \in [Builds -> GoodBuild] /\ builds[b] \in GoodBuild
    BY DEF RowsInv
  <1>1. CASE BuildSnapshot(b)
    <2>1. builds'[b].pc = "prior" /\ \A w \in Builds \ {b} : builds'[w] = builds[w]
      BY <1>0, <1>1 DEF BuildSnapshot, GoodBuild, Build
    <2> QED BY <2>1 DEF TicketInv, HasRead
  <1>2. CASE BuildPrior(b)
    <2>1. /\ \A w \in Builds \ {b} : builds'[w] = builds[w]
          /\ builds'[b].ev = builds[b].ev
          /\ builds'[b].todo = {g \in Guests : builds[b].ev[g].in}
      BY <1>0, <1>2 DEF BuildPrior, GoodBuild, Build
    <2> QED BY <2>1 DEF TicketInv, HasRead
  <1>3. ASSUME NEW g \in Guests, BuildPlan(b, g) PROVE TicketInv'
    BY <1>3, PlanTickets
  <1>4. CASE BuildPublish(b)
    <2>1. builds'[b].pc = "clear" /\ \A w \in Builds \ {b} : builds'[w] = builds[w]
      BY <1>0, <1>4 DEF BuildPublish, GoodBuild, Build
    <2> QED BY <2>1 DEF TicketInv, HasRead
  <1>5. CASE BuildClear(b)
    <2>1. IdleBuild.pc # "plan"
      BY DEF IdleBuild
    <2> QED BY <1>5, <2>1, IdleTickets DEF BuildClear
  <1> QED BY <1>1, <1>2, <1>3, <1>4, <1>5 DEF Rebuild

\* TicketInv holds initially and every step preserves it, given RowsInv.
LEMMA InitTickets == Init => TicketInv
  BY DEF Init, TicketInv, HasRead, Starting, IdleBuild

\* Every step keeps the plans of all rebuilds in line with those tickets.
LEMMA StepTickets == RowsInv /\ TicketInv /\ [Next]_vars => TicketInv'
  <1> SUFFICES ASSUME RowsInv, TicketInv, [Next]_vars PROVE TicketInv'
    OBVIOUS
  <1>u. ASSUME UNCHANGED builds PROVE TicketInv'
    BY <1>u DEF TicketInv, HasRead
  <1>1. ASSUME NEW b \in Builds, Rebuild(b) PROVE TicketInv'
    BY <1>1, RebuildTickets
  <1>2. CASE Tick
    <2>1. Starting(TRUE).pc # "plan"
      BY DEF Starting, IdleBuild
    <2> QED BY <1>2, <2>1, IdleTickets DEF Tick, Builds
  <1>3. ASSUME NEW c \in Clients, Serve(c) PROVE TicketInv'
    BY <1>3, <1>u, SpawnTickets
    DEF Serve, ChooseEvent, ChooseStore, BuyEvent, UnbuyEvent, UnbuyFlag,
        ConsentRead, ConsentMatch, CopyStore, AddRead, AddStore
  <1>4. ASSUME NEW c \in Clients, Request(c) PROVE TicketInv'
    BY <1>4, <1>u, SpawnTickets
    DEF Request, ChooseRead, BuyRead, UnbuyRead, UnbuyNoop, ConsentEvent,
        CollapseRead, AddEvent, Join, Recheck
  <1>5. CASE Environment
    BY <1>5, <1>u DEF Environment, SellOut, PutOnSale, Expire
  <1>6. CASE UNCHANGED vars
    BY <1>6, <1>u DEF vars
  <1> QED BY <1>1, <1>2, <1>3, <1>4, <1>5, <1>6 DEF Next

\* Publishing keeps every ticket that the rebuild has read: the wave moves no
\* purchased row, and a rebuild publishes only when nothing is left to plan.
LEMMA PublishKeeps ==
  ASSUME RowsInv, TicketInv, NEW b \in Builds, NEW g \in Guests, BuildPublish(b),
         HasRead(b, g)
  PROVE  /\ board'.rows[g].purchased
         /\ board'.rows[g].chosen = builds[b].prior.rows[g].chosen
  <1>1. PICK rows \in Waves(builds[b].rows) :
          board' = [rows |-> rows, comps |-> Matches(builds[b].ev, rows)]
    BY DEF BuildPublish
  <1>2. builds[b].rows \in [Guests -> GoodRow]
    BY DEF RowsInv, GoodBuild
  <1>3. /\ builds[b].rows[g].purchased
        /\ builds[b].rows[g].chosen = builds[b].prior.rows[g].chosen
    BY DEF TicketInv, BuildPublish
  <1>4. rows[g] = builds[b].rows[g]
    BY <1>1, <1>2, <1>3, WavesGood
  <1> QED BY <1>1, <1>3, <1>4

\* Only publishing takes a rebuild from planning to clearing.
LEMMA OnlyPublish ==
  ASSUME RowsInv, Next, NEW b \in Builds,
         builds[b].pc = "plan", builds'[b].pc = "clear"
  PROVE  BuildPublish(b)
  <1>0. builds \in [Builds -> GoodBuild] /\ \A w \in Builds : builds[w] \in Build
    BY DEF RowsInv, GoodBuild
  <1>s. \A f : Starting(f).pc = "start" /\ IdleBuild.pc = "idle"
    BY DEF Starting, IdleBuild
  <1>1. ASSUME NEW w \in Builds, Rebuild(w) PROVE BuildPublish(b)
    <2>1. CASE BuildSnapshot(w)
      BY <1>0, <2>1 DEF BuildSnapshot, Build
    <2>2. CASE BuildPrior(w)
      BY <1>0, <2>2 DEF BuildPrior, Build
    <2>3. ASSUME NEW g \in Guests, BuildPlan(w, g) PROVE BuildPublish(b)
      <3>1. \E row : builds' = [builds EXCEPT ![w].rows[g] = row, ![w].todo = @ \ {g}]
        BY <2>3 DEF BuildPlan
      <3>2. builds'[b].pc = builds[b].pc
        BY <1>0, <3>1 DEF Build
      <3> QED BY <3>2
    <2>4. CASE BuildPublish(w)
      BY <1>0, <2>4 DEF BuildPublish, Build
    <2>5. CASE BuildClear(w)
      BY <1>0, <1>s, <2>5 DEF BuildClear
    <2> QED BY <1>1, <2>1, <2>2, <2>3, <2>4, <2>5 DEF Rebuild
  <1>2. ASSUME NEW f, Spawn(f) PROVE FALSE
    BY <1>0, <1>2, <1>s DEF Spawn, Builds
  <1>3. CASE Tick
    BY <1>0, <1>3, <1>s DEF Tick, Builds
  <1>4. ASSUME NEW c \in Clients, Serve(c) PROVE FALSE
    BY <1>4, <1>2
    DEF Serve, ChooseEvent, ChooseStore, BuyEvent, UnbuyEvent, UnbuyFlag,
        ConsentRead, ConsentMatch, CopyStore, AddRead, AddStore
  <1>5. ASSUME NEW c \in Clients, Request(c) PROVE FALSE
    BY <1>5, <1>2
    DEF Request, ChooseRead, BuyRead, UnbuyRead, UnbuyNoop, ConsentEvent,
        CollapseRead, AddEvent, Join, Recheck
  <1>6. CASE Environment
    BY <1>6 DEF Environment, SellOut, PutOnSale, Expire
  <1> QED BY <1>1, <1>3, <1>4, <1>5, <1>6 DEF Next

\* A rebuild that has read a purchase together with the bought route publishes
\* that route frozen, whatever its searches find, whatever other rebuilds and
\* handlers do meanwhile, and wherever the wave moves the other guests.
THEOREM BoughtTicketKept == Spec => KeepsBoughtTicket
  <1> DEFINE Keeps == \A b \in Builds, g \in Guests :
       /\ builds[b].pc = "plan" /\ builds'[b].pc = "clear"
       /\ builds[b].ev[g].in /\ builds[b].ev[g].purchased
       /\ builds[b].prior.rows[g].chosen # NoOffer
       => /\ board'.rows[g].purchased
          /\ board'.rows[g].chosen = builds[b].prior.rows[g].chosen
  <1>1. RowsInv /\ TicketInv /\ [Next]_vars => [Keeps]_vars
    <2> SUFFICES ASSUME RowsInv, TicketInv, Next PROVE Keeps
      OBVIOUS
    <2> QED BY OnlyPublish, PublishKeeps DEF HasRead
  <1>2. Spec => []TicketInv
    BY InitTickets, StepTickets, RowsInvariant, PTL DEF Spec
  <1> QED BY <1>1, <1>2, RowsInvariant, PTL DEF Spec, KeepsBoughtTicket

-----------------------------------------------------------------------------
(* While nothing is sold out, put on sale or fails to answer, no pin is      *)
(* dropped: a pin is the key of an option that a row held, so the next       *)
(* search finds it again.                                                    *)

Calm == moves = 0 /\ fails = 0

Options(row) == row.alts \cup ({row.chosen} \ {NoOffer})

\* What a row of g may hold: all that is sold in time, as long as it is calm.
OnSale == [g \in Guests |-> IF Calm THEN InWindow(live[g]) ELSE Offers]

\* Only guests of the event have rows, with options on sale.
RowsKnown(rows, now, sale) ==
  \A g \in Guests : /\ rows[g] # Blank("absent") => now[g].in
                    /\ Options(rows[g]) \subseteq sale[g]

\* Only guests of the event have pins, for options on sale.
GuestsKnown(old, now, sale) ==
  \A g \in Guests : /\ old[g].in => now[g].in
                    /\ old[g].pin # NoKey =>
                         old[g].in /\ \E o \in sale[g] : KeyOf[o] = old[g].pin

\* The rows that a rebuild has planned hold the pins of its snapshot.
PinsHeld(r) ==
  r.pc \in {"plan", "clear"} =>
    \A g \in Guests : /\ r.ev[g].in /\ g \notin r.todo
                      /\ r.ev[g].pin # NoKey /\ ~r.ev[g].purchased
                      => r.rows[g].pinned

BuildKnown(r, now, sale, calm) ==
  /\ RowsKnown(r.prior.rows, now, sale)
  /\ RowsKnown(r.rows, now, sale)
  /\ GuestsKnown(r.ev, now, sale)
  /\ \A g \in r.todo : r.pc = "plan" /\ r.ev[g].in
  /\ calm => PinsHeld(r)

ReqKnown(r, now, sale) ==
  /\ RowsKnown(r.copy.rows, now, sale)
  /\ r.op \in {"choose", "buy"} => /\ now[r.g].in
                                   /\ \E o \in sale[r.g] : KeyOf[o] = r.key

CacheTrue == \A g \in Guests, p \in Passes :
               cache[g][p].hit => cache[g][p].offers = live[g] \cap Sold(p)

\* The inductive form of PinKeptWhenCalm.
PinInv ==
  /\ RowsKnown(board.rows, guests, OnSale)
  /\ GuestsKnown(guests, guests, OnSale)
  /\ \A b \in Builds : BuildKnown(builds[b], guests, OnSale, Calm)
  /\ \A c \in Clients : ReqKnown(reqs[c], guests, OnSale)
  /\ Calm => CacheTrue

\* Guests never leave, and calm is never restored.
Grows(now, later, sale, sale2, calm, calm2) ==
  /\ \A g \in Guests : /\ now[g].in => later[g].in
                       /\ sale[g] \subseteq sale2[g]
  /\ calm2 => calm

\* What is known stays known as guests join and the calm ends.
LEMMA KnownGrows ==
  ASSUME NEW now, NEW later, NEW sale, NEW sale2, NEW calm, NEW calm2,
         Grows(now, later, sale, sale2, calm, calm2)
  PROVE  /\ \A rows : RowsKnown(rows, now, sale) => RowsKnown(rows, later, sale2)
         /\ \A old : GuestsKnown(old, now, sale) => GuestsKnown(old, later, sale2)
         /\ \A r : BuildKnown(r, now, sale, calm) => BuildKnown(r, later, sale2, calm2)
         /\ \A r \in GoodReq : ReqKnown(r, now, sale) => ReqKnown(r, later, sale2)
<1>1. ASSUME NEW rows, RowsKnown(rows, now, sale) PROVE RowsKnown(rows, later, sale2)
  BY <1>1 DEF Grows, RowsKnown
<1>2. ASSUME NEW old, GuestsKnown(old, now, sale) PROVE GuestsKnown(old, later, sale2)
  <2> SUFFICES ASSUME NEW g \in Guests
               PROVE  /\ old[g].in => later[g].in
                      /\ old[g].pin # NoKey =>
                           old[g].in /\ \E o \in sale2[g] : KeyOf[o] = old[g].pin
    BY DEF GuestsKnown
  <2> QED BY <1>2 DEF Grows, GuestsKnown
<1>3. ASSUME NEW r, BuildKnown(r, now, sale, calm) PROVE BuildKnown(r, later, sale2, calm2)
  BY <1>1, <1>2, <1>3 DEF Grows, BuildKnown
<1>4. ASSUME NEW r \in GoodReq, ReqKnown(r, now, sale) PROVE ReqKnown(r, later, sale2)
  <2>1. r.g \in Guests
    BY DEF GoodReq, Req
  <2>2. sale[r.g] \subseteq sale2[r.g] /\ (now[r.g].in => later[r.g].in)
    BY <2>1 DEF Grows
  <2> QED BY <1>1, <1>4, <2>2 DEF ReqKnown
<1> QED BY <1>1, <1>2, <1>3, <1>4

\* A step makes nobody leave; a sale or a failure ends the calm for good.
LEMMA StepGrows ==
  ASSUME RowsInv, [Next]_vars
  PROVE  /\ Grows(guests, guests', OnSale, OnSale', Calm, Calm')
         /\ Calm' => Calm /\ live' = live
<1>1. /\ guests \in [Guests -> Guest] /\ moves \in Nat /\ fails \in Nat
      /\ live \in [Guests -> SUBSET Offers]
  BY DEF RowsInv
<1>a. \A g \in Guests : guests[g].in => guests'[g].in
  <2>n. /\ \A optin \in BOOLEAN : NewGuest(optin).in
        /\ \A g \in Guests : \A f : [guests[g] EXCEPT !.optin = f].in = guests[g].in
    BY <1>1 DEF Nobody, NewGuest, Guest
  <2>h. ASSUME NEW g, NEW f, NEW k,
               \/ guests' = guests
               \/ guests' = [guests EXCEPT ![g].pin = k]
               \/ guests' = [guests EXCEPT ![g].purchased = f]
               \/ guests' = [guests EXCEPT ![g].consent = f]
               \/ guests' = [guests EXCEPT ![g].purchased = f, ![g].pin = k]
        PROVE  \A h \in Guests : guests[h].in => guests'[h].in
    BY <1>1, <2>h DEF Guest
  <2>1. ASSUME NEW b \in Builds, Rebuild(b)
        PROVE  \A g \in Guests : guests[g].in => guests'[g].in
    <3>1. CASE BuildClear(b)
      BY <1>1, <3>1 DEF BuildClear, Guest
    <3> QED BY <2>1, <3>1 DEF Rebuild, BuildSnapshot, BuildPrior, BuildPlan, BuildPublish
  <2>2. ASSUME NEW c \in Clients, Serve(c)
        PROVE  \A g \in Guests : guests[g].in => guests'[g].in
    <3>1. CASE ChooseEvent(c)  BY <2>h, <3>1 DEF ChooseEvent
    <3>2. CASE BuyEvent(c)  BY <2>h, <3>2 DEF BuyEvent
    <3>3. CASE UnbuyEvent(c)  BY <2>h, <3>3 DEF UnbuyEvent
    <3>4. CASE UnbuyFlag(c)  BY <2>h, <3>4 DEF UnbuyFlag
    <3> QED BY <2>2, <3>1, <3>2, <3>3, <3>4
        DEF Serve, ChooseStore, ConsentRead, ConsentMatch, CopyStore, AddRead, AddStore
  <2>3. ASSUME NEW c \in Clients, Request(c)
        PROVE  \A g \in Guests : guests[g].in => guests'[g].in
    <3>1. ASSUME NEW g \in Guests, AddEvent(c, g)
          PROVE  \A h \in Guests : guests[h].in => guests'[h].in
      BY <1>1, <2>n, <3>1 DEF AddEvent
    <3>2. ASSUME NEW g \in Guests, NEW optin \in BOOLEAN, Join(c, g, optin)
          PROVE  \A h \in Guests : guests[h].in => guests'[h].in
      BY <1>1, <2>n, <3>2 DEF Join
    <3>3. ASSUME NEW g \in Guests, NEW op, ConsentEvent(c, g, op)
          PROVE  \A h \in Guests : guests[h].in => guests'[h].in
      BY <2>h, <3>3 DEF ConsentEvent
    <3>4. ASSUME NEW g \in Guests, NEW k,
                 \/ Recheck(c) \/ ChooseRead(c, g, k) \/ BuyRead(c, g)
                 \/ UnbuyRead(c, g) \/ UnbuyNoop(c, g) \/ CollapseRead(c, g)
          PROVE  guests' = guests
      BY <3>4 DEF Recheck, ChooseRead, BuyRead, UnbuyRead, UnbuyNoop, CollapseRead
    <3>5. CASE Recheck(c)
      BY <3>5 DEF Recheck
    <3> QED BY <2>3, <3>1, <3>2, <3>3, <3>4, <3>5 DEF Request
  <2> QED BY <2>1, <2>2, <2>3
      DEF Next, Tick, Environment, SellOut, PutOnSale, Expire, vars
<1>b. (moves' = moves /\ live' = live) \/ moves' = moves + 1
  <2>1. CASE Environment
    BY <2>1 DEF Environment, SellOut, PutOnSale, Expire, bounds
  <2>2. ASSUME NEW b \in Builds, Rebuild(b) PROVE moves' = moves /\ live' = live
    BY <2>2 DEF Rebuild, BuildSnapshot, BuildPrior, BuildPlan, BuildPublish, BuildClear, bounds
  <2>3. ASSUME NEW c \in Clients, Serve(c) PROVE moves' = moves /\ live' = live
    BY <2>3
    DEF Serve, ChooseEvent, ChooseStore, BuyEvent, UnbuyEvent, UnbuyFlag,
        ConsentRead, ConsentMatch, CopyStore, AddRead, AddStore, bounds
  <2>4. ASSUME NEW c \in Clients, Request(c) PROVE moves' = moves /\ live' = live
    BY <2>4
    DEF Request, Recheck, ChooseRead, BuyRead, UnbuyRead, UnbuyNoop, ConsentEvent,
        CollapseRead, AddEvent, Join
  <2> QED BY <2>1, <2>2, <2>3, <2>4 DEF Next, Tick, bounds, vars
<1>c. fails' \in Nat /\ fails' >= fails
  <2>1. ASSUME NEW b \in Builds, Rebuild(b) PROVE fails' \in Nat /\ fails' >= fails
    <3>1. ASSUME NEW g \in Guests, BuildPlan(b, g) PROVE fails' \in Nat /\ fails' >= fails
      <4>1. fails' = fails \/ \E x, y \in {0, 1} : fails' = fails + x + y
        BY <3>1 DEF BuildPlan
      <4> QED BY <1>1, <4>1
    <3>2. CASE BuildSnapshot(b) \/ BuildPrior(b) \/ BuildPublish(b) \/ BuildClear(b)
      <4>1. fails' = fails
        BY <3>2 DEF BuildSnapshot, BuildPrior, BuildPublish, BuildClear, bounds
      <4> QED BY <1>1, <4>1
    <3> QED BY <2>1, <3>1, <3>2 DEF Rebuild
  <2>2. ASSUME NEW c \in Clients, Serve(c) PROVE fails' = fails
    BY <2>2
    DEF Serve, ChooseEvent, ChooseStore, BuyEvent, UnbuyEvent, UnbuyFlag,
        ConsentRead, ConsentMatch, CopyStore, AddRead, AddStore, bounds
  <2>3. ASSUME NEW c \in Clients, Request(c) PROVE fails' = fails
    BY <2>3
    DEF Request, Recheck, ChooseRead, BuyRead, UnbuyRead, UnbuyNoop, ConsentEvent,
        CollapseRead, AddEvent, Join
  <2>4. ASSUME Environment \/ Tick \/ UNCHANGED vars PROVE fails' = fails
    BY <2>4 DEF Environment, SellOut, PutOnSale, Expire, Tick, bounds, vars
  <2>5. fails' = fails => fails' \in Nat /\ fails' >= fails
    BY <1>1
  <2> QED BY <2>1, <2>2, <2>3, <2>4, <2>5 DEF Next
<1>3. Calm' => Calm /\ live' = live
  BY <1>1, <1>b, <1>c DEF Calm
<1>4. ASSUME NEW g \in Guests PROVE OnSale[g] \subseteq OnSale'[g]
  <2>1. CASE Calm'
    BY <1>3, <2>1 DEF OnSale
  <2>2. CASE ~Calm'
    BY <1>1, <2>2 DEF OnSale, InWindow
  <2> QED BY <2>1, <2>2
<1> QED BY <1>a, <1>3, <1>4 DEF Grows

\* An option that a row holds is one of its guest's; a row with one is no blank.
LEMMA OptionsOffered ==
  ASSUME NEW row \in GoodRow
  PROVE  /\ Options(row) \subseteq Offers
         /\ Options(Freeze(row)) = Options(row)
         /\ Options(row) # {} \/ row.chosen # NoOffer \/ row.purchased => row # Blank("absent")
         /\ \A o \in Options(row) : Options(Swap(row, o)) \subseteq Options(row)
<1>1. row \in Row /\ NoOffer \notin Offers
  BY RowsAssumption DEF GoodRow
<1>2. /\ Blank("absent").chosen = NoOffer /\ Blank("absent").alts = {}
      /\ ~Blank("absent").purchased
  BY DEF Blank
<1>3. Options(Blank("absent")) = {}
  BY <1>2 DEF Options
<1>4. Freeze(row).alts = row.alts /\ Freeze(row).chosen = row.chosen
  BY <1>1 DEF Freeze, Row
<1>5. Options(row) \subseteq Offers
  BY <1>1 DEF Options, Row
<1>6. ASSUME NEW o \in Options(row) PROVE Options(Swap(row, o)) \subseteq Options(row)
  <2>1. CASE o = row.chosen
    BY <2>1 DEF Swap
  <2>2. CASE o # row.chosen
    <3>1. /\ Swap(row, o).chosen = o
          /\ Swap(row, o).alts = (row.alts \ {o}) \cup ({row.chosen} \ {NoOffer})
      BY <1>1, <2>2 DEF Swap, Row
    <3> QED BY <3>1 DEF Options
  <2> QED BY <2>1, <2>2
<1> QED BY <1>2, <1>3, <1>4, <1>5, <1>6 DEF Options

\* The wave shows no new options and moves no pinned row.
LEMMA WavesKnown ==
  ASSUME NEW rows \in [Guests -> GoodRow], NEW f \in Waves(rows), NEW now, NEW sale,
         RowsKnown(rows, now, sale)
  PROVE  /\ RowsKnown(f, now, sale)
         /\ \A g \in Guests : rows[g].pinned => f[g] = rows[g]
<1>1. \A g \in Guests : f[g] \in Moved(rows[g])
  BY DEF Waves, Moved
<1>2. \A g \in Guests : rows[g].pinned => f[g] = rows[g]
  BY <1>1 DEF Moved, Frozen
<1>3. ASSUME NEW g \in Guests
      PROVE  /\ f[g] # Blank("absent") => now[g].in
             /\ Options(f[g]) \subseteq sale[g]
  <2>1. CASE f[g] = rows[g]
    BY <2>1 DEF RowsKnown
  <2>2. CASE f[g] # rows[g]
    <3>1. PICK o \in Later(rows[g]) : f[g] = Swap(rows[g], o)
      BY <1>1, <2>2 DEF Moved
    <3>2. rows[g].chosen # NoOffer
      BY <1>1, <2>2 DEF Moved
    <3>3. o \in Options(rows[g])
      BY <3>1 DEF Later, Options
    <3> QED BY <3>1, <3>2, <3>3, OptionsOffered DEF RowsKnown
  <2> QED BY <2>1, <2>2
<1> QED BY <1>2, <1>3 DEF RowsKnown

\* PlanGuest shows only what it found in time, and holds a pin that it found.
LEMMA PlansKnown ==
  ASSUME NEW guest \in Guest, NEW was \in GoodRow, NEW found \in SUBSET Offers,
         NEW row \in Plans(guest, was, found)
  PROVE  /\ Options(row) \subseteq InWindow(found)
         /\ (\E o \in InWindow(found) : KeyOf[o] = guest.pin) => row.pinned
<1> DEFINE F    == InWindow(found)
           held == {o \in F : KeyOf[o] = guest.pin}
           lost == guest.pin # NoKey /\ held = {}
           pick == IF held # {} THEN held ELSE Best(F)
<1>1. pick \subseteq F
  BY DEF Best
<1>2. CASE F = {}
  <2>1. row = [Blank("needs_help") EXCEPT !.told = (was.chosen # NoOffer)]
    BY <1>2 DEF Plans
  <2>2. row.chosen = NoOffer /\ row.alts = {}
    BY <2>1 DEF Blank
  <2> QED BY <1>2, <2>2 DEF Options
<1>3. CASE F # {}
  <2>1. PICK c \in pick : \E A \in Alternatives(F, c) :
          row = Assembled(guest, was, c, A, lost)
    BY <1>3 DEF Plans
  <2>2. PICK A \in Alternatives(F, c) : row = Assembled(guest, was, c, A, lost)
    BY <2>1
  <2>3. A \subseteq F
    BY <2>2 DEF Alternatives
  <2>4. /\ row.chosen = c /\ row.alts = A
        /\ row.pinned = (KeyOf[c] = guest.pin)
    BY <2>2 DEF Assembled
  <2>5. Options(row) \subseteq F
    BY <1>1, <2>1, <2>3, <2>4 DEF Options
  <2>6. held # {} => row.pinned
    BY <2>1, <2>4
  <2> QED BY <2>5, <2>6
<1> QED BY <1>2, <1>3

\* Nobody, blank rows and idle slots know nothing.
LEMMA NothingKnown ==
  ASSUME NEW now, NEW sale
  PROVE  /\ RowsKnown(EmptyBoard.rows, now, sale)
         /\ GuestsKnown(IdleBuild.ev, now, sale)
         /\ \A calm : BuildKnown(IdleBuild, now, sale, calm)
         /\ \A calm, f : BuildKnown(Starting(f), now, sale, calm)
         /\ ReqKnown(IdleReq, now, sale)
         /\ RowsKnown(Placeholder(now).rows, now, sale)
<1>1. RowsKnown(EmptyBoard.rows, now, sale)
  BY DEF RowsKnown, EmptyBoard, Options, Blank
<1>2. GuestsKnown(IdleBuild.ev, now, sale)
  BY DEF GuestsKnown, IdleBuild, Nobody
<1>3. /\ IdleBuild.prior = EmptyBoard /\ IdleBuild.rows = EmptyBoard.rows
      /\ IdleBuild.pc = "idle" /\ IdleBuild.todo = {}
  BY DEF IdleBuild
<1>4. \A f : /\ Starting(f).prior = EmptyBoard /\ Starting(f).rows = EmptyBoard.rows
             /\ Starting(f).pc = "start" /\ Starting(f).ev = IdleBuild.ev
             /\ Starting(f).todo = {}
  BY DEF IdleBuild, Starting
<1>5. \A calm : BuildKnown(IdleBuild, now, sale, calm)
  BY <1>1, <1>2, <1>3 DEF BuildKnown, PinsHeld
<1>6. \A calm, f : BuildKnown(Starting(f), now, sale, calm)
  BY <1>1, <1>2, <1>4 DEF BuildKnown, PinsHeld
<1>7. ReqKnown(IdleReq, now, sale)
  BY <1>1 DEF ReqKnown, IdleReq
<1>8. RowsKnown(Placeholder(now).rows, now, sale)
  BY DEF RowsKnown, Placeholder, Options, Blank
<1> QED BY <1>1, <1>2, <1>5, <1>6, <1>7, <1>8

\* What is known before a step stays known after it.
LEMMA PinsGrow ==
  ASSUME RowsInv, PinInv, [Next]_vars
  PROVE  /\ RowsKnown(board.rows, guests', OnSale')
         /\ GuestsKnown(guests, guests', OnSale')
         /\ \A b \in Builds : BuildKnown(builds[b], guests', OnSale', Calm')
         /\ \A c \in Clients : ReqKnown(reqs[c], guests', OnSale')
         /\ UNCHANGED cache => (Calm' => CacheTrue')
<1>1. Grows(guests, guests', OnSale, OnSale', Calm, Calm') /\ (Calm' => Calm /\ live' = live)
  BY StepGrows
<1>2. \A c \in Clients : reqs[c] \in GoodReq
  BY DEF RowsInv
<1>3. RowsKnown(board.rows, guests', OnSale')
  BY <1>1, KnownGrows DEF PinInv
<1>4. GuestsKnown(guests, guests', OnSale')
  BY <1>1, KnownGrows DEF PinInv
<1>5. ASSUME NEW b \in Builds PROVE BuildKnown(builds[b], guests', OnSale', Calm')
  BY <1>1, KnownGrows DEF PinInv
<1>6. ASSUME NEW c \in Clients PROVE ReqKnown(reqs[c], guests', OnSale')
  BY <1>1, <1>2, KnownGrows DEF PinInv
<1>7. UNCHANGED cache => (Calm' => CacheTrue')
  BY <1>1 DEF PinInv, CacheTrue
<1> QED BY <1>3, <1>4, <1>5, <1>6, <1>7

\* Each slot of the search cache holds what is sold, as long as it is calm.
LEMMA RepliesTrue ==
  ASSUME RowsInv, PinInv, Calm, NEW g \in Guests, NEW fresh,
         NEW d \in Replies(g, "day", fresh), NEW n \in Replies(g, "night", fresh),
         d.ok, n.ok
  PROVE  /\ d.offers = live[g] \cap Sold("day") /\ n.offers = live[g] \cap Sold("night")
         /\ d.offers \cup n.offers = live[g]
<1>1. CacheTrue /\ live[g] \subseteq Offers
  BY DEF PinInv, RowsInv
<1>2. /\ cache[g]["day"].hit => cache[g]["day"].offers = live[g] \cap Sold("day")
      /\ cache[g]["night"].hit => cache[g]["night"].offers = live[g] \cap Sold("night")
  BY <1>1 DEF CacheTrue, Passes
<1>3. d.offers = live[g] \cap Sold("day")
  BY <1>2 DEF Replies
<1>4. n.offers = live[g] \cap Sold("night")
  BY <1>2 DEF Replies
<1>5. Sold("day") = Offers \ Night /\ Sold("night") = Night
  BY DEF Sold
<1>6. d.offers \cup n.offers = live[g]
  BY <1>1, <1>3, <1>4, <1>5, ConstantsAssumption
<1> QED BY <1>3, <1>4, <1>6

\* A row is planned from what is on sale, and with its pin when it is calm.
LEMMA PlanPins ==
  ASSUME RowsInv, PinInv, Next, NEW b \in Builds, NEW g \in Guests, BuildPlan(b, g)
  PROVE  /\ Calm' => CacheTrue'
         /\ \E row \in GoodRow :
              /\ builds' = [builds EXCEPT ![b].rows[g] = row, ![b].todo = @ \ {g}]
              /\ Options(row) \subseteq OnSale'[g]
              /\ /\ Calm' /\ builds[b].ev[g].in /\ builds[b].ev[g].pin # NoKey
                 /\ ~builds[b].ev[g].purchased
                 => row.pinned
<1> DEFINE guest == builds[b].ev[g]
           was   == builds[b].prior.rows[g]
           fresh == builds[b].fresh
<1>1. /\ guest \in Guest /\ was \in GoodRow /\ fails \in Nat
      /\ live \in [Guests -> SUBSET Offers]
  BY DEF RowsInv, GoodBuild, Build, GoodBoard
<1>2. Calm' => Calm /\ live' = live
  BY StepGrows
<1>3. /\ RowsKnown(builds[b].prior.rows, guests', OnSale')
      /\ GuestsKnown(builds[b].ev, guests', OnSale')
  BY PinsGrow DEF BuildKnown
<1>4. OnSale'[g] = IF Calm' THEN InWindow(live'[g]) ELSE Offers
  BY DEF OnSale
<1>5. CASE Carried(guest, was)
  <2>1. /\ builds' = [builds EXCEPT ![b].rows[g] = Freeze(was), ![b].todo = @ \ {g}]
        /\ UNCHANGED cache
    BY <1>5 DEF BuildPlan
  <2>2. Freeze(was) \in GoodRow /\ guest.purchased
    BY <1>1, <1>5, FreezeGood DEF Carried
  <2>3. Options(Freeze(was)) \subseteq OnSale'[g]
    BY <1>1, <1>3, OptionsOffered DEF RowsKnown
  <2> QED BY <2>1, <2>2, <2>3, PinsGrow
<1>6. CASE ~Carried(guest, was)
  <2>1. PICK d \in Replies(g, "day", fresh), n \in Replies(g, "night", fresh) :
          /\ fails' = fails + (IF d.ok THEN 0 ELSE 1) + (IF n.ok THEN 0 ELSE 1)
          /\ cache' = [cache EXCEPT
                ![g] = [day   |-> Remembered(@.day, fresh, d),
                        night |-> Remembered(@.night, fresh, n)]]
          /\ \E row \in (IF d.offers \cup n.offers = {} /\ ~d.ok
                         THEN {Unseen(was)}
                         ELSE Plans(guest, was, d.offers \cup n.offers)) :
               builds' = [builds EXCEPT ![b].rows[g] = row, ![b].todo = @ \ {g}]
    BY <1>6 DEF BuildPlan
  <2>2. PICK row \in (IF d.offers \cup n.offers = {} /\ ~d.ok
                      THEN {Unseen(was)}
                      ELSE Plans(guest, was, d.offers \cup n.offers)) :
          builds' = [builds EXCEPT ![b].rows[g] = row, ![b].todo = @ \ {g}]
    BY <2>1
  <2>3. d.offers \cup n.offers \subseteq Offers
    <3>1. cache[g].day.offers \subseteq Offers /\ cache[g].night.offers \subseteq Offers
      BY DEF RowsInv, Entry
    <3> QED BY <1>1, <3>1 DEF Replies
  <2>4. row \in GoodRow
    BY <1>1, <2>2, <2>3, UnseenGood, PlansGood
  <2>5. d.ok \in BOOLEAN /\ n.ok \in BOOLEAN
    <3>1. ASSUME NEW p, NEW r \in Replies(g, p, fresh) PROVE r.ok = TRUE \/ r.ok = FALSE
      <4>1. CASE ~fresh /\ cache[g][p].hit
        BY <4>1 DEF Replies
      <4>2. CASE ~(~fresh /\ cache[g][p].hit)
        <5>1. r = [ok |-> TRUE, offers |-> live[g] \cap Sold(p)] \/ r = [ok |-> FALSE, offers |-> {}]
          BY <4>2 DEF Replies
        <5> QED BY <5>1
      <4> QED BY <4>1, <4>2
    <3> QED BY <3>1
  <2>6. Calm' => d.ok /\ n.ok
    BY <1>1, <2>1, <2>5 DEF Calm
  <2>7. ASSUME Calm'
        PROVE  /\ d.offers = live[g] \cap Sold("day")
               /\ n.offers = live[g] \cap Sold("night")
               /\ d.offers \cup n.offers = live[g] /\ live' = live /\ d.ok /\ n.ok
    BY <1>2, <2>6, <2>7, RepliesTrue
  <2>8. ASSUME Calm' PROVE CacheTrue'
    <3>1. CacheTrue
      BY <1>2, <2>8 DEF PinInv
    <3>2. ASSUME NEW h \in Guests, NEW p \in Passes, cache'[h][p].hit
          PROVE  cache'[h][p].offers = live'[h] \cap Sold(p)
      <4>1. CASE h # g
        BY <1>2, <2>1, <2>8, <3>1, <3>2, <4>1 DEF CacheTrue, RowsInv
      <4>2. CASE h = g
        <5>1. cache'[g] = [day   |-> Remembered(cache[g].day, fresh, d),
                           night |-> Remembered(cache[g].night, fresh, n)]
          BY <2>1 DEF RowsInv
        <5>2. CASE p = "day"
          <6>1. cache'[h][p] = Remembered(cache[g]["day"], fresh, d)
            BY <4>2, <5>1, <5>2
          <6> QED BY <2>7, <2>8, <3>1, <3>2, <4>2, <5>2, <6>1 DEF Remembered, CacheTrue, Passes
        <5>3. CASE p = "night"
          <6>1. cache'[h][p] = Remembered(cache[g]["night"], fresh, n)
            BY <4>2, <5>1, <5>3
          <6> QED BY <2>7, <2>8, <3>1, <3>2, <4>2, <5>3, <6>1 DEF Remembered, CacheTrue, Passes
        <5> QED BY <5>2, <5>3 DEF Passes
      <4> QED BY <4>1, <4>2
    <3> QED BY <3>2 DEF CacheTrue
  <2>9. CASE Calm'
    <3>1. row \in Plans(guest, was, live[g]) /\ OnSale'[g] = InWindow(live[g])
      BY <1>4, <2>2, <2>7, <2>9
    <3>2. Options(row) \subseteq OnSale'[g]
      BY <1>1, <3>1, PlansKnown
    <3>3. guest.pin # NoKey => \E o \in InWindow(live[g]) : KeyOf[o] = guest.pin
      BY <1>3, <3>1 DEF GuestsKnown
    <3>4. guest.pin # NoKey => row.pinned
      BY <1>1, <3>1, <3>3, PlansKnown
    <3> QED BY <2>2, <2>4, <2>8, <3>2, <3>4
  <2>10. CASE ~Calm'
    <3>1. Options(row) \subseteq OnSale'[g]
      BY <1>4, <2>4, <2>10, OptionsOffered
    <3> QED BY <2>2, <2>4, <2>10, <3>1
  <2> QED BY <2>9, <2>10
<1> QED BY <1>5, <1>6

\* A rebuild that starts knows nothing; the others know what they knew.
LEMMA SpawnPins ==
  ASSUME RowsInv, PinInv, [Next]_vars, NEW fresh, Spawn(fresh)
  PROVE  \A b \in Builds : BuildKnown(builds'[b], guests', OnSale', Calm')
<1>1. PICK w \in Workers : builds' = [builds EXCEPT ![w] = Starting(fresh)]
  BY DEF Spawn
<1>2. \A b \in Builds : builds'[b] = builds[b] \/ builds'[b] = Starting(fresh)
  BY <1>1 DEF RowsInv, Builds
<1> QED BY <1>2, PinsGrow, NothingKnown

\* Every step of a rebuild keeps pins known; the last one drops none when calm.
LEMMA RebuildPins ==
  ASSUME RowsInv, RowsInv', PinInv, Next, NEW b \in Builds, Rebuild(b)
  PROVE  /\ PinInv'
         /\ Calm' => \A g \in Guests : guests[g].pin # NoKey => guests'[g].pin # NoKey
<1>0. /\ builds \in [Builds -> GoodBuild] /\ builds[b] \in GoodBuild
      /\ builds[b] \in Build /\ guests \in [Guests -> Guest]
  BY DEF RowsInv, GoodBuild
<1>1. /\ RowsKnown(board.rows, guests', OnSale')
      /\ GuestsKnown(guests, guests', OnSale')
      /\ \A w \in Builds : BuildKnown(builds[w], guests', OnSale', Calm')
      /\ \A c \in Clients : ReqKnown(reqs[c], guests', OnSale')
      /\ UNCHANGED cache => (Calm' => CacheTrue')
  BY PinsGrow
<1>2. BuildKnown(builds[b], guests', OnSale', Calm')
  BY <1>1
<1>3. CASE BuildSnapshot(b)
  <2>1. /\ builds'[b].prior = builds[b].prior /\ builds'[b].rows = builds[b].rows
        /\ builds'[b].ev = guests /\ builds'[b].pc = "prior"
        /\ builds'[b].todo = builds[b].todo /\ builds[b].pc = "start"
        /\ \A w \in Builds \ {b} : builds'[w] = builds[w]
    BY <1>0, <1>3 DEF BuildSnapshot, Build
  <2>2. BuildKnown(builds'[b], guests', OnSale', Calm')
    BY <1>1, <1>2, <2>1 DEF BuildKnown, PinsHeld
  <2> QED BY <1>1, <1>3, <2>1, <2>2 DEF BuildSnapshot, PinInv
<1>4. CASE BuildPrior(b)
  <2>1. /\ builds'[b].prior = board /\ builds'[b].rows = builds[b].rows
        /\ builds'[b].ev = builds[b].ev /\ builds'[b].pc = "plan"
        /\ builds'[b].todo = {g \in Guests : builds[b].ev[g].in}
        /\ \A w \in Builds \ {b} : builds'[w] = builds[w]
    BY <1>0, <1>4 DEF BuildPrior, Build
  <2>2. BuildKnown(builds'[b], guests', OnSale', Calm')
    BY <1>1, <1>2, <2>1 DEF BuildKnown, PinsHeld
  <2> QED BY <1>1, <1>4, <2>1, <2>2 DEF BuildPrior, PinInv
<1>5. ASSUME NEW g \in Guests, BuildPlan(b, g)
      PROVE  PinInv' /\ guests' = guests
  <2>1. /\ builds[b].pc = "plan" /\ g \in builds[b].todo /\ guests' = guests
        /\ board' = board /\ reqs' = reqs
    BY <1>5 DEF BuildPlan
  <2>2. Calm' => CacheTrue'
    BY <1>5, PlanPins
  <2>3. PICK row \in GoodRow :
          /\ builds' = [builds EXCEPT ![b].rows[g] = row, ![b].todo = @ \ {g}]
          /\ Options(row) \subseteq OnSale'[g]
          /\ /\ Calm' /\ builds[b].ev[g].in /\ builds[b].ev[g].pin # NoKey
             /\ ~builds[b].ev[g].purchased
             => row.pinned
    BY <1>5, PlanPins
  <2>4. /\ builds'[b].prior = builds[b].prior /\ builds'[b].ev = builds[b].ev
        /\ builds'[b].rows = [builds[b].rows EXCEPT ![g] = row]
        /\ builds'[b].todo = builds[b].todo \ {g} /\ builds'[b].pc = builds[b].pc
        /\ builds[b].rows \in [Guests -> GoodRow]
        /\ \A w \in Builds \ {b} : builds'[w] = builds[w]
    BY <1>0, <2>3 DEF Build, GoodBuild
  <2>5. guests'[g].in
    BY <1>2, <2>1 DEF BuildKnown, GuestsKnown
  <2>6. RowsKnown(builds'[b].rows, guests', OnSale')
    <3>1. RowsKnown(builds[b].rows, guests', OnSale')
      BY <1>2 DEF BuildKnown
    <3> SUFFICES ASSUME NEW h \in Guests
                 PROVE  /\ builds'[b].rows[h] # Blank("absent") => guests'[h].in
                        /\ Options(builds'[b].rows[h]) \subseteq OnSale'[h]
      BY DEF RowsKnown
    <3>2. CASE h = g
      <4>1. builds'[b].rows[h] = row
        BY <2>4, <3>2
      <4> QED BY <2>3, <2>5, <3>2, <4>1
    <3>3. CASE h # g
      <4>1. builds'[b].rows[h] = builds[b].rows[h]
        BY <2>4, <3>3
      <4> QED BY <3>1, <4>1 DEF RowsKnown
    <3> QED BY <3>2, <3>3
  <2>7. Calm' => PinsHeld(builds'[b])
    <3> SUFFICES ASSUME Calm', NEW h \in Guests,
                        builds[b].ev[h].in, h \notin builds'[b].todo,
                        builds[b].ev[h].pin # NoKey, ~builds[b].ev[h].purchased
                 PROVE  builds'[b].rows[h].pinned
      BY <2>4 DEF PinsHeld
    <3>1. CASE h = g
      <4>1. builds'[b].rows[h] = row
        BY <2>4, <3>1
      <4> QED BY <2>3, <3>1, <4>1
    <3>2. CASE h # g
      <4>1. builds'[b].rows[h] = builds[b].rows[h] /\ h \notin builds[b].todo
        BY <2>4, <3>2
      <4> QED BY <1>2, <2>1, <4>1 DEF BuildKnown, PinsHeld
    <3> QED BY <3>1, <3>2
  <2>8. BuildKnown(builds'[b], guests', OnSale', Calm')
    BY <1>2, <2>4, <2>6, <2>7 DEF BuildKnown
  <2> QED BY <1>1, <2>1, <2>2, <2>4, <2>8 DEF PinInv
<1>6. CASE BuildPublish(b)
  <2>1. PICK rows \in Waves(builds[b].rows) :
          /\ board' = [rows |-> rows, comps |-> Matches(builds[b].ev, rows)]
          /\ builds' = [builds EXCEPT ![b].pc = "clear", ![b].rows = rows,
                                      ![b].prior = EmptyBoard]
    BY <1>6 DEF BuildPublish
  <2>2. /\ builds'[b].prior = EmptyBoard /\ builds'[b].ev = builds[b].ev
        /\ builds'[b].rows = rows /\ builds'[b].todo = builds[b].todo
        /\ builds[b].todo = {} /\ builds[b].pc = "plan" /\ builds[b].rows \in [Guests -> GoodRow]
        /\ \A w \in Builds \ {b} : builds'[w] = builds[w]
    BY <1>0, <1>6, <2>1 DEF Build, GoodBuild, BuildPublish
  <2>3. /\ RowsKnown(rows, guests', OnSale')
        /\ \A g \in Guests : builds[b].rows[g].pinned => rows[g] = builds[b].rows[g]
    BY <1>2, <2>2, WavesKnown DEF BuildKnown
  <2>4. Calm' => PinsHeld(builds'[b])
    BY <1>2, <2>2, <2>3 DEF BuildKnown, PinsHeld
  <2>5. BuildKnown(builds'[b], guests', OnSale', Calm')
    BY <1>2, <2>2, <2>3, <2>4, NothingKnown DEF BuildKnown
  <2> QED BY <1>1, <1>6, <2>1, <2>2, <2>3, <2>5 DEF BuildPublish, PinInv
<1>7. CASE BuildClear(b)
  <2>1. \A w \in Builds : BuildKnown(builds'[w], guests', OnSale', Calm')
    BY <1>0, <1>1, <1>7, NothingKnown DEF BuildClear
  <2>2. \A g \in Guests : /\ guests'[g].in = guests[g].in
                          /\ guests'[g].pin \in {guests[g].pin, NoKey}
    BY <1>0, <1>7 DEF BuildClear, Guest
  <2>3. GuestsKnown(guests', guests', OnSale')
    BY <1>1, <2>2 DEF GuestsKnown
  <2>4. ASSUME Calm' PROVE guests' = guests
    <3>1. Stale(b) = {}
      BY <1>2, <1>7, <2>4 DEF BuildKnown, PinsHeld, Stale, BuildClear
    <3> QED BY <1>0, <1>7, <3>1 DEF BuildClear
  <2> QED BY <1>1, <1>7, <2>1, <2>3, <2>4 DEF BuildClear, PinInv
<1> QED BY <1>1, <1>3, <1>4, <1>5, <1>6, <1>7 DEF Rebuild, BuildSnapshot, BuildPrior, BuildPublish

\* Setting flags and pins of guests, with keys on sale only, keeps them known.
LEMMA PinSet ==
  ASSUME RowsInv, NEW g \in Guests, NEW f, NEW key, NEW sale,
         GuestsKnown(guests, guests', sale),
         guests[g].in, \E o \in sale[g] : KeyOf[o] = key, sale[g] \subseteq Offers,
         \/ guests' = [guests EXCEPT ![g].pin = key]
         \/ guests' = [guests EXCEPT ![g].purchased = f, ![g].pin = key]
  PROVE  /\ GuestsKnown(guests', guests', sale)
         /\ \A h \in Guests : guests[h].pin # NoKey => guests'[h].pin # NoKey
<1>1. key # NoKey
  BY ConstantsAssumption
<1>2. /\ guests'[g].in = guests[g].in /\ guests'[g].pin = key
      /\ \A h \in Guests \ {g} : guests'[h] = guests[h]
  <2>0. guests \in [Guests -> Guest] /\ guests[g] \in Guest
    BY DEF RowsInv
  <2>1. CASE guests' = [guests EXCEPT ![g].pin = key]
    BY <2>0, <2>1 DEF Guest
  <2>2. CASE guests' = [guests EXCEPT ![g].purchased = f, ![g].pin = key]
    <3>1. /\ guests'[g] = [[guests[g] EXCEPT !.purchased = f] EXCEPT !.pin = key]
          /\ \A h \in Guests \ {g} : guests'[h] = guests[h]
      BY <2>0, <2>2
    <3> QED BY <2>0, <3>1 DEF Guest
  <2> QED BY <2>1, <2>2
<1>3. ASSUME NEW h \in Guests
      PROVE  /\ guests'[h].pin # NoKey =>
                  guests'[h].in /\ \E o \in sale[h] : KeyOf[o] = guests'[h].pin
             /\ guests[h].pin # NoKey => guests'[h].pin # NoKey
  <2>1. CASE h = g
    BY <1>1, <1>2, <2>1
  <2>2. CASE h # g
    BY <1>2, <2>2 DEF GuestsKnown
  <2> QED BY <2>1, <2>2
<1> QED BY <1>3 DEF GuestsKnown

\* Setting another flag of a guest keeps pins as they are.
LEMMA FlagSet ==
  ASSUME RowsInv, NEW g, NEW f, NEW sale, GuestsKnown(guests, guests', sale),
         \/ guests' = guests
         \/ guests' = [guests EXCEPT ![g].purchased = f]
         \/ guests' = [guests EXCEPT ![g].consent = f]
  PROVE  /\ GuestsKnown(guests', guests', sale)
         /\ \A h \in Guests : guests[h].pin # NoKey => guests'[h].pin # NoKey
<1>1. \A h \in Guests : guests'[h].in = guests[h].in /\ guests'[h].pin = guests[h].pin
  BY DEF RowsInv, Guest
<1> QED BY <1>1 DEF GuestsKnown

\* What a request publishes is known, and the pin that it sets is on sale.
LEMMA ServePins ==
  ASSUME RowsInv, RowsInv', PinInv, Next, NEW c \in Clients, Serve(c)
  PROVE  /\ PinInv'
         /\ \A g \in Guests : guests[g].pin # NoKey => guests'[g].pin # NoKey
<1>0. /\ reqs \in [Clients -> GoodReq] /\ reqs[c] \in GoodReq /\ reqs[c].g \in Guests
      /\ \A g \in Guests : OnSale'[g] \subseteq Offers
  BY DEF RowsInv, GoodReq, Req, OnSale, InWindow
<1>1. /\ RowsKnown(board.rows, guests', OnSale')
      /\ GuestsKnown(guests, guests', OnSale')
      /\ \A b \in Builds : BuildKnown(builds[b], guests', OnSale', Calm')
      /\ \A d \in Clients : ReqKnown(reqs[d], guests', OnSale')
      /\ UNCHANGED cache => (Calm' => CacheTrue')
  BY PinsGrow
<1>2. ReqKnown(reqs[c], guests', OnSale') /\ RowsKnown(reqs[c].copy.rows, guests', OnSale')
  BY <1>1 DEF ReqKnown
<1>3. UNCHANGED guests => /\ GuestsKnown(guests', guests', OnSale')
                          /\ \A g \in Guests : guests[g].pin # NoKey => guests'[g].pin # NoKey
  BY <1>1
<1>f. ASSUME Finish(c)
      PROVE  \A d \in Clients : ReqKnown(reqs'[d], guests', OnSale')
  <2>1. \A d \in Clients : reqs'[d] = reqs[d] \/ reqs'[d] = IdleReq
    BY <1>0, <1>f DEF Finish
  <2> QED BY <1>1, <2>1, NothingKnown
<1>g. ASSUME NEW pc, Goto(c, pc)
      PROVE  \A d \in Clients : ReqKnown(reqs'[d], guests', OnSale')
  <2>1. /\ \A d \in Clients \ {c} : reqs'[d] = reqs[d]
        /\ reqs'[c].copy = reqs[c].copy /\ reqs'[c].op = reqs[c].op
        /\ reqs'[c].g = reqs[c].g /\ reqs'[c].key = reqs[c].key
    BY <1>0, <1>g DEF Goto, GoodReq, Req
  <2>2. ReqKnown(reqs'[c], guests', OnSale')
    BY <1>2, <2>1 DEF ReqKnown
  <2> QED BY <1>1, <2>1, <2>2
<1>c. ASSUME NEW pc, NEW rows, reqs[c].op \notin {"choose", "buy"},
             RowsKnown(rows, guests', OnSale'),
             /\ \A d \in Clients \ {c} : reqs'[d] = reqs[d]
             /\ reqs'[c].op = reqs[c].op /\ reqs'[c].copy.rows = rows
      PROVE  \A d \in Clients : ReqKnown(reqs'[d], guests', OnSale')
  <2>1. ReqKnown(reqs'[c], guests', OnSale')
    BY <1>c DEF ReqKnown
  <2> QED BY <1>1, <1>c, <2>1
<1>k. ASSUME reqs[c].op \in {"choose", "buy"}
      PROVE  guests[reqs[c].g].in /\ \E o \in OnSale'[reqs[c].g] : KeyOf[o] = reqs[c].key
  BY <1>2, <1>k DEF ReqKnown, PinInv
<1>4. CASE ChooseEvent(c)
  <2>1. /\ GuestsKnown(guests', guests', OnSale')
        /\ \A g \in Guests : guests[g].pin # NoKey => guests'[g].pin # NoKey
    <3>1. guests' = [guests EXCEPT ![reqs[c].g].pin = reqs[c].key] /\ reqs[c].op = "choose"
      BY <1>4 DEF ChooseEvent, At
    <3> QED BY <1>0, <1>1, <1>k, <3>1, PinSet
  <2> QED BY <1>1, <1>4, <1>g, <2>1 DEF ChooseEvent, PinInv
<1>5. CASE ChooseStore(c)
  BY <1>1, <1>2, <1>3, <1>5, <1>f, SpawnPins DEF ChooseStore, PinInv
<1>6. CASE BuyEvent(c)
  <2>1. /\ GuestsKnown(guests', guests', OnSale')
        /\ \A g \in Guests : guests[g].pin # NoKey => guests'[g].pin # NoKey
    <3>1. /\ guests' = [guests EXCEPT ![reqs[c].g].purchased = TRUE,
                                      ![reqs[c].g].pin = reqs[c].key]
          /\ reqs[c].op = "buy"
      BY <1>6 DEF BuyEvent, At
    <3> QED BY <1>0, <1>1, <1>k, <3>1, PinSet
  <2> QED BY <1>1, <1>6, <1>g, <2>1 DEF BuyEvent, PinInv
<1>7. CASE UnbuyEvent(c) \/ UnbuyFlag(c)
  <2>1. guests' = [guests EXCEPT ![reqs[c].g].purchased = FALSE]
    BY <1>7 DEF UnbuyEvent, UnbuyFlag
  <2>2. /\ GuestsKnown(guests', guests', OnSale')
        /\ \A g \in Guests : guests[g].pin # NoKey => guests'[g].pin # NoKey
    BY <1>1, <2>1, FlagSet
  <2>3. \A b \in Builds : BuildKnown(builds'[b], guests', OnSale', Calm')
    BY <1>1, <1>7, SpawnPins DEF UnbuyEvent, UnbuyFlag
  <2> QED BY <1>1, <1>7, <1>g, <2>2, <2>3 DEF UnbuyEvent, UnbuyFlag, PinInv
<1>8. CASE ConsentRead(c)
  <2>1. /\ \A d \in Clients \ {c} : reqs'[d] = reqs[d]
        /\ reqs'[c].op = reqs[c].op /\ reqs'[c].copy.rows = board.rows
    BY <1>0, <1>8 DEF ConsentRead, GoodReq, Req
  <2>2. \A d \in Clients : ReqKnown(reqs'[d], guests', OnSale')
    BY <1>1, <1>8, <1>c, <2>1 DEF ConsentRead
  <2> QED BY <1>1, <1>3, <1>8, <2>2 DEF ConsentRead, PinInv
<1>9. CASE ConsentMatch(c)
  <2>1. /\ \A d \in Clients \ {c} : reqs'[d] = reqs[d]
        /\ reqs'[c].op = reqs[c].op /\ reqs'[c].copy.rows = reqs[c].copy.rows
    BY <1>0, <1>9 DEF ConsentMatch, GoodReq, Req, Board
  <2>2. \A d \in Clients : ReqKnown(reqs'[d], guests', OnSale')
    BY <1>2, <1>9, <1>c, <2>1 DEF ConsentMatch
  <2> QED BY <1>1, <1>3, <1>9, <2>2 DEF ConsentMatch, PinInv
<1>10. CASE CopyStore(c)
  BY <1>1, <1>2, <1>3, <1>10, <1>f DEF CopyStore, PinInv
<1>11. CASE AddRead(c)
  <2>1. /\ \A d \in Clients \ {c} : reqs'[d] = reqs[d]
        /\ reqs'[c].op = reqs[c].op /\ reqs'[c].copy.rows = Placeholder(guests).rows
    BY <1>0, <1>11 DEF AddRead, GoodReq, Req
  <2>2. guests' = guests /\ RowsKnown(Placeholder(guests).rows, guests', OnSale')
    BY <1>11, NothingKnown DEF AddRead
  <2>3. \A d \in Clients : ReqKnown(reqs'[d], guests', OnSale')
    BY <1>11, <1>c, <2>1, <2>2 DEF AddRead, At
  <2> QED BY <1>1, <1>3, <1>11, <2>3 DEF AddRead, PinInv
<1>12. CASE AddStore(c)
  BY <1>1, <1>2, <1>3, <1>12, <1>f, SpawnPins DEF AddStore, PinInv
<1> QED
  BY <1>4, <1>5, <1>6, <1>7, <1>8, <1>9, <1>10, <1>11, <1>12 DEF Serve

\* A copy of the board with one row replaced by a known one is known.
LEMMA WithRowKnown ==
  ASSUME RowsInv, NEW now, NEW sale, RowsKnown(board.rows, now, sale),
         NEW g \in Guests, NEW row, now[g].in, Options(row) \subseteq sale[g]
  PROVE  RowsKnown(WithRow(g, row).rows, now, sale)
<1>1. WithRow(g, row).rows = [board.rows EXCEPT ![g] = row] /\ board.rows \in [Guests -> GoodRow]
  BY DEF RowsInv, WithRow, GoodBoard
<1>2. ASSUME NEW h \in Guests
      PROVE  /\ WithRow(g, row).rows[h] # Blank("absent") => now[h].in
             /\ Options(WithRow(g, row).rows[h]) \subseteq sale[h]
  <2>1. CASE h = g
    BY <1>1, <2>1
  <2>2. CASE h # g
    <3>1. WithRow(g, row).rows[h] = board.rows[h]
      BY <1>1, <2>2
    <3> QED BY <3>1 DEF RowsKnown
  <2> QED BY <2>1, <2>2
<1> QED BY <1>2 DEF RowsKnown

\* Options and flags apart, changing a row does not change what it shows.
LEMMA SameOptions ==
  ASSUME NEW row \in Row, NEW f
  PROVE  /\ Options([row EXCEPT !.pinned = f]) = Options(row)
         /\ Options([row EXCEPT !.told = f, !.status = "planned"]) = Options(row)
         /\ Options([row EXCEPT !.purchased = f, !.status = "planned"]) = Options(row)
  BY DEF Options, Row

\* A request begins with what the board shows, of guests that it shows.
LEMMA RequestPins ==
  ASSUME RowsInv, RowsInv', PinInv, Next, NEW c \in Clients, Request(c)
  PROVE  /\ PinInv'
         /\ \A g \in Guests : guests[g].pin # NoKey => guests'[g].pin # NoKey
<1>0. /\ reqs \in [Clients -> GoodReq] /\ board.rows \in [Guests -> GoodRow]
      /\ \A g \in Guests : board.rows[g] \in GoodRow /\ board.rows[g] \in Row
      /\ guests \in [Guests -> Guest]
  BY DEF RowsInv, GoodBoard, GoodRow
<1>1. /\ RowsKnown(board.rows, guests', OnSale')
      /\ GuestsKnown(guests, guests', OnSale')
      /\ \A b \in Builds : BuildKnown(builds[b], guests', OnSale', Calm')
      /\ \A d \in Clients : ReqKnown(reqs[d], guests', OnSale')
      /\ UNCHANGED cache => (Calm' => CacheTrue')
  BY PinsGrow
<1>2. \A g \in Guests : /\ board.rows[g] # Blank("absent") => guests'[g].in
                        /\ Options(board.rows[g]) \subseteq OnSale'[g]
  BY <1>1 DEF RowsKnown
<1>3. UNCHANGED guests => /\ GuestsKnown(guests', guests', OnSale')
                          /\ \A g \in Guests : guests[g].pin # NoKey => guests'[g].pin # NoKey
  BY <1>1
<1>b. ASSUME NEW op, NEW pc, NEW g, NEW key, NEW copy, Begin(c, op, pc, g, key, copy),
             RowsKnown(copy.rows, guests', OnSale'),
             op \in {"choose", "buy"} =>
               guests'[g].in /\ \E o \in OnSale'[g] : KeyOf[o] = key
      PROVE  \A d \in Clients : ReqKnown(reqs'[d], guests', OnSale')
  <2> DEFINE r == [op |-> op, pc |-> pc, g |-> g, key |-> key, copy |-> copy]
  <2>1. reqs'[c] = r /\ \A d \in Clients \ {c} : reqs'[d] = reqs[d]
    BY <1>0, <1>b DEF Begin
  <2>2. ReqKnown(r, guests', OnSale')
    BY <1>b DEF ReqKnown
  <2> QED BY <1>1, <2>1, <2>2
<1>4. CASE Recheck(c)
  BY <1>1, <1>3, <1>4, SpawnPins DEF Recheck, PinInv
<1>5. ASSUME NEW g \in Guests, NEW k \in Keys, ChooseRead(c, g, k) PROVE PinInv' /\ guests' = guests
  <2>1. PICK o \in board.rows[g].alts \cup ({board.rows[g].chosen} \ {NoOffer}) :
          /\ KeyOf[o] = k
          /\ Begin(c, "choose", "event", g, k,
                   WithRow(g, [Swap(board.rows[g], o) EXCEPT !.pinned = TRUE]))
    BY <1>5 DEF ChooseRead
  <2>2. o \in Options(board.rows[g])
    BY <2>1 DEF Options
  <2>3. Swap(board.rows[g], o) \in Row
    BY <1>0, <2>1, SwapGood DEF GoodRow
  <2>4. /\ Options([Swap(board.rows[g], o) EXCEPT !.pinned = TRUE]) \subseteq OnSale'[g]
        /\ guests'[g].in /\ o \in OnSale'[g]
    <3> DEFINE taken == Swap(board.rows[g], o)
    <3>1. Options(taken) \subseteq Options(board.rows[g]) /\ board.rows[g] # Blank("absent")
      BY <1>0, <2>2, OptionsOffered
    <3>2. taken \in Row
      BY <2>3
    <3> HIDE DEF taken
    <3>3. Options([taken EXCEPT !.pinned = TRUE]) = Options(taken)
      BY <3>2, SameOptions
    <3>4. Options([taken EXCEPT !.pinned = TRUE]) \subseteq OnSale'[g]
      BY <1>2, <3>1, <3>3
    <3> QED BY <1>2, <2>2, <3>1, <3>4 DEF taken
  <2>5. RowsKnown(WithRow(g, [Swap(board.rows[g], o) EXCEPT !.pinned = TRUE]).rows, guests', OnSale')
    BY <1>1, <2>4, WithRowKnown
  <2>6. \A d \in Clients : ReqKnown(reqs'[d], guests', OnSale')
    BY <1>b, <2>1, <2>4, <2>5
  <2> QED BY <1>1, <1>3, <1>5, <2>6 DEF ChooseRead, PinInv
<1>6. ASSUME NEW g \in Guests, BuyRead(c, g) PROVE PinInv' /\ guests' = guests
  <2>1. /\ board.rows[g].chosen # NoOffer
        /\ Begin(c, "buy", "event", g, KeyOf[board.rows[g].chosen],
                 WithRow(g, Freeze(board.rows[g])))
    BY <1>6 DEF BuyRead
  <2>2. board.rows[g].chosen \in Options(board.rows[g])
    BY <2>1 DEF Options
  <2>3. /\ Options(Freeze(board.rows[g])) \subseteq OnSale'[g]
        /\ guests'[g].in /\ board.rows[g].chosen \in OnSale'[g]
    BY <1>0, <1>2, <2>2, OptionsOffered
  <2>4. RowsKnown(WithRow(g, Freeze(board.rows[g])).rows, guests', OnSale')
    BY <1>1, <2>3, WithRowKnown
  <2>5. \A d \in Clients : ReqKnown(reqs'[d], guests', OnSale')
    BY <1>b, <2>1, <2>3, <2>4
  <2> QED BY <1>1, <1>3, <1>6, <2>5 DEF BuyRead, PinInv
<1>7. ASSUME NEW g \in Guests, UnbuyRead(c, g) PROVE PinInv' /\ guests' = guests
  <2> DEFINE thaw == [board.rows[g] EXCEPT !.purchased = FALSE, !.status = "planned"]
  <2>1. board.rows[g].purchased /\ Begin(c, "unbuy", "event", g, NoKey, WithRow(g, thaw))
    BY <1>7 DEF UnbuyRead
  <2>2. Options(thaw) \subseteq OnSale'[g] /\ guests'[g].in
    BY <1>0, <1>2, <2>1, SameOptions, OptionsOffered
  <2>3. RowsKnown(WithRow(g, thaw).rows, guests', OnSale')
    BY <1>1, <2>2, WithRowKnown
  <2>4. \A d \in Clients : ReqKnown(reqs'[d], guests', OnSale')
    BY <1>b, <2>1, <2>3
  <2> QED BY <1>1, <1>3, <1>7, <2>4 DEF UnbuyRead, PinInv
<1>8. ASSUME NEW g \in Guests, UnbuyNoop(c, g) PROVE PinInv' /\ guests' = guests
  <2>1. \A d \in Clients : ReqKnown(reqs'[d], guests', OnSale')
    BY <1>1, <1>8, <1>b DEF UnbuyNoop
  <2> QED BY <1>1, <1>3, <1>8, <2>1 DEF UnbuyNoop, PinInv
<1>9. ASSUME NEW g \in Guests, NEW op \in {"consent", "revoke"}, ConsentEvent(c, g, op)
      PROVE  /\ PinInv'
             /\ \A h \in Guests : guests[h].pin # NoKey => guests'[h].pin # NoKey
  <2>1. \A d \in Clients : ReqKnown(reqs'[d], guests', OnSale')
    BY <1>1, <1>9, <1>b, NothingKnown DEF ConsentEvent
  <2>2. /\ GuestsKnown(guests', guests', OnSale')
        /\ \A h \in Guests : guests[h].pin # NoKey => guests'[h].pin # NoKey
    BY <1>1, <1>9, FlagSet DEF ConsentEvent
  <2> QED BY <1>1, <1>9, <2>1, <2>2 DEF ConsentEvent, PinInv
<1>10. ASSUME NEW g \in Guests, CollapseRead(c, g) PROVE PinInv' /\ guests' = guests
  <2>1. PICK o \in board.rows[g].alts :
          Begin(c, "collapse", "store", g, NoKey,
                WithRow(g, [Swap(board.rows[g], o) EXCEPT !.told = TRUE, !.status = "planned"]))
    BY <1>10 DEF CollapseRead
  <2>2. o \in Options(board.rows[g])
    BY <2>1 DEF Options
  <2>3. Swap(board.rows[g], o) \in Row
    BY <1>0, <2>1, SwapGood DEF GoodRow
  <2>4. /\ Options([Swap(board.rows[g], o) EXCEPT !.told = TRUE, !.status = "planned"])
             \subseteq OnSale'[g]
        /\ guests'[g].in
    <3> DEFINE taken == Swap(board.rows[g], o)
    <3>1. Options(taken) \subseteq Options(board.rows[g]) /\ board.rows[g] # Blank("absent")
      BY <1>0, <2>2, OptionsOffered
    <3>2. taken \in Row
      BY <2>3
    <3> HIDE DEF taken
    <3>3. Options([taken EXCEPT !.told = TRUE, !.status = "planned"]) = Options(taken)
      BY <3>2, SameOptions
    <3>4. Options([taken EXCEPT !.told = TRUE, !.status = "planned"]) \subseteq OnSale'[g]
      BY <1>2, <3>1, <3>3
    <3> QED BY <1>2, <3>1, <3>4 DEF taken
  <2>5. RowsKnown(WithRow(g, [Swap(board.rows[g], o) EXCEPT !.told = TRUE,
                                 !.status = "planned"]).rows, guests', OnSale')
    BY <1>1, <2>4, WithRowKnown
  <2>6. \A d \in Clients : ReqKnown(reqs'[d], guests', OnSale')
    BY <1>b, <2>1, <2>5
  <2> QED BY <1>1, <1>3, <1>10, <2>6 DEF CollapseRead, PinInv
<1>i. ASSUME NEW g \in Guests, NEW optin \in BOOLEAN,
             guests' = [guests EXCEPT ![g] = IF guests[g].in
                                             THEN [guests[g] EXCEPT !.optin = optin]
                                             ELSE NewGuest(optin)]
      PROVE  /\ GuestsKnown(guests', guests', OnSale')
             /\ \A h \in Guests : guests[h].pin # NoKey => guests'[h].pin # NoKey
  <2>1. \A h \in Guests \ {g} : guests'[h] = guests[h]
    BY <1>0, <1>i
  <2>2. CASE guests[g].in
    <3>1. guests'[g].in = guests[g].in /\ guests'[g].pin = guests[g].pin
      BY <1>0, <1>i, <2>2 DEF Guest
    <3>2. \A h \in Guests : guests'[h].in = guests[h].in /\ guests'[h].pin = guests[h].pin
      BY <2>1, <3>1
    <3> QED BY <1>1, <3>2 DEF GuestsKnown
  <2>3. CASE ~guests[g].in
    <3>1. guests'[g].pin = NoKey /\ guests[g].pin = NoKey
      BY <1>0, <1>1, <1>i, <2>3 DEF NewGuest, Nobody, GuestsKnown
    <3> QED BY <1>1, <2>1, <3>1 DEF GuestsKnown
  <2> QED BY <2>2, <2>3
<1>11. ASSUME NEW g \in Guests, AddEvent(c, g)
       PROVE  /\ PinInv'
              /\ \A h \in Guests : guests[h].pin # NoKey => guests'[h].pin # NoKey
  <2>1. \A d \in Clients : ReqKnown(reqs'[d], guests', OnSale')
    BY <1>1, <1>11, <1>b, NothingKnown DEF AddEvent
  <2>2. /\ GuestsKnown(guests', guests', OnSale')
        /\ \A h \in Guests : guests[h].pin # NoKey => guests'[h].pin # NoKey
    BY <1>11, <1>i DEF AddEvent
  <2> QED BY <1>1, <1>11, <2>1, <2>2 DEF AddEvent, PinInv
<1>12. ASSUME NEW g \in Guests, NEW optin \in BOOLEAN, Join(c, g, optin)
       PROVE  /\ PinInv'
              /\ \A h \in Guests : guests[h].pin # NoKey => guests'[h].pin # NoKey
  <2>1. /\ GuestsKnown(guests', guests', OnSale')
        /\ \A h \in Guests : guests[h].pin # NoKey => guests'[h].pin # NoKey
    BY <1>12, <1>i DEF Join
  <2>2. \A b \in Builds : BuildKnown(builds'[b], guests', OnSale', Calm')
    BY <1>12, SpawnPins DEF Join
  <2> QED BY <1>1, <1>12, <2>1, <2>2 DEF Join, PinInv
<1> QED
  BY <1>3, <1>4, <1>5, <1>6, <1>7, <1>8, <1>9, <1>10, <1>11, <1>12 DEF Request, Recheck

\* No ticket has been searched for or chosen when the event has been created.
LEMMA InitPins == Init => RowsInv /\ PinInv
<1> SUFFICES ASSUME Init PROVE PinInv
  BY InitGood
<1>1. \A g \in Guests : guests[g].pin = NoKey
  <2>1. Nobody.pin = NoKey /\ \A optin : NewGuest(optin).pin = NoKey
    BY DEF NewGuest, Nobody
  <2>2. PICK optin \in [Guests -> BOOLEAN] :
          guests = [g \in Guests |-> IF g \in Invited THEN NewGuest(optin[g]) ELSE Nobody]
    BY DEF Init
  <2> QED BY <2>1, <2>2
<1>2. GuestsKnown(guests, guests, OnSale)
  BY <1>1 DEF GuestsKnown
<1>3. RowsKnown(board.rows, guests, OnSale)
  BY NothingKnown DEF Init
<1>4. \A b \in Builds : BuildKnown(builds[b], guests, OnSale, Calm)
  <2>1. \A b \in Builds : builds[b] = IdleBuild \/ builds[b] = Starting(FALSE)
    BY DEF Init
  <2> QED BY <2>1, NothingKnown
<1>5. \A c \in Clients : ReqKnown(reqs[c], guests, OnSale)
  BY NothingKnown DEF Init
<1>6. CacheTrue
  BY DEF Init, CacheTrue, NoEntry, Passes
<1> QED BY <1>2, <1>3, <1>4, <1>5, <1>6 DEF PinInv

\* Every step keeps pins known, and drops none while it is calm.
LEMMA StepPins ==
  ASSUME RowsInv, RowsInv', PinInv, [Next]_vars
  PROVE  /\ PinInv'
         /\ Calm' => \A g \in Guests : guests[g].pin # NoKey => guests'[g].pin # NoKey
<1>1. /\ RowsKnown(board.rows, guests', OnSale')
      /\ GuestsKnown(guests, guests', OnSale')
      /\ \A b \in Builds : BuildKnown(builds[b], guests', OnSale', Calm')
      /\ \A d \in Clients : ReqKnown(reqs[d], guests', OnSale')
      /\ UNCHANGED cache => (Calm' => CacheTrue')
  BY PinsGrow
<1>2. CASE Tick
  <2>1. \A b \in Builds : builds'[b] = builds[b] \/ builds'[b] = Starting(TRUE)
    BY <1>2 DEF Tick, RowsInv
  <2>2. \A b \in Builds : BuildKnown(builds'[b], guests', OnSale', Calm')
    BY <1>1, <2>1, NothingKnown
  <2> QED BY <1>1, <1>2, <2>2 DEF Tick, PinInv
<1>3. CASE Environment
  <2>1. /\ UNCHANGED <<guests, board, builds, reqs>>
        /\ \/ UNCHANGED cache
           \/ \E g \in Guests, p \in Passes : cache' = [cache EXCEPT ![g][p] = NoEntry]
    BY <1>3 DEF Environment, SellOut, PutOnSale, Expire
  <2>2. ASSUME Calm', NEW g \in Guests, NEW p \in Passes,
               cache' = [cache EXCEPT ![g][p] = NoEntry]
        PROVE  CacheTrue'
    <3>1. CacheTrue /\ live' = live
      BY <2>2, StepGrows DEF PinInv
    <3>2. \A h \in Guests, q \in Passes : cache'[h][q] = cache[h][q] \/ ~cache'[h][q].hit
      BY <2>2 DEF RowsInv, Passes, NoEntry
    <3> QED BY <3>1, <3>2 DEF CacheTrue
  <2> QED BY <1>1, <2>1, <2>2 DEF PinInv
<1>4. CASE UNCHANGED vars
  BY <1>1, <1>4 DEF vars, PinInv
<1> QED BY <1>2, <1>3, <1>4, RebuildPins, ServePins, RequestPins DEF Next

\* However requests, rebuilds and the ticker cross, and wherever the wave moves
\* the others, no rebuild drops a pin while nothing was sold out, put on sale or
\* failed to answer (BuildAndStore, handleGuestChoose, handleGuestPurchased).
THEOREM PinsAreKept == Spec => PinKeptWhenCalm
<1> DEFINE Keeps == moves' = 0 /\ fails' = 0 =>
                      \A g \in Guests : guests[g].pin # NoKey => guests'[g].pin # NoKey
<1>1. RowsInv /\ RowsInv' /\ PinInv /\ [Next]_vars => PinInv' /\ [Keeps]_vars
  BY StepPins DEF Calm
<1>2. Spec => []PinInv
  BY InitPins, <1>1, RowsInvariant, PTL DEF Spec
<1> QED BY <1>1, <1>2, RowsInvariant, PTL DEF Spec, PinKeptWhenCalm

-----------------------------------------------------------------------------
(* While nothing is sold out, put on sale or fails to answer, a guest who has *)
(* one way to be in time is told of no route that died: see OnlyWayStands.    *)

OneWay(F) == \A a, b \in F : a = b

\* What each guest may take and be in time.
Ways == [g \in Guests |-> InWindow(live[g])]

\* The row of a guest whose one way, if any, is in F: it has no alternative.
UntoldRow(row, F) == OneWay(F) => /\ ~row.told /\ row.alts = {}
                                  /\ row.chosen # NoOffer => row.chosen \in F

Untold(rows, ways) == \A g \in Guests : UntoldRow(rows[g], ways[g])

\* A pin, or the key that a request is about to pin, is that of the one way.
PinOfWay(k, F) == OneWay(F) /\ k # NoKey => \E o \in F : KeyOf[o] = k

PinsOfWays(ev, ways) == \A g \in Guests : PinOfWay(ev[g].pin, ways[g])

BuildSteady(r, ways) == /\ Untold(r.prior.rows, ways) /\ Untold(r.rows, ways)
                        /\ PinsOfWays(r.ev, ways)

ReqSteady(r, ways) == Untold(r.copy.rows, ways) /\ PinOfWay(r.key, ways[r.g])

Steady ==
  /\ Untold(board.rows, Ways)
  /\ PinsOfWays(guests, Ways)
  /\ \A b \in Builds : BuildSteady(builds[b], Ways)
  /\ \A c \in Clients : ReqSteady(reqs[c], Ways)

\* The inductive form of OnlyWayStands.
SteadyInv == Calm => Steady

\* PlanGuest finds the one way again, with and without a pin.
LEMMA PlansAgain ==
  ASSUME NEW F, NEW found, F = InWindow(found), NEW guest, NEW was,
         PinOfWay(guest.pin, F), UntoldRow(was, F),
         NEW row \in Plans(guest, was, found)
  PROVE  UntoldRow(row, F)
<1> SUFFICES ASSUME OneWay(F)
             PROVE  /\ ~row.told /\ row.alts = {}
                    /\ row.chosen # NoOffer => row.chosen \in F
  BY DEF UntoldRow
<1> DEFINE held == {o \in F : KeyOf[o] = guest.pin}
           lost == guest.pin # NoKey /\ held = {}
           pick == IF held # {} THEN held ELSE Best(F)
<1>1. was.chosen # NoOffer => was.chosen \in F
  BY DEF UntoldRow
<1>2. CASE F = {}
  <2>1. was.chosen = NoOffer
    BY <1>1, <1>2
  <2>2. row = [Blank("needs_help") EXCEPT !.told = (was.chosen # NoOffer)]
    BY <1>2 DEF Plans
  <2> QED BY <2>1, <2>2 DEF Blank
<1>3. CASE F # {}
  <2>1. PICK c \in pick : \E A \in Alternatives(F, c) :
          row = Assembled(guest, was, c, A, lost)
    BY <1>3 DEF Plans
  <2>2. PICK A \in Alternatives(F, c) : row = Assembled(guest, was, c, A, lost)
    BY <2>1
  <2>3. /\ row.chosen = c /\ row.alts = A
        /\ row.told = (lost \/ (was.chosen # NoOffer /\ was.chosen # c))
    BY <2>2 DEF Assembled
  <2>4. c \in F /\ \A o \in F : o = c
    BY <2>1 DEF Best, OneWay
  <2>5. A = {}
    BY <2>2, <2>4 DEF Alternatives
  <2>6. ~lost
    BY DEF PinOfWay
  <2> QED BY <1>1, <2>3, <2>4, <2>5, <2>6
<1> QED BY <1>2, <1>3

\* The wave has nothing onto which it could move a row without alternatives.
LEMMA WaveUntold ==
  ASSUME NEW ways, NEW rows, Untold(rows, ways), NEW new \in Waves(rows)
  PROVE  Untold(new, ways)
<1> SUFFICES ASSUME NEW g \in Guests, OneWay(ways[g]) PROVE new[g] = rows[g]
  BY DEF Untold, UntoldRow
<1>1. Later(rows[g]) = {}
  BY DEF Untold, UntoldRow, Later
<1>2. Moved(rows[g]) = {rows[g]}
  BY <1>1 DEF Moved
<1> QED BY <1>2 DEF Waves

\* Nobody, blank rows and idle slots tell nothing.
LEMMA NothingTold ==
  ASSUME NEW ways
  PROVE  /\ Untold(EmptyBoard.rows, ways)
         /\ BuildSteady(IdleBuild, ways)
         /\ \A f : BuildSteady(Starting(f), ways)
         /\ ReqSteady(IdleReq, ways)
         /\ \A ev : Untold(Placeholder(ev).rows, ways)
<1>0. \A status, F : UntoldRow(Blank(status), F)
  BY DEF UntoldRow, Blank
<1>1. Untold(EmptyBoard.rows, ways)
  BY <1>0 DEF Untold, EmptyBoard
<1>2. PinsOfWays(IdleBuild.ev, ways)
  BY DEF PinsOfWays, PinOfWay, IdleBuild, Nobody
<1>3. IdleBuild.prior = EmptyBoard /\ IdleBuild.rows = EmptyBoard.rows
  BY DEF IdleBuild
<1>4. \A f : /\ Starting(f).prior = EmptyBoard /\ Starting(f).rows = EmptyBoard.rows
             /\ Starting(f).ev = IdleBuild.ev
  BY DEF IdleBuild, Starting
<1>5. IdleReq.copy = EmptyBoard /\ IdleReq.key = NoKey
  BY DEF IdleReq
<1>6. \A ev : Untold(Placeholder(ev).rows, ways)
  BY <1>0 DEF Untold, Placeholder
<1> QED BY <1>1, <1>2, <1>3, <1>4, <1>5, <1>6 DEF BuildSteady, ReqSteady, PinOfWay

\* Calm before and after: nothing was on sale that is not, and nothing else is.
LEMMA StaysSteady ==
  ASSUME RowsInv, SteadyInv, [Next]_vars, Calm'
  PROVE  /\ Calm /\ live' = live /\ Ways' = Ways
         /\ Steady
<1>1. Calm /\ live' = live
  BY StepGrows
<1> QED BY <1>1 DEF Ways, SteadyInv

\* A rebuild that starts tells nothing; the others tell what they told.
LEMMA SpawnSteady ==
  ASSUME RowsInv, Steady, NEW fresh, Spawn(fresh)
  PROVE  \A b \in Builds : BuildSteady(builds'[b], Ways)
<1>1. PICK w \in Workers : builds' = [builds EXCEPT ![w] = Starting(fresh)]
  BY DEF Spawn
<1>2. \A b \in Builds : builds'[b] = builds[b] \/ builds'[b] = Starting(fresh)
  BY <1>1 DEF RowsInv, Builds
<1> QED BY <1>2, NothingTold DEF Steady

\* A rebuild plans for each guest what it planned for them before.
LEMMA RebuildSteady ==
  ASSUME RowsInv, PinInv, SteadyInv, Next, Calm',
         NEW b \in Builds, Rebuild(b)
  PROVE  Steady'
<1>0. /\ builds \in [Builds -> GoodBuild] /\ builds[b] \in Build
      /\ guests \in [Guests -> Guest] /\ fails \in Nat
      /\ \A g \in Guests : /\ builds[b].ev[g] \in Guest /\ builds[b].prior.rows[g] \in GoodRow
      /\ builds[b].rows \in [Guests -> GoodRow]
  BY DEF RowsInv, GoodBuild, Build, GoodBoard
<1>1. /\ Calm /\ live' = live /\ Ways' = Ways
      /\ Steady
  BY StaysSteady
<1> DEFINE ways == Ways
<1>2. /\ BuildSteady(builds[b], ways) /\ Untold(board.rows, ways) /\ PinsOfWays(guests, ways)
      /\ \A w \in Builds : BuildSteady(builds[w], ways)
      /\ \A c \in Clients : ReqSteady(reqs[c], ways)
  BY <1>1 DEF Steady
<1> HIDE DEF ways
<1>r. ASSUME BuildSteady(builds'[b], ways), \A w \in Builds \ {b} : builds'[w] = builds[w],
             reqs' = reqs, Untold(board'.rows, ways), PinsOfWays(guests', ways)
      PROVE  Steady'
  BY <1>1, <1>2, <1>r DEF Steady, ways
<1>3. CASE BuildSnapshot(b)
  <2>1. /\ builds'[b].prior = builds[b].prior /\ builds'[b].rows = builds[b].rows
        /\ builds'[b].ev = guests
        /\ \A w \in Builds \ {b} : builds'[w] = builds[w]
    BY <1>0, <1>3 DEF BuildSnapshot, Build
  <2>2. BuildSteady(builds'[b], ways)
    BY <1>2, <2>1 DEF BuildSteady
  <2> QED BY <1>2, <1>3, <1>r, <2>1, <2>2 DEF BuildSnapshot
<1>4. CASE BuildPrior(b)
  <2>1. /\ builds'[b].prior = board /\ builds'[b].rows = builds[b].rows
        /\ builds'[b].ev = builds[b].ev
        /\ \A w \in Builds \ {b} : builds'[w] = builds[w]
    BY <1>0, <1>4 DEF BuildPrior, Build
  <2>2. BuildSteady(builds'[b], ways)
    BY <1>2, <2>1 DEF BuildSteady
  <2> QED BY <1>2, <1>4, <1>r, <2>1, <2>2 DEF BuildPrior
<1>5. ASSUME NEW g \in Guests, BuildPlan(b, g) PROVE Steady'
  <2> DEFINE guest == builds[b].ev[g]
             was   == builds[b].prior.rows[g]
             fresh == builds[b].fresh
  <2>1. UntoldRow(was, ways[g]) /\ PinOfWay(guest.pin, ways[g])
    BY <1>2 DEF BuildSteady, Untold, PinsOfWays
  <2>2. \E row : /\ builds' = [builds EXCEPT ![b].rows[g] = row, ![b].todo = @ \ {g}]
                 /\ UntoldRow(row, ways[g])
    <3>1. CASE Carried(guest, was)
      <4>1. builds' = [builds EXCEPT ![b].rows[g] = Freeze(was), ![b].todo = @ \ {g}]
        BY <1>5, <3>1 DEF BuildPlan
      <4>2. /\ Freeze(was).told = was.told /\ Freeze(was).chosen = was.chosen
            /\ Freeze(was).alts = was.alts
        BY <1>0 DEF Freeze, GoodRow, Row
      <4> QED BY <2>1, <4>1, <4>2 DEF UntoldRow
    <3>2. CASE ~Carried(guest, was)
      <4>1. PICK d \in Replies(g, "day", fresh), n \in Replies(g, "night", fresh) :
              /\ fails' = fails + (IF d.ok THEN 0 ELSE 1) + (IF n.ok THEN 0 ELSE 1)
              /\ \E row \in (IF d.offers \cup n.offers = {} /\ ~d.ok
                             THEN {Unseen(was)}
                             ELSE Plans(guest, was, d.offers \cup n.offers)) :
                   builds' = [builds EXCEPT ![b].rows[g] = row, ![b].todo = @ \ {g}]
        BY <1>5, <3>2 DEF BuildPlan
      <4>2. d.ok /\ n.ok
        <5>1. fails' = 0 /\ fails = 0
          BY <1>1 DEF Calm
        <5> QED BY <4>1, <5>1
      <4>3. d.offers \cup n.offers = live[g]
        BY <1>1, <4>2, RepliesTrue
      <4>4. PICK row \in Plans(guest, was, live[g]) :
              builds' = [builds EXCEPT ![b].rows[g] = row, ![b].todo = @ \ {g}]
        BY <4>1, <4>2, <4>3
      <4>5. UntoldRow(row, ways[g])
        <5>1. ways[g] = InWindow(live[g])
          BY DEF ways, Ways
        <5> QED BY <2>1, <4>4, <5>1, PlansAgain
      <4> QED BY <4>4, <4>5
    <3> QED BY <3>1, <3>2
  <2>3. PICK row : /\ builds' = [builds EXCEPT ![b].rows[g] = row, ![b].todo = @ \ {g}]
                   /\ UntoldRow(row, ways[g])
    BY <2>2
  <2>4. /\ builds'[b].prior = builds[b].prior /\ builds'[b].ev = builds[b].ev
        /\ builds'[b].rows = [builds[b].rows EXCEPT ![g] = row]
        /\ \A w \in Builds \ {b} : builds'[w] = builds[w]
    BY <1>0, <2>3 DEF Build
  <2>5. Untold(builds'[b].rows, ways)
    <3> SUFFICES ASSUME NEW h \in Guests PROVE UntoldRow(builds'[b].rows[h], ways[h])
      BY DEF Untold
    <3>1. CASE h = g
      <4>1. builds'[b].rows[h] = row
        BY <1>0, <2>4, <3>1
      <4> QED BY <2>3, <3>1, <4>1
    <3>2. CASE h # g
      <4>1. builds'[b].rows[h] = builds[b].rows[h]
        BY <1>0, <2>4, <3>2
      <4> QED BY <1>2, <4>1 DEF BuildSteady, Untold
    <3> QED BY <3>1, <3>2
  <2>6. BuildSteady(builds'[b], ways)
    BY <1>2, <2>4, <2>5 DEF BuildSteady
  <2> QED BY <1>2, <1>5, <1>r, <2>4, <2>6 DEF BuildPlan
<1>6. CASE BuildPublish(b)
  <2>1. PICK rows \in Waves(builds[b].rows) :
          /\ board' = [rows |-> rows, comps |-> Matches(builds[b].ev, rows)]
          /\ builds' = [builds EXCEPT ![b].pc = "clear", ![b].rows = rows,
                                      ![b].prior = EmptyBoard]
    BY <1>6 DEF BuildPublish
  <2>2. Untold(rows, ways)
    BY <1>2, <2>1, WaveUntold DEF BuildSteady
  <2>3. /\ builds'[b].prior = EmptyBoard /\ builds'[b].ev = builds[b].ev
        /\ builds'[b].rows = rows /\ board'.rows = rows
        /\ \A w \in Builds \ {b} : builds'[w] = builds[w]
    BY <1>0, <2>1 DEF Build
  <2>4. BuildSteady(builds'[b], ways) /\ Untold(board'.rows, ways)
    BY <1>2, <2>2, <2>3, NothingTold DEF BuildSteady
  <2> QED BY <1>2, <1>6, <1>r, <2>3, <2>4 DEF BuildPublish
<1>7. CASE BuildClear(b)
  <2>1. builds'[b] = IdleBuild /\ \A w \in Builds \ {b} : builds'[w] = builds[w]
    BY <1>0, <1>7 DEF BuildClear
  <2>2. PinsOfWays(guests', ways)
    <3>1. \A g \in Guests : guests'[g].pin \in {guests[g].pin, NoKey}
      BY <1>0, <1>7 DEF BuildClear, Guest
    <3> QED BY <1>2, <3>1 DEF PinsOfWays, PinOfWay
  <2> QED BY <1>2, <1>7, <1>r, <2>1, <2>2, NothingTold DEF BuildClear
<1> QED BY <1>3, <1>4, <1>5, <1>6, <1>7 DEF Rebuild

\* What a request publishes tells nothing, and it buys what was planned.
LEMMA ServeSteady ==
  ASSUME RowsInv, SteadyInv, Next, Calm', NEW c \in Clients, Serve(c)
  PROVE  Steady'
<1>0. /\ reqs \in [Clients -> GoodReq] /\ reqs[c] \in GoodReq /\ reqs[c].g \in Guests
      /\ reqs[c].copy.rows \in [Guests -> GoodRow] /\ guests \in [Guests -> Guest]
      /\ reqs[c] \in Req /\ reqs[c].copy \in Board
  BY DEF RowsInv, GoodReq, Req, GoodBoard
<1>1. /\ Calm /\ live' = live /\ Ways' = Ways
      /\ Steady
  BY StaysSteady
<1> DEFINE ways == Ways
<1>2. /\ Untold(board.rows, ways) /\ PinsOfWays(guests, ways)
      /\ \A w \in Builds : BuildSteady(builds[w], ways)
      /\ \A d \in Clients : ReqSteady(reqs[d], ways)
  BY <1>1 DEF Steady
<1>s. \A fresh : Spawn(fresh) => \A w \in Builds : BuildSteady(builds'[w], ways)
  BY <1>1, SpawnSteady
<1> HIDE DEF ways
<1>3. Untold(reqs[c].copy.rows, ways) /\ PinOfWay(reqs[c].key, ways[reqs[c].g])
  BY <1>2 DEF ReqSteady
<1>r. ASSUME \A d \in Clients : ReqSteady(reqs'[d], ways),
             \A w \in Builds : BuildSteady(builds'[w], ways),
             Untold(board'.rows, ways), PinsOfWays(guests', ways)
      PROVE  Steady'
  BY <1>1, <1>r DEF Steady, ways
<1>f. ASSUME Finish(c) PROVE \A d \in Clients : ReqSteady(reqs'[d], ways)
  <2>1. \A d \in Clients : reqs'[d] = reqs[d] \/ reqs'[d] = IdleReq
    BY <1>0, <1>f DEF Finish
  <2> QED BY <1>2, <2>1, NothingTold
<1>g. ASSUME NEW pc, Goto(c, pc) PROVE \A d \in Clients : ReqSteady(reqs'[d], ways)
  <2>1. /\ \A d \in Clients \ {c} : reqs'[d] = reqs[d]
        /\ reqs'[c].copy = reqs[c].copy /\ reqs'[c].op = reqs[c].op
        /\ reqs'[c].g = reqs[c].g /\ reqs'[c].key = reqs[c].key
    BY <1>0, <1>g DEF Goto, Req
  <2>2. ReqSteady(reqs'[c], ways)
    BY <1>2, <2>1 DEF ReqSteady
  <2> QED BY <1>2, <2>1, <2>2
<1>c. ASSUME NEW rows, Untold(rows, ways),
             /\ \A d \in Clients \ {c} : reqs'[d] = reqs[d]
             /\ reqs'[c].g = reqs[c].g /\ reqs'[c].key = reqs[c].key
             /\ reqs'[c].copy.rows = rows
      PROVE  \A d \in Clients : ReqSteady(reqs'[d], ways)
  <2>1. ReqSteady(reqs'[c], ways)
    BY <1>3, <1>c DEF ReqSteady
  <2> QED BY <1>2, <1>c, <2>1
<1>p. ASSUME guests'[reqs[c].g].pin = reqs[c].key,
             \A h \in Guests \ {reqs[c].g} : guests'[h] = guests[h]
      PROVE  PinsOfWays(guests', ways)
  <2> SUFFICES ASSUME NEW g \in Guests PROVE PinOfWay(guests'[g].pin, ways[g])
    BY DEF PinsOfWays
  <2>1. CASE g = reqs[c].g
    BY <1>3, <1>p, <2>1
  <2>2. CASE g # reqs[c].g
    BY <1>2, <1>p, <2>2 DEF PinsOfWays
  <2> QED BY <2>1, <2>2
<1>4. CASE ChooseEvent(c)
  <2>1. /\ Goto(c, "store") /\ UNCHANGED <<board, builds>>
        /\ guests' = [guests EXCEPT ![reqs[c].g].pin = reqs[c].key]
    BY <1>4 DEF ChooseEvent
  <2>2. /\ guests'[reqs[c].g].pin = reqs[c].key
        /\ \A h \in Guests \ {reqs[c].g} : guests'[h] = guests[h]
    BY <1>0, <2>1 DEF Guest
  <2> QED BY <1>2, <1>g, <1>p, <1>r, <2>1, <2>2
<1>st. CASE ChooseStore(c)
  BY <1>2, <1>3, <1>st, <1>f, <1>r, <1>s DEF ChooseStore
<1>5. CASE BuyEvent(c)
  <2>1. /\ Goto(c, "store") /\ UNCHANGED <<board, builds>>
        /\ guests' = [guests EXCEPT ![reqs[c].g].purchased = TRUE,
                                    ![reqs[c].g].pin = reqs[c].key]
    BY <1>5 DEF BuyEvent
  <2>2. /\ guests'[reqs[c].g] = [[guests[reqs[c].g] EXCEPT !.purchased = TRUE]
                                   EXCEPT !.pin = reqs[c].key]
        /\ \A h \in Guests \ {reqs[c].g} : guests'[h] = guests[h]
    BY <1>0, <2>1
  <2>3. guests'[reqs[c].g].pin = reqs[c].key
    BY <1>0, <2>2 DEF Guest
  <2> QED BY <1>2, <1>g, <1>p, <1>r, <2>1, <2>2, <2>3
<1>6. CASE UnbuyEvent(c) \/ UnbuyFlag(c)
  <2>1. guests' = [guests EXCEPT ![reqs[c].g].purchased = FALSE] /\ Goto(c, "store") /\ board' = board
    BY <1>6 DEF UnbuyEvent, UnbuyFlag
  <2>2. \A h \in Guests : guests'[h].pin = guests[h].pin
    BY <1>0, <2>1 DEF Guest
  <2>3. PinsOfWays(guests', ways)
    BY <1>2, <2>2 DEF PinsOfWays
  <2>4. \A w \in Builds : BuildSteady(builds'[w], ways)
    BY <1>2, <1>6, <1>s DEF UnbuyEvent, UnbuyFlag
  <2> QED BY <1>2, <1>g, <1>r, <2>1, <2>3, <2>4
<1>7. CASE ConsentRead(c)
  <2>1. /\ \A d \in Clients \ {c} : reqs'[d] = reqs[d]
        /\ reqs'[c].g = reqs[c].g /\ reqs'[c].key = reqs[c].key
        /\ reqs'[c].copy.rows = board.rows
    BY <1>0, <1>7 DEF ConsentRead, Req
  <2> QED BY <1>2, <1>7, <1>c, <1>r, <2>1 DEF ConsentRead
<1>8. CASE ConsentMatch(c)
  <2>1. /\ \A d \in Clients \ {c} : reqs'[d] = reqs[d]
        /\ reqs'[c].g = reqs[c].g /\ reqs'[c].key = reqs[c].key
        /\ reqs'[c].copy.rows = reqs[c].copy.rows
    BY <1>0, <1>8 DEF ConsentMatch, Req, Board
  <2> QED BY <1>2, <1>3, <1>8, <1>c, <1>r, <2>1 DEF ConsentMatch
<1>9. CASE CopyStore(c)
  BY <1>2, <1>3, <1>9, <1>f, <1>r DEF CopyStore
<1>10. CASE AddRead(c)
  <2>1. /\ \A d \in Clients \ {c} : reqs'[d] = reqs[d]
        /\ reqs'[c].g = reqs[c].g /\ reqs'[c].key = reqs[c].key
        /\ reqs'[c].copy.rows = Placeholder(guests).rows
    BY <1>0, <1>10 DEF AddRead, Req
  <2> QED BY <1>2, <1>10, <1>c, <1>r, <2>1, NothingTold DEF AddRead
<1>11. CASE AddStore(c)
  BY <1>2, <1>3, <1>11, <1>f, <1>r, <1>s DEF AddStore
<1> QED BY <1>4, <1>st, <1>5, <1>6, <1>7, <1>8, <1>9, <1>10, <1>11 DEF Serve

\* A copy of the board with one row exchanged for an untold one tells nothing.
LEMMA WithRowUntold ==
  ASSUME RowsInv, NEW ways, Untold(board.rows, ways), NEW g \in Guests, NEW row,
         UntoldRow(row, ways[g])
  PROVE  Untold(WithRow(g, row).rows, ways)
<1>1. WithRow(g, row).rows = [board.rows EXCEPT ![g] = row] /\ board.rows \in [Guests -> GoodRow]
  BY DEF RowsInv, WithRow, GoodBoard
<1> SUFFICES ASSUME NEW h \in Guests
             PROVE  UntoldRow([board.rows EXCEPT ![g] = row][h], ways[h])
  BY <1>1 DEF Untold
<1>2. CASE h = g
  BY <1>1, <1>2
<1>3. CASE h # g
  BY <1>1, <1>3 DEF Untold
<1> QED BY <1>2, <1>3

\* No request finds another route for a guest who has one way.
LEMMA RequestSteady ==
  ASSUME RowsInv, SteadyInv, Next, Calm', NEW c \in Clients, Request(c)
  PROVE  Steady'
<1>0. /\ reqs \in [Clients -> GoodReq] /\ guests \in [Guests -> Guest]
      /\ \A g \in Guests : board.rows[g] \in Row
  BY DEF RowsInv, GoodBoard, GoodRow
<1>1. /\ Calm /\ live' = live /\ Ways' = Ways
      /\ Steady
  BY StaysSteady
<1> DEFINE ways == Ways
<1>2. /\ Untold(board.rows, ways) /\ PinsOfWays(guests, ways)
      /\ \A w \in Builds : BuildSteady(builds[w], ways)
      /\ \A d \in Clients : ReqSteady(reqs[d], ways)
  BY <1>1 DEF Steady
<1>s. \A fresh : Spawn(fresh) => \A w \in Builds : BuildSteady(builds'[w], ways)
  BY <1>1, SpawnSteady
<1> HIDE DEF ways
<1>r. ASSUME \A d \in Clients : ReqSteady(reqs'[d], ways),
             \A w \in Builds : BuildSteady(builds'[w], ways),
             Untold(board'.rows, ways), PinsOfWays(guests', ways)
      PROVE  Steady'
  BY <1>1, <1>r DEF Steady, ways
<1>b. ASSUME NEW op, NEW pc, NEW g, NEW key, NEW copy, Begin(c, op, pc, g, key, copy),
             Untold(copy.rows, ways), PinOfWay(key, ways[g])
      PROVE  \A d \in Clients : ReqSteady(reqs'[d], ways)
  <2> DEFINE r == [op |-> op, pc |-> pc, g |-> g, key |-> key, copy |-> copy]
  <2>1. reqs'[c] = r /\ \A d \in Clients \ {c} : reqs'[d] = reqs[d]
    BY <1>0, <1>b DEF Begin
  <2>2. ReqSteady(r, ways)
    BY <1>b DEF ReqSteady
  <2> QED BY <1>2, <2>1, <2>2
<1>n. \A F : PinOfWay(NoKey, F)
  BY DEF PinOfWay
<1>3. ASSUME NEW g \in Guests, NEW k, ChooseRead(c, g, k) PROVE Steady'
  <2>1. PICK o \in board.rows[g].alts \cup ({board.rows[g].chosen} \ {NoOffer}) :
          /\ KeyOf[o] = k
          /\ Begin(c, "choose", "event", g, k,
                   WithRow(g, [Swap(board.rows[g], o) EXCEPT !.pinned = TRUE]))
    BY <1>3 DEF ChooseRead
  <2> DEFINE row == [Swap(board.rows[g], o) EXCEPT !.pinned = TRUE]
  <2>2. UntoldRow(board.rows[g], ways[g])
    BY <1>2 DEF Untold
  <2>3. UntoldRow(row, ways[g]) /\ PinOfWay(k, ways[g])
    <3> SUFFICES ASSUME OneWay(ways[g]) PROVE UntoldRow(row, ways[g]) /\ o \in ways[g]
      BY <2>1 DEF UntoldRow, PinOfWay
    <3>1. o = board.rows[g].chosen /\ o \in ways[g]
      BY <2>1, <2>2 DEF UntoldRow
    <3>2. row = [board.rows[g] EXCEPT !.pinned = TRUE]
      BY <3>1 DEF Swap
    <3>3. /\ row.told = board.rows[g].told /\ row.chosen = board.rows[g].chosen
          /\ row.alts = board.rows[g].alts
      BY <1>0, <3>2 DEF Row
    <3> QED BY <2>2, <3>1, <3>3 DEF UntoldRow
  <2> HIDE DEF row
  <2>4. Untold(WithRow(g, row).rows, ways)
    BY <1>2, <2>3, WithRowUntold
  <2>5. \A d \in Clients : ReqSteady(reqs'[d], ways)
    BY <1>b, <2>1, <2>3, <2>4 DEF row
  <2> QED BY <1>2, <1>3, <1>r, <2>5 DEF ChooseRead
<1>c. ASSUME NEW g \in Guests, CollapseRead(c, g) PROVE Steady'
  <2>1. PICK o \in board.rows[g].alts :
          Begin(c, "collapse", "store", g, NoKey,
                WithRow(g, [Swap(board.rows[g], o) EXCEPT !.told = TRUE,
                                                          !.status = "planned"]))
    BY <1>c DEF CollapseRead
  <2> DEFINE row == [Swap(board.rows[g], o) EXCEPT !.told = TRUE, !.status = "planned"]
  <2>2. UntoldRow(row, ways[g])
    BY <1>2, <2>1 DEF Untold, UntoldRow
  <2> HIDE DEF row
  <2>3. Untold(WithRow(g, row).rows, ways)
    BY <1>2, <2>2, WithRowUntold
  <2>4. \A d \in Clients : ReqSteady(reqs'[d], ways)
    BY <1>b, <1>n, <2>1, <2>3 DEF row
  <2> QED BY <1>2, <1>c, <1>r, <2>4 DEF CollapseRead
<1>4. CASE Recheck(c)
  BY <1>2, <1>4, <1>r, <1>s DEF Recheck
<1>5. ASSUME NEW g \in Guests, BuyRead(c, g) PROVE Steady'
  <2>1. /\ board.rows[g].chosen # NoOffer
        /\ Begin(c, "buy", "event", g, KeyOf[board.rows[g].chosen],
                 WithRow(g, Freeze(board.rows[g])))
    BY <1>5 DEF BuyRead
  <2>2. /\ Freeze(board.rows[g]).told = board.rows[g].told
        /\ Freeze(board.rows[g]).chosen = board.rows[g].chosen
        /\ Freeze(board.rows[g]).alts = board.rows[g].alts
    BY <1>0 DEF Freeze, Row
  <2>3. UntoldRow(board.rows[g], ways[g])
    BY <1>2 DEF Untold
  <2>4. Untold(WithRow(g, Freeze(board.rows[g])).rows, ways)
    <3>1. UntoldRow(Freeze(board.rows[g]), ways[g])
      BY <2>2, <2>3 DEF UntoldRow
    <3> QED BY <1>2, <3>1, WithRowUntold
  <2>5. PinOfWay(KeyOf[board.rows[g].chosen], ways[g])
    BY <2>1, <2>3 DEF PinOfWay, UntoldRow
  <2>6. \A d \in Clients : ReqSteady(reqs'[d], ways)
    BY <1>b, <2>1, <2>4, <2>5
  <2> QED BY <1>2, <1>5, <1>r, <2>6 DEF BuyRead
<1>6. ASSUME NEW g \in Guests, UnbuyRead(c, g) PROVE Steady'
  <2> DEFINE thaw == [board.rows[g] EXCEPT !.purchased = FALSE, !.status = "planned"]
  <2>1. Begin(c, "unbuy", "event", g, NoKey, WithRow(g, thaw))
    BY <1>6 DEF UnbuyRead
  <2>2. /\ thaw.told = board.rows[g].told /\ thaw.chosen = board.rows[g].chosen
        /\ thaw.alts = board.rows[g].alts
    BY <1>0 DEF Row
  <2>3. UntoldRow(thaw, ways[g])
    BY <1>2, <2>2 DEF Untold, UntoldRow
  <2> HIDE DEF thaw
  <2>4. Untold(WithRow(g, thaw).rows, ways)
    BY <1>2, <2>3, WithRowUntold
  <2>5. \A d \in Clients : ReqSteady(reqs'[d], ways)
    BY <1>b, <1>n, <2>1, <2>4 DEF thaw
  <2> QED BY <1>2, <1>6, <1>r, <2>5 DEF UnbuyRead
<1>7. ASSUME NEW g \in Guests, UnbuyNoop(c, g) PROVE Steady'
  <2>1. \A d \in Clients : ReqSteady(reqs'[d], ways)
    BY <1>2, <1>7, <1>b, <1>n DEF UnbuyNoop
  <2> QED BY <1>2, <1>7, <1>r, <2>1 DEF UnbuyNoop
<1>8. ASSUME NEW g \in Guests, NEW op \in {"consent", "revoke"}, ConsentEvent(c, g, op)
      PROVE  Steady'
  <2>1. \A d \in Clients : ReqSteady(reqs'[d], ways)
    BY <1>2, <1>8, <1>b, <1>n, NothingTold DEF ConsentEvent
  <2>2. \A h \in Guests : guests'[h].pin = guests[h].pin
    BY <1>0, <1>8 DEF ConsentEvent, Guest
  <2>3. PinsOfWays(guests', ways)
    BY <1>2, <2>2 DEF PinsOfWays
  <2> QED BY <1>2, <1>8, <1>r, <2>1, <2>3 DEF ConsentEvent
<1>i. ASSUME NEW g \in Guests, NEW optin \in BOOLEAN,
             guests' = [guests EXCEPT ![g] = IF guests[g].in
                                             THEN [guests[g] EXCEPT !.optin = optin]
                                             ELSE NewGuest(optin)]
      PROVE  PinsOfWays(guests', ways)
  <2>1. NewGuest(optin).pin = NoKey
    BY DEF NewGuest, Nobody
  <2>2. [guests[g] EXCEPT !.optin = optin].pin = guests[g].pin
    BY <1>0 DEF Guest
  <2>3. \A h \in Guests : guests'[h].pin \in {guests[h].pin, NoKey}
    BY <1>0, <1>i, <2>1, <2>2
  <2> QED BY <1>2, <1>n, <2>3 DEF PinsOfWays
<1>9. ASSUME NEW g \in Guests, AddEvent(c, g) PROVE Steady'
  <2>1. \A d \in Clients : ReqSteady(reqs'[d], ways)
    BY <1>2, <1>9, <1>b, <1>n, NothingTold DEF AddEvent
  <2>2. PinsOfWays(guests', ways)
    BY <1>9, <1>i DEF AddEvent
  <2> QED BY <1>2, <1>9, <1>r, <2>1, <2>2 DEF AddEvent
<1>10. ASSUME NEW g \in Guests, NEW optin \in BOOLEAN, Join(c, g, optin) PROVE Steady'
  <2>1. PinsOfWays(guests', ways)
    BY <1>10, <1>i DEF Join
  <2> QED BY <1>2, <1>10, <1>r, <1>s, <2>1 DEF Join
<1> QED BY <1>3, <1>c, <1>4, <1>5, <1>6, <1>7, <1>8, <1>9, <1>10 DEF Request

\* Nothing has been planned or told when the event has been created.
LEMMA InitSteady == Init => SteadyInv
<1> SUFFICES ASSUME Init PROVE Steady
  BY DEF SteadyInv
<1>2. PinsOfWays(guests, Ways)
  <2>1. Nobody.pin = NoKey /\ \A optin : NewGuest(optin).pin = NoKey
    BY DEF NewGuest, Nobody
  <2>2. PICK optin \in [Guests -> BOOLEAN] :
          guests = [g \in Guests |-> IF g \in Invited THEN NewGuest(optin[g]) ELSE Nobody]
    BY DEF Init
  <2> QED BY <2>1, <2>2 DEF PinsOfWays, PinOfWay
<1>3. \A b \in Builds : builds[b] = IdleBuild \/ builds[b] = Starting(FALSE)
  BY DEF Init
<1> QED BY <1>2, <1>3, NothingTold DEF Init, Steady

\* Every step finds each guest the route that they had.
LEMMA StepSteady ==
  ASSUME RowsInv, PinInv, SteadyInv, [Next]_vars
  PROVE  SteadyInv'
<1> SUFFICES ASSUME Calm' PROVE Steady'
  BY DEF SteadyInv
<1>1. /\ Calm /\ live' = live /\ Ways' = Ways
      /\ Steady
  BY StaysSteady
<1>2. CASE Tick
  <2>1. \A b \in Builds : builds'[b] = builds[b] \/ builds'[b] = Starting(TRUE)
    BY <1>2 DEF Tick, RowsInv
  <2> QED BY <1>1, <1>2, <2>1, NothingTold DEF Tick, Steady
<1>3. CASE Environment
  BY <1>1, <1>3 DEF Environment, SellOut, PutOnSale, Expire, Steady
<1>4. CASE UNCHANGED vars
  BY <1>1, <1>4 DEF vars, Steady
<1> QED BY <1>2, <1>3, <1>4, RebuildSteady, ServeSteady, RequestSteady DEF Next

\* However choices, staged collapses, purchases, joins and rechecks cross the
\* rebuilds, and wherever the wave moves the others, a guest with one way to be
\* in time is told of no collapse while nothing is sold out, put on sale or fails
\* to answer (planRow, pickAlternatives, wave.Apply, the handlers' copies).
THEOREM OneWayIsNeverLost == Spec => []OnlyWayStands
<1>1. RowsInv /\ PinInv /\ SteadyInv /\ [Next]_vars => SteadyInv'
  BY StepSteady
<1>2. RowsInv /\ RowsInv' /\ PinInv /\ [Next]_vars => PinInv'
  BY StepPins
<1>3. SteadyInv => OnlyWayStands
  <2>1. \A g \in Guests : Ways[g] = WaysInTime(g)
    BY DEF Ways, InWindow, WaysInTime
  <2> QED BY <2>1 DEF SteadyInv, OnlyWayStands, Calm, Steady, Untold, UntoldRow, OneWay
<1> QED BY <1>1, <1>2, <1>3, InitPins, InitSteady, RowsInvariant, PTL DEF Spec
=============================================================================
