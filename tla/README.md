# TLA+ models of tutu-smile

«Улыбка» (tutu-smile) brings the guests of one event, each from a city of their
own, to one deadline: it plans a route for every guest, publishes the routes as
a live board, spreads the arrivals in a wave, matches travel companions and
keeps all of it up to date while guests choose, buy, cancel, consent and join.
The server (`src/app`, Go) has no database: the state of an event is one object
in memory that HTTP handlers, background rebuilds and a recheck loop read and
write concurrently, and the routes come from a remote MCP server through a
client with a cache, retries and a circuit breaker.

This directory holds TLA+ models of that concurrent core, TLC configurations
that check them on small instances and TLAPS proofs of the theorems that hold
for every instance. `PROJECT.json` maps every definition to the source lines it
stands for.

## 1. Inventory of the system

Paths are relative to `src/app/internal`.

| Component | State | Operations | Interacts with | Hard behaviours |
|---|---|---|---|---|
| event store, `event/store.go`, `event/model.go` | `State.Event` (guests and their flags), `State.Board`, subscribers | Create, Get, SetBoard, UpdateEvent, Snapshot, Subscribe | written by handlers and rebuilds, read by all | one lock per single access, so every read–compute–write of a caller interleaves with others |
| handlers of guests, `api/handlers.go`, `api/guest.go`, `api/join.go` | none of their own; a copy of the board between steps | choose, purchased (and cancelled), consent, demo collapse, add, join, recheck, card | store, rebuilds | copy–edit–publish against rebuilds; the order of "publish" and "kick a rebuild" |
| recheck manager, `orchestrator/recheck.go` | one loop per event, `running` | BuildAndStore, Start, Stop, loop | store, orchestrator, breaker | a rebuild holds its snapshot for up to 90 s; stale pins are cleared after publishing; a loop that ends for good |
| orchestrator, `orchestrator/orchestrator.go` | none | BuildBoard, planRow: carry, freeze, collapse detection, card, links, hints, statuses, bets, sort | planner, wave, companions, language model | mixes what guests wanted then with the board of another moment; link, card and hint are fetched for a route that is exchanged later |
| planner, `planner/planner.go` | none | PlanGuest: two searches, map of options, window, rank, pin, alternatives | MCP client | one of two searches failing; the order of a map |
| wave, `wave/wave.go` | none | Apply, applyOnce | rows of a board | restarts after each swap; frozen rows; riders of one vehicle |
| companions, `companions/companions.go` | none | Find, ForGuest | rows, consent flags | names must stay hidden |
| MCP client, `mcp/client.go` | cache, flights, gate, spacing, breaker | CallTool, doWithRetry, polite, doOnce, breaker* | all searches | single flight, cancellation at every wait, slots, breaker against concurrent calls |
| proxy pool, `mcp/client.go` | `poolSeq`, failures and bench of each proxy | nextHTTP, report, ProbeProxies | requests of the client | one rotation for all callers; probe and calls report on a proxy in any order |
| broadcast, `event/store.go`, `handleStream` | a channel of four per subscriber | SetBoard, Subscribe, unsubscribe, the SSE loop | pages | close against send, slow readers, reconnection, order |
| intake and amendments, `api/join.go`, `llm/parse.go` | none; a draft across a call to a language model | handleJoin, handleAddGuest, handleAmend, ParseEvent, normalizeDraft, applyDraftToEvent | store, recheck manager | whole-draft write after up to 45 s; the gather time moves while the loop runs |
| wheel and meeting place, `api/roulette.go`, `api/meet.go`, `orchestrator/vibe.go`, with `tutu/tags.go`, `tutu/geo.go` | places of one request | handleRoulette, handleRoulettePrice, handleMeet, handleVibe, priceTrip, priceCityWithRelay, RankVibeCities, CitiesByInterests | searches, language model | goroutines that write into places of one list in two passes; failed searches; unknown fares |
| the rest of tutu and llm, config, web pages, site | tables; nothing lasting | decoding, prompts, rendering | – | – |

What makes each component correct is stated by the properties of section 4; what
can go wrong, line by line, is the list of hazards in `PROJECT.json`.

## 2. Modules

```
BoardRows ──► LiveBoard ──► LiveBoardProps ──► MCLiveBoard
    │                             └──► LiveBoardProofs
    ├──────► Wave ──► MCWave
    │          └──────────────────┬──► RebuildProofs
    ├──────► Planner ──► PlannerProps ──► MCPlanner
    └──────► BoardPage ──► BoardPageProps ──► MCBoardPage
                                └──► BoardPageProofs

ProxyPool ──► ProxyPoolProps ──► MCProxyPool      Trips ──► TripsProps ──► MCTrips
                  └──► ProxyPoolProofs                          └──► TripsProofs

Client ──► ClientProps ──► MCClient          Feed (abstract) ◄──INSTANCE── BroadcastProps
                └──► ClientProofs            Broadcast ──► BroadcastProps ──► MCBroadcast
                                                                └──► BroadcastProofs
Gathering ──► GatheringProps ──► MCGathering
                     └──► GatheringProofs
```

**BoardRows** – the operators on rows that several components share: `Swap`
(an option becomes the chosen one and the previous one goes back among the
alternatives; the same code in `handleGuestChoose`, `handleDemoCollapse` and
`wave.applyOnce`), `Frozen`, `TooClose`, `Waves(rows)`: every outcome that
`wave.Apply` may have, as a set, and `Alternatives(F, c)`: every outcome that
`pickAlternatives` may have. `LiveBoard` and `BoardPage` publish members of these
sets; `Wave` and `Planner` model the walk and the choice themselves, and their
properties `KeepsToWaves` and `AlternativesAsSupposed` show that both stay in
the sets. That is how the components are composed.

**LiveBoard** – the core. `guests` is `State.Event.Guests` (in the event,
purchased, pin, opt-in, consent), `board` is `State.Board` (rows and companion
matches). A rebuild is a record in `builds` that goes through the steps of
`BuildAndStore`, one action for each access to shared state:

| Action | Code |
|---|---|
| `BuildSnapshot`, `BuildPrior` | `st.Snapshot()`, `st.CurrentBoard()` |
| `BuildPlan(b, g)` | `planRow` and `PlanGuest` for one guest: carried and frozen rows, the two searches through the cache, failures, window, pin, choice, alternatives, collapse detection, reuse of the card |
| `BuildPublish` | wave, companions, `SetBoard` |
| `BuildClear` | stale pins cleared with `UpdateEvent` |
| `Tick` | one tick of `Manager.loop` |

A request is a record in `reqs`: `ChooseRead`/`ChooseEvent`/`ChooseStore`,
`BuyRead`/`BuyEvent`, `UnbuyRead`/`UnbuyEvent` and `UnbuyNoop`/`UnbuyFlag`,
`ConsentEvent`/`ConsentRead`/`ConsentMatch`, `CollapseRead`, `CopyStore` (their
last `SetBoard`), `AddEvent`/`AddRead`/`AddStore` (with the placeholder board of
`kickBuild`), `Join`, `Recheck`. `live` is what the carriers sell, `cache` the
search cache as rebuilds see it, `SellOut`, `PutOnSale` and `Expire` move them.

Abstractions: an offer is a model value with a key (vehicle and departure,
without the price), an arrival and a rank; risk levels and the wording of rows
are left out; `card` is the offer that the card describes and `told` says
whether the row's log claims a collapse. The order of `rankOptions` is the
constant `Rank`; equal ranks make the choice nondeterministic where the code
iterates over a map before it sorts. The deadline of the event is constant:
`Gathering` changes it.

What a reader of the board sees is an operator on the state: `HasCard(g)` and
`NamesShown(g)` are `handleGuestCard` and `companions.ForGuest`.

**Wave** – `Apply`/`applyOnce`: `Shift` is one swap with the restart that
follows it, `Mark` the last walk, which flags the clashes that are left.

**Client** – `CallTool`: each goroutine has a program counter through cache,
flight, breaker, gate, spacing, wire, report, backoff, close, delete and save,
one action per access to shared state or wait. A caller's context may end at any
time (`EndContext`) and is noticed only where the code selects on it. Payloads
are numbered as requests bring them, so that it is visible whose
answer a call returns. A follower's result is fixed when its flight lands; the
flight stays in the map until its leader deletes it, and may be joined until then.

**ProxyPool** – the proxies under the client: `Pick` is `nextHTTP` (the rotation
stops at the first proxy that is off its bench, or at the next one if all are
benched), `Succeed`, `Fail` and `Cancel` are `doOnce` with its report, `Return`
the end of `doWithRetry` after at least one retry per proxy (`met` is what the
call tried, or saw on the bench, at its turns), `ProbeGood` and
`ProbeBad` the probe of the start, `Expire` the end of a bench. Circuit, cache
and gate are `Client`'s; here they are `Refuse`, which may end a call before any
of its requests.

**Planner** – one guest's way through a rebuild: `SearchDay` and `SearchNight` merge
what is found into the map of options (of two results with one key the first
stays), `Plan` is the rest of `PlanGuest` and `planRow`'s answer to an outage,
`Waved` the wave for this row among others, `Flag` is `reclassifyRisk`. The
iteration over a map before a stable sort is the choice of any sequence that is
sorted. Budget, party, profile, pin and the prior row with its alternatives are
inputs (`Wishes`); a carried row keeps them, so the wave may still move it.

**BoardPage** – what a row tells beside its route: card, checkout link and the seat
hint of companions. `Start` and `Publish` are a rebuild around its searches,
`Choose`, `Consent` and `Collapse` the handlers as one step each, for their
races with each other are `LiveBoard`'s. `link` and `card` hold the option they
were made for, so that it is visible when the route has moved on. `Payable`
are the offers with a URL or a reference; `resolveCheckout` asks for no other link
(`Asks`).

**Trips** – one request of the wheel (`batch`, `land`) or for a place to meet
(`meet`, `vibe`): every place of the list of cities has a goroutine, `stage` says
how far it is. `Direct` is `priceTrip` from the start, `Feed` and `Relay` the
relay by the hub in `priceCityWithRelay`, `TryHub` and `Relay` the second pass
of `handleRoulette`, `Weigh` one city of `RankVibeCities`, `Reply` the answer.
Lists of cities, fares and their sums are operators over `Table`, `Answers` and
`Hotels`; `Groups` are the places from which the guests of one meeting leave. A
stable sort is `Sorted(s, less)`: each member goes to the place that the number
of those before it leaves.

**Broadcast** – `SetBoard` with its lock and one non-blocking send per channel
(`Store`, `Send`, `Unlock`), `Subscribe` with the primed board (`Connect`), the
loop of `handleStream` (`Receive`, `Write`, `Leave`), `Unsubscribe`, and pages
that break off (`Disconnect`). Receives run without the lock, between the sends.

**Gathering** – the event itself: place, date, hour and guest list, the requests
that change them, the clock, and the recheck loop's life from the event's
creation to its end.

| Action | Code |
|---|---|
| `AmendAsk`, `AmendFails`, `AmendApply` | `handleAmend`: the draft goes to the model; it fails, or its answer passes `normalizeDraft` and `applyDraftToEvent` merges it into the event as it is by then |
| `Join`, `Add` | `handleJoin` (by name and city, else a new row), `handleAddGuest` |
| `Buy`, `Unbuy` | `handleGuestPurchased`, its effect on the event |
| `Rebuild` | a rebuild kicked off by one of these reads the event |
| `LoopBuilds`, `LoopEnds`, `LoopWaits` | a tick of `Manager.loop`, its return after the gather time, the end of its rebuild |
| `StopAll`, `Clock`, `Breaker` | shut-down, time, and the circuit of `Client` as the loop sees it |

The language model is external: its draft holds what was asked, invents nothing,
and may leave out any field or guest of the draft that it was given, which is
what `applyDraftToEvent` guards against. A trip stands for everything that a
guest asks of the planner. Ids are positions in the guest list, as no code ever
removes a guest.

**Feed** – the abstract promise of the stream: a page only ever turns to a board
that is not older than the one it shows. `Broadcast` implements it
(`BroadcastProps!NeverBack == F!Spec`, with the same `board` and `shown`).

Operators named as mutants next to a definition ("Mutant of Swap: …") are
plausible bugs of the same line; `PROJECT.json` pairs each with the property that
detects it.

## 3. How to run

```
tlc -workers 2 -config board_races.cfg MCLiveBoard     # and so on, see PROJECT.json
tlapm LiveBoardProofs.tla                              # and the other *Proofs
```

## 4. What the runs check

Runs that pass:

| Run | States | Shows |
|---|---|---|
| `board_races` | 2.0 M | One guest, cached searches, one search may fail; choices, purchases, cancelled purchases, demo collapses and rechecks race two rebuilds. Published rows stay coherent (`RowsCoherent`) and in time (`InTime`), and no pin is dropped unless a search failed (`PinKeptWhenCalm`), and while nothing changes outside no route that is the only one in time is said to have died (`OnlyWayStands`). |
| `board_pair` | 0.9 M | Two guests, two requests that join, are added, consent, revoke, buy and recheck, two workers, so that handlers start rebuilds beside one that is under way. Names are shown only to those who agreed at some time (`NamesWereAgreed`); a rebuild that reads a purchase with its route keeps that route frozen (`KeepsBoughtTicket`). The wave moves the guest who has an alternative; the one with a single way in time is told of no collapse (`OnlyWayStands`). |
| `board_settles` | 0.36 M | Recheck loop, one change of inventory, purchase and cancellation. The board ends up in agreement with guest and inventory (`BoardSettles`). |
| `wave_walks` | 0.1 M | Four guests, every combination of routes and alternatives. The walk moves rows only later, within the deadline, never a bought or picked one (`KeepsToWaves`), ends before its bound of three restarts per row (`Settled`) and flags every clash that is left (`ClashesAreFlagged`). |
| `client_calls` | 0.4 M | Two goroutines, three calls for two keys, fresh or not, one slot, one retry, circuit of two failures. One flight per key (`OneFlightPerKey`), no slot lost (`SlotsAccounted`), no retries into an open circuit (`NoRetryStorm`), every call returns (`EveryCallReturns`). A follower may return before its leader has deleted the flight, and make a fresh call in between: none is answered with what any call had returned before, except from a landed flight that is still in the map (`FreshIsLive`). |
| `gathering` | 0.21 M | One guest is there, two more come by form, link or words, one with a name and one without; two amendments cross each other and everything else. Joining and words repeat nobody (`OneRowPerPerson`), words delete nobody and undo no purchase (`WordsKeepPeople`), place and date are what the words add up to unless amendments cross (`FrameAsAsked`), every change is planned in the end (`ChangesArePlanned`), and while the gather time is ahead outages and bought-out times do not end the loop (`ChecksGoOn`). |
| `proxies` | 0.07 M | Two proxies, two goroutines, the probe of the start still under way. No proxy is benched for a failure that follows a success (`BenchedForCause`), a call that had the rotation to itself gives up only when it has met every proxy (`WalksAround`), every healthy one gets its turns (`EachTakesTurns`), and one that works again comes back for good (`WorkingComesBack`). |
| `plans` | 0.07 M | One guest, nine offers: a train at two prices, a change of trains, a plane, two buses, night trains, one too late; either search finds any part of them or fails. The route is the pinned one or a best one (`HeldOrBest`), the alternatives are those that `LiveBoard` supposes and show every mode there is room for (`AlternativesAsSupposed`), and who is shown as assembled is (`AssembledIsSafe`). |
| `page` | 0.05 M | Two guests who may go by an early offer, which has neither URL nor reference, or by a cheap one; choices during a rebuild, collapses, consents, the wave, failing searches and calls. Card (`CardTells`) and seat hint (`HintFits`) go with the route beside them unless it was exchanged since, and a picked route that can be paid for has its checkout link again and again once the calls for it succeed (`PickGetsLink`). |
| `trips` | 0.35 M | A small town with a hub, four cities of which one is abroad, searches that fail, know a fare or do not. Totals are the sum of the lowest fares (`TotalIsHonest`), the hub is the last resort (`HubIsLastResort`), meeting places are the best fitting cities in the order of who gets there (`MeetsWhereMostCome`). |
| `broadcast` | 0.85 M | Two publishers, two pages, channels of two. No send on a closed channel (`SendsToOpenChannels`), boards are lost only to a full channel and stay in order (`NothingLostButOverflow`), pages never go back (`NeverBack`), and catch up (`CatchesUp`). |

One run is refuted: it states a line of the repository, which the finding in
`PROJECT.json` quotes, and TLC's trace is what the code does instead.

* `bought_race` (`BoughtIsShown`): purchased rows are exempt from re-planning
  (`guest.go:194`). A rebuild that began before the purchase publishes over it.
  The guest stays marked as bought, so the next rebuild carries the row that it
  finds and freezes the route in it, be it the ticket or not
  (`orchestrator.go:112`); if everybody has bought, the loop skips the event
  (`recheck.go:132`) and the row stays as it is.

Five configurations beside the listed runs put further lines of the repository
to the same models. TLC refutes each at once, and the trace shows the
disagreement of code and text:

* `false_collapse.cfg` of `MCLiveBoard` (`CollapseIsReal`): a row that collapsed says that its old route
  is not to be had any more (`orchestrator.go:174`). Collapse detection compares
  the planner's choice with what the wave made of it last time, so a guest whom
  the wave has shifted "collapses" at the next rebuild.
* `pin_lost.cfg` of `MCLiveBoard` (`PinOutlivesRechecks`): a pin outlives rechecks
  while its option is on sale (`app/README.md:61`). A rebuild with a failed search, begun after the pin
  was set and before the handler published its board, clears it.
* `outage.cfg` of `MCPlanner` (`OutageIsNoCollapse`): a failed search keeps the
  prior route and does not look like a collapse (`docs/docs/pipeline.md:60`, `app/README.md:107`). That holds
  when nothing at all was found; when the search for the day fails and the one
  for the night finds something too late, the row needs help and tells of a
  collapse.
* `pool_walk.cfg` of `MCProxyPool` (`WalksAroundAmongOthers`): there are enough
  retries to walk around dead proxies (`client.go:359`). Two calls that retry
  in turn share one rotation, and one gives up without having tried every proxy.
* `over_budget.cfg` of `MCTrips` (`LandsInBudget`): only trips within the
  budget are drawn (`roulette.go:19`). The wheel lands on the first city with a road and only flags
  that it is too dear, also when one of the reserve was within the budget.

### Where the code does less than one might expect

Each of these is modelled as the code has it, and some properties exempt it by
name, so that what they do say is what the code keeps.

Board and rebuilds:

* Collapse detection is not to be relied on (`orchestrator.go:171`): a shift by the
  wave, a choice that crosses a rebuild, and a tie in the order of a map each
  change a route while its predecessor is alive. `OnlyWayStands` says who is
  spared: a guest who has only one way to be in time.
* A choice changes the route and not the card; the next rebuild sees an unchanged
  route and keeps the text (`orchestrator.go:188`). `CardTells` exempts a card
  whose route was exchanged after it was written, `HintFits` a pair that has
  changed trains together.
* With one of its two searches failed, a rebuild takes what the other one found
  for the inventory: pins are dropped and day routes are reported as collapsed
  (`pin_lost.cfg`, `outage.cfg`). `PinKeptWhenCalm` and `OnlyWayStands` have the premise that
  no search failed.
* A rebuild clears a pin without looking whether it is still the one it found
  stale (`recheck.go:56`); a consent revoked during a rebuild is published until
  the next one (`recheck.go:37`); adding a guest replaces the board by a
  placeholder, after which a purchased guest is planned anew
  (`handlers.go:375`); the demo collapse leaves a row marked as picked on
  another option (`handlers.go:290`); `kickRebuild` announces fresh searches and
  uses the cache (`guest.go:308`).
* The loop skips an event whose guests have all bought, so it never repairs rows
  that a stale rebuild damaged (`recheck.go:132`). After the gather time it returns
  for good, where `docs/docs/pipeline.md:66` has it skip the tick: an event that
  is put off later is not rechecked. `ChecksGoOn` says what holds before.
* The wave compares a rider with the arrival before theirs, so the first of
  several riders of one vehicle may be moved alone (`wave.go:66`), and may move a
  guest from one clash into another (`wave.go:98`).

Planner and trips:

* Options are ranked by a budget per person although their prices are for the
  party; the flag of risk multiplies the budget (`planner.go:316`).
* After the wave a slack of exactly 0 is not called tight, before it is
  (`orchestrator.go:423`).
* A plan with a change of trains may have neither URL nor reference and then never
  gets a checkout link (`orchestrator.go:286`); `PickGetsLink` exempts it.
* An unknown fare counts as 0, so a trip of unknown fares is within any budget
  (`roulette.go:392`). Times of a train to the hub and of the onward train are
  never compared. The batch is shuffled before it is cut.

Client and stream:

* The circuit does not count only consecutive failures (`client.go:125`): an
  answer that is an error (4xx, RPC, tool) leaves the count as it is. A late
  success closes a circuit that has opened since (`client.go:409`).
* A fresh call may join a flight that has landed, and whose followers have returned,
  until its leader deletes it (`client.go:328-346`): it is answered with a result
  that is not fresh. `FreshIsLive` exempts that flight and no other.
* A lone call walks around the whole pool of proxies; calls that overlap do not
  (`pool_walk.cfg`). Dead proxies count for the circuit, and an answer of 500 and
  more benches a proxy that works.
* The newest board may be dropped for a slow page (`store.go:83`).

### Bounds, and why they are enough

* `LiveBoard`: the races are between one rebuild and one handler, between two
  rebuilds, or between two handlers; two worker slots, the loop's slot and one
  or two request slots show each. `MaxCalls` of two or three covers choose–buy–
  cancel and consent–revoke sequences. Two offers suffice for a swap, three
  give one that is late; `Night` puts one of them behind the second search.
  `MaxMoves` and `MaxFails` bound the environment, not the code. In `board_settles`
  the cache is off: a cached answer delays the agreement, and the loop's own
  rebuild searches afresh. The code
  starts a goroutine for a rebuild at once; in a run, a handler waits when all
  slots are in use. `board_races` and `board_pair` have two, so that a handler
  starts a rebuild while another is under way, and the proofs are for any number;
  `board_settles` has one beside the loop's, for what it checks depends on fairness.
* `Wave`: four guests are needed for a swap that lands on a second clash and
  overtakes; alternatives in two steps force restarts that follow each other.
* `Client`: two goroutines are a leader and a follower or two leaders of
  different keys in contention for the one slot; a retry with a threshold of
  two lets the circuit open within a call. Three calls are the leader's, the
  follower's, and the fresh one that the follower makes when it has returned and
  its leader has not. `MCAsks` has the same search with and without the cache, and
  one that shares only gate and circuit with it. Counters of payloads and calls
  only bound the run.
* `ProxyPool`: two proxies and two callers are enough for calls that take each
  other's turn, for a pool that is benched altogether, and for every order of a
  probe and two reports on one proxy. `Retries` is 0 (`SMILE_MCP_RETRIES=0`), so
  that only the length of the pool makes a call go on; `BenchFails` is the
  code's. The number of calls is not bounded. `pool_walk.cfg` needs three
  proxies. Longer pools are an instance of the proofs.
* `Planner`: each of the nine offers is there for one condition: same key and
  another price, an interchange that counts only without a direct train, a
  price above the budget per person but within the party's, an arrival at the
  deadline, with little slack, past it, on the eve. `Wishes` has every pin that
  is sold, unsold or missing, and each profile.
* `BoardPage`: two guests make a pair and a clash. Two offers are needed for a
  swap; one of them has a URL to ask the link for and one has neither URL nor
  reference, so that a route without a link and one with one are both met.
  `Late` and `Faults` have one guest each: the guests are alike in the code, and
  what goes wrong for one does so whatever befalls the other.
* `Trips`: lists are cut at two (`Most`; the code's cap is larger) so that the
  threshold of two priced cities is met from both sides; the three lists of
  `Proposals` are none, one with the hub, and one with a city twice. `Answers` has
  one that fails, one whose cheapest fare is late, one whose first fare is
  unknown; `Hotels` likewise. `Groups` are two guests, from
  one town or from two. Budgets are none and one that some totals exceed.
* `Broadcast`: a channel of two is full after two sends; four boards allow a
  drop and a later delivery; two connections are two pages or one that
  reconnects. The code's capacity of four is an instance of the proofs.
* `Gathering`: every property is about at most two requests that cross, so
  `MaxCalls` is two, with a slot for each amendment. `MCAsks` has one sentence of
  each kind (place, date, hour, a new person with or without a name, a new trip for a
  guest). The clock of two passes every hour of the first day and none of the
  second, so that a gather time is passed, is put off, or stays ahead.
* Symmetry is used for the interchangeable rebuild slots of `board_races`,
  `board_pair` and `bought_race`, which check safety alone.

Deadlock is checked in `page`, `proxies` and `pool_walk.cfg`. Elsewhere the component
rests once the bounded requests are used up, the walk has ended or the request is answered.

### Fairness

* `LiveBoard!Fairness`: goroutines that run are scheduled (`Rebuild`, `Serve`)
  and the ticker keeps ticking (`Tick`). Nothing obliges guests to call or
  carriers to sell. `BoardSettles` needs the environment to come to rest, which
  the bounds give.
* `Client!FairSpec`: each goroutine takes its enabled steps; a request is answered
  or times out because the HTTP client has a timeout, a wait for the spacing or
  a backoff ends. Weak fairness is enough: with the bound on calls a slot is
  eventually free for good.
* `Broadcast!FairSpec`: `SetBoard`, once begun, finishes (its sends do not block);
  a handler receives, writes and leaves. A write to a dead connection returns
  with an error at the latest when TCP gives up. `Store`, `Connect` and
  `Disconnect` are not fair.
* `ProxyPool!FairSpec`: calls go on, requests and probes are answered or time out,
  benches end after ten minutes. Nothing obliges anyone to begin a call;
  `EachTakesTurns` has it as its premise that requests go out.
* `BoardPage!FairSpec` says in terms of states that rebuilds begin and end again
  and again, which the ticker and the timeout of 90 s give.
* `Gathering!Fairness`: rebuilds and the loop are scheduled, a rebuild of the loop
  ends with its context, the ticker ticks (`Loop`), the clock advances, and a
  call of the model ends after 45 s at the latest (`Amend`). The breaker is not
  fair: an outage may last, and `ChecksGoOn` says so.

## 5. What is proved

Every invariant and every action property that a passing run checks is stated by a
theorem; types are proved as parts of the invariants. What depends on fairness stays with
TLC (see the end of this section).

The proofs are for arbitrary constants that satisfy the named assumptions
(`RowsAssumption`, `ConstantsAssumption`, `WaveAssumption`, `PlannerAssumption`,
`ClientAssumption`, `BroadcastAssumption`, `GatheringAssumption`,
`PoolAssumption`, `TripsAssumption`, `PageAssumption`). They ask for finite or
non-empty sets, functions of the right type, distinct null values, and that
offers with one key are one vehicle. What is asked beyond that:

* `PlannerAssumption`: a search returns finitely many offers, and the route of a
  guest's prior row, and its alternatives, are in time. `LiveBoard` proves the latter of its rows
  (`RoutesInTime`) for a deadline that does not move.
* `TripsAssumption`: the table of cities names each city once and gives each
  finitely many tags; a nearest hub is its own hub (`tutu/geo.go`).

Many operators are loops of the code over a list. Where a theorem is about them
they are recursive functions, not folds, and what they compute for a list of any
length is proved by `UpTo` (`GatheringProofs`, `TripsProofs`): a set that holds 0
and with each number below n the next one holds all up to n. It is stated with a
set in place of a predicate, so that the provers can instantiate it, and rests on
`LeastNat`, which the library's well-founded order on finite sets gives.

* `LiveBoardProofs`: `TypeCorrect`, `RowsStayCoherent`, `RoutesInTime`. The three
  invariants are not inductive: a rebuild or request holds rows that it will
  publish later. `RowsInv` requires of every row anywhere (published, read as
  prior, planned, copied) that it is a `GoodRow`: coherent, with all options in
  time. Lemmas show that each operator on rows (`Swap`, `Freeze`, `Unseen`,
  `Plans`, `Waves`, `Placeholder`) keeps `GoodRow`; then there is one step per
  action. `NamesStayAgreed` needs `ConsentInv` (every snapshot held by a rebuild has
  only consents of guests who agreed, and every copy held by a request only such
  matches), and `BoughtTicketKept`, an action property, needs `TicketInv` (a plan
  that has passed a guest whose ticket it read holds that ticket frozen).
  `PinsAreKept`, another action property, needs `PinInv`: while it is calm, whatever
  any row or copy holds is on sale in time, every pin is the key of such an
  option, cached answers are what is sold, and the rows that a rebuild has
  planned hold the pins of its snapshot. So no plan finds a pin stale.
  `OneWayIsNeverLost` proves `OnlyWayStands` by `SteadyInv`: while it is calm, in
  every copy of the board anywhere the row of a guest with one way in time has
  that way or no route, no alternatives and no collapse in its log, and the
  guest's pin, if any, is its key. So whatever is planned, swapped by the wave or
  published over something else, that route comes out again. `CollapseIsReal`, for
  all guests, is not true.
* `RebuildProofs`: `TypeCorrect` and `WaveIsAllowed` (the walk stays within `Waves`,
  which justifies that `LiveBoard` uses the set instead of the walk).
  `WalkSettles`: a swap leaves less to swap to, because a row moves only to a
  later arrival (`Onward`), and three alternatives per row are all there is;
  hence the bound of three restarts per row is never what ends the walk.
  `ClashesFlagged`: the walk compares neighbours only, so of two rides that clash
  the proof takes the last row of the earlier ride and the first row after it.
  `PlanIsHeldOrBest`, `AlternativesSupposed` and `AssembledSafely` follow one row through searches, plan, wave and flag by
  `PlanInv`; `pickAlternatives` is shown to take one option per vehicle and one per
  mode by counting who is ahead of whom (`ForemostCount`). This is the other
  half of the composition: `LiveBoard` takes any member of `Alternatives`.
* `ClientProofs`: `TypeCorrect`, `SingleFlight`, `NoSlotLost`. The invariant adds that
  the flight of a leading call is in the map until the call deletes it
  (`InMap`); that is why a second leader cannot appear. The count of slots is
  kept by adding and removing one goroutine from the set of holders. `NoStorm`
  adds that a request which has passed the check of the open circuit is on its
  way or waits at the gate, and that no step puts another one there.
  `FreshStaysLive` needs `FreshInv`: what a call holds, or may join, was not returned
  before the call began (`Sound`, `JoinsNew`), the payload of a call whose flight has
  not landed is in no other call, flight or cache entry (`OwnRequests`), and no call
  has returned it.
* `ProxyPoolProofs`: `TypeCorrect`, `BenchHasCause` (a proxy with a count was last
  reported on as failing), and `RetriesGoRound`: for a call that has the rotation
  to itself, a proxy that it has neither tried nor seen on the bench comes nearer
  by at least one turn with each of its requests (`RoundInv`), and there are
  enough of them.
* `TripsProofs`: `TripsStayFound`. The second pass of a batch begins when every
  goroutine of the first has ended and fewer than two cities have a road; from
  then on no city gets a road of its own, so the count stays, and a place is
  written only by its own goroutine, which began without a trip.
  `TotalsAreHonest` needs `WheelInv`: a result at a place is that
  place's city with the sum of the lowest fares, and a relay begins only from
  both legs to the hub. `MeetsWell` needs `GatherInv` (each place holds what
  gathering in its city costs with the answers it got) and the lemmas on sorting:
  the places that `Sorted` gives out are a permutation (`SortedProperties`), so the
  best fitting cities are the first (`BestFitFirst`) and the reply is ordered by
  who comes, then by cost.
* `BroadcastProofs`: `TypeCorrect`, `NoSendOnClosed`, `ImplementsFeed`. The invariant
  says that only the holder of the lock is sending, and the current board
  (`Locked`), and that what is on its way to a page is ordered between what the
  page shows and the current board (`Ordered`); from it each step maps to a step
  of `Feed` or a stutter. `NothingLost` adds `Lossless`: a board that its publisher
  has yet to send to a page is newer than what the page was given and not
  counted as lost, and the channel holds, in order, what the page waits for
  besides.
* `BoardPageProofs`: `CardsTell` and `HintsFit`, by `PageInv`: the rows that a
  rebuild has read are as truthful as the published ones (`Told`), since they
  come back with its board; and of each published match, whoever has not
  changed trains since rides its train (`Paired`). The lemmas follow a row
  through planning, wave and exchange.
* `GatheringProofs`: `FrameStaysAsAsked`. The invariant adds only that the event is
  a record of its fields. An amendment that did not cross another one read the
  frame it is merged into, so a field that the model leaves out is kept and one
  that it returns is the same. `TypesKept`, `OneRowEach` and `WordsKeep` need
  `ListInv` (the types, and that who came by the link or by words came once) and induction over the draft's entries: after each entry the list has
  the rows it had before, with their tickets, and at most one row more.

Only model-checked: the temporal properties `BoardSettles`, `EveryCallReturns`,
`CatchesUp`, `ChangesArePlanned`, `ChecksGoOn`, `EachTakesTurns`, `WorkingComesBack`
and `PickGetsLink`. They depend on fairness, so on ENABLED, which the prover does
not handle. The refuted statements have no theorem: TLC's traces are the
counterexamples.

## 6. Not modelled

* Bets and the order of rows; the wording of risks, logs, cards and hints.
* Ids as text: ids that collide (`j`, `a` and `g` with a number) are left out.
* `Manager.Start` is only called when an event is created and `Stop` by nothing,
  so the loop of `Gathering` starts with the event.
* The breaker's pause of the loop in `LiveBoard`: `Tick` may happen at any time,
  or not; `Gathering` has the pause.
* The counters of the client (`Stats`) and what the circuit of `Client` learns from
  each proxy: the two are checked apart, `Refuse` standing for any circuit.
* The page's own `GET` after an amendment, which may show an older board than
  the stream has delivered (`web/assets/board.js:115-122`).
* Checkout links of the wheel's legs, routes around a city and plans of a city:
  each is one call whose result is shown as it comes.
* Decoding of answers, the tables of cities, prompts and the chain of language
  models, routing, configuration, start-up, pages and the documentation site:
  they keep no state that two steps share.
* A crash loses everything, as the server persists nothing; there is no recovery
  to model.

## 7. What is left

1. An abstract board (guests' wishes, one published board) that `LiveBoard`
   implements while no rebuild overlaps a request.
2. `Gathering` composed with `LiveBoard`: with a deadline that moves under a rebuild,
   a carried row may be late; and ids as text.
3. `ProxyPool` composed with `Client`: a pool of dead proxies that opens the circuit.
