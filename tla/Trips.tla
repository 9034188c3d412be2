-------------------------------- MODULE Trips --------------------------------
(***************************************************************************)
(* The requests that look for a city: the wheel's batch (handleRoulette),   *)
(* the city on which the wheel has landed (handleRoulettePrice), a city to  *)
(* meet in (handleMeet) and cities for a wish (handleVibe).  Each prices a  *)
(* list of cities in parallel, one goroutine for each place of the list,    *)
(* and answers when all have returned.                                      *)
(*                                                                         *)
(* A search answers with a sequence of variants, empty when the call fails, *)
(* its time runs out or nothing is sold; a fare of 0 is unknown.            *)
(***************************************************************************)
EXTENDS Integers, SequencesExt

CONSTANTS
  None,      \* nil
  Table,     \* cityTags: a sequence of cities with their tags
  Interests, \* tags that may be asked for
  Starts,    \* cities from which people leave
  Groups,    \* the people who want to meet: lists of the cities they leave from
  HubOf,     \* NearestHub; a hub is its own (IsHub)
  Hubs,      \* meetHubs: a sequence of cities
  Proposals, \* lists of cities that pages send and the language model proposes
  Answers,   \* what a search of fares may answer
  Hotels,    \* what a search of hotels may answer
  Budgets,   \* budgets of requests, 0 is none
  Most       \* rouletteCandidates, and the cap of RankVibeCities

\* What the wheel looks at in a variant of a road and in a hotel.
Variant == [fare : Nat, late : BOOLEAN]

Room == [fare : Nat, liked : BOOLEAN]

ASSUME TripsAssumption ==
  /\ Table \in Seq(Range(Table)) /\ Hubs \in Seq(Range(Hubs))
  /\ \A c, d \in Range(Table) : c.city = d.city => c = d
  /\ \A c \in Range(Table) : IsFiniteSet(c.tags) /\ c.city # None
  /\ Groups \subseteq Seq(Starts)
  /\ \A p \in Proposals : p \in Seq(Range(p))
  /\ Answers \subseteq Seq(Variant)
  /\ Hotels \subseteq Seq(Room)
  /\ Budgets \subseteq Nat /\ Most \in Nat \ {0}
  /\ \A s \in Starts : HubOf[s] # None /\ HubOf[HubOf[s]] = HubOf[s]

VARIABLES
  request,  \* kind, places from which people leave, wish, budget
  pool,     \* the cities, in order
  stage,    \* per place of the pool: what its goroutine is about to do
  options,  \* per place of the pool: its result, None is nil
  feeders,  \* per place of the pool: the legs to the hub and back
  reply     \* None until the request is answered, then a list of options

vars == <<request, pool, stage, options, feeders, reply>>

-----------------------------------------------------------------------------
(* Lists of cities *)

\* What of a list is in T, in the order of the list.
Only(s, T) ==
  LET only[i \in 0..Len(s)] ==
        IF i = 0 THEN <<>>
        ELSE IF s[i] \in T THEN Append(only[i - 1], s[i]) ELSE only[i - 1]
  IN only[Len(s)]

\* sort.SliceStable, and the sort in CitiesByInterests: less holds the pairs of
\* places of which the first belongs before the second.
Sorted(s, less) ==
  LET Before(i, j) == <<i, j>> \in less \/ (<<j, i>> \notin less /\ i < j)
      Turn(i) == Cardinality({j \in DOMAIN s : Before(j, i)}) + 1
  IN [k \in DOMAIN s |-> s[CHOOSE i \in DOMAIN s : Turn(i) = k]]

Score(c, want) == Cardinality(c.tags \cap want)

\* The cities of the table that pass the filters of a request.
Fitting(want, scope, from, visaFree) ==
  {c \in Range(Table) : /\ scope = "rf" => ~c.abroad
                        /\ scope = "abroad" => c.abroad
                        /\ visaFree /\ c.abroad => c.visaFree
                        /\ c.city # from
                        /\ want # {} => Score(c, want) > 0}

CitiesByInterests(want, scope, from, visaFree) ==
  LET fit  == Only(Table, Fitting(want, scope, from, visaFree))
      best == Sorted(fit, {p \in (DOMAIN fit) \X (DOMAIN fit) :
                             Score(fit[p[1]], want) > Score(fit[p[2]], want)})
  IN [i \in DOMAIN best |-> best[i].city]

Cut(s) == SubSeq(s, 1, IF Len(s) < Most THEN Len(s) ELSE Most)

\* handleRoulette: the page's drum, or the cities of its own, shuffled.
BatchPools(from, want) ==
  LET Shuffles(filter) ==
        SetToSeqs({c.city : c \in Fitting(want, filter[1], from, filter[2])})
      lists == Proposals \cup UNION {Shuffles(filter) :
                                       filter \in {"rf", "abroad", "any"} \X BOOLEAN}
  IN {Cut(p) : p \in lists \ {<<>>}}

\* handleRoulettePrice: the city, and up to two others in reserve.
LandPools ==
  LET Reserve(p) == Only(Tail(p), Range(p) \ {p[1]})
  IN {<<p[1]>> \o SubSeq(Reserve(p), 1, IF Len(Reserve(p)) < 2 THEN Len(Reserve(p)) ELSE 2) :
        p \in Proposals \ {<<>>}}

\* handleMeet: hubs, cities of the interests or the model's, but nobody's own.
MeetPools(from, want) ==
  LET tagged == CitiesByInterests(want, "rf", None, FALSE)
      listed == IF want # {} /\ tagged # <<>> THEN tagged ELSE Hubs
  IN {Cut(Only(p, Range(p) \ Range(from))) :
        p \in {listed} \cup (Proposals \ {<<>>})}

-----------------------------------------------------------------------------
(* Fares *)

\* Any known price beats an unknown one.
Cheaper(best, v) == IF v.fare > 0 /\ (best.fare <= 0 \/ v.fare < best.fare) THEN v ELSE best

\* cheapestLeg, one variant after the other.
Cheapest(variants) ==
  LET best[i \in 1..Len(variants)] ==
        IF i = 1 THEN variants[1] ELSE Cheaper(best[i - 1], variants[i])
  IN best[Len(variants)]

\* The leg keeps the answer it was chosen from, for the properties.
Leg(answer) == IF answer = <<>> THEN None
               ELSE [fare |-> Cheapest(answer).fare, from |-> answer]

\* Of the hotels after the first one only well rated ones are taken.
Better(best, h) ==
  IF h.fare > 0 /\ (best.fare = 0 \/ h.fare < best.fare) /\ h.liked THEN h ELSE best

Pick(hotels) ==
  LET best[i \in 1..Len(hotels)] ==
        IF i = 1 THEN hotels[1] ELSE Better(best[i - 1], hotels[i])
  IN best[Len(hotels)]

Stay(hotels) == IF hotels = <<>> THEN None
                ELSE [fare |-> Pick(hotels).fare, from |-> hotels]

Fare(part) == IF part = None THEN 0 ELSE part.fare

\* priceTrip, when its three searches have answered.
Trip(city, there, back, stay) ==
  [city |-> city, there |-> Leg(there), back |-> Leg(back), stay |-> Stay(stay),
   via |-> None, feeder |-> None, feederBack |-> None,
   total |-> Fare(Leg(there)) + Fare(Leg(back)) + Fare(Stay(stay))]

Complete(o) == o # None /\ o.there # None /\ o.back # None

\* Mutant of Relayed: the way to the hub is not paid for.
RelayedForFree(o, hub, f) ==
  [o EXCEPT !.via = hub, !.feeder = f.there, !.feederBack = f.back]

Relayed(o, hub, f) ==
  [o EXCEPT !.via = hub, !.feeder = f.there, !.feederBack = f.back,
            !.total = @ + f.there.fare + f.back.fare]

\* Of the variants in time, any known fare beats an unknown one.
CheaperInTime(best, v) ==
  IF ~v.late /\ (best < 0 \/ (v.fare > 0 /\ (best = 0 \/ v.fare < best))) THEN v.fare
  ELSE best

\* The cheapest arrival in time, -1 when there is none (RankVibeCities).
InTimeFare(answer) ==
  LET best[i \in 0..Len(answer)] ==
        IF i = 0 THEN -1 ELSE CheaperInTime(best[i - 1], answer[i])
  IN best[Len(answer)]

SumOf(s) == LET sum[i \in 0..Len(s)] == IF i = 0 THEN 0 ELSE sum[i - 1] + s[i]
          IN sum[Len(s)]

\* What gathering everyone in the city costs.
Gathered(city, answers) ==
  LET fares == [i \in DOMAIN answers |-> InTimeFare(answers[i])]
      come  == {i \in DOMAIN answers : fares[i] >= 0}
  IN [city |-> city, reachable |-> Cardinality(come), from |-> answers,
      total |-> SumOf([i \in DOMAIN answers |-> IF i \in come THEN fares[i] ELSE 0])]

\* Mutant of Ahead: the cheapest city, whoever gets there.
AheadByCost(o, p) == o.total < p.total

Ahead(o, p) == \/ o.reachable > p.reachable
               \/ o.reachable = p.reachable /\ o.total < p.total

-----------------------------------------------------------------------------
(* One request *)

Places == DOMAIN pool
Start  == request.from[1]
Hub    == HubOf[Start]

Init ==
  /\ request \in [kind : {"batch", "land"}, from : {<<s>> : s \in Starts},
                  want : {{}}, budget : Budgets]
       \cup [kind : {"meet", "vibe"}, from : Groups,
             want : SUBSET Interests, budget : {0}]
  /\ pool \in CASE request.kind = "batch" ->
                     UNION {BatchPools(Start, want) : want \in SUBSET Interests}
                [] request.kind = "land" -> LandPools
                [] request.kind = "meet" -> MeetPools(request.from, request.want)
                [] request.kind = "vibe" -> {Cut(p) : p \in Proposals}
  /\ stage = [i \in Places |-> "direct"]
  /\ options = [i \in Places |-> None]
  /\ feeders = [i \in Places |-> None]
  /\ reply = None

\* The goroutine of place i leaves o as its result and goes on.
Leaves(i, o, next) ==
  /\ options' = [options EXCEPT ![i] = o]
  /\ stage' = [stage EXCEPT ![i] = next]
  /\ UNCHANGED <<request, pool, reply>>

\* priceTrip from the start, or the whole of priceCityWithRelay when the city
\* can be reached directly or no relay is possible.
Direct(i) ==
  /\ stage[i] = "direct" /\ request.kind \in {"batch", "land"}
  /\ \E there, back \in Answers, stay \in Hotels :
       LET o == Trip(pool[i], there, back, stay)
       IN IF request.kind = "batch" \/ Complete(o) THEN Leaves(i, o, "done")
          ELSE Leaves(i, None, IF Hub \in {Start, pool[i]} THEN "done" ELSE "feed")
  /\ UNCHANGED feeders

\* Both ways between the start and the hub were found.
Live(f) == f.there # None /\ f.back # None

FeederPairs == [there : {Leg(a) : a \in Answers}, back : {Leg(a) : a \in Answers}]

\* priceCityWithRelay looks for its way to the hub.
Feed(i) ==
  /\ stage[i] = "feed"
  /\ \E f \in FeederPairs :
       IF Live(f) THEN /\ feeders' = [feeders EXCEPT ![i] = f]
                       /\ Leaves(i, None, "relay")
       ELSE Leaves(i, None, "done") /\ UNCHANGED feeders

\* priceTrip from the hub.
Relay(i) ==
  /\ stage[i] = "relay"
  /\ \E there, back \in Answers, stay \in Hotels :
       LET o == Trip(pool[i], there, back, stay)
       IN Leaves(i, IF Complete(o) THEN Relayed(o, Hub, feeders[i]) ELSE options[i],
                 "relayed")
  /\ UNCHANGED feeders

AllDone == \A i \in Places : stage[i] \in {"done", "relayed"}

Priced == Cardinality({i \in Places : Complete(options[i])})

\* Mutant of Stranded: every city is priced from the hub again.
StrandedAll(i) == pool[i] # Hub

\* Cities that are priced again from the hub.
Stranded(i) == ~Complete(options[i]) /\ pool[i] # Hub

\* handleRoulette tries the hub when fewer than two cities were priced.
FewPriced == Priced < 2 /\ Start # Hub

\* The batch has not looked for its way to the hub yet.
NotFed == \A i \in Places : stage[i] = "done"

TryHub ==
  /\ request.kind = "batch" /\ reply = None
  /\ NotFed /\ FewPriced
  /\ \E f \in FeederPairs :
       /\ feeders' = [i \in Places |-> f]
       /\ stage' = [i \in Places |-> IF Live(f) /\ Stranded(i) THEN "relay" ELSE "relayed"]
  /\ UNCHANGED <<request, pool, options, reply>>

\* RankVibeCities for one city: every guest's search has answered.
Weigh(i) ==
  /\ stage[i] = "direct" /\ request.kind \in {"meet", "vibe"}
  /\ \E answers \in [DOMAIN request.from -> Answers] :
       Leaves(i, Gathered(pool[i], answers), "done")
  /\ UNCHANGED feeders

InBudget(o) == request.budget <= 0 \/ o.total <= request.budget

Offered(o) == [option |-> o, inBudget |-> InBudget(o)]

\* The first city of the list that can be reached.
Landing(live) == <<Offered(live[1])>>

Reply ==
  /\ reply = None /\ AllDone
  /\ LET live == Only(options, {o \in Range(options) : Complete(o)})
     IN reply' = CASE request.kind = "batch" -> [i \in DOMAIN live |-> Offered(live[i])]
                   [] request.kind = "land" /\ live = <<>> -> <<>>
                   [] request.kind = "land" /\ live # <<>> -> Landing(live)
                   [] OTHER -> Sorted(options, {p \in Places \X Places :
                                                   Ahead(options[p[1]], options[p[2]])})
  /\ request.kind = "batch" => ~(NotFed /\ FewPriced)
  /\ UNCHANGED <<request, pool, stage, options, feeders>>

Place(i) == Direct(i) \/ Feed(i) \/ Relay(i) \/ Weigh(i)

Next == (\E i \in Places : Place(i)) \/ TryHub \/ Reply

Spec == Init /\ [][Next]_vars
=============================================================================
