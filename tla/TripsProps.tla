------------------------------ MODULE TripsProps -----------------------------
(***************************************************************************)
(* What the wheel and the search for a meeting place promise.               *)
(***************************************************************************)
EXTENDS Trips, FiniteSetsExt

ForTrips == request.kind \in {"batch", "land"}

\* The trips that are offered.
Offers == IF reply = None \/ ~ForTrips THEN {} ELSE Range(reply)

\* The lowest known fare of an answer, 0 when it names none.
Lowest(answer) ==
  LET known == {v.fare : v \in Range(answer)} \ {0}
  IN IF known = {} THEN 0 ELSE Min(known)

\* A hotel that is not well rated is taken only if it comes first.
LowestStay(hotels) ==
  LET known == {hotels[i].fare : i \in {i \in DOMAIN hotels : i = 1 \/ hotels[i].liked}} \ {0}
  IN IF known = {} THEN 0 ELSE Min(known)

\* An offered trip has a road both ways, and its price is the sum of the lowest
\* fares that its own searches named, the way to the hub and back included; the
\* budget is compared with that sum (priceTrip, cheapestLeg and the relays).
TotalIsHonest ==
  \A x \in Offers :
    LET o == x.option
        legs == {o.there, o.back}
        way  == {o.feeder, o.feederBack}
    IN /\ None \notin legs
       /\ o.via = None <=> way = {None}
       /\ o.via # None => None \notin way /\ o.via = Hub /\ Start # Hub /\ o.city # Hub
       /\ o.total = Lowest(o.there.from) + Lowest(o.back.from)
                    + (IF o.stay = None THEN 0 ELSE LowestStay(o.stay.from))
                    + (IF o.via = None THEN 0
                       ELSE Lowest(o.feeder.from) + Lowest(o.feederBack.from))
       /\ x.inBudget <=> (request.budget = 0 \/ request.budget >= o.total)

\* What the head of roulette.go says: only trips within the budget are drawn.  The
\* wheel does not land on a trip that is too dear when the city it had in reserve
\* could be reached within the budget (handleRoulettePrice prices all of them).
LandsInBudget ==
  request.kind = "land" /\ reply # None =>
    LET roads == {i \in Places : Complete(options[i])}
    IN (\E i \in roads : InBudget(options[i])) => \A x \in Range(reply) : x.inBudget

\* The places whose city has a road of its own.
Roads == {j \in Places : Complete(options[j]) /\ options[j].via = None}

TripsStay ==
  ForTrips => \A i \in Places :
    /\ Complete(options[i]) => options'[i] = options[i]
    /\ request.kind = "batch" /\ Complete(options'[i]) /\ options'[i].via # None
         => Cardinality(Roads) < 2

\* The hub is the last resort: a trip that was found directly is never exchanged
\* for one by the hub, and the batch offers the hub only where fewer than two
\* cities have a road of their own (the second pass of handleRoulette).
HubIsLastResort == [][TripsStay]_vars

\* The lowest known fare of what arrives in time, 0 when there is none.
LowestInTime(answer) ==
  LET known == {v.fare : v \in {v \in Range(answer) : ~v.late}} \ {0}
  IN IF known = {} THEN 0 ELSE Min(known)

\* What a city costs is the sum of the lowest fares that arrive in time, and of
\* two cities the one that more people reach comes first, then the cheaper one.
MostComeFirst ==
  LET Come(o) == {k \in DOMAIN o.from : \E v \in Range(o.from[k]) : ~v.late}
      Before(o, p) == \/ Cardinality(Come(o)) > Cardinality(Come(p))
                      \/ /\ Cardinality(Come(o)) = Cardinality(Come(p))
                         /\ o.total <= p.total
  IN ~ForTrips /\ reply # None =>
       /\ \A i \in DOMAIN reply :
            LET o == reply[i]
            IN o.total = SumOf([k \in DOMAIN o.from |-> LowestInTime(o.from[k])])
       /\ \A i, j \in DOMAIN reply : i < j => Before(reply[i], reply[j])

\* The list has nobody's own city, and where it is taken from the interests no
\* city is left out in favour of one that fits fewer of them.
BestFitsAreWeighed ==
  LET FitsOf(city) == Score(CHOOSE c \in Range(Table) : c.city = city, request.want)
      tagged   == CitiesByInterests(request.want, "rf", None, FALSE)
      asTagged == Cut(Only(tagged, Range(tagged) \ Range(request.from)))
      fitting  == {c.city : c \in {c \in Range(Table) :
                     ~c.abroad /\ Score(c, request.want) > 0}} \ Range(request.from)
  IN request.kind = "meet" =>
       /\ Range(pool) \cap Range(request.from) = {}
       /\ request.want # {} /\ pool = asTagged =>
            \A in \in Range(pool), out \in fitting \ Range(pool) :
              FitsOf(in) >= FitsOf(out)

\* Where to meet: the best fitting cities, by how many get there and for how much
\* (handleMeet, CitiesByInterests and RankVibeCities).
MeetsWhereMostCome == MostComeFirst /\ BestFitsAreWeighed
=============================================================================
