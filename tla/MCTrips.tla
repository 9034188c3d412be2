------------------------------- MODULE MCTrips -------------------------------
(***************************************************************************)
(* A small town that relays through the capital, four cities of which isle  *)
(* is abroad, and searches that answer nothing, a cheap fare that is late,   *)
(* or an unknown fare and a known one.                                      *)
(***************************************************************************)
EXTENDS TripsProps

CONSTANTS town, spa, isle, dale, capital

City(x, abroad, tags) == [city |-> x, abroad |-> abroad, visaFree |-> FALSE, tags |-> tags]

MCTable == <<City(spa, FALSE, {"swim"}), City(dale, FALSE, {"food"}),
             City(isle, TRUE, {"swim", "food"}), City(capital, FALSE, {"swim", "food"})>>
MCHubOf == [s \in {town, capital} |-> capital]
MCGroups == {<<s, t>> : s, t \in Starts}
MCHubs  == <<capital, spa>>
MCProposals == {<<>>, <<capital, spa>>, <<isle, isle, spa, capital>>}

Fares(x, xLate, y, yLate) == <<[fare |-> x, late |-> xLate], [fare |-> y, late |-> yLate]>>
MCAnswers == {<<>>, Fares(3, FALSE, 1, TRUE), Fares(0, FALSE, 2, FALSE)}

MCHotels == {<<>>, <<[fare |-> 0, liked |-> TRUE], [fare |-> 1, liked |-> FALSE],
                     [fare |-> 3, liked |-> TRUE], [fare |-> 2, liked |-> TRUE]>>}
=============================================================================
