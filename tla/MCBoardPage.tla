---------------------------- MODULE MCBoardPage ------------------------------
(***************************************************************************)
(* Two guests who may go by an early train or, rather, by a cheap one, an   *)
(* hour apart: the wave wants a guest of the early one on the cheap one.    *)
(* The link of the cheap one has to be asked for; the early one has neither *)
(* a link nor a reference to ask with.                                      *)
(***************************************************************************)
EXTENDS BoardPageProps, TLC

CONSTANTS a, b, early, cheap

MCTrain  == [o \in Offers |-> ToString(o)]
MCTrains == {ToString(o) : o \in Offers}
MCArrive == [o \in Offers |-> IF o = early THEN 1 ELSE 2]
MCRank   == [o \in Offers |-> IF o = early THEN 2 ELSE 1]
MCRoute  == [g \in Guests |-> Offers]
=============================================================================
