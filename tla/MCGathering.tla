----------------------------- MODULE MCGathering -----------------------------
(***************************************************************************)
(* A small instance of Gathering: ann is invited, the others come by link,  *)
(* form or words, one of them without a name.  The clock may pass the hours *)
(* of the first day; the second day stays ahead.                            *)
(***************************************************************************)
EXTENDS GatheringProps, TLC

CONSTANTS ann, guest, blank,  \* guest is what blank becomes
          cheap, fast, ufa, perm

MCNamed == [w \in Persons |-> IF w = blank THEN guest ELSE w]

MCGatherAt == [t \in Dates \X Hours |-> (t[1] - 1) * Horizon + t[2]]

\* Move, put off, name the hour, bring someone with or without a name, change a trip.
MCAsks == {[NoDraft EXCEPT !.place = perm], [NoDraft EXCEPT !.date = 2],
           [NoDraft EXCEPT !.hour = 1],
           [NoDraft EXCEPT !.guests = <<[who |-> blank, trip |-> cheap]>>],
           [NoDraft EXCEPT !.guests = <<[who |-> guest, trip |-> cheap]>>],
           [NoDraft EXCEPT !.guests = <<[who |-> ann, trip |-> fast]>>]}

MCStarts ==
  {[place |-> ufa, date |-> d, hour |-> 1, guests |-> <<NewGuest(ann, cheap, "host")>>] :
     d \in {1, None}}
=============================================================================
