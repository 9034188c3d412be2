------------------------------ MODULE MCPlanner ------------------------------
(***************************************************************************)
(* A party of one or two that may go by a train t sold at two prices, by a  *)
(* change of trains, by plane, by a bus that arrives just in time or by a   *)
(* coach, or by a night train; one train is too late.                       *)
(***************************************************************************)
EXTENDS PlannerProps, TLC

CONSTANTS g, t, tdear, change, plane, bus, coach, night, eve, late

MCVehicle == [o \in Offers |-> IF o = tdear THEN "t" ELSE ToString(o)]
MCMode    == [o \in Offers |-> CASE o = plane -> "avia" [] o = bus -> "bus"
                                 [] o = coach -> "etrain" [] OTHER -> "railway"]
MCDeparts == [o \in Offers |-> 0]
MCArrives == (t :> 4 @@ tdear :> 4 @@ change :> 7 @@ plane :> 5 @@ bus :> 8
              @@ coach :> 3 @@ night :> 2 @@ eve :> 1 @@ late :> 9)
MCPrice   == (t :> 2 @@ tdear :> 3 @@ change :> 1 @@ plane :> 4 @@ bus :> 1
              @@ coach :> 2 @@ night :> 2 @@ eve :> 1 @@ late :> 1)
MCTakes   == (t :> 3 @@ tdear :> 3 @@ change :> 5 @@ plane :> 1 @@ bus :> 4
              @@ coach :> 2 @@ night :> 6 @@ eve :> 1 @@ late :> 1)

MCWishes == [budget : {0, 1, 2}, party : {1, 2}, faster : BOOLEAN,
             pin : {NoKey, Key(t), Key(plane)}, prior : {NoOffer, t, bus}, alts : {{}}]
          \cup [budget : {0, 2}, party : {1, 2}, faster : {FALSE}, pin : {NoKey},
                prior : {t}, alts : {{plane, bus}}]
=============================================================================
