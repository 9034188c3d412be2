------------------------------- MODULE Planner -------------------------------
(***************************************************************************)
(* One guest's way through a rebuild: Planner.PlanGuest merges two searches *)
(* and ranks what arrives in time, planRow compares the result with the     *)
(* prior row, the wave may exchange the route, reclassifyRisk flags what is *)
(* on the board in the end.  Guests has the one guest; nothing is bought.   *)
(*                                                                         *)
(* Times and prices are small numbers; Arrives is 0 where the search result *)
(* has no arrival.  A search may find any part of what the carrier sells,   *)
(* in any order: of two results with one key the map keeps the first.       *)
(***************************************************************************)
EXTENDS BoardRows, SequencesExt

CONSTANTS
  Day,         \* offers for the day of the event
  Night,       \* offers for the day before
  Transfers,   \* the offers that are interchange plans of trains
  Eve,         \* the offers that arrive the day before
  Mode,        \* [Offers -> anything]: RouteOption.Mode
  RailMode,    \* the mode of trains
  Departs,     \* [Offers -> anything]: DepartureAt
  Price,       \* [Offers -> Nat]: for the whole party
  Takes,       \* [Offers -> Nat]: DurationMin
  RiskMargin,  \* riskMarginMin: less slack than this is a risk
  Wishes       \* guests and events to plan for: their budget per person (0 is
               \* none), party, profile, pin and the prior row's options

\* event.OptionKey, and the key of addOption's map.
Key(o) == <<Vehicle[o], Departs[o]>>
Keys == {Key(o) : o \in Offers}
NoKey == <<>>

ASSUME PlannerAssumption ==
  /\ Day \cup Night \subseteq Offers /\ IsFiniteSet(Day \cup Night)
  /\ Transfers \subseteq Offers /\ \A o \in Transfers : Mode[o] = RailMode
  /\ \A a, b \in Offers : Vehicle[a] = Vehicle[b] => Mode[a] = Mode[b]
  /\ Price \in [Offers -> Nat] /\ Takes \in [Offers -> Nat]
  /\ RiskMargin \in Nat
  /\ Wishes \subseteq [budget : Nat, party : Nat \ {0}, faster : BOOLEAN,
                       pin : Keys \cup {NoKey}, prior : Offers \cup {NoOffer},
                       alts : SUBSET Offers]
  /\ \A w \in Wishes :  \* LiveBoard: InTime
       \A o \in w.alts \cup ({w.prior} \ {NoOffer}) : Arrives[o] <= Deadline

VARIABLES
  wish,   \* what the row is planned for
  stage,  \* "day", "night", "plan", "wave", "flag", "done"
  found,  \* the values of the options map
  down,   \* multiErr # nil
  row,    \* the row of the guest
  kept    \* the prior row was carried

planVars == <<wish, stage, found, down, row, kept>>

Status == {"planning", "needs_help", "assembled", "reassembled", "risk"}

Blank(status) == [status |-> status, chosen |-> NoOffer, alts |-> {},
                  pinned |-> FALSE, purchased |-> FALSE]

\* A prior row, assembled onto a route with its alternatives.
Prior == [Blank("assembled") EXCEPT !.chosen = wish.prior, !.alts = wish.alts]

PlanInit ==
  /\ wish \in Wishes
  /\ stage = "day" /\ found = {} /\ down = FALSE
  /\ row = Blank("planning") /\ kept = FALSE

-----------------------------------------------------------------------------
(* The searches *)

\* addOption for one result after the other, in any order.
Added(have, results) ==
  LET New == {o \in results : \A h \in have : Key(h) # Key(o)}
  IN {have \cup pick :
        pick \in {P \in SUBSET New : \A k \in {Key(o) : o \in New} :
                    Cardinality({o \in P : Key(o) = k}) = 1}}

\* Plans with a change of trains are taken when the day has no direct train.
DayResults(answer) ==
  IF \E o \in answer \ Transfers : Mode[o] = RailMode THEN answer \ Transfers ELSE answer

\* Trains of the night before count if they arrive on the day of the event.
NightResults(answer) == {o \in answer : Arrives[o] # 0 /\ o \notin Eve}

SearchDay ==
  /\ stage = "day" /\ stage' = "night"
  /\ \/ /\ \E answer \in SUBSET Day : found' \in Added(found, DayResults(answer))
        /\ UNCHANGED down
     \/ down' = TRUE /\ UNCHANGED found
  /\ UNCHANGED <<wish, row, kept>>

SearchNight ==
  /\ stage = "night" /\ stage' = "plan"
  /\ \/ \E answer \in SUBSET Night : found' \in Added(found, NightResults(answer))
     \/ UNCHANGED found
  /\ UNCHANGED <<wish, down, row, kept>>

-----------------------------------------------------------------------------
(* rankOptions and pickAlternatives *)

InTime(F) == {o \in F : Arrives[o] # 0 /\ Arrives[o] <= Deadline}

Over(o) == wish.budget > 0 /\ Price[o] > wish.budget

Measure(o) == IF wish.faster THEN <<Takes[o], Price[o]>> ELSE <<Price[o], Takes[o]>>

\* Mutant of Ahead: the budget does not count.
AheadByMeasure(a, b) ==
  \/ Measure(a)[1] < Measure(b)[1]
  \/ Measure(a)[1] = Measure(b)[1] /\ Measure(a)[2] < Measure(b)[2]

Ahead(a, b) ==
  \/ ~Over(a) /\ Over(b)
  \/ /\ Over(a) = Over(b)
     /\ \/ Measure(a)[1] < Measure(b)[1]
        \/ Measure(a)[1] = Measure(b)[1] /\ Measure(a)[2] < Measure(b)[2]

\* A stable sort of a map's values: equal options come in any order.
Ranked(F) == {s \in SetToSeqs(F) :
                \A i, j \in DOMAIN s : i < j => ~Ahead(s[j], s[i])}

\* The k smallest of the positions I.
Foremost(k, I) == {i \in I : Cardinality({j \in I : j < i}) < k}

\* Positions of the first option of every mode other than c's, at most three.
OneOfEachMode(s, c) ==
  Foremost(3, {i \in DOMAIN s : /\ Mode[s[i]] # Mode[c]
                                /\ \A j \in 1..(i - 1) : Mode[s[j]] # Mode[s[i]]})

\* Mutant of OneOfEachOther: what was taken for its mode is taken again.
OneOfEachAgain(s, c, taken) ==
  {i \in DOMAIN s : Vehicle[s[i]] # Vehicle[c]}

\* Positions of the first option of every vehicle not taken yet, nor c's.
OneOfEachOther(s, c, taken) ==
  {i \in DOMAIN s : /\ Vehicle[s[i]] # Vehicle[c]
                    /\ \A j \in taken \cup 1..(i - 1) : Vehicle[s[j]] # Vehicle[s[i]]}

\* Up to three alternatives; the second loop fills up with the modes taken.
PickAlternatives(s, c) ==
  LET taken == OneOfEachMode(s, c)
      more  == Foremost(3 - Cardinality(taken), OneOfEachOther(s, c, taken))
  IN {s[i] : i \in taken \cup more}

-----------------------------------------------------------------------------
(* PlanGuest's result and planRow *)

Margin(o) == Deadline - Arrives[o]
OverForAll(o) == wish.budget > 0 /\ Price[o] > wish.budget * wish.party

\* The planner's status, which planRow corrects when the route has changed.
StatusOf(c, lost) ==
  IF OverForAll(c) \/ Margin(c) < RiskMargin THEN "risk"
  ELSE IF lost \/ wish.prior \notin {NoOffer, c} THEN "reassembled" ELSE "assembled"

\* The row planned from the options F, found in the order of s.
Planned(F, s) ==
  LET held == {o \in F : Key(o) = wish.pin}
      c    == IF held # {} THEN CHOOSE o \in held : TRUE ELSE s[1]
  IN [status |-> StatusOf(c, wish.pin # NoKey /\ held = {}), chosen |-> c,
      alts |-> PickAlternatives(s, c), pinned |-> held # {}, purchased |-> FALSE]

\* Nothing was found because nothing could be looked at.
Blind == found = {} /\ down

Plan ==
  /\ stage = "plan" /\ stage' = "wave"
  /\ \/ /\ Blind
        /\ kept' = (wish.prior # NoOffer)
        /\ row' = IF wish.prior # NoOffer THEN Prior ELSE Blank("needs_help")
     \/ /\ ~Blind /\ InTime(found) = {}
        /\ row' = Blank("needs_help") /\ UNCHANGED kept
     \/ /\ ~Blind /\ InTime(found) # {}
        /\ \E s \in Ranked(InTime(found)) : row' = Planned(InTime(found), s)
        /\ UNCHANGED kept
  /\ UNCHANGED <<wish, found, down>>

-----------------------------------------------------------------------------
(* The end of BuildBoard *)

\* wave.Apply, for a row among others.
Waved ==
  /\ stage = "wave" /\ stage' = "flag"
  /\ row' \in Moved(row)
  /\ UNCHANGED <<wish, found, down, kept>>

\* Mutant of AtRisk: only the budget is looked at again.
AtRiskOver(o) == OverForAll(o)

\* No slack at all is not called tight here, as it is in StatusOf.
AtRisk(o) == OverForAll(o) \/ (Margin(o) > 0 /\ Margin(o) < RiskMargin)

\* reclassifyRisk
Flag ==
  /\ stage = "flag" /\ stage' = "done"
  /\ row' = IF row.status = "assembled" /\ AtRisk(row.chosen)
            THEN [row EXCEPT !.status = "risk"] ELSE row
  /\ UNCHANGED <<wish, found, down, kept>>

PlanNext == SearchDay \/ SearchNight \/ Plan \/ Waved \/ Flag

PlanSpec == PlanInit /\ [][PlanNext]_planVars
=============================================================================
