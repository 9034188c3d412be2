---------------------------- MODULE PlannerProps -----------------------------
(***************************************************************************)
(* What the row planned for a guest promises.                               *)
(***************************************************************************)
EXTENDS Planner

Fresh == stage = "wave" /\ row.chosen # NoOffer /\ ~kept

\* The row has the option the guest has picked, as long as it is sold, and else
\* one than which none in time is better for the profile; the budget per person
\* comes first, whatever the profile (rankOptions and the pin in PlanGuest).
HeldOrBest ==
  Fresh =>
    LET F == InTime(found)
    IN IF wish.pin \in {Key(o) : o \in F} THEN Key(row.chosen) = wish.pin
       ELSE /\ Over(row.chosen) => \A o \in F : Over(o)
            /\ \A o \in F : (Over(o) <=> Over(row.chosen)) =>
                 IF wish.faster THEN Takes[row.chosen] <= Takes[o]
                                ELSE Price[row.chosen] <= Price[o]

\* The options have different keys, and pickAlternatives gives the alternatives
\* that LiveBoard supposes: as many as there are, up to three, each another
\* vehicle.  As long as three are enough, every other mode that arrives in time
\* has an alternative of its own (addOption and pickAlternatives).
AlternativesAsSupposed ==
  LET F     == InTime(found)
      Modes == {Mode[o] : o \in F} \ {Mode[row.chosen]}
  IN /\ \A a, b \in found : Key(a) = Key(b) => a = b
     /\ Fresh => /\ row.alts \in Alternatives(F, row.chosen)
                 /\ Cardinality(Modes) <= 3 => Modes \subseteq {Mode[o] : o \in row.alts}

\* What the documents say of a failed search: the prior route is kept, a failure
\* of the network does not look as if the route had fallen apart.  Here the search
\* of the day has failed, and the row is as planRow hands it to the wave.
OutageIsNoCollapse ==
  stage = "wave" /\ wish.prior # NoOffer /\ down => row.chosen = wish.prior

\* Who is shown as assembled, also after the wave, is within the budget of the
\* party and has some slack, unless the wave has left none at all.
AssembledIsSafe ==
  stage = "done" /\ row.status = "assembled" =>
    /\ ~OverForAll(row.chosen)
    /\ Margin(row.chosen) >= RiskMargin \/ Margin(row.chosen) = 0
=============================================================================
