--------------------------- MODULE BoardPageProps ----------------------------
(***************************************************************************)
(* That link, card and hint go with the route they are shown beside, and    *)
(* where they do not.                                                       *)
(***************************************************************************)
EXTENDS BoardPage

\* The card a guest reads describes the route on the row, unless the wave, a
\* choice or a collapse has exchanged the route since the card was written:
\* planRow keeps a card for a route it did not change, and only for that.
CardTells ==
  \A g \in Guests :
    LET row == board.rows[g]
    IN row.chosen # NoOffer /\ row.card # row.chosen => row.moved

\* A hint names seats in the train that the match is about; when it does not,
\* both companions have changed trains since the rebuild that fetched it.
HintFits ==
  \A m \in board.comps : m.hint \notin {NoHint, m.on} => m.pair \subseteq board.shifted

Linked(row) == row.chosen \in Direct \/ row.link = row.chosen

\* A route the guest has chosen and that can be paid for gets its checkout link:
\* when Tutu answers for good, the row has the link again and again, unless the
\* pin has come off.  A plan with a change of trains may have neither a reference
\* nor a URL, and then stays without a link.
PickGetsLink ==
  \A g \in Guests :
    <>[](~board.rows[g].missed) =>
      []<>LET row == board.rows[g]
          IN row.pinned /\ row.chosen \in Payable => Linked(row)
=============================================================================
