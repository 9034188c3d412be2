------------------------------ MODULE BoardPage ------------------------------
(***************************************************************************)
(* What a board tells about a route beside the route: the checkout link,    *)
(* the guest's card and the seats next to a companion.  Each is fetched by  *)
(* a rebuild for the route a guest has at that moment; the wave, a choice   *)
(* and a collapse exchange routes afterwards.                               *)
(*                                                                         *)
(* The races of handlers with each other are LiveBoard's: here a handler is *)
(* one step, a rebuild reads (Start) and later publishes (Publish), and one *)
(* rebuild runs at a time.  Nobody buys: a bought row is frozen as it is.   *)
(* Every guest looks for companions; an option is its own key, and what the *)
(* carriers sell may differ with every rebuild.                             *)
(***************************************************************************)
EXTENDS BoardRows, Functions

CONSTANTS
  Route,   \* [Guests -> SUBSET Offers]: offers from the guest's city
  Rank,    \* [Offers -> Nat]: the order of rankOptions, smaller is better
  Direct,  \* the offers whose search result has a URL already
  Payable, \* the offers whose search result has a CheckoutRef
  Rail,    \* the vehicles that are trains
  NoHint,  \* the empty SeatHint
  Late,    \* the guests who may choose, once, while a rebuild runs
  Faults   \* the guests for whom calls to Tutu may fail

ASSUME PageAssumption ==
  /\ Route \in [Guests -> SUBSET Offers]
  /\ Rank \in [Offers -> Nat]
  /\ Direct \subseteq Offers /\ Payable \subseteq Offers
  /\ Late \subseteq Guests /\ Faults \subseteq Guests
  /\ NoHint \notin {Vehicle[o] : o \in Offers}

MaxPairs == 3

VARIABLES
  pins,     \* Guest.PinnedKey of every guest
  board,    \* the published board
  build,    \* the rebuild in progress: what it has read
  late      \* a guest has chosen since the rebuild in progress began

vars == <<pins, board, build, late>>

Options == Offers \cup {NoOffer}
Vehicles == {Vehicle[o] : o \in Offers}

\* link is the option of the row whose CheckoutURL was resolved.  History: moved,
\* the route was exchanged after the card was written; missed, the rebuild got no
\* answer to its search or to its call for the link.
Row == [chosen : Options, alts : SUBSET Offers, pinned : BOOLEAN,
        purchased : {FALSE}, link : Options, card : Options, moved : BOOLEAN,
        missed : BOOLEAN]

Match == [pair : SUBSET Guests, on : Vehicles, hint : Vehicles \cup {NoHint}]

\* shifted is history: the guests who got another route since the rebuild.
Board == [rows : [Guests -> Row], comps : SUBSET Match, shifted : SUBSET Guests]

Blank == [chosen |-> NoOffer, alts |-> {}, pinned |-> FALSE, purchased |-> FALSE,
          link |-> NoOffer, card |-> NoOffer, moved |-> FALSE,
          missed |-> FALSE]

EmptyBoard == [rows |-> [g \in Guests |-> Blank], comps |-> {}, shifted |-> {}]

NoPins == [g \in Guests |-> NoOffer]

IdleBuild == [on |-> FALSE, pins |-> NoPins, prior |-> EmptyBoard.rows]

Init ==
  /\ pins = NoPins
  /\ board = EmptyBoard
  /\ build = IdleBuild
  /\ late = FALSE

-----------------------------------------------------------------------------
(* planRow *)

\* Mutant of Card: any card of the row will do.
CardOnceWritten(was, c) == IF was.card # NoOffer THEN was.card ELSE c

\* The prior card serves again when the route is the prior one.
Card(was, c) == IF was.chosen = c /\ was.card # NoOffer THEN was.card ELSE c

\* resolveCheckout asks for the link of an offer that has a reference and no URL.
Asks == Payable \ Direct

\* Mutant of Link: the link is asked for with the first plan only.
LinkAtFirst(was, c, answers) ==
  IF c \in Asks /\ answers /\ was.chosen = NoOffer THEN c ELSE NoOffer

\* The option whose link the row has, if it is asked for and there is an answer.
Link(was, c, answers) == IF c \in Asks /\ answers THEN c ELSE NoOffer

Best(found) == {o \in found : \A p \in found : Rank[o] <= Rank[p]}

Planned(pin, was, c, A, answers) ==
  [chosen |-> c, alts |-> A, pinned |-> c = pin, purchased |-> FALSE,
   link |-> Link(was, c, answers), card |-> Card(was, c),
   moved |-> was.moved /\ Card(was, c) # c,
   missed |-> c \in Asks /\ ~answers]

\* The rows that a search with these results may give.
Plans(pin, was, found, answers) ==
  LET F    == {o \in found : Arrives[o] <= Deadline}
      pick == IF pin \in F THEN {pin} ELSE Best(F)
  IN IF F = {} THEN {Blank}
     ELSE UNION {{Planned(pin, was, c, A, answers) : A \in Alternatives(F, c)}
                   : c \in pick}

\* The rows that a rebuild may plan for g.  For a guest in deaf the search fails,
\* and the row is carried if there is one, or the call for the link does.
Rows(g, sold, deaf) ==
  LET was   == build.prior[g]
      Found == Plans(build.pins[g], was, Route[g] \cap sold, g \notin deaf)
  IN IF g \in deaf THEN {[was EXCEPT !.missed = TRUE]} \cup Found ELSE Found

-----------------------------------------------------------------------------
(* Companions *)

Riding(rows, g) == IF rows[g].chosen = NoOffer THEN NoHint ELSE Vehicle[rows[g].chosen]

Shared(rows, g, h) ==
  g # h /\ Riding(rows, g) # NoHint /\ Riding(rows, g) = Riding(rows, h)

\* companions.Find for guests who all look for company.
Matches(rows) ==
  {[pair |-> {p[1], p[2]}, on |-> Riding(rows, p[1]), hint |-> NoHint] :
     p \in {q \in Guests \X Guests : Shared(rows, q[1], q[2])}}

\* handleGuestConsent keeps the hint that a pair had.
Kept(comps) ==
  LET Old(m) == {n \in board.comps : n.pair = m.pair}
  IN {[m EXCEPT !.hint = IF Old(m) = {} THEN NoHint ELSE (CHOOSE n \in Old(m) : TRUE).hint]
        : m \in comps}

\* Mutant of Hinted: a pair that had a hint keeps it.
HintedOnce(comps) == {Kept(comps), {[m EXCEPT !.hint = m.on] : m \in comps}}

\* attachSeatHints: some of the pairs on a train get a hint, at most MaxPairs.
Hinted(comps) ==
  {{IF m \in asked THEN [m EXCEPT !.hint = m.on] ELSE m : m \in comps} :
     asked \in {A \in SUBSET {m \in comps : m.on \in Rail} : Cardinality(A) <= MaxPairs}}

-----------------------------------------------------------------------------
(* Rebuilds *)

\* The goroutine of kickRebuild, or a tick of the recheck loop: at any time.
Start ==
  /\ ~build.on
  /\ build' = [on |-> TRUE, pins |-> pins, prior |-> board.rows]
  /\ UNCHANGED <<pins, board, late>>

\* A row the wave has moved keeps its card, and the link of the route it had.
Waved(row, planned) == [row EXCEPT !.moved = @ \/ row.chosen # planned.chosen]

\* BuildBoard's end: wave, companions, hints; then BuildAndStore drops the pins
\* that the rows do not hold.
Publish(deaf) ==
  /\ build.on
  /\ \E sold \in SUBSET Offers :
       LET may == [g \in Guests |-> Rows(g, sold, deaf)]
       IN \E planned \in {f \in [Guests -> UNION Range(may)] :
                            \A g \in Guests : f[g] \in may[g]} :
          \E waved \in Waves(planned) :
            LET rows  == [g \in Guests |-> Waved(waved[g], planned[g])]
                stale == {g \in Guests : build.pins[g] # NoOffer /\ ~rows[g].pinned}
            IN /\ \E comps \in Hinted(Matches(rows)) :
                    board' = [rows |-> rows, comps |-> comps, shifted |-> {}]
               /\ pins' = [g \in Guests |-> IF g \in stale THEN NoOffer ELSE pins[g]]
  /\ build' = IdleBuild
  /\ late' = FALSE

-----------------------------------------------------------------------------
(* Requests *)

\* The row with o as its route: link and card stay as they are.
Renewed(row, o) == [Swap(row, o) EXCEPT !.moved = @ \/ o # row.chosen]

\* The board on which g rides o from now on.
Exchanged(g, o) ==
  [board EXCEPT !.rows[g] = Renewed(@, o),
                !.shifted = IF o = board.rows[g].chosen THEN @ ELSE @ \cup {g}]

Choose(g, o) ==
  /\ build.on => g \in Late /\ ~late
  /\ late' = build.on
  /\ o \in board.rows[g].alts \cup ({board.rows[g].chosen} \ {NoOffer})
  /\ pins' = [pins EXCEPT ![g] = o]
  /\ board' = [Exchanged(g, o) EXCEPT !.rows[g].pinned = TRUE]
  /\ UNCHANGED build

\* What this and the next handler do during a rebuild is undone by its end.
Consent ==
  /\ ~build.on
  /\ board' = [board EXCEPT !.comps = Kept(Matches(board.rows))]
  /\ UNCHANGED <<pins, build, late>>

\* handleDemoCollapse takes the first alternative, which may be any.
Collapse(g, o) ==
  /\ ~build.on
  /\ board.rows[g].chosen # NoOffer
  /\ o \in board.rows[g].alts
  /\ board' = Exchanged(g, o)
  /\ UNCHANGED <<pins, build, late>>

Rebuild == Start \/ \E deaf \in SUBSET Faults : Publish(deaf)

Next ==
  \/ Rebuild
  \/ Consent
  \/ \E g \in Guests, o \in Offers : Choose(g, o) \/ Collapse(g, o)

Spec == Init /\ [][Next]_vars

\* Rebuilds end by their timeout, and the recheck loop goes on ticking.  A step of
\* Rebuild is always enabled, so this is its weak fairness, in terms of states.
FairSpec == Spec /\ []<>build.on /\ []<>~build.on
=============================================================================
