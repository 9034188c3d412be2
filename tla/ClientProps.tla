----------------------------- MODULE ClientProps -----------------------------
(***************************************************************************)
(* What mcp.Client promises to the goroutines that call it and to the       *)
(* server behind it.                                                        *)
(***************************************************************************)
EXTENDS Client

Points == {"idle", "join", "follow", "allow", "gate", "space", "wire", "report",
           "backoff", "close", "delete", "save", "done"}

Caller == [pc : Points, key : Keys, fresh : BOOLEAN, alive : BOOLEAN,
           tries : 0..Retries, res : Results, req : Nat, old : SUBSET Nat]

\* Every variable keeps its type, the gate its capacity, and the failures that
\* brFails counts stay below the threshold.
TypeOK ==
  /\ callers \in [Callers -> Caller]
  /\ flight \in [Keys -> [busy : BOOLEAN, res : Results, req : Nat]]
  /\ cache \in [Keys -> Nat]
  /\ slots \in 0..Slots
  /\ fails \in 0..(Threshold - 1)
  /\ open \in BOOLEAN
  /\ answered \in Nat /\ begun \in 0..MaxCalls
  /\ returned \subseteq Nat
  /\ storm \in [Callers -> Nat]

\* A call that leads a flight which has not been removed from the map.
Leads(c) == callers[c].pc \in {"allow", "gate", "space", "wire", "report",
                               "backoff", "close", "delete"}

\* Identical calls that overlap collapse into one: whatever fails, retries or
\* is cut off, no two goroutines lead a flight for one key.
OneFlightPerKey ==
  \A c, d \in Callers : Leads(c) /\ Leads(d) /\ callers[c].key = callers[d].key => c = d

\* The slots in use are those of the requests on their way: no outcome and no
\* end of a context loses a slot or gives one back twice.
SlotsAccounted == slots = Cardinality({c \in Callers : callers[c].pc \in {"space", "wire"}})

\* A fresh call never returns what any call, leading or following, had returned
\* before it began, but for one case: a flight that had landed by then and was
\* still in the map, which the code lets it join.
FreshIsLive ==
  \A c \in Callers : At(c, "done") /\ callers[c].fresh /\ callers[c].res = "ok"
    => callers[c].req \notin callers[c].old

\* While the circuit is open each goroutine sends at most the one request for
\* which it had been let through before: no retries reach a refusing server.
NoRetryStorm == open => \A c \in Callers : storm[c] <= 1

\* Every call returns, if its own context ends or not: the flight of a leader
\* that is cut off or refused never strands those who wait for it.
EveryCallReturns == \A c \in Callers : ~At(c, "idle") ~> At(c, "idle")
=============================================================================
