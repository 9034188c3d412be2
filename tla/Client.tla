------------------------------- MODULE Client -------------------------------
(***************************************************************************)
(* mcp.Client: every goroutine that searches runs CallTool.  Identical      *)
(* calls that overlap share one flight; the call that leads a flight makes  *)
(* up to Retries + 1 requests, each of which passes the circuit breaker,    *)
(* waits for a slot of the politeness gate and for the spacing, and is then *)
(* on the wire.  A caller's context may end at any time, and is noticed at  *)
(* the waits.  Time is abstract: entries expire and the circuit cools down  *)
(* whenever they like, and the wait for the spacing takes any time.         *)
(*                                                                         *)
(* Payloads are numbered as requests bring them, and the cache and the      *)
(* callers hold the number of the payload they have.                        *)
(***************************************************************************)
EXTENDS Naturals, FiniteSets

CONSTANTS
  Callers,    \* goroutines
  Keys,       \* cacheKey values: a tool with its arguments
  Asks,       \* the searches that are made: a key, and whether it must be fresh
  Retries,    \* retries after the first request
  Slots,      \* capacity of the politeness gate
  Threshold,  \* brThreshold: failures that open the circuit
  MaxCalls    \* bound on the number of calls

ASSUME ClientAssumption ==
  /\ IsFiniteSet(Callers) /\ Keys # {} /\ Asks \subseteq Keys \X BOOLEAN
  /\ Retries \in Nat /\ MaxCalls \in Nat
  /\ Slots \in Nat \ {0} /\ Threshold \in Nat \ {0}

VARIABLES
  callers,  \* where each goroutine is in CallTool, and its context
  flight,   \* Client.flight: the calls in progress by key
  cache,    \* Client.cache: the payload that is stored, 0 for none
  slots,    \* slots of Client.gate in use
  fails,    \* Client.brFails
  open,     \* brOpenUntil is in the future
  answered, \* payloads that requests have brought so far
  begun,    \* calls begun so far
  returned, \* history: the payloads that calls have returned
  storm     \* history: each caller's requests since the circuit opened

vars == <<callers, flight, cache, slots, fails, open, answered, begun, returned,
          storm>>

gate    == <<slots, answered>>
breaker == <<fails, open>>
history == <<returned, storm>>

\* The result of a call: not known yet, a payload or an error.
Results == {"none", "ok", "failed", "error"}

Idle == [pc |-> "idle", key |-> CHOOSE k \in Keys : TRUE, fresh |-> FALSE,
         alive |-> TRUE, tries |-> 0, res |-> "none", req |-> 0, old |-> {}]

NoFlight == [busy |-> FALSE, res |-> "none", req |-> 0]

Init ==
  /\ callers = [c \in Callers |-> Idle]
  /\ flight = [k \in Keys |-> NoFlight]
  /\ cache = [k \in Keys |-> 0]
  /\ slots = 0 /\ fails = 0 /\ open = FALSE /\ answered = 0 /\ begun = 0
  /\ returned = {} /\ storm = [c \in Callers |-> 0]

At(c, pc) == callers[c].pc = pc

Goto(c, pc) == callers' = [callers EXCEPT ![c].pc = pc]

\* The caller has its result and goes on at pc.
With(c, pc, res, req) ==
  callers' = [callers EXCEPT ![c].pc = pc, ![c].res = res, ![c].req = req]

\* ctx.Done() wins a select: the call goes on at pc with the context's error.
Quit(c, pc) == ~callers[c].alive /\ With(c, pc, "error", 0)

-----------------------------------------------------------------------------
(* CallTool up to the flight *)

\* Mutant of Hit: noCache is ignored.
HitAlways(k, fresh) == cache[k] # 0

Hit(k, fresh) == ~fresh /\ cache[k] # 0

\* The call looks into the cache unless it must be fresh.  A fresh call knows what
\* calls had returned before it, but for a landed flight still in the map.
Begin(c, k, fresh) ==
  /\ At(c, "idle") /\ begun < MaxCalls
  /\ begun' = begun + 1
  /\ callers' = [callers EXCEPT ![c] =
       [Idle EXCEPT !.pc  = IF Hit(k, fresh) THEN "done" ELSE "join",
                    !.res = IF Hit(k, fresh) THEN "ok" ELSE "none",
                    !.req = IF Hit(k, fresh) THEN cache[k] ELSE 0,
                    !.key = k, !.fresh = fresh,
                    !.old = IF fresh THEN returned \ {flight[k].req} ELSE {}]]
  /\ UNCHANGED <<flight, cache, gate, breaker, history>>

\* Mutant of Grounded: an entry of the flight map is not looked at.
GroundedAlways(k) == TRUE

Grounded(k) == ~flight[k].busy

\* No flight for the key: the call leads one.
Lead(c) ==
  /\ At(c, "join") /\ Grounded(callers[c].key)
  /\ flight' = [flight EXCEPT ![callers[c].key] = [NoFlight EXCEPT !.busy = TRUE]]
  /\ Goto(c, "allow")
  /\ UNCHANGED <<cache, gate, breaker, begun, history>>

\* A flight for the key, landed or not: the call waits for it.
Follow(c) ==
  /\ At(c, "join") /\ flight[callers[c].key].busy
  /\ LET f == flight[callers[c].key] IN With(c, "follow", f.res, f.req)
  /\ UNCHANGED <<flight, cache, gate, breaker, begun, history>>

FollowEnds(c) ==
  /\ At(c, "follow")
  /\ \/ callers[c].res # "none" /\ Goto(c, "done")
     \/ Quit(c, "done")
  /\ UNCHANGED <<flight, cache, gate, breaker, begun, history>>

-----------------------------------------------------------------------------
(* doWithRetry, polite, doOnce *)

\* breakerAllow: with the circuit open the call fails at once.
Allow(c) ==
  /\ At(c, "allow")
  /\ IF open THEN With(c, "close", "error", 0) ELSE Goto(c, "gate")
  /\ UNCHANGED <<flight, cache, gate, breaker, begun, history>>

Gate(c) ==
  /\ At(c, "gate")
  /\ \/ slots < Slots /\ slots' = slots + 1 /\ Goto(c, "space")
     \/ Quit(c, "close") /\ UNCHANGED slots
  /\ UNCHANGED <<flight, cache, answered, breaker, begun, history>>

Send(c) ==
  /\ At(c, "space")
  /\ storm' = [storm EXCEPT ![c] = IF open THEN @ + 1 ELSE 0]
  /\ Goto(c, "wire")
  /\ UNCHANGED <<flight, cache, gate, breaker, begun, returned>>

\* Mutant of SpaceQuit: the slot is not given back.
SpaceQuitKeeps(c) ==
  /\ At(c, "space") /\ Quit(c, "close")
  /\ UNCHANGED <<flight, cache, gate, breaker, begun, history>>

\* The context ends during the wait for the spacing: the slot is given back.
SpaceQuit(c) ==
  /\ At(c, "space") /\ Quit(c, "close")
  /\ slots' = slots - 1
  /\ UNCHANGED <<flight, cache, answered, breaker, begun, history>>

\* The server answers with a payload or refuses (4xx, RPC or tool error), or
\* the transport fails (5xx, no connection, the HTTP timeout).
Answer(c) ==
  /\ At(c, "wire")
  /\ slots' = slots - 1
  /\ \/ With(c, "report", "ok", answered + 1) /\ answered' = answered + 1
     \/ With(c, "close", "error", 0) /\ UNCHANGED answered
     \/ With(c, "report", "failed", 0) /\ UNCHANGED answered
  /\ UNCHANGED <<flight, cache, breaker, begun, history>>

\* The request is cut off by the caller's own context: no fault of the server.
Cancelled(c) ==
  /\ At(c, "wire") /\ Quit(c, "close")
  /\ slots' = slots - 1
  /\ UNCHANGED <<flight, cache, answered, breaker, begun, history>>

\* breakerReport(true)
ReportSuccess(c) ==
  /\ At(c, "report") /\ callers[c].res = "ok"
  /\ fails' = 0 /\ open' = FALSE
  /\ Goto(c, "close")
  /\ UNCHANGED <<flight, cache, gate, begun, history>>

Trips == fails + 1 >= Threshold

\* Mutant of Again: the loop checks the circuit only once.
AgainUnchecked == "gate"

\* The step of doWithRetry's loop after a backoff.
Again == "allow"

\* breakerReport(false), then a backoff or the end of the retries.
ReportFailure(c) ==
  /\ At(c, "report") /\ callers[c].res = "failed"
  /\ fails' = IF Trips THEN 0 ELSE fails + 1
  /\ open' = (open \/ Trips)
  /\ storm' = IF Trips /\ ~open THEN [d \in Callers |-> 0] ELSE storm
  /\ IF callers[c].tries < Retries
     THEN callers' = [callers EXCEPT ![c].pc = "backoff", ![c].res = "none",
                                     ![c].tries = @ + 1]
     ELSE With(c, "close", "error", 0)
  /\ UNCHANGED <<flight, cache, gate, begun, returned>>

Backoff(c) ==
  /\ At(c, "backoff")
  /\ Goto(c, Again) \/ Quit(c, "close")
  /\ UNCHANGED <<flight, cache, gate, breaker, begun, history>>

-----------------------------------------------------------------------------
(* CallTool after the flight *)

\* Mutant of Landed: the done channel is not closed.
LandedSilently(c) == [callers EXCEPT ![c].pc = "delete"]

\* close(done): all followers of the flight have its result.  One that waits for
\* an earlier flight has that flight's.
Landed(c) ==
  [d \in Callers |->
     IF d = c THEN [callers[c] EXCEPT !.pc = "delete"]
     ELSE IF At(d, "follow") /\ callers[d].res = "none" /\ callers[d].key = callers[c].key
          THEN [callers[d] EXCEPT !.res = callers[c].res, !.req = callers[c].req]
          ELSE callers[d]]

Close(c) ==
  /\ At(c, "close")
  /\ flight' = [flight EXCEPT ![callers[c].key] =
                  [busy |-> TRUE, res |-> callers[c].res, req |-> callers[c].req]]
  /\ callers' = Landed(c)
  /\ UNCHANGED <<cache, gate, breaker, begun, history>>

\* The result is stored after the flight is removed, and only if it may be.
Delete(c) ==
  /\ At(c, "delete")
  /\ flight' = [flight EXCEPT ![callers[c].key] = NoFlight]
  /\ IF callers[c].res = "ok" /\ ~callers[c].fresh
     THEN Goto(c, "save") ELSE Goto(c, "done")
  /\ UNCHANGED <<cache, gate, breaker, begun, history>>

Save(c) ==
  /\ At(c, "save")
  /\ cache' = [cache EXCEPT ![callers[c].key] = callers[c].req]
  /\ Goto(c, "done")
  /\ UNCHANGED <<flight, gate, breaker, begun, history>>

Return(c) ==
  /\ At(c, "done")
  /\ callers' = [callers EXCEPT ![c] = Idle]
  /\ returned' = IF callers[c].res = "ok" THEN returned \cup {callers[c].req} ELSE returned
  /\ UNCHANGED <<flight, cache, gate, breaker, begun, storm>>

-----------------------------------------------------------------------------
(* The environment: contexts, the age of cache entries, the cooldown *)

EndContext(c) ==
  /\ callers[c].pc \notin {"idle", "done"} /\ callers[c].alive
  /\ callers' = [callers EXCEPT ![c].alive = FALSE]
  /\ UNCHANGED <<flight, cache, gate, breaker, begun, history>>

Expire(k) ==
  /\ cache[k] # 0
  /\ cache' = [cache EXCEPT ![k] = 0]
  /\ UNCHANGED <<callers, flight, gate, breaker, begun, history>>

CoolDown ==
  /\ open /\ open' = FALSE
  /\ UNCHANGED <<callers, flight, cache, gate, fails, begun, history>>

Step(c) == \/ Lead(c) \/ Follow(c) \/ FollowEnds(c) \/ Allow(c) \/ Gate(c)
           \/ Send(c) \/ SpaceQuit(c) \/ Answer(c) \/ Cancelled(c)
           \/ ReportSuccess(c) \/ ReportFailure(c) \/ Backoff(c)
           \/ Close(c) \/ Delete(c) \/ Save(c) \/ Return(c)

Next == \/ \E c \in Callers : Step(c) \/ EndContext(c)
        \/ \E c \in Callers, a \in Asks : Begin(c, a[1], a[2])
        \/ \E k \in Keys : Expire(k)
        \/ CoolDown

Spec == Init /\ [][Next]_vars

\* Goroutines run, timers fire and every request is answered or times out.
FairSpec == Spec /\ \A c \in Callers : WF_vars(Step(c))
=============================================================================
