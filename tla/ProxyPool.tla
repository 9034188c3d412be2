------------------------------ MODULE ProxyPool ------------------------------
(***************************************************************************)
(* The proxies of mcp.Client: every request goes out through one of them,   *)
(* in rotation.  A proxy through which requests keep failing sits on the    *)
(* bench for ten minutes.  At the start of the server a probe asks every    *)
(* proxy once while the first calls are already on their way, and reports   *)
(* on it like they do.                                                      *)
(*                                                                         *)
(* Proxies are numbered as in Client.pool, and seq is poolSeq up to the     *)
(* length of the pool.  Cache, flights, circuit and gate are Client's: here *)
(* a call may be refused before each of its requests.  Time is abstract: a  *)
(* bench ends whenever it likes, an answer takes any time.                  *)
(***************************************************************************)
EXTENDS Naturals, FiniteSets

CONSTANTS
  Callers,    \* goroutines that call CallTool
  Size,       \* the length of the pool
  Retries,    \* retries after the first request, without a pool
  BenchFails  \* proxyBenchFails: failures in a row before benching

ASSUME PoolAssumption ==
  /\ Size \in Nat \ {0}
  /\ Retries \in Nat
  /\ BenchFails \in Nat \ {0, 1}

Proxies == 0..(Size - 1)

VARIABLES
  seq,      \* Client.poolSeq: the proxy that was passed last
  fails,    \* proxyEntry.fails
  bench,    \* the proxies whose benchedTo is in the future
  probing,  \* the proxies whose probe is under way
  callers,  \* where each goroutine is, its proxy and its failed requests
  lone,     \* history: calls since whose first request no other has gone out
  sour,     \* history: proxies on which the last report was a failure
  met       \* history: the proxies each call tried or saw on the bench at its turns

vars == <<seq, fails, bench, probing, callers, lone, sour, met>>

Idle == [pc |-> "idle", proxy |-> 0, tries |-> 0]

Init ==
  /\ seq = 0
  /\ fails = [p \in Proxies |-> 0]
  /\ bench = {} /\ probing = Proxies
  /\ callers = [c \in Callers |-> Idle]
  /\ lone = {} /\ sour = {} /\ met = [c \in Callers |-> {}]

At(c, pc) == callers[c].pc = pc

-----------------------------------------------------------------------------
(* nextHTTP *)

\* Mutant of Ahead: the rotation begins anew at the first proxy.
AheadOfFirst(p) == p + 1

\* How often poolSeq must be advanced until p comes round.
Ahead(p) == IF p > seq THEN p - seq ELSE (p + Size) - seq

Healthy == Proxies \ bench

\* The rotation stops at the first healthy proxy, or at the next if none is.
Turn(p) == IF Healthy = {} THEN Ahead(p) = 1
           ELSE p \in Healthy /\ \A q \in Healthy : Ahead(p) <= Ahead(q)

-----------------------------------------------------------------------------
(* The report on a proxy *)

\* Mutant of Good: a success clears the bench but not the count.
GoodOnBench(p) ==
  /\ bench' = bench \ {p}
  /\ sour' = sour \ {p}
  /\ UNCHANGED fails

Good(p) ==
  /\ fails' = [fails EXCEPT ![p] = 0]
  /\ bench' = bench \ {p}
  /\ sour' = sour \ {p}

Bad(p) ==
  /\ IF fails[p] + 1 >= BenchFails
     THEN fails' = [fails EXCEPT ![p] = 0] /\ bench' = bench \cup {p}
     ELSE fails' = [fails EXCEPT ![p] = @ + 1] /\ UNCHANGED bench
  /\ sour' = sour \cup {p}

-----------------------------------------------------------------------------
(* doWithRetry and doOnce *)

\* Mutant of MaxRetries: the length of the pool is not looked at.
MaxRetriesFixed == Retries

\* At least one retry per proxy.
MaxRetries == IF Size > Retries THEN Size ELSE Retries

Ends(c) == callers' = [callers EXCEPT ![c] = Idle]

Begin(c) ==
  /\ At(c, "idle")
  /\ callers' = [callers EXCEPT ![c].pc = "ready"]
  /\ UNCHANGED <<seq, fails, bench, probing, lone, sour, met>>

\* The circuit is open, or the context ends in the backoff or at the gate.
Refuse(c) ==
  /\ At(c, "ready")
  /\ Ends(c)
  /\ UNCHANGED <<seq, fails, bench, probing, lone, sour, met>>

Pick(c, p) ==
  /\ At(c, "ready")
  /\ Turn(p)
  /\ seq' = p
  /\ callers' = [callers EXCEPT ![c].pc = "wire", ![c].proxy = p]
  /\ lone' = IF callers[c].tries = 0 THEN {c} ELSE lone \cap {c}
  /\ met' = [met EXCEPT ![c] = (IF callers[c].tries = 0 THEN {} ELSE @) \cup bench \cup {p}]
  /\ UNCHANGED <<fails, bench, probing, sour>>

\* A status below 500, whatever it says, speaks for the proxy.
Succeed(c) ==
  /\ At(c, "wire")
  /\ Good(callers[c].proxy)
  /\ Ends(c)
  /\ UNCHANGED <<seq, probing, lone, met>>

\* No connection, a timeout or a status of 500 and more.
Fail(c) ==
  /\ At(c, "wire")
  /\ Bad(callers[c].proxy)
  /\ callers' = [callers EXCEPT
       ![c].pc = IF callers[c].tries < MaxRetries THEN "ready" ELSE "exhausted",
       ![c].tries = @ + 1]
  /\ UNCHANGED <<seq, probing, lone, met>>

\* The caller's own context ends on the wire: nothing is held against the proxy.
Cancel(c) ==
  /\ At(c, "wire")
  /\ Ends(c)
  /\ UNCHANGED <<seq, fails, bench, probing, lone, sour, met>>

Return(c) ==
  /\ At(c, "exhausted")
  /\ Ends(c)
  /\ UNCHANGED <<seq, fails, bench, probing, lone, sour, met>>

-----------------------------------------------------------------------------
(* ProbeProxies and the end of a bench *)

ProbeGood(p) ==
  /\ p \in probing
  /\ probing' = probing \ {p}
  /\ Good(p)
  /\ UNCHANGED <<seq, callers, lone, met>>

\* The proxy does not answer, or the 15 s of the probe are over.
ProbeBad(p) ==
  /\ p \in probing
  /\ probing' = probing \ {p}
  /\ bench' = bench \cup {p}
  /\ sour' = sour \cup {p}
  /\ UNCHANGED <<seq, fails, callers, lone, met>>

\* Mutant of Expire: a bench ends only while another proxy is healthy.
ExpireOfTwo(p) ==
  /\ p \in bench /\ Healthy # {}
  /\ bench' = bench \ {p}
  /\ UNCHANGED <<seq, fails, probing, callers, lone, sour, met>>

Expire(p) ==
  /\ p \in bench
  /\ bench' = bench \ {p}
  /\ UNCHANGED <<seq, fails, probing, callers, lone, sour, met>>

Call(c) == \/ Refuse(c) \/ Succeed(c) \/ Fail(c) \/ Cancel(c) \/ Return(c)
           \/ \E p \in Proxies : Pick(c, p)

Probe(p) == ProbeGood(p) \/ ProbeBad(p)

Next == \/ \E c \in Callers : Begin(c) \/ Call(c)
        \/ \E p \in Proxies : Probe(p) \/ Expire(p)

Spec == Init /\ [][Next]_vars

\* Goroutines run, requests and probes are answered or time out, benches end.
FairSpec == /\ Spec
            /\ \A c \in Callers : WF_vars(Call(c))
            /\ \A p \in Proxies : WF_vars(Probe(p)) /\ WF_vars(Expire(p))
=============================================================================
