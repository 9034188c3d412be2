--------------------------- MODULE ProxyPoolProofs ---------------------------
(***************************************************************************)
(* Proofs for pools of every length and for any number of callers: types,   *)
(* the causes of a bench, and that the retries of a call nobody interferes  *)
(* with go all the way round.                                               *)
(***************************************************************************)
EXTENDS ProxyPoolProps, TLAPS

-----------------------------------------------------------------------------
(* Arithmetic of the rotation *)

\* One turn or the whole round.
LEMMA AheadInRange ==
  ASSUME seq \in Proxies, NEW p \in Proxies
  PROVE  Ahead(p) \in 1..Size
BY PoolAssumption DEF Proxies, Ahead

\* A request that stops before the healthy proxy p brings it nearer.
LEMMA Nearer ==
  ASSUME seq \in Proxies, NEW p \in Proxies, NEW q \in Proxies, p # q,
         p \notin bench, Turn(q), seq' = q
  PROVE  Ahead(p)' + 1 <= Ahead(p)
<1>1. Ahead(q) <= Ahead(p)  BY DEF Turn, Healthy
<1> QED  BY <1>1, PoolAssumption DEF Proxies, Ahead

\* A call may fail on every proxy of the pool before it gives up.
LEMMA RetriesCoverThePool == MaxRetries \in Nat /\ Size <= MaxRetries
BY PoolAssumption DEF MaxRetries

-----------------------------------------------------------------------------
(* Types *)

\* The record of a caller has its type, and its count fits its place.
Fits(r) ==
  /\ r \in [pc : {"idle", "ready", "wire", "exhausted"},
            proxy : Proxies, tries : 0..(MaxRetries + 1)]
  /\ r.pc = "idle" => r.tries = 0
  /\ r.pc \in {"ready", "wire"} => r.tries <= MaxRetries
  /\ r.pc = "exhausted" => r.tries = MaxRetries + 1

TypeInv == TypeOK /\ \A c \in Callers : Fits(callers[c])

\* The types hold before the first call.
LEMMA TypeInit == Init => TypeInv
BY PoolAssumption, RetriesCoverThePool
   DEF Init, TypeInv, TypeOK, Fits, Proxies, Idle

\* A success leaves a typed pool (reportGood).
LEMMA GoodTypes ==
  ASSUME TypeOK, NEW p \in Proxies, Good(p)
  PROVE  /\ fails' \in [Proxies -> 0..(BenchFails - 1)]
         /\ bench' \subseteq Proxies
         /\ sour' \subseteq Proxies
BY PoolAssumption DEF TypeOK, Good

\* A failure leaves a typed pool (reportBad).
LEMMA BadTypes ==
  ASSUME TypeOK, NEW p \in Proxies, Bad(p)
  PROVE  /\ fails' \in [Proxies -> 0..(BenchFails - 1)]
         /\ bench' \subseteq Proxies
         /\ sour' \subseteq Proxies
<1>1. CASE fails[p] + 1 >= BenchFails  BY <1>1, PoolAssumption DEF TypeOK, Bad
<1>2. CASE ~(fails[p] + 1 >= BenchFails)
  <2>1. fails[p] \in 0..(BenchFails - 1)  BY DEF TypeOK
  <2>2. fails[p] + 1 \in 0..(BenchFails - 1)  BY <1>2, <2>1, PoolAssumption
  <2> QED  BY <1>2, <2>2 DEF TypeOK, Bad
<1> QED  BY <1>1, <1>2

\* The step of one caller.
LEMMA OneMoves ==
  ASSUME TypeInv, NEW c \in Callers, NEW r, Fits(r),
         callers' = [callers EXCEPT ![c] = r]
  PROVE  /\ callers' \in [Callers -> [pc : {"idle", "ready", "wire", "exhausted"},
                              proxy : Proxies, tries : 0..(MaxRetries + 1)]]
         /\ \A d \in Callers : Fits(callers[d])'
BY RetriesCoverThePool DEF TypeInv, TypeOK, Fits, Proxies

\* Every step keeps the types.
LEMMA TypeStep == TypeInv /\ [Next]_vars => TypeInv'
<1> SUFFICES ASSUME TypeInv, [Next]_vars PROVE TypeInv'
  OBVIOUS
<1> TypeOK  BY DEF TypeInv
<1>i. Fits(Idle)  BY RetriesCoverThePool, PoolAssumption DEF Fits, Idle, Proxies
<1>c. ASSUME NEW c \in Callers
      PROVE  /\ Fits(callers[c])
             /\ callers[c] \in [pc : {"idle", "ready", "wire", "exhausted"},
                                proxy : Proxies, tries : 0..(MaxRetries + 1)]
  BY DEF TypeInv, Fits
<1>e. ASSUME NEW c \in Callers, Ends(c), UNCHANGED <<seq, probing, lone, met>>,
             \/ UNCHANGED <<fails, bench, sour>>
             \/ Good(callers[c].proxy)
      PROVE  TypeInv'
  <2>1. callers[c].proxy \in Proxies  BY <1>c
  <2> QED  BY <1>e, <1>i, <2>1, OneMoves, GoodTypes DEF TypeInv, TypeOK, Ends, Fits
<1>1. ASSUME NEW c \in Callers, Begin(c) PROVE TypeInv'
  <2> DEFINE r == [callers[c] EXCEPT !.pc = "ready"]
  <2>1. Fits(r)  BY <1>1, <1>c, RetriesCoverThePool DEF Fits, Begin, At
  <2>2. callers' = [callers EXCEPT ![c] = r]  BY <1>1, <1>c DEF Begin
  <2> QED  BY <1>1, <2>1, <2>2, OneMoves DEF TypeInv, TypeOK, Begin, Fits
<1>2. ASSUME NEW c \in Callers, Call(c) PROVE TypeInv'
  <2>1. CASE Refuse(c) \/ Cancel(c) \/ Return(c)
    BY <1>e, <2>1 DEF Refuse, Cancel, Return
  <2>2. CASE Succeed(c)
    BY <1>e, <2>2 DEF Succeed
  <2>3. CASE Fail(c)
    <3> DEFINE r == [callers[c] EXCEPT
          !.pc = IF callers[c].tries < MaxRetries THEN "ready" ELSE "exhausted",
          !.tries = @ + 1]
    <3>0. callers[c].tries \in Nat /\ callers[c].tries <= MaxRetries
      BY <2>3, <1>c, RetriesCoverThePool DEF Fits, Fail, At
    <3>1. Fits(r)
      <4>1. CASE callers[c].tries < MaxRetries
        <5>1. r = [callers[c] EXCEPT !.pc = "ready", !.tries = @ + 1]  BY <4>1
        <5>2. callers[c].tries + 1 \in 0..(MaxRetries + 1)
              /\ callers[c].tries + 1 <= MaxRetries
          BY <4>1, <3>0, RetriesCoverThePool
        <5> QED  BY <5>1, <5>2, <1>c DEF Fits
      <4>2. CASE ~(callers[c].tries < MaxRetries)
        <5>1. r = [callers[c] EXCEPT !.pc = "exhausted", !.tries = @ + 1]  BY <4>2
        <5>2. callers[c].tries + 1 \in 0..(MaxRetries + 1)
              /\ callers[c].tries + 1 = MaxRetries + 1
          BY <4>2, <3>0, RetriesCoverThePool
        <5> QED  BY <5>1, <5>2, <1>c DEF Fits
      <4> QED  BY <4>1, <4>2
    <3>2. callers' = [callers EXCEPT ![c] = r]  BY <2>3, <1>c DEF Fail
    <3>3. Bad(callers[c].proxy) /\ callers[c].proxy \in Proxies
      BY <2>3, <1>c DEF Fail
    <3> QED  BY <2>3, <3>1, <3>2, <3>3, OneMoves, BadTypes
             DEF TypeInv, TypeOK, Fail, Fits
  <2>4. ASSUME NEW p \in Proxies, Pick(c, p) PROVE TypeInv'
    <3> DEFINE r == [callers[c] EXCEPT !.pc = "wire", !.proxy = p]
    <3>1. Fits(r)  BY <2>4, <1>c DEF Fits, Pick, At
    <3>2. callers' = [callers EXCEPT ![c] = r]  BY <2>4, <1>c DEF Pick
    <3>3. lone' \subseteq Callers /\ met' \in [Callers -> SUBSET Proxies]
      BY <2>4 DEF Pick, TypeOK
    <3> QED  BY <2>4, <3>1, <3>2, <3>3, OneMoves DEF TypeInv, TypeOK, Pick, Fits
  <2> QED  BY <1>2, <2>1, <2>2, <2>3, <2>4 DEF Call
<1>3. ASSUME NEW p \in Proxies, Probe(p) PROVE TypeInv'
  <2>1. CASE ProbeGood(p)
    BY <2>1, GoodTypes DEF ProbeGood, TypeInv, TypeOK, Fits
  <2>2. CASE ProbeBad(p)
    BY <2>2 DEF ProbeBad, TypeInv, TypeOK, Fits
  <2> QED  BY <1>3, <2>1, <2>2 DEF Probe
<1>4. ASSUME NEW p \in Proxies, Expire(p) PROVE TypeInv'
  BY <1>4 DEF Expire, TypeInv, TypeOK, Fits
<1>5. CASE UNCHANGED vars
  BY <1>5 DEF vars, TypeInv, TypeOK, Fits
<1> QED  BY <1>1, <1>2, <1>3, <1>4, <1>5 DEF Next

\* The types hold in every reachable state.
LEMMA TypeAlways == Spec => []TypeInv
BY TypeInit, TypeStep, PTL DEF Spec

\* Every variable keeps its type; in particular the count of failures of
\* proxyEntry stays below proxyBenchFails, since benching resets it.
THEOREM TypeCorrect == Spec => []TypeOK
<1>1. TypeInv => TypeOK  BY DEF TypeInv
<1> QED  BY <1>1, TypeAlways, PTL

-----------------------------------------------------------------------------
(* The bench *)

\* A count of failures stands for a failure as the last thing reported.
SourInv == \A p \in Proxies : fails[p] > 0 => p \in sour

\* No proxy has failed before the first call.
LEMMA SourInit == Init => SourInv
BY DEF Init, SourInv

\* A proxy that counts failures has failed since its last success.
LEMMA SourStep == TypeInv /\ SourInv /\ [Next]_vars => SourInv'
<1> SUFFICES ASSUME TypeInv, SourInv, [Next]_vars PROVE SourInv'
  OBVIOUS
<1>t. fails \in [Proxies -> 0..(BenchFails - 1)]
      /\ \A c \in Callers : callers[c].proxy \in Proxies
  BY DEF TypeInv, TypeOK
<1>1. ASSUME UNCHANGED <<fails, sour>> PROVE SourInv'
  BY <1>1 DEF SourInv
<1>2. ASSUME NEW p \in Proxies, Good(p) PROVE SourInv'
  BY <1>2, <1>t DEF SourInv, Good
<1>3. ASSUME NEW p \in Proxies, Bad(p) PROVE SourInv'
  BY <1>3, <1>t DEF SourInv, Bad
<1>4. ASSUME NEW p \in Proxies, ProbeBad(p) PROVE SourInv'
  BY <1>4 DEF SourInv, ProbeBad
<1> QED
  BY <1>t, <1>1, <1>2, <1>3, <1>4
     DEF Next, Call, Begin, Refuse, Pick, Succeed, Fail, Cancel, Return, Probe,
         ProbeGood, Expire, vars

\* A proxy is benched for its probe or for two failures with no success between
\* them, whoever reported which: the probe and the calls share one count.
THEOREM BenchHasCause == Spec => BenchedForCause
<1>1. TypeInv /\ SourInv /\ [Next]_vars =>
        [\A p \in Proxies :
           p \in bench' \ bench => p \in sour \/ p \in probing \ probing']_vars
  <2> SUFFICES ASSUME TypeInv, SourInv, [Next]_vars, NEW p \in Proxies,
                      p \in bench' \ bench, p \notin sour
               PROVE  p \in probing \ probing'
    OBVIOUS
  <2>t. fails \in [Proxies -> 0..(BenchFails - 1)]  BY DEF TypeInv, TypeOK
  <2>1. fails[p] = 0  BY <2>t, PoolAssumption DEF SourInv
  <2>2. ASSUME NEW q \in Proxies, Bad(q) PROVE FALSE
    <3>1. q = p /\ fails[q] + 1 >= BenchFails  BY <2>2 DEF Bad
    <3> QED  BY <2>1, <3>1, PoolAssumption
  <2>3. ~UNCHANGED bench  OBVIOUS
  <2>4. \A q \in Proxies : ~Good(q) /\ ~Expire(q)  BY DEF Good, Expire
  <2>5. \A c \in Callers : callers[c].proxy \in Proxies  BY DEF TypeInv, TypeOK
  <2> QED
    BY <2>2, <2>3, <2>4, <2>5
       DEF Next, Call, Begin, Refuse, Pick, Succeed, Fail, Cancel, Return, Probe,
           ProbeGood, ProbeBad, vars
<1>2. Spec => []SourInv
  BY SourInit, SourStep, TypeAlways, PTL DEF Spec
<1> QED  BY <1>1, <1>2, TypeAlways, PTL DEF Spec, BenchedForCause

-----------------------------------------------------------------------------
(* All the way round *)

\* The rotation has k turns less than the pool has proxies before it comes to p.
Within(p, k) == Ahead(p) + k <= Size

\* A call alone since its first request approaches every proxy that it has not met
\* by a turn with each request.
Approach(c, p) ==
  /\ At(c, "ready") /\ callers[c].tries > 0 => Within(p, callers[c].tries)
  /\ At(c, "wire") => Within(p, callers[c].tries + 1)
  /\ At(c, "exhausted") => Within(p, callers[c].tries)

RoundInv == \A c \in lone : \A p \in Proxies \ met[c] : Approach(c, p)

\* Before the first call nobody has gone round the pool.
LEMMA RoundInit == Init => RoundInv
BY DEF Init, RoundInv

\* Whatever leaves the rotation and the calls alone keeps RoundInv.
LEMMA RoundStays ==
  ASSUME RoundInv, UNCHANGED <<seq, callers, lone, met>>
  PROVE  RoundInv'
BY DEF RoundInv, Approach, Within, Ahead, At

\* So does a caller's step to a place about which Approach says nothing, or that
\* gives up nothing.
LEMMA RoundMoves ==
  ASSUME TypeInv, RoundInv, UNCHANGED <<seq, lone, met>>,
         NEW c \in Callers, NEW r, callers' = [callers EXCEPT ![c] = r],
         c \in lone => \A p \in Proxies \ met[c] : Approach(c, p)'
  PROVE  RoundInv'
<1> SUFFICES ASSUME NEW d \in lone, NEW p \in Proxies \ met[d]
             PROVE  Approach(d, p)'
  BY DEF RoundInv
<1>1. CASE d = c  BY <1>1
<1>2. CASE d # c
  <2>1. callers'[d] = callers[d]  BY <1>2 DEF TypeInv, TypeOK
  <2>2. Approach(d, p)  BY DEF RoundInv
  <2> QED  BY <2>1, <2>2 DEF Approach, Within, Ahead, At
<1> QED  BY <1>1, <1>2

\* A call that is alone comes closer to every proxy it has not met with each request.
LEMMA RoundStep == TypeInv /\ RoundInv /\ [Next]_vars => RoundInv'
<1> SUFFICES ASSUME TypeInv, RoundInv, [Next]_vars PROVE RoundInv'
  OBVIOUS
<1>t. /\ seq \in Proxies /\ lone \subseteq Callers /\ met \in [Callers -> SUBSET Proxies]
      /\ callers \in [Callers -> [pc : {"idle", "ready", "wire", "exhausted"},
                                  proxy : Proxies, tries : 0..(MaxRetries + 1)]]
  BY DEF TypeInv, TypeOK
<1>e. ASSUME NEW c \in Callers, Ends(c), UNCHANGED <<seq, lone, met>> PROVE RoundInv'
  <2>1. \A p \in Proxies : Approach(c, p)'
    BY <1>e, <1>t DEF Approach, Ends, Idle, At
  <2> QED  BY <1>e, <2>1, RoundMoves DEF Ends
<1>1. ASSUME NEW c \in Callers, Begin(c) PROVE RoundInv'
  <2> DEFINE r == [callers[c] EXCEPT !.pc = "ready"]
  <2>1. callers' = [callers EXCEPT ![c] = r]  BY <1>1, <1>t DEF Begin
  <2>2. callers'[c].pc = "ready" /\ callers'[c].tries = 0
    BY <1>1, <1>t DEF Begin, TypeInv, Fits, At
  <2>3. \A p \in Proxies : Approach(c, p)'  BY <2>2 DEF Approach, At
  <2> HIDE DEF r
  <2> QED  BY <1>1, <2>1, <2>3, RoundMoves DEF Begin
<1>2. ASSUME NEW c \in Callers, Fail(c) PROVE RoundInv'
  <2> DEFINE r == [callers[c] EXCEPT
        !.pc = IF callers[c].tries < MaxRetries THEN "ready" ELSE "exhausted",
        !.tries = @ + 1]
  <2>1. callers' = [callers EXCEPT ![c] = r]  BY <1>2, <1>t DEF Fail
  <2>2. callers'[c].pc # "wire" /\ callers'[c].tries = callers[c].tries + 1
    BY <1>2, <1>t DEF Fail
  <2>3. UNCHANGED <<seq, lone, met>>
    BY <1>2 DEF Fail, Bad
  <2>4. ASSUME c \in lone, NEW p \in Proxies \ met[c] PROVE Approach(c, p)'
    <3>1. Approach(c, p)  BY <2>4 DEF RoundInv
    <3>2. Within(p, callers[c].tries + 1)  BY <1>2, <3>1 DEF Approach, Fail
    <3>3. Ahead(p)' = Ahead(p)  BY <2>3 DEF Ahead
    <3>4. Within(p, callers[c].tries)'  BY <2>2, <3>2, <3>3 DEF Within
    <3> QED  BY <2>2, <3>4 DEF Approach, At
  <2> HIDE DEF r
  <2> QED  BY <2>1, <2>3, <2>4, RoundMoves
<1>3. ASSUME NEW c \in Callers, NEW q \in Proxies, Pick(c, q) PROVE RoundInv'
  <2>1. /\ Turn(q) /\ seq' = q
        /\ callers'[c].pc = "wire" /\ callers'[c].tries = callers[c].tries
        /\ lone' \subseteq {c}
        /\ callers[c].tries # 0 => lone' \subseteq lone /\ met[c] \subseteq met'[c]
        /\ bench \cup {q} \subseteq met'[c]
    BY <1>3, <1>t DEF Pick
  <2> SUFFICES ASSUME c \in lone', NEW p \in Proxies \ met'[c]
               PROVE  Within(p, callers[c].tries + 1)'
    BY <2>1 DEF RoundInv, Approach, At
  <2>2. Ahead(p)' + 1 <= Ahead(p)  BY <1>t, <2>1, Nearer
  <2>3. Ahead(p) \in 1..Size /\ Ahead(p)' \in 1..Size
    <3>1. Ahead(p) \in 1..Size  BY <1>t, AheadInRange
    <3>2. Ahead(p)' = IF p > q THEN p - q ELSE (p + Size) - q
      BY <2>1 DEF Ahead
    <3>3. Ahead(p)' \in 1..Size  BY <3>2, PoolAssumption DEF Proxies
    <3> QED  BY <3>1, <3>3
  <2>4. callers[c].tries \in Nat  BY <1>t, RetriesCoverThePool
  <2>5. CASE callers[c].tries = 0
    BY <2>1, <2>2, <2>3, <2>5, PoolAssumption DEF Within
  <2>6. CASE callers[c].tries > 0
    <3>1. Within(p, callers[c].tries)
      BY <1>3, <2>1, <2>4, <2>6 DEF RoundInv, Approach, Pick
    <3> QED  BY <2>1, <2>2, <2>3, <2>4, <3>1, PoolAssumption DEF Within
  <2> QED  BY <2>4, <2>5, <2>6
<1>4. ASSUME NEW p \in Proxies, Probe(p) \/ Expire(p) PROVE RoundInv'
  BY <1>4, RoundStays DEF Probe, ProbeGood, ProbeBad, Expire
<1>5. CASE UNCHANGED vars
  BY <1>5, RoundStays DEF vars
<1> QED
  BY <1>e, <1>1, <1>2, <1>3, <1>4, <1>5
     DEF Next, Call, Refuse, Succeed, Cancel, Return

\* A call that exhausts its retries while no other call takes a turn has itself
\* failed on every proxy of the pool that was off the bench when it took a turn:
\* the bound on the retries in doWithRetry is enough for one round, wherever it
\* starts and however probes and benches come in between.
THEOREM RetriesGoRound == Spec => []WalksAround
<1>1. TypeInv /\ RoundInv => WalksAround
  <2> SUFFICES ASSUME TypeInv, RoundInv, NEW c \in Callers, At(c, "exhausted"),
                      c \in lone, met[c] # Proxies
               PROVE  FALSE
    BY DEF WalksAround
  <2>1. PICK p \in Proxies : p \notin met[c]  BY DEF TypeInv, TypeOK
  <2>2. Within(p, callers[c].tries)  BY <2>1 DEF RoundInv, Approach
  <2>3. callers[c].tries = MaxRetries + 1  BY DEF TypeInv, Fits, At
  <2>4. Ahead(p) \in 1..Size  BY <2>1, AheadInRange DEF TypeInv, TypeOK
  <2> QED  BY <2>2, <2>3, <2>4, RetriesCoverThePool, PoolAssumption DEF Within
<1>2. Spec => []RoundInv
  BY RoundInit, RoundStep, TypeAlways, PTL DEF Spec
<1> QED  BY <1>1, <1>2, TypeAlways, PTL
=============================================================================
